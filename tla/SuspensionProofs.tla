-------------------------- MODULE SuspensionProofs --------------------------
(***************************************************************************)
(* Theorems about Suspension for any number of tickets, operators and      *)
(* argument dictionaries, any TTLs and any bound on the clock, when the    *)
(* store does not give up the event loop.                                  *)
(***************************************************************************)
EXTENDS SuspensionRefinement, TLAPS

-----------------------------------------------------------------------------
(* What the operators on cards do. *)

\* A reader leaves a card a card, and touches its status only to expire it.
LEMMA RefreshedIsCard ==
    ASSUME NEW card \in ApprovalCard
    PROVE  /\ Refreshed(card) \in ApprovalCard
           /\ Refreshed(card).expires = card.expires
           /\ Refreshed(card).operator = card.operator
           /\ Refreshed(card).token = card.token
           /\ card.status # "PENDING" => Refreshed(card) = card
           /\ Refreshed(card).status = "PENDING" => Refreshed(card) = card
    BY DEF Refreshed, Lapsed, ApprovalCard, TicketStatus

\* A fresh card is a card.
LEMMA FreshCard ==
    ASSUME NEW t \in Tickets, NEW args \in Args, NEW ttl \in RequestedTTLs,
           now \in Nat
    PROVE  [status |-> "PENDING", expires |-> now + EffectiveTTL(ttl),
            args |-> args, token |-> GenerateToken(t, args),
            operator |-> None] \in ApprovalCard
    <1>1. EffectiveTTL(ttl) \in Int
        BY TTLsAreInt DEF EffectiveTTL
    <1>2. GenerateToken(t, args) \in Token
        BY DEF GenerateToken, Token
    <1> QED
        BY <1>1, <1>2 DEF ApprovalCard, TicketStatus

\* What the table may have become after a reader or a sweep.
TableRefreshed ==
    \A t \in Tickets :
        \/ tickets'[t] = tickets[t]
        \/ /\ Known(t)
           /\ tickets'[t] = Refreshed(tickets[t])

\* get_ticket and cleanup_expired do no more than refresh cards.
LEMMA ReadersRefresh ==
    ASSUME StoreTypeOK,
           CleanupExpired \/ \E t \in Tickets : GetTicket(t)
    PROVE  TableRefreshed /\ tickets' \in [Tickets -> ApprovalCard \cup {None}]
    <1>1. CASE CleanupExpired
        <2>1. \A t \in Tickets : Known(t) => Refreshed(tickets[t]) \in ApprovalCard
            BY RefreshedIsCard DEF StoreTypeOK, Known
        <2> QED
            BY <1>1, <2>1 DEF CleanupExpired, StoreTypeOK, TableRefreshed, Known
    <1>2. ASSUME NEW t \in Tickets, GetTicket(t)
          PROVE  TableRefreshed
                 /\ tickets' \in [Tickets -> ApprovalCard \cup {None}]
        <2>1. Known(t) => Refreshed(tickets[t]) \in ApprovalCard
            BY RefreshedIsCard DEF StoreTypeOK, Known
        <2> QED
            BY <1>2, <2>1 DEF GetTicket, StoreTypeOK, TableRefreshed, Known
    <1> QED
        BY <1>1, <1>2

\* What the invariant says of decisions survives a refresh, in a step that
\* gives no new decision and saves no card.
LEMMA RefreshKeepsDecisions ==
    ASSUME IInv, TableRefreshed, UNCHANGED stage,
           \A o \in Operators : Decided(o)' => call'[o] = call[o]
    PROVE  UnsavedUnknown' /\ DecisionInForce' /\ DecidedOnce'
    <1>1. \A o \in Operators : Decided(o)' => Decided(o)
        BY DEF Decided
    <1>2. DecidedOnce'
        BY <1>1 DEF IInv, DecidedOnce
    <1>3. UnsavedUnknown'
        BY <1>1 DEF IInv, UnsavedUnknown, TableRefreshed, Known
    <1>4. DecisionInForce'
        <2> SUFFICES ASSUME NEW o \in Operators, Decided(o)',
                            tickets'[call[o].ticket] # None
                     PROVE  /\ tickets'[call[o].ticket].status = call[o].state
                            /\ o \notin Unnamed => tickets'[call[o].ticket].operator = o
            BY DEF DecisionInForce, Known
        <2> DEFINE t == call[o].ticket
        <2>1. t \in Tickets /\ Decided(o)
            BY <1>1 DEF IInv, CallsNameTickets, Decided, Decision
        <2>2. Known(t)
            BY <2>1 DEF TableRefreshed, Known
        <2>3. /\ tickets[t].status = call[o].state
              /\ o \notin Unnamed => tickets[t].operator = o
            BY <2>1, <2>2 DEF IInv, DecisionInForce
        <2>4. tickets[t] \in ApprovalCard /\ tickets[t].status # "PENDING"
            BY <2>1, <2>2, <2>3
            DEF IInv, TypeOK, StoreTypeOK, Known, Decided, Decision
        <2>5. tickets'[t] = tickets[t]
            BY <2>1, <2>4, RefreshedIsCard DEF TableRefreshed
        <2> QED
            BY <2>3, <2>5
    <1> QED
        BY <1>2, <1>3, <1>4

\* Nobody is between its read and its write while the loop is free, and
\* whoever has the loop is the only one.
LEMMA CheckedOwnsLoop ==
    ASSUME IInv, NEW task \in Tickets \cup Operators \cup {None}, MayRun(task)
    PROVE  \A o \in Operators : call[o].state = "checked" => o = task
    BY NoneIsNoMember DEF MayRun, IInv, ReadStillTrue

-----------------------------------------------------------------------------
(* Preservation, operation by operation. *)

LEMMA InitIInv == Init => IInv
    <1> SUFFICES ASSUME Init PROVE IInv
        OBVIOUS
    <1> USE DEF Init, StoreInit, IdleCall
    <1>1. TypeOK
        BY DEF TypeOK, StoreTypeOK, Stage, Call, CallState
    <1>2. CallsNameTickets /\ ReadStillTrue /\ DraftFresh
        BY DEF CallsNameTickets, ReadStillTrue, DraftFresh
    <1>3. UnsavedUnknown /\ DecisionInForce /\ DecidedOnce
        BY DEF UnsavedUnknown, DecisionInForce, DecidedOnce, Decided, Decision
    <1> QED
        BY <1>1, <1>2, <1>3 DEF IInv

LEMMA StutterKeeps == IInv /\ UNCHANGED vars => IInv'
    BY DEF IInv, vars, TypeOK, StoreTypeOK, CallsNameTickets, ReadStillTrue,
           UnsavedUnknown, DraftFresh, DecisionInForce, DecidedOnce, Known, Decided

LEMMA BuildCardKeeps ==
    ASSUME ~StoreYields, IInv, NEW t \in Tickets, NEW args \in Args,
           NEW ttl \in RequestedTTLs, BuildCard(t, args, ttl)
    PROVE  IInv'
    <1> USE DEF BuildCard, AwaitStore
    <1>1. draft'[t] \in ApprovalCard /\ draft'[t].status = "PENDING"
        BY FreshCard DEF IInv, TypeOK, StoreTypeOK
    <1>2. TypeOK'
        BY <1>1, TTLsAreInt DEF IInv, TypeOK, StoreTypeOK, Stage
    <1>3. \A o \in Operators : call[o].state # "checked"
        BY CheckedOwnsLoop, TasksDistinct
    <1>4. CallsNameTickets' /\ ReadStillTrue'
        BY <1>3 DEF IInv, CallsNameTickets, ReadStillTrue
    <1>5. UnsavedUnknown' /\ DecisionInForce' /\ DecidedOnce'
        BY DEF IInv, TypeOK, UnsavedUnknown, DecisionInForce, DecidedOnce,
               Decided, Known
    <1>6. DraftFresh'
        BY <1>1 DEF IInv, TypeOK, DraftFresh
    <1> QED
        BY <1>2, <1>4, <1>5, <1>6 DEF IInv

LEMMA SaveCardKeeps ==
    ASSUME IInv, NEW t \in Tickets, SaveCard(t)
    PROVE  IInv'
    <1> USE DEF SaveCard, SaveTicket, Yield
    <1>1. draft[t] \in ApprovalCard
        BY DEF IInv, DraftFresh
    <1>2. TypeOK'
        BY <1>1 DEF IInv, TypeOK, StoreTypeOK, Stage
    <1>3. \A o \in Operators : call[o].state # "checked"
        BY CheckedOwnsLoop, TasksDistinct
    <1>4. CallsNameTickets' /\ ReadStillTrue' /\ DecidedOnce'
        BY <1>3 DEF IInv, CallsNameTickets, ReadStillTrue, DecidedOnce, Decided
    <1>5. UnsavedUnknown' /\ DraftFresh'
        BY DEF IInv, TypeOK, StoreTypeOK, UnsavedUnknown, DraftFresh, Decided
    <1>6. DecisionInForce'
        <2>1. \A o \in Operators : Decided(o) => call[o].ticket # t
            BY DEF IInv, UnsavedUnknown
        <2> QED
            BY <2>1 DEF IInv, TypeOK, StoreTypeOK, CallsNameTickets,
                        DecisionInForce, Decided, Decision, Known
    <1> QED
        BY <1>2, <1>4, <1>5, <1>6 DEF IInv

LEMMA EndNotificationKeeps ==
    ASSUME IInv, NEW t \in Tickets, EndNotification(t)
    PROVE  IInv'
    <1> USE DEF EndNotification, Yield
    <1>1. TypeOK'
        BY DEF IInv, TypeOK, StoreTypeOK, Stage
    <1>2. \A o \in Operators : call[o].state # "checked"
        BY CheckedOwnsLoop, TasksDistinct
    <1>3. CallsNameTickets' /\ ReadStillTrue' /\ DecidedOnce' /\ DecisionInForce'
        BY <1>2 DEF IInv, CallsNameTickets, ReadStillTrue, DecidedOnce,
                    DecisionInForce, Decided, Known
    <1>4. UnsavedUnknown' /\ DraftFresh'
        BY DEF IInv, TypeOK, UnsavedUnknown, DraftFresh, Decided
    <1> QED
        BY <1>1, <1>3, <1>4 DEF IInv

\* The card a call has checked is a pending one, and its outcome no decision.
LEMMA CheckOutcomes ==
    ASSUME NEW card \in ApprovalCard, NEW t, NEW verify
    PROVE  /\ CheckOutcome(t, card, verify) \in Refusals \cup {"checked"}
           /\ CheckOutcome(t, card, verify) = "checked" => card.status = "PENDING"
    BY DEF CheckOutcome, Refusals, ApprovalCard, TicketStatus, Decision

LEMMA ReadTicketKeeps ==
    ASSUME ~StoreYields, IInv, NEW o \in Operators, NEW t \in Tickets,
           NEW approved \in BOOLEAN, NEW verify \in Args \cup {None},
           ReadTicket(o, t, approved, verify)
    PROVE  IInv'
    <1> DEFINE outcome == IF Known(t)
                          THEN CheckOutcome(t, Refreshed(tickets[t]), verify)
                          ELSE "Unknown"
    <1>1. call' = [call EXCEPT ![o] = [state |-> outcome, ticket |-> t,
                                       approved |-> approved, verify |-> verify]]
        BY DEF ReadTicket
    <1>2. /\ GetTicket(t) /\ MayRun(o)
          /\ UNCHANGED <<now, stage, draft, answers, requested>>
          /\ call[o].state = "idle" /\ answers[o] = None
        BY DEF ReadTicket, IInv, CallsNameTickets
    <1>3. TableRefreshed /\ tickets' \in [Tickets -> ApprovalCard \cup {None}]
        BY <1>2, ReadersRefresh DEF IInv, TypeOK
    <1>4. Known(t) => Refreshed(tickets[t]) \in ApprovalCard
        BY RefreshedIsCard DEF IInv, TypeOK, StoreTypeOK, Known
    <1>5. outcome \in Refusals \cup {"checked"}
        BY <1>4, CheckOutcomes DEF Refusals
    <1>6. outcome = "checked" =>
              tickets'[t] \in ApprovalCard /\ tickets'[t].status = "PENDING"
        BY <1>2, <1>4, CheckOutcomes DEF GetTicket, IInv, TypeOK, StoreTypeOK
    <1>7. holder' = IF outcome = "checked" THEN o ELSE None
        BY DEF ReadTicket, AwaitStore, Yield
    <1> HIDE DEF outcome
    <1>8. TypeOK'
        BY <1>1, <1>2, <1>3, <1>5, <1>7
        DEF IInv, TypeOK, StoreTypeOK, Call, CallState
    <1>9. CallsNameTickets'
        BY <1>1, <1>2, <1>5 DEF IInv, TypeOK, CallsNameTickets, Refusals
    <1>10. ReadStillTrue'
        <2>1. \A p \in Operators : call[p].state # "checked"
            BY <1>2, CheckedOwnsLoop
        <2> QED
            BY <1>1, <1>2, <1>6, <1>7, <2>1, NoneIsNoCard
            DEF IInv, TypeOK, ReadStillTrue, Known
    <1>11. UnsavedUnknown' /\ DecisionInForce' /\ DecidedOnce'
        <2>1. \A p \in Operators : Decided(p)' => call'[p] = call[p]
            BY <1>1, <1>5 DEF IInv, TypeOK, Decided, Decision, Refusals
        <2> QED
            BY <1>2, <1>3, <2>1, RefreshKeepsDecisions
    <1>12. DraftFresh'
        BY <1>2 DEF IInv, DraftFresh
    <1> QED
        BY <1>8, <1>9, <1>10, <1>11, <1>12 DEF IInv

LEMMA SettleKeepsType ==
    ASSUME call \in [Operators -> Call], NEW o \in Operators,
           NEW state \in CallState, Settle(o, state)
    PROVE  call' \in [Operators -> Call]
    <1>1. call[o] \in Call
        OBVIOUS
    <1>2. [call[o] EXCEPT !.state = state] \in Call
        BY <1>1 DEF Call
    <1> QED
        BY <1>2 DEF Settle

\* On one event loop the store acts when the call goes on, and either lets the
\* ticket expire or takes the decision.
LEMMA DecideEnds ==
    ASSUME IInv, NEW o \in Operators, DecideTicket(o)
    PROVE  /\ answers' \in [Operators -> Answer \cup {None}]
           /\ \A p \in Operators : p # o => answers'[p] = answers[p]
           /\ \/ /\ UpdateExpired(call[o].ticket)
                 /\ Settle(o, "Expired")
              \/ /\ UpdateStored(call[o].ticket, NewStatus(o), o)
                 /\ Settle(o, NewStatus(o))
    <1> DEFINE t == call[o].ticket
    <1>1. /\ answers[o] = None
          /\ answers \in [Operators -> Answer \cup {None}]
          /\ t \in Tickets /\ Known(t)
        BY DEF DecideTicket, IInv, TypeOK, CallsNameTickets, ReadStillTrue
    <1>2. /\ tickets[t].args \in Args
          /\ NewStatus(o) \in Decision
        BY <1>1 DEF NewStatus, Decision, Known, IInv, TypeOK, StoreTypeOK, ApprovalCard
    <1>3. ASSUME NEW outcome, NEW args, Answers(o, outcome, args),
                 \/ outcome \in Decision /\ args \in Args
                 \/ outcome = "Expired" /\ args = None
          PROVE  /\ answers' \in [Operators -> Answer \cup {None}]
                 /\ \A p \in Operators : p # o => answers'[p] = answers[p]
                 /\ answers'[o].outcome = outcome
        BY <1>1, <1>3 DEF Answers, Answer
    <1>4. UpdateStatus(o) /\ Settle(o, answers'[o].outcome)
        BY <1>1 DEF DecideTicket
    <1>5. CASE UpdateExpired(t) /\ Answers(o, "Expired", None)
        BY <1>3, <1>4, <1>5
    <1>6. CASE UpdateStored(t, NewStatus(o), o)
               /\ Answers(o, NewStatus(o), tickets[t].args)
        BY <1>2, <1>3, <1>4, <1>6
    <1> QED
        BY <1>1, <1>4, <1>5, <1>6 DEF UpdateStatus, UpdateUnknown

LEMMA DecideTicketKeeps ==
    ASSUME IInv, NEW o \in Operators, DecideTicket(o)
    PROVE  IInv'
    <1> DEFINE t == call[o].ticket
    <1>1. /\ t \in Tickets
          /\ Known(t)
          /\ tickets[t] \in ApprovalCard
          /\ tickets[t].status = "PENDING"
        BY DEF DecideTicket, IInv, CallsNameTickets, ReadStillTrue, TypeOK,
               StoreTypeOK, Known
    <1>2. call[o].state = "checked" /\ UNCHANGED <<now, stage, draft, requested>>
          /\ holder' = None
        BY DEF DecideTicket, Yield
    <1>3. /\ \A p \in Operators : call[p].state = "checked" => p = o
          /\ answers' \in [Operators -> Answer \cup {None}]
          /\ \A p \in Operators : p # o => answers'[p] = answers[p]
        BY CheckedOwnsLoop, DecideEnds DEF DecideTicket
    <1>4. CASE UpdateExpired(t) /\ Settle(o, "Expired")
        <2> USE <1>4 DEF UpdateExpired, UpdateTooLate, Settle
        <2>1. TypeOK'
            <3>1. call' \in [Operators -> Call]
                BY SettleKeepsType DEF IInv, TypeOK, CallState, Refusals
            <3>2. [tickets[t] EXCEPT !.status = "EXPIRED"] \in ApprovalCard
                BY <1>1 DEF ApprovalCard, TicketStatus
            <3> QED
                BY <1>2, <1>3, <3>1, <3>2 DEF IInv, TypeOK, StoreTypeOK
        <2>2. CallsNameTickets' /\ ReadStillTrue' /\ DraftFresh'
            BY <1>2, <1>3
            DEF IInv, TypeOK, CallsNameTickets, ReadStillTrue, DraftFresh
        <2>3. TableRefreshed
            BY <1>1 DEF TableRefreshed, Refreshed, IInv, TypeOK, StoreTypeOK
        <2>4. \A p \in Operators : Decided(p)' => call'[p] = call[p]
            BY DEF IInv, TypeOK, Decided, Decision
        <2> QED
            BY <1>2, <2>1, <2>2, <2>3, <2>4, RefreshKeepsDecisions DEF IInv
    <1>5. CASE UpdateStored(t, NewStatus(o), o) /\ Settle(o, NewStatus(o))
        <2> USE <1>5 DEF UpdateStored, Settle
        <2>1. NewStatus(o) \in Decision
            BY DEF NewStatus, Decision
        <2>2. TypeOK'
            <3>1. call' \in [Operators -> Call]
                BY <2>1, SettleKeepsType DEF IInv, TypeOK, CallState
            <3>2. [tickets[t] EXCEPT !.status = NewStatus(o), !.operator =
                       IF o \in Unnamed THEN @ ELSE o] \in ApprovalCard
                BY <1>1, <2>1 DEF ApprovalCard, TicketStatus, Decision
            <3> QED
                BY <1>2, <1>3, <3>1, <3>2 DEF IInv, TypeOK, StoreTypeOK
        <2>3. CallsNameTickets' /\ ReadStillTrue' /\ DraftFresh'
            BY <1>2, <1>3, <2>1
            DEF IInv, TypeOK, CallsNameTickets, ReadStillTrue, DraftFresh, Decision
        <2>4. \A p \in Operators : Decided(p) => call[p].ticket # t
            BY <1>1 DEF IInv, DecisionInForce, Decided, Decision
        <2>5. \A p \in Operators : p # o => call'[p] = call[p]
            BY DEF IInv, TypeOK
        <2>6. call'[o].ticket = t /\ call'[o].state = NewStatus(o)
            BY DEF IInv, TypeOK
        <2>7. UnsavedUnknown'
            BY <1>1, <1>2, <2>5, <2>6
            DEF IInv, UnsavedUnknown, TypeOK, StoreTypeOK, Decided, Known
        <2>8. DecidedOnce'
            BY <2>4, <2>5, <2>6 DEF IInv, DecidedOnce, Decided
        <2>9. /\ tickets'[t].status = NewStatus(o)
              /\ o \notin Unnamed => tickets'[t].operator = o
              /\ \A u \in Tickets : u # t => tickets'[u] = tickets[u]
            BY <1>1 DEF IInv, TypeOK, StoreTypeOK, ApprovalCard
        <2>10. DecisionInForce'
            <3> SUFFICES ASSUME NEW p \in Operators, Decided(p)',
                                Known(call[p].ticket)'
                         PROVE  /\ tickets'[call'[p].ticket].status = call'[p].state
                                /\ p \notin Unnamed =>
                                       tickets'[call'[p].ticket].operator = p
                BY DEF DecisionInForce
            <3>1. CASE p = o
                BY <2>6, <2>9, <3>1
            <3>2. CASE p # o
                <4>1. call'[p] = call[p]
                    BY <2>5, <3>2
                <4>2. Decided(p) /\ call[p].ticket \in Tickets
                    BY <4>1 DEF IInv, CallsNameTickets, Decided, Decision
                <4>3. tickets'[call[p].ticket] = tickets[call[p].ticket]
                    BY <2>4, <2>9, <4>2
                <4>4. Known(call[p].ticket)
                    BY <4>1, <4>3 DEF Known
                <4> QED
                    BY <4>1, <4>2, <4>3, <4>4 DEF IInv, DecisionInForce
            <3> QED
                BY <3>1, <3>2
        <2> QED
            BY <2>2, <2>3, <2>7, <2>8, <2>10 DEF IInv
    <1> QED
        BY <1>4, <1>5, DecideEnds

LEMMA ReadersKeep ==
    ASSUME IInv, Sweep \/ \E t \in Tickets : Poll(t)
    PROVE  IInv'
    <1>1. UNCHANGED <<now, stage, draft, call, answers, holder, requested>>
          /\ MayRun(None)
        BY DEF Sweep, Poll
    <1>2. TableRefreshed /\ tickets' \in [Tickets -> ApprovalCard \cup {None}]
        BY ReadersRefresh DEF IInv, TypeOK, Sweep, Poll
    <1>3. TypeOK'
        BY <1>1, <1>2 DEF IInv, TypeOK, StoreTypeOK
    <1>4. \A o \in Operators : call[o].state # "checked"
        BY <1>1, CheckedOwnsLoop, NoneIsNoMember
    <1>5. CallsNameTickets' /\ ReadStillTrue' /\ DraftFresh'
        BY <1>1, <1>4 DEF IInv, CallsNameTickets, ReadStillTrue, DraftFresh
    <1>6. UnsavedUnknown' /\ DecisionInForce' /\ DecidedOnce'
        BY <1>1, <1>2, RefreshKeepsDecisions
    <1> QED
        BY <1>3, <1>5, <1>6 DEF IInv

LEMMA ClearStoreKeeps == IInv /\ ClearStore => IInv'
    <1> SUFFICES ASSUME IInv, ClearStore PROVE IInv'
        OBVIOUS
    <1>1. \A o \in Operators : call[o].state # "checked"
        BY CheckedOwnsLoop, NoneIsNoMember DEF ClearStore
    <1> QED
        BY <1>1 DEF ClearStore, Clear, IInv, TypeOK, StoreTypeOK,
                    CallsNameTickets, ReadStillTrue, UnsavedUnknown, DraftFresh,
                    DecisionInForce, DecidedOnce, Decided, Decision, Known

LEMMA AlterArgumentsKeeps ==
    ASSUME IInv, NEW t \in Tickets, NEW args \in Args, AlterArguments(t, args)
    PROVE  IInv'
    <1> USE DEF AlterArguments
    <1>1. tickets[t] \in ApprovalCard
        BY DEF IInv, TypeOK, StoreTypeOK, Known
    <1>2. /\ tickets' \in [Tickets -> ApprovalCard \cup {None}]
          /\ tickets'[t] \in ApprovalCard
          /\ tickets'[t].status = "PENDING"
          /\ \A u \in Tickets : u # t => tickets'[u] = tickets[u]
        BY <1>1 DEF IInv, TypeOK, StoreTypeOK, ApprovalCard
    <1>3. TypeOK' /\ CallsNameTickets' /\ DecidedOnce' /\ DraftFresh'
        BY <1>2 DEF IInv, TypeOK, StoreTypeOK, CallsNameTickets, DecidedOnce,
                    DraftFresh, Decided
    <1>4. ReadStillTrue'
        BY <1>2, NoneIsNoCard DEF IInv, CallsNameTickets, ReadStillTrue, Known
    <1>5. UnsavedUnknown' /\ DecisionInForce'
        BY <1>1, <1>2
        DEF IInv, CallsNameTickets, UnsavedUnknown, DecisionInForce, Decided,
            Decision, Known
    <1> QED
        BY <1>3, <1>4, <1>5 DEF IInv

LEMMA PassTimeKeeps == IInv /\ PassTime => IInv'
    BY MaxTimeIsNat
    DEF PassTime, Tick, StepBack, IInv, TypeOK, StoreTypeOK, CallsNameTickets,
        ReadStillTrue, UnsavedUnknown, DraftFresh, DecisionInForce, DecidedOnce,
        Decided, Known

LEMMA NextKeeps ==
    ASSUME ~StoreYields, IInv, Next
    PROVE  IInv'
    <1>1. ASSUME NEW t \in Tickets, Create(t) PROVE IInv'
        BY <1>1, BuildCardKeeps, SaveCardKeeps, EndNotificationKeeps
        DEF Create, CancelCreate
    <1>2. ASSUME NEW o \in Operators, Resolve(o) PROVE IInv'
        BY <1>2, ReadTicketKeeps, DecideTicketKeeps
        DEF Resolve, WriteDecision, CancelResolve
    <1>3. CASE Environment
        BY <1>3, ReadersKeep, ClearStoreKeeps, AlterArgumentsKeeps, PassTimeKeeps
        DEF Environment
    <1> QED
        BY <1>1, <1>2, <1>3 DEF Next

-----------------------------------------------------------------------------
(* The theorems *)

\* On one event loop, IInv holds in every reachable state.
THEOREM Invariance ==
    ASSUME ~StoreYields
    PROVE  Spec => []IInv
    <1>1. IInv /\ [Next]_vars => IInv'
        BY NextKeeps, StutterKeeps
    <1> QED
        BY InitIInv, <1>1, PTL DEF Spec

\* On one event loop a ticket is resolved at most once, although
\* resolve_ticket reads in one critical section and writes in another and the
\* write does not look at what it replaces.
THEOREM ResolvedOnce ==
    ASSUME ~StoreYields
    PROVE  Spec => []DecidedOnce
    <1>1. IInv => DecidedOnce
        BY DEF IInv
    <1> QED
        BY Invariance, <1>1, PTL

\* The decision an operator was told stays the one in the store.
THEOREM DecisionKept ==
    ASSUME ~StoreYields
    PROVE  Spec => []DecisionInForce
    <1>1. IInv => DecisionInForce
        BY DEF IInv
    <1> QED
        BY Invariance, <1>1, PTL

-----------------------------------------------------------------------------
(* What a step may never do *)

\* On one event loop no step, in time or late, rewrites a settled card.
THEOREM SettledForGood ==
    ASSUME ~StoreYields
    PROVE  Spec => StatusFinal
    <1> DEFINE Final == \A t \in Tickets :
          Known(t) /\ tickets[t].status # "PENDING" /\ tickets'[t] # None
              => tickets'[t].status = tickets[t].status
    <1>1. ASSUME IInv, Next PROVE Final
        <2>1. StoreTypeOK
            BY <1>1 DEF IInv, TypeOK
        <2>2. ASSUME TableRefreshed PROVE Final
            BY <2>1, <2>2, RefreshedIsCard DEF TableRefreshed, StoreTypeOK, Known
        <2>3. ASSUME NEW t \in Tickets, Create(t) PROVE Final
            BY <1>1, <2>1, <2>3
            DEF Create, BuildCard, SaveCard, EndNotification, CancelCreate,
                SaveTicket, IInv, UnsavedUnknown, StoreTypeOK, Known
        <2>4. ASSUME NEW o \in Operators, Resolve(o) PROVE Final
            <3>1. ASSUME NEW t \in Tickets, GetTicket(t) PROVE Final
                BY <2>1, <2>2, <3>1, ReadersRefresh
            <3>2. CASE DecideTicket(o)
                <4>1. tickets[call[o].ticket].status = "PENDING"
                    BY <1>1, <3>2 DEF DecideTicket, IInv, ReadStillTrue
                <4> QED
                    BY <1>1, <2>1, <3>2, <4>1, DecideEnds
                    DEF UpdateExpired, UpdateStored, StoreTypeOK
            <3> QED
                BY <2>4, <3>1, <3>2 DEF Resolve, ReadTicket, WriteDecision, CancelResolve
        <2>5. CASE Environment
            <3>1. CASE Sweep \/ \E t \in Tickets : Poll(t)
                BY <2>1, <2>2, <3>1, ReadersRefresh DEF Sweep, Poll
            <3>2. CASE ClearStore
                BY <3>2 DEF ClearStore, Clear
            <3>3. ASSUME NEW t \in Tickets, NEW args \in Args,
                         AlterArguments(t, args)
                  PROVE  Final
                BY <2>1, <3>3 DEF AlterArguments, StoreTypeOK
            <3>4. CASE PassTime
                BY <3>4 DEF PassTime
            <3> QED
                BY <2>5, <3>1, <3>2, <3>3, <3>4 DEF Environment
        <2> QED
            BY <1>1, <2>3, <2>4, <2>5 DEF Next
    <1>2. IInv /\ [Next]_vars => [Final]_vars
        BY <1>1
    <1> QED
        BY Invariance, <1>2, PTL DEF Spec, StatusFinal

\* On one event loop no decision takes effect after the deadline of its
\* ticket, although the clock runs between the read and the write.
THEOREM DecidedInTime ==
    ASSUME ~StoreYields
    PROVE  Spec => DecisionInTime
    <1> DEFINE InTime == \A o \in Operators :
          ~Decided(o) /\ Decided(o)' => now <= tickets[call[o].ticket].expires
    <1>1. ASSUME IInv, Next PROVE InTime
        <2>1. ASSUME UNCHANGED call PROVE InTime
            BY <2>1 DEF Decided
        <2>2. ASSUME NEW o \in Operators, NEW t \in Tickets,
                     NEW approved \in BOOLEAN, NEW verify \in Args \cup {None},
                     ReadTicket(o, t, approved, verify)
              PROVE  InTime
            <3>1. Known(t) => Refreshed(tickets[t]) \in ApprovalCard
                BY <1>1, RefreshedIsCard DEF IInv, TypeOK, StoreTypeOK, Known
            <3>2. call'[o].state \in Refusals \cup {"checked"}
                BY <1>1, <2>2, <3>1, CheckOutcomes
                DEF ReadTicket, Refusals, IInv, TypeOK
            <3> QED
                BY <1>1, <2>2, <3>2
                DEF ReadTicket, IInv, TypeOK, Decided, Decision, Refusals
        <2>3. ASSUME NEW o \in Operators, DecideTicket(o) PROVE InTime
            <3> DEFINE t == call[o].ticket
            <3>1. /\ tickets[t] \in ApprovalCard
                  /\ tickets[t].status = "PENDING"
                BY <1>1, <2>3
                DEF DecideTicket, IInv, CallsNameTickets, ReadStillTrue, TypeOK,
                    StoreTypeOK, Known
            <3>2. call'[o].state \in Decision => now <= tickets[t].expires
                <4>1. CASE UpdateStored(t, NewStatus(o), o)
                    BY <1>1, <3>1, <4>1
                    DEF UpdateStored, UpdateTooLate, Lapsed, ApprovalCard, IInv,
                        TypeOK, StoreTypeOK
                <4>2. CASE Settle(o, "Expired")
                    BY <1>1, <4>2 DEF Settle, Decision, IInv, TypeOK, Call
                <4> QED
                    BY <1>1, <2>3, <4>1, <4>2, DecideEnds
            <3>3. \A p \in Operators : p # o => call'[p] = call[p]
                BY <1>1, <2>3 DEF DecideTicket, Settle, IInv, TypeOK
            <3> QED
                BY <3>2, <3>3 DEF Decided
        <2> QED
            BY <1>1, <2>1, <2>2, <2>3
            DEF Next, Create, BuildCard, SaveCard, EndNotification, CancelCreate,
                Resolve, WriteDecision, CancelResolve, Environment, Poll, Sweep,
                ClearStore, AlterArguments, PassTime
    <1>2. IInv /\ [Next]_vars => [InTime]_vars
        BY <1>1
    <1> QED
        BY Invariance, <1>2, PTL DEF Spec, DecisionInTime

-----------------------------------------------------------------------------
(* Refinement *)

\* A step that moves no decision leaves the ledger's verdicts alone.
LEMMA SameVerdicts ==
    ASSUME \A o \in Operators : \/ call'[o] = call[o]
                                \/ ~Decided(o) /\ ~Decided(o)'
    PROVE  Told' = Told
    <1>1. \A o \in Operators :
              (IF Decided(o)' THEN [ticket |-> call'[o].ticket,
                                    status |-> call'[o].state] ELSE None)
              = (IF Decided(o) THEN [ticket |-> call[o].ticket,
                                     status |-> call[o].state] ELSE None)
        BY DEF Decided
    <1> QED
        BY <1>1, Zenon DEF Told

\* To the ledger, a reader or a sweep lets some overdue tickets expire.
LEMMA RefreshExpires ==
    ASSUME IInv, TableRefreshed, UNCHANGED <<now, stage>>, Told' = Told
    PROVE  Ledger!Next
    <1> DEFINE S == {t \in Tickets : tickets'[t] # tickets[t]}
    <1>1. \A t \in S : /\ Known(t)
                       /\ tickets[t] \in ApprovalCard
                       /\ tickets'[t] = Refreshed(tickets[t])
        BY DEF TableRefreshed, IInv, TypeOK, StoreTypeOK, Known
    <1>2. \A t \in S : /\ tickets[t].status = "PENDING"
                       /\ Lapsed(tickets[t])
                       /\ tickets'[t] = [tickets[t] EXCEPT !.status = "EXPIRED"]
        BY <1>1 DEF Refreshed
    <1>3. \A t \in S : Ledger!Overdue(t)
        BY <1>1, <1>2 DEF Ledger!Overdue, Book, Entry, Lapsed
    <1>4. \A t \in S : tickets'[t] \in ApprovalCard /\ Known(t)'
        BY <1>1, RefreshedIsCard, NoneIsNoCard DEF Known
    <1>5. \A t \in Tickets :
              Entry(t)' = IF t \in S THEN [Entry(t) EXCEPT !.status = "EXPIRED"]
                                     ELSE Entry(t)
        <2> TAKE t \in Tickets
        <2>1. CASE t \in S
            BY <1>1, <1>2, <1>4, <2>1 DEF Entry, ApprovalCard
        <2>2. CASE t \notin S
            BY <2>2 DEF Entry, Known
        <2> QED
            BY <2>1, <2>2
    <1>6. Ledger!Expire(S)
        BY <1>3, <1>5 DEF Ledger!Expire, Book
    <1> QED
        BY <1>6 DEF Ledger!Next

\* A step of the cards that the ledger does not see.
LEMMA SameEntries ==
    ASSUME \A t \in Tickets : Entry(t)' = Entry(t), Told' = Told, now' = now
    PROVE  UNCHANGED Ledger!vars
    BY DEF Ledger!vars, Book

LEMMA CreateRefines ==
    ASSUME ~StoreYields, IInv, NEW t \in Tickets, Create(t)
    PROVE  [Ledger!Next]_(Ledger!vars)
    <1>1. Told' = Told
        <2>1. call' = call
            BY DEF Create, BuildCard, SaveCard, EndNotification, CancelCreate
        <2> QED
            BY <2>1, SameVerdicts DEF Told, Decided
    <1>2. CASE EndNotification(t) \/ \E args \in Args, ttl \in RequestedTTLs :
                                        BuildCard(t, args, ttl)
        <2>1. \A u \in Tickets : Entry(u)' = Entry(u)
            BY <1>2 DEF EndNotification, BuildCard, Entry, Known, IInv, TypeOK
        <2> QED
            BY <1>1, <1>2, <2>1, SameEntries DEF EndNotification, BuildCard
    <1>3. CASE SaveCard(t)
        <2>1. /\ draft[t] \in ApprovalCard
              /\ draft[t].status = "PENDING"
              /\ tickets[t] = None
            BY <1>3 DEF SaveCard, IInv, DraftFresh, UnsavedUnknown
        <2>2. Entry(t) = Ledger!Unissued
            BY <1>3, <2>1 DEF SaveCard, Entry, Known, Ledger!Unissued
        <2>3. Entry(t)' = [status |-> "PENDING", deadline |-> draft[t].expires]
            BY <1>3, <2>1, NoneIsNoCard
            DEF SaveCard, SaveTicket, Entry, Known, IInv, TypeOK, StoreTypeOK
        <2>4. \A u \in Tickets : u # t => Entry(u)' = Entry(u)
            BY <1>3 DEF SaveCard, SaveTicket, Entry, Known, IInv, TypeOK, StoreTypeOK
        <2> DEFINE issued == [status |-> "PENDING", deadline |-> draft[t].expires]
        <2>5. Book[t].status = "UNISSUED" /\ Book'[t] = issued
            BY <2>2, <2>3 DEF Book, Ledger!Unissued
        <2>6. Book' = [Book EXCEPT ![t] = issued]
            BY <2>3, <2>4 DEF Book
        <2>7. issued.deadline \in Int
            BY <2>1 DEF ApprovalCard
        <2> HIDE DEF issued
        <2>8. Book'[t] = [status |-> "PENDING", deadline |-> Book'[t].deadline]
            BY <2>5 DEF issued
        <2>9. Ledger!Issue(t)
            BY <1>1, <1>3, <2>5, <2>6, <2>7, <2>8 DEF Ledger!Issue, SaveCard
        <2> QED
            BY <2>9 DEF Ledger!Next
    <1> QED
        BY <1>2, <1>3 DEF Create, CancelCreate

LEMMA ReadTicketRefines ==
    ASSUME IInv, NEW o \in Operators, NEW t \in Tickets,
           NEW approved \in BOOLEAN, NEW verify \in Args \cup {None},
           ReadTicket(o, t, approved, verify)
    PROVE  Ledger!Next
    <1>1. TableRefreshed
        BY ReadersRefresh DEF ReadTicket, IInv, TypeOK
    <1>2. Known(t) => Refreshed(tickets[t]) \in ApprovalCard
        BY RefreshedIsCard DEF IInv, TypeOK, StoreTypeOK, Known
    <1>3. call'[o].state \in Refusals \cup {"checked"} /\ call[o].state = "idle"
        BY <1>2, CheckOutcomes DEF ReadTicket, Refusals, IInv, TypeOK
    <1>4. \A p \in Operators : p # o => call'[p] = call[p]
        BY DEF ReadTicket, IInv, TypeOK
    <1>5. Told' = Told
        BY <1>3, <1>4, SameVerdicts DEF Told, Decided, Decision, Refusals
    <1> QED
        BY <1>1, <1>5, RefreshExpires DEF ReadTicket

LEMMA DecideTicketRefines ==
    ASSUME IInv, NEW o \in Operators, DecideTicket(o)
    PROVE  Ledger!Next
    <1>0. PICK t \in Tickets : t = call[o].ticket
        BY DEF DecideTicket, IInv, CallsNameTickets
    <1>1. /\ Known(t)
          /\ tickets[t] \in ApprovalCard
          /\ tickets[t].status = "PENDING"
          /\ call[o].state = "checked"
        BY <1>0 DEF DecideTicket, IInv, ReadStillTrue, TypeOK, StoreTypeOK, Known
    <1>2. \A p \in Operators : p # o => call'[p] = call[p]
        BY DEF DecideTicket, Settle, IInv, TypeOK
    <1>3. CASE UpdateExpired(t) /\ Settle(o, "Expired")
        <2>1. TableRefreshed
            BY <1>1, <1>3
            DEF UpdateExpired, UpdateTooLate, TableRefreshed, Refreshed, IInv,
                TypeOK, StoreTypeOK
        <2>2. ~Decided(o) /\ ~Decided(o)'
            BY <1>1, <1>3 DEF Settle, Decided, Decision, IInv, TypeOK, Call
        <2>3. Told' = Told
            BY <1>2, <2>2, SameVerdicts DEF Told, Decided
        <2> QED
            BY <2>1, <2>3, RefreshExpires DEF DecideTicket
    <1>4. CASE UpdateStored(t, NewStatus(o), o) /\ Settle(o, NewStatus(o))
        <2> DEFINE decision == NewStatus(o)
        <2>1. decision \in Decision
            BY DEF NewStatus, Decision
        <2>2. /\ tickets'[t] \in ApprovalCard
              /\ tickets'[t].status = decision
              /\ tickets'[t].expires = tickets[t].expires
              /\ \A u \in Tickets : u # t => tickets'[u] = tickets[u]
            BY <1>1, <1>4, <2>1
            DEF UpdateStored, IInv, TypeOK, StoreTypeOK, ApprovalCard,
                TicketStatus, Decision
        <2> HIDE DEF decision
        <2>3. now <= tickets[t].expires
            BY <1>1, <1>4
            DEF UpdateStored, UpdateTooLate, Lapsed, ApprovalCard, IInv, TypeOK,
                StoreTypeOK
        <2>4. Entry(t) = [status |-> "PENDING", deadline |-> tickets[t].expires]
            BY <1>1 DEF Entry
        <2>5. Entry(t)' = [Entry(t) EXCEPT !.status = decision]
            BY <2>2, <2>4, NoneIsNoCard DEF Entry, Known
        <2>6. \A u \in Tickets : u # t => Entry(u)' = Entry(u)
            BY <2>2 DEF Entry, Known, DecideTicket
        <2>7. Book' = [Book EXCEPT ![t].status = decision]
            BY <1>1, <2>5, <2>6 DEF Book
        <2>8. call'[o].ticket = t /\ call'[o].state = decision
            BY <1>0, <1>4 DEF Settle, IInv, TypeOK, Call, decision
        <2>9. Told[o] = None
            BY <1>1 DEF Told, Decided, Decision
        <2>10. Told' = [Told EXCEPT ![o] = [ticket |-> t, status |-> decision]]
            BY <1>2, <2>1, <2>8 DEF Told, Decided
        <2>11. Ledger!Decide(o, t, decision)
            BY <1>1, <2>3, <2>4, <2>7, <2>9, <2>10
            DEF Ledger!Decide, Book, DecideTicket
        <2> QED
            BY <1>1, <2>1, <2>11 DEF Ledger!Next, Ledger!Decision, Decision
    <1> QED
        BY <1>0, <1>3, <1>4, DecideEnds

LEMMA EnvironmentRefines ==
    ASSUME IInv, Environment
    PROVE  [Ledger!Next]_(Ledger!vars)
    <1>1. UNCHANGED <<stage, call>>
        BY DEF Environment, Poll, Sweep, ClearStore, AlterArguments, PassTime
    <1>2. Told' = Told
        BY <1>1, SameVerdicts DEF Told, Decided
    <1>3. CASE Sweep \/ \E t \in Tickets : Poll(t)
        BY <1>1, <1>2, <1>3, ReadersRefresh, RefreshExpires
        DEF Sweep, Poll, IInv, TypeOK
    <1>4. CASE ClearStore
        <2>1. \A t \in Tickets : Entry(t)' = IF Entry(t).status = "UNISSUED"
                                             THEN Entry(t) ELSE Ledger!Forgotten
            <3> TAKE t \in Tickets
            <3>1. CASE Known(t)
                <4>1. /\ stage[t] \notin {"unborn", "built"}
                      /\ tickets[t] \in ApprovalCard
                    BY <3>1 DEF IInv, UnsavedUnknown, Known, TypeOK, StoreTypeOK
                <4> QED
                    BY <1>1, <1>4, <3>1, <4>1
                    DEF ClearStore, Clear, Entry, Known, Ledger!Forgotten,
                        ApprovalCard, TicketStatus
            <3>2. CASE ~Known(t)
                BY <1>1, <1>4, <3>2
                DEF ClearStore, Clear, Entry, Known, Ledger!Forgotten
            <3> QED
                BY <3>1, <3>2
        <2>2. Ledger!Forget
            BY <1>2, <1>4, <2>1 DEF Ledger!Forget, Book, ClearStore
        <2> QED
            BY <2>2 DEF Ledger!Next
    <1>5. ASSUME NEW t \in Tickets, NEW args \in Args, AlterArguments(t, args)
          PROVE  UNCHANGED Ledger!vars
        <2>1. tickets[t] \in ApprovalCard
            BY <1>5 DEF AlterArguments, Known, IInv, TypeOK, StoreTypeOK
        <2>2. /\ tickets'[t] \in ApprovalCard
              /\ tickets'[t].status = tickets[t].status
              /\ tickets'[t].expires = tickets[t].expires
              /\ \A u \in Tickets : u # t => tickets'[u] = tickets[u]
            BY <1>5, <2>1 DEF AlterArguments, IInv, TypeOK, StoreTypeOK, ApprovalCard
        <2>3. \A u \in Tickets : Entry(u)' = Entry(u)
            BY <1>1, <2>1, <2>2, NoneIsNoCard DEF Entry, Known
        <2> QED
            BY <1>2, <1>5, <2>3, SameEntries DEF AlterArguments
    <1>6. CASE PassTime
        <2>1. Book' = Book
            BY <1>6 DEF PassTime, Book, Entry, Known
        <2>2. now' \in Nat
            BY <1>6, MaxTimeIsNat DEF PassTime, Tick, StepBack, IInv, TypeOK, StoreTypeOK
        <2> QED
            BY <1>2, <2>1, <2>2 DEF Ledger!Next, Ledger!SetClock
    <1> QED
        BY <1>3, <1>4, <1>5, <1>6 DEF Environment

\* On one event loop the coroutines of the controller over the store do what
\* the ledger promises: to any observer of the tickets and of what operators
\* are told, a resolution is one indivisible, timely step.
THEOREM Refinement ==
    ASSUME ~StoreYields
    PROVE  Spec => ImplementsLedger
    <1>1. Init => Ledger!Init
        BY DEF Init, StoreInit, IdleCall, Ledger!Init, Book, Entry, Known, Told,
               Decided, Decision, Ledger!Unissued
    <1>2. IInv /\ [Next]_vars => [Ledger!Next]_(Ledger!vars)
        <2>1. ASSUME UNCHANGED vars PROVE UNCHANGED Ledger!vars
            BY <2>1 DEF vars, Ledger!vars, Book, Entry, Known, Told, Decided
        <2>2. ASSUME IInv, Next PROVE [Ledger!Next]_(Ledger!vars)
            <3>1. ASSUME NEW o \in Operators, Resolve(o) PROVE Ledger!Next
                BY <2>2, <3>1, ReadTicketRefines, DecideTicketRefines
                DEF Resolve, WriteDecision, CancelResolve
            <3> QED
                BY <2>2, <3>1, CreateRefines, EnvironmentRefines DEF Next
        <2> QED
            BY <2>1, <2>2
    <1> QED
        BY Invariance, <1>1, <1>2, PTL DEF Spec, ImplementsLedger, Ledger!Spec
=============================================================================
