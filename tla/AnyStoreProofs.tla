--------------------------- MODULE AnyStoreProofs ---------------------------
(***************************************************************************)
(* What holds of the controller whether or not awaiting the store lets     *)
(* other tasks run, and whoever is cancelled there.                        *)
(***************************************************************************)
EXTENDS SuspensionProofs

\* A ticket is unknown until its card has been saved.
SavedIfKnown ==
    \A t \in Tickets : Known(t) => stage[t] \notin {"unborn", "built"}

\* A call that has passed the checks, or was decided after them, is for a
\* ticket that has been saved, whose card still bears the signature that was
\* compared with the arguments presented.
CheckedSigned ==
    \A o \in Operators : call[o].state \in {"checked"} \cup Decision =>
        LET t == call[o].ticket
        IN /\ stage[t] \notin {"unborn", "built"}
           /\ call[o].verify # None /\ Known(t)
                  => call[o].verify = tickets[t].token.args

\* A call whose decision on the ticket the store has taken.
Resolver(o, t) ==
    /\ answers[o] # None
    /\ answers[o].outcome \in Decision
    /\ call[o].ticket = t

\* Cards do not come by their decision but through such a call.
DecisionsExplained ==
    \A t \in Tickets : Known(t) /\ tickets[t].status \in Decision =>
        \E o \in Operators : Resolver(o, t)

\* The inductive invariant for any store.
StoreInv ==
    /\ TypeOK
    /\ CallsNameTickets
    /\ DraftFresh
    /\ SavedIfKnown
    /\ CheckedSigned
    /\ DecisionsExplained
    /\ RefusalExplained

-----------------------------------------------------------------------------
(* What a step may do to a card, to a call and to a creation. *)

Decides(o, t) ==
    /\ call[o].state = "checked"
    /\ call[o].ticket = t
    /\ ~UpdateTooLate(t)
    /\ Resolver(o, t)'
    /\ tickets'[t] = [tickets[t] EXCEPT !.status = NewStatus(o), !.operator =
                          IF o \in Unnamed THEN @ ELSE o]

CardStep(t) ==
    \/ tickets'[t] = tickets[t]
    \/ tickets'[t] = None
    \/ /\ stage[t] = "built"
       /\ stage'[t] \notin {"unborn", "built"}
       /\ tickets'[t] = draft[t]
    \/ /\ Known(t)
       /\ \/ tickets'[t] = Refreshed(tickets[t])
          \/ /\ Alterations
             /\ \E args \in Args : tickets'[t] = [tickets[t] EXCEPT !.args = args]
          \/ \E o \in Operators : Decides(o, t)

\* What is true of a call that has just read its ticket.
Opened(o) ==
    LET t == call'[o].ticket
    IN /\ t \in Tickets
       /\ call'[o].state = "AlreadyResolved"
              => Known(t) /\ tickets[t].status \in Decision
       /\ call'[o].state = "checked" =>
              /\ Known(t)
              /\ call'[o].verify # None
                     => call'[o].verify = tickets[t].token.args

CallStep(o) ==
    \/ call'[o] = call[o]
    \/ /\ call[o].state = "idle"
       /\ call'[o].state \in Refusals \cup {"checked"}
       /\ Opened(o)
    \/ /\ call[o].state = "checked"
       /\ call'[o].state \in Decision \cup {"Unknown", "Expired", "Cancelled"}
       /\ call'[o].ticket = call[o].ticket
       /\ call'[o].verify = call[o].verify

\* The store answers a call that has passed its checks, and once; a decision
\* comes with the arguments of the card.
AnswerStep(o) ==
    \/ answers'[o] = answers[o]
    \/ /\ call[o].state = "checked"
       /\ answers[o] = None
       /\ answers'[o].outcome \in Decision =>
              /\ Known(call[o].ticket)
              /\ answers'[o].args = tickets[call[o].ticket].args

StageStep(t) ==
    \/ stage'[t] = stage[t] /\ draft'[t] = draft[t]
    \/ /\ stage[t] = "unborn"
       /\ stage'[t] = "built"
       /\ draft'[t] \in ApprovalCard /\ draft'[t].status = "PENDING"
    \/ /\ stage[t] \in {"built", "notifying"}
       /\ stage'[t] \notin {"unborn", "built"}

Steps ==
    /\ \A t \in Tickets : CardStep(t) /\ StageStep(t)
    /\ \A o \in Operators : CallStep(o) /\ AnswerStep(o)

\* A refresh is a step of a card.
LEMMA RefreshSteps ==
    ASSUME TypeOK, TableRefreshed
    PROVE  \A t \in Tickets : CardStep(t)
    BY DEF TableRefreshed, CardStep

LEMMA CreateSteps ==
    ASSUME StoreInv, NEW t \in Tickets, Create(t)
    PROVE  TypeOK' /\ Steps
    <1>1. UNCHANGED <<call, answers>> /\ \A o \in Operators : CallStep(o) /\ AnswerStep(o)
        BY DEF Create, BuildCard, SaveCard, EndNotification, CancelCreate,
               CallStep, AnswerStep
    <1>2. ASSUME NEW args \in Args, NEW ttl \in RequestedTTLs,
                 BuildCard(t, args, ttl)
          PROVE  TypeOK' /\ \A u \in Tickets : CardStep(u) /\ StageStep(u)
        <2>1. draft'[t] \in ApprovalCard /\ draft'[t].status = "PENDING"
            BY <1>2, FreshCard DEF BuildCard, StoreInv, TypeOK, StoreTypeOK
        <2>2. TypeOK'
            BY <1>2, <2>1, TTLsAreInt
            DEF BuildCard, AwaitStore, StoreInv, TypeOK, StoreTypeOK, Stage
        <2>3. \A u \in Tickets : CardStep(u) /\ StageStep(u)
            BY <1>2, <2>1
            DEF BuildCard, CardStep, StageStep, StoreInv, TypeOK
        <2> QED
            BY <2>2, <2>3
    <1>3. ASSUME SaveCard(t) \/ CancelCreate(t)
          PROVE  TypeOK' /\ \A u \in Tickets : CardStep(u) /\ StageStep(u)
        <2>1. draft[t] \in ApprovalCard /\ stage[t] = "built"
            BY <1>3 DEF SaveCard, CancelCreate, StoreInv, DraftFresh
        <2>2. TypeOK'
            BY <1>3, <2>1
            DEF SaveCard, CancelCreate, SaveTicket, Yield, StoreInv, TypeOK,
                StoreTypeOK, Stage
        <2>3. /\ stage'[t] \notin {"unborn", "built"}
              /\ \A u \in Tickets : u # t => stage'[u] = stage[u]
                                             /\ draft'[u] = draft[u]
            BY <1>3 DEF SaveCard, CancelCreate, StoreInv, TypeOK
        <2>4. \A u \in Tickets : \/ tickets'[u] = tickets[u]
                                 \/ (u = t /\ tickets'[u] = draft[u])
            BY <1>3 DEF SaveCard, CancelCreate, SaveTicket, StoreInv, TypeOK,
                        StoreTypeOK
        <2> QED
            BY <2>1, <2>2, <2>3, <2>4 DEF CardStep, StageStep
    <1>4. ASSUME EndNotification(t)
          PROVE  TypeOK' /\ \A u \in Tickets : CardStep(u) /\ StageStep(u)
        BY <1>4 DEF EndNotification, Yield, CardStep, StageStep, StoreInv, TypeOK,
                    StoreTypeOK, Stage
    <1> QED
        BY <1>1, <1>2, <1>3, <1>4 DEF Create, Steps

\* What the checks say of the card they were made on.
LEMMA CheckedCard ==
    ASSUME NEW card \in ApprovalCard, NEW t, NEW verify
    PROVE  LET outcome == CheckOutcome(t, Refreshed(card), verify)
           IN /\ outcome \in Refusals \cup {"checked"}
              /\ outcome = "AlreadyResolved" => card.status \in Decision
              /\ outcome = "checked" /\ verify # None => verify = card.token.args
    <1>1. Refreshed(card).status \in Decision => card.status \in Decision
        BY DEF Refreshed, Decision, ApprovalCard
    <1>2. Refreshed(card) \in ApprovalCard /\ Refreshed(card).token = card.token
        BY RefreshedIsCard
    <1>3. CheckOutcome(t, Refreshed(card), verify) \in Refusals \cup {"checked"}
        BY <1>2, CheckOutcomes
    <1>4. CheckOutcome(t, Refreshed(card), verify) = "AlreadyResolved"
              => Refreshed(card).status \in Decision
        BY DEF CheckOutcome
    <1>5. ASSUME CheckOutcome(t, Refreshed(card), verify) = "checked", verify # None
          PROVE  GenerateToken(t, verify) = Refreshed(card).token
        BY <1>2, <1>5 DEF CheckOutcome, VerifyToken, ApprovalCard, TicketStatus, Decision
    <1>6. GenerateToken(t, verify).args = verify
        BY DEF GenerateToken
    <1> QED
        BY <1>1, <1>2, <1>3, <1>4, <1>5, <1>6

LEMMA ReadTicketSteps ==
    ASSUME StoreInv, NEW o \in Operators, NEW t \in Tickets,
           NEW approved \in BOOLEAN, NEW verify \in Args \cup {None},
           ReadTicket(o, t, approved, verify)
    PROVE  TypeOK' /\ Steps
    <1> DEFINE outcome == IF Known(t)
                          THEN CheckOutcome(t, Refreshed(tickets[t]), verify)
                          ELSE "Unknown"
    <1>1. call' = [call EXCEPT ![o] = [state |-> outcome, ticket |-> t,
                                       approved |-> approved, verify |-> verify]]
        BY DEF ReadTicket
    <1>2. /\ GetTicket(t)
          /\ UNCHANGED <<now, stage, draft, answers, requested>>
          /\ call[o].state = "idle"
          /\ holder' \in {o, None}
        BY DEF ReadTicket, AwaitStore, Yield
    <1>3. TableRefreshed /\ tickets' \in [Tickets -> ApprovalCard \cup {None}]
        BY <1>2, ReadersRefresh DEF StoreInv, TypeOK
    <1>4. /\ outcome \in Refusals \cup {"checked"}
          /\ outcome = "AlreadyResolved" => Known(t) /\ tickets[t].status \in Decision
          /\ outcome = "checked" => Known(t)
          /\ outcome = "checked" /\ verify # None => verify = tickets[t].token.args
        <2>1. CASE Known(t)
            <3>1. tickets[t] \in ApprovalCard
                BY <2>1 DEF StoreInv, TypeOK, StoreTypeOK, Known
            <3> QED
                BY <2>1, <3>1, CheckedCard
        <2>2. CASE ~Known(t)
            BY <2>2 DEF Refusals
        <2> QED
            BY <2>1, <2>2
    <1> HIDE DEF outcome
    <1>5. TypeOK'
        BY <1>1, <1>2, <1>3, <1>4
        DEF StoreInv, TypeOK, StoreTypeOK, Call, CallState
    <1>6. \A u \in Tickets : CardStep(u) /\ StageStep(u)
        BY <1>2, <1>3, RefreshSteps DEF StageStep, StoreInv
    <1>7. \A p \in Operators : CallStep(p)
        <2>1. Opened(o) /\ call'[o].state \in Refusals \cup {"checked"}
            BY <1>1, <1>4 DEF Opened, StoreInv, TypeOK
        <2> QED
            BY <1>1, <1>2, <2>1 DEF CallStep, StoreInv, TypeOK
    <1> QED
        BY <1>2, <1>5, <1>6, <1>7 DEF Steps, AnswerStep

\* What the store makes of an update: an answer, and a step of the table.
LEMMA UpdateSteps ==
    ASSUME StoreInv, NEW o \in Operators, call[o].state = "checked",
           answers[o] = None, UpdateStatus(o), call'[o].ticket = call[o].ticket
    PROVE  /\ answers' \in [Operators -> Answer \cup {None}]
           /\ answers'[o] \in Answer
           /\ \A p \in Operators : AnswerStep(p)
           /\ tickets' \in [Tickets -> ApprovalCard \cup {None}]
           /\ \A u \in Tickets : CardStep(u)
    <1>0. PICK t \in Tickets : t = call[o].ticket
        BY DEF StoreInv, CallsNameTickets
    <1>1. NewStatus(o) \in Decision
        BY DEF NewStatus, Decision
    <1>2. ASSUME NEW outcome, NEW args, Answers(o, outcome, args),
                 \/ outcome \in Decision /\ args = tickets[t].args /\ args \in Args
                        /\ Known(t)
                 \/ outcome \in {"Unknown", "Expired"} /\ args = None
          PROVE  /\ answers' \in [Operators -> Answer \cup {None}]
                 /\ answers'[o] \in Answer
                 /\ answers'[o].outcome = outcome
                 /\ \A p \in Operators : AnswerStep(p)
        <2> DEFINE answer == [outcome |-> outcome, args |-> args]
        <2>1. answer \in Answer
            BY <1>2 DEF Answer
        <2>2. answers' = [answers EXCEPT ![o] = answer]
            BY <1>2 DEF Answers
        <2>3. answer.outcome = outcome /\ answer.args = args
            OBVIOUS
        <2> HIDE DEF answer
        <2>4. /\ answers' \in [Operators -> Answer \cup {None}]
              /\ answers'[o] = answer
              /\ \A p \in Operators : p # o => answers'[p] = answers[p]
            BY <2>1, <2>2 DEF StoreInv, TypeOK
        <2> QED
            BY <1>0, <1>2, <2>1, <2>3, <2>4 DEF AnswerStep, Decision
    <1>3. CASE UpdateUnknown(t) /\ Answers(o, "Unknown", None)
        BY <1>2, <1>3 DEF UpdateUnknown, CardStep, StoreInv, TypeOK, StoreTypeOK
    <1>4. CASE UpdateExpired(t) /\ Answers(o, "Expired", None)
        <2>1. tickets[t] \in ApprovalCard
            BY <1>4 DEF UpdateExpired, Known, StoreInv, TypeOK, StoreTypeOK
        <2>2. [tickets[t] EXCEPT !.status = "EXPIRED"] = Refreshed(tickets[t])
            BY <1>4 DEF UpdateExpired, UpdateTooLate, Refreshed
        <2>3. tickets' = [tickets EXCEPT ![t] = Refreshed(tickets[t])]
            BY <1>4, <2>2 DEF UpdateExpired
        <2>4. Refreshed(tickets[t]) \in ApprovalCard
            BY <2>1, RefreshedIsCard
        <2>5. /\ tickets' \in [Tickets -> ApprovalCard \cup {None}]
              /\ \A u \in Tickets : CardStep(u)
            BY <1>4, <2>3, <2>4
            DEF UpdateExpired, CardStep, StoreInv, TypeOK, StoreTypeOK
        <2> QED
            BY <1>2, <1>4, <2>5
    <1>5. CASE UpdateStored(t, NewStatus(o), o) /\ Answers(o, NewStatus(o), tickets[t].args)
        <2>1. tickets[t] \in ApprovalCard
            BY <1>5 DEF UpdateStored, Known, StoreInv, TypeOK, StoreTypeOK
        <2> DEFINE new == [tickets[t] EXCEPT !.status = NewStatus(o), !.operator =
                              IF o \in Unnamed THEN @ ELSE o]
        <2>2. new \in ApprovalCard
            BY <1>1, <2>1 DEF ApprovalCard, TicketStatus, Decision
        <2>3. tickets' = [tickets EXCEPT ![t] = new]
            BY <1>5 DEF UpdateStored
        <2> HIDE DEF new
        <2>4. tickets' \in [Tickets -> ApprovalCard \cup {None}]
            BY <2>2, <2>3 DEF StoreInv, TypeOK, StoreTypeOK
        <2>5. tickets'[t] = new /\ \A u \in Tickets : u # t => tickets'[u] = tickets[u]
            BY <2>3 DEF StoreInv, TypeOK, StoreTypeOK
        <2>6. tickets[t].args \in Args /\ Known(t)
            BY <1>5, <2>1 DEF ApprovalCard, UpdateStored
        <2>7. /\ answers' \in [Operators -> Answer \cup {None}]
              /\ answers'[o] \in Answer
              /\ answers'[o].outcome = NewStatus(o)
              /\ \A p \in Operators : AnswerStep(p)
            BY <1>1, <1>2, <1>5, <2>6
        <2>8. Resolver(o, t)'
            BY <1>0, <1>1, <2>7, NoneIsNoAnswer DEF Resolver
        <2>9. Decides(o, t) /\ Known(t)
            BY <1>0, <1>5, <2>5, <2>8 DEF Decides, UpdateStored, new
        <2>10. \A u \in Tickets : CardStep(u)
            BY <2>5, <2>9 DEF CardStep
        <2> QED
            BY <2>4, <2>7, <2>10
    <1> QED
        BY <1>0, <1>3, <1>4, <1>5 DEF UpdateStatus

LEMMA ResolveSteps ==
    ASSUME StoreInv, NEW o \in Operators,
           WriteDecision(o) \/ DecideTicket(o) \/ CancelResolve(o)
    PROVE  TypeOK' /\ Steps
    <1>1. /\ call[o].state = "checked"
          /\ UNCHANGED <<now, stage, draft, requested>>
          /\ holder' \in {holder, None}
        BY DEF WriteDecision, DecideTicket, CancelResolve, Yield
    <1>2. ASSUME NEW state \in CallState, Settle(o, state)
          PROVE  /\ call' \in [Operators -> Call]
                 /\ call'[o] = [call[o] EXCEPT !.state = state]
                 /\ \A p \in Operators : p # o => call'[p] = call[p]
        BY <1>2, SettleKeepsType DEF Settle, StoreInv, TypeOK
    <1>3. ASSUME UNCHANGED <<tickets, answers>>
          PROVE  /\ answers' \in [Operators -> Answer \cup {None}]
                 /\ \A p \in Operators : AnswerStep(p)
                 /\ tickets' \in [Tickets -> ApprovalCard \cup {None}]
                 /\ \A u \in Tickets : CardStep(u)
        BY <1>3 DEF AnswerStep, CardStep, StoreInv, TypeOK, StoreTypeOK
    <1>4. /\ call' \in [Operators -> Call]
          /\ \A p \in Operators : CallStep(p) /\ AnswerStep(p)
          /\ answers' \in [Operators -> Answer \cup {None}]
          /\ tickets' \in [Tickets -> ApprovalCard \cup {None}]
          /\ \A u \in Tickets : CardStep(u)
        <2>1. CASE WriteDecision(o)
            <3>1. call' = call /\ answers[o] = None /\ UpdateStatus(o)
                BY <2>1 DEF WriteDecision
            <3> QED
                BY <1>1, <3>1, UpdateSteps DEF CallStep, StoreInv, TypeOK
        <2>2. CASE DecideTicket(o)
            <3>1. Settle(o, answers'[o].outcome)
                BY <2>2 DEF DecideTicket
            <3>2. call'[o].ticket = call[o].ticket
                BY <3>1 DEF Settle, StoreInv, TypeOK, Call
            <3>3. /\ answers' \in [Operators -> Answer \cup {None}]
                  /\ answers'[o] \in Answer
                  /\ \A p \in Operators : AnswerStep(p)
                  /\ tickets' \in [Tickets -> ApprovalCard \cup {None}]
                  /\ \A u \in Tickets : CardStep(u)
                <4>1. CASE answers[o] = None
                    BY <1>1, <2>2, <3>2, <4>1, UpdateSteps DEF DecideTicket
                <4>2. CASE answers[o] # None
                    <5>1. UNCHANGED <<tickets, answers>> /\ answers[o] \in Answer
                        BY <2>2, <4>2 DEF DecideTicket, StoreInv, TypeOK
                    <5> QED
                        BY <1>3, <5>1
                <4> QED
                    BY <4>1, <4>2
            <3>4. PICK state \in Decision \cup {"Unknown", "Expired"} :
                      state = answers'[o].outcome
                BY <3>3 DEF Answer
            <3>5. /\ call' \in [Operators -> Call]
                  /\ call'[o] = [call[o] EXCEPT !.state = state]
                  /\ \A p \in Operators : p # o => call'[p] = call[p]
                BY <1>2, <3>1, <3>4 DEF CallState, Refusals
            <3>6. \A p \in Operators : CallStep(p)
                BY <1>1, <3>4, <3>5 DEF CallStep, StoreInv, TypeOK, Call
            <3> QED
                BY <3>3, <3>5, <3>6
        <2>3. CASE CancelResolve(o)
            <3>1. /\ call' \in [Operators -> Call]
                  /\ call'[o] = [call[o] EXCEPT !.state = "Cancelled"]
                  /\ \A p \in Operators : p # o => call'[p] = call[p]
                BY <1>2, <2>3 DEF CancelResolve, CallState, Refusals
            <3>2. \A p \in Operators : CallStep(p)
                BY <1>1, <3>1 DEF CallStep, StoreInv, TypeOK, Call
            <3> QED
                BY <1>3, <2>3, <3>1, <3>2 DEF CancelResolve
        <2> QED
            BY <2>1, <2>2, <2>3
    <1>5. TypeOK'
        BY <1>1, <1>4 DEF StoreInv, TypeOK, StoreTypeOK
    <1> QED
        BY <1>1, <1>4, <1>5 DEF Steps, StageStep

LEMMA EnvironmentSteps ==
    ASSUME StoreInv, Environment
    PROVE  TypeOK' /\ Steps
    <1>1. UNCHANGED <<stage, draft, call, answers, holder, requested>>
        BY DEF Environment, Poll, Sweep, ClearStore, AlterArguments, PassTime
    <1>2. /\ now' \in Nat
          /\ tickets' \in [Tickets -> ApprovalCard \cup {None}]
          /\ \A t \in Tickets : CardStep(t)
        <2>1. CASE Sweep \/ \E t \in Tickets : Poll(t)
            BY <2>1, ReadersRefresh, RefreshSteps
            DEF Sweep, Poll, StoreInv, TypeOK, StoreTypeOK
        <2>2. CASE ClearStore
            BY <2>2 DEF ClearStore, Clear, CardStep, StoreInv, TypeOK, StoreTypeOK
        <2>3. ASSUME NEW t \in Tickets, NEW args \in Args, AlterArguments(t, args)
              PROVE  /\ now' \in Nat
                     /\ tickets' \in [Tickets -> ApprovalCard \cup {None}]
                     /\ \A u \in Tickets : CardStep(u)
            <3>1. tickets[t] \in ApprovalCard
                BY <2>3 DEF AlterArguments, Known, StoreInv, TypeOK, StoreTypeOK
            <3>2. [tickets[t] EXCEPT !.args = args] \in ApprovalCard
                BY <3>1 DEF ApprovalCard
            <3> QED
                BY <2>3, <3>2
                DEF AlterArguments, CardStep, StoreInv, TypeOK, StoreTypeOK
        <2>4. CASE PassTime
            BY <2>4, MaxTimeIsNat
            DEF PassTime, Tick, StepBack, CardStep, StoreInv, TypeOK, StoreTypeOK
        <2> QED
            BY <2>1, <2>2, <2>3, <2>4 DEF Environment
    <1> QED
        BY <1>1, <1>2
        DEF Steps, StageStep, CallStep, AnswerStep, StoreInv, TypeOK, StoreTypeOK

\* Every action, whoever interleaves, takes such steps.
LEMMA NextSteps ==
    ASSUME StoreInv, [Next]_vars
    PROVE  TypeOK' /\ Steps
    <1>1. CASE UNCHANGED vars
        BY <1>1 DEF vars, Steps, CardStep, StageStep, CallStep, AnswerStep,
                    StoreInv, TypeOK, StoreTypeOK
    <1>2. ASSUME NEW o \in Operators, Resolve(o) PROVE TypeOK' /\ Steps
        BY <1>2, ReadTicketSteps, ResolveSteps DEF Resolve
    <1> QED
        BY <1>1, <1>2, CreateSteps, EnvironmentSteps DEF Next

-----------------------------------------------------------------------------
(* Such steps preserve the invariant. *)

LEMMA StepsKeep ==
    ASSUME StoreInv, TypeOK', Steps
    PROVE  StoreInv'
    <1>1. \A t \in Tickets : stage[t] \notin {"unborn", "built"} =>
                                 stage'[t] \notin {"unborn", "built"}
        BY DEF Steps, StageStep
    <1>2. SavedIfKnown'
        BY <1>1, NoneIsNoCard DEF StoreInv, SavedIfKnown, Steps, CardStep, Decides, Known
    <1>3. CallsNameTickets'
        BY DEF StoreInv, CallsNameTickets, Steps, CallStep, AnswerStep, Opened,
               Refusals, Decision
    <1>4. DraftFresh'
        BY DEF StoreInv, DraftFresh, Steps, StageStep
    <1>5. \A t \in Tickets : Known(t)' /\ stage[t] \notin {"unborn", "built"} =>
              Known(t) /\ tickets'[t].token = tickets[t].token
        <2> SUFFICES ASSUME NEW t \in Tickets, Known(t)',
                            stage[t] \notin {"unborn", "built"}
                     PROVE  Known(t) /\ tickets'[t].token = tickets[t].token
            OBVIOUS
        <2>1. CASE tickets'[t] = tickets[t]
            BY <2>1 DEF Known
        <2>2. CASE Known(t) /\ tickets'[t] # tickets[t]
            <3>1. tickets[t] \in ApprovalCard
                BY <2>2 DEF Known, StoreInv, TypeOK, StoreTypeOK
            <3>2. ASSUME NEW o \in Operators, Decides(o, t)
                  PROVE  tickets'[t].token = tickets[t].token
                BY <3>1, <3>2 DEF Decides, ApprovalCard
            <3>3. ASSUME NEW args \in Args,
                         tickets'[t] = [tickets[t] EXCEPT !.args = args]
                  PROVE  tickets'[t].token = tickets[t].token
                BY <3>1, <3>3 DEF ApprovalCard
            <3>4. Refreshed(tickets[t]).token = tickets[t].token
                BY <3>1, RefreshedIsCard
            <3> QED
                BY <2>2, <3>2, <3>3, <3>4 DEF Steps, CardStep, Known
        <2> QED
            BY <2>1, <2>2 DEF Steps, CardStep, Known
    <1>6. CheckedSigned'
        <2> SUFFICES ASSUME NEW o \in Operators,
                            call'[o].state \in {"checked"} \cup Decision
                     PROVE  LET t == call'[o].ticket
                            IN /\ stage'[t] \notin {"unborn", "built"}
                               /\ call'[o].verify # None /\ tickets'[t] # None
                                      => call'[o].verify = tickets'[t].token.args
            BY DEF CheckedSigned, Known
        <2>1. CASE call[o].state \in {"checked"} \cup Decision
            <3>1. /\ call'[o].ticket = call[o].ticket
                  /\ call'[o].verify = call[o].verify
                BY <2>1 DEF Steps, CallStep, Decision
            <3>2. call[o].ticket \in Tickets
                BY <2>1 DEF StoreInv, CallsNameTickets, Decision
            <3> QED
                BY <1>1, <1>5, <2>1, <3>1, <3>2 DEF StoreInv, CheckedSigned, Known
        <2>2. CASE call[o].state \notin {"checked"} \cup Decision
            <3>1. Opened(o) /\ call'[o].state = "checked"
                BY <2>2 DEF Steps, CallStep, Refusals, Decision
            <3>2. stage[call'[o].ticket] \notin {"unborn", "built"}
                BY <3>1 DEF Opened, StoreInv, SavedIfKnown
            <3> QED
                BY <1>1, <1>5, <3>1, <3>2 DEF Opened, Known
        <2> QED
            BY <2>1, <2>2
    <1>7. \A o \in Operators, t \in Tickets : Resolver(o, t) => Resolver(o, t)'
        BY DEF Steps, CallStep, AnswerStep, Resolver, StoreInv, CallsNameTickets
    <1>8. DecisionsExplained'
        <2> SUFFICES ASSUME NEW t \in Tickets, Known(t)',
                            tickets'[t].status \in Decision
                     PROVE  \E o \in Operators : Resolver(o, t)'
            BY DEF DecisionsExplained
        <2>1. \/ \E o \in Operators : Resolver(o, t)'
              \/ Known(t) /\ tickets[t].status \in Decision
            <3>1. CASE Known(t)
                <4>1. tickets[t] \in ApprovalCard
                    BY <3>1 DEF StoreInv, TypeOK, StoreTypeOK, Known
                <4>2. stage[t] # "built"
                    BY <3>1 DEF StoreInv, SavedIfKnown
                <4>3. ASSUME NEW args \in Args,
                             tickets'[t] = [tickets[t] EXCEPT !.args = args]
                      PROVE  tickets[t].status \in Decision
                    BY <4>1, <4>3 DEF ApprovalCard
                <4>4. ASSUME NEW o \in Operators, Decides(o, t)
                      PROVE  Resolver(o, t)'
                    BY <4>4 DEF Decides
                <4>5. Refreshed(tickets[t]).status \in Decision
                          => tickets[t].status \in Decision
                    BY <4>1 DEF Refreshed, ApprovalCard, Decision
                <4> QED
                    BY <3>1, <4>2, <4>3, <4>4, <4>5 DEF Steps, CardStep, Known
            <3>2. CASE ~Known(t)
                BY <3>2 DEF Steps, CardStep, Known, StoreInv, DraftFresh, Decision
            <3> QED
                BY <3>1, <3>2
        <2> QED
            BY <1>7, <2>1 DEF StoreInv, DecisionsExplained
    <1>9. RefusalExplained'
        <2> SUFFICES ASSUME NEW o \in Operators,
                            call'[o].state = "AlreadyResolved"
                     PROVE  \E p \in Operators : Resolver(p, call[o].ticket)'
            BY DEF RefusalExplained, Resolver
        <2>1. CASE call'[o] = call[o]
            <3>1. call[o].ticket \in Tickets
                BY <2>1 DEF StoreInv, CallsNameTickets
            <3>2. PICK p \in Operators : Resolver(p, call[o].ticket)
                BY <2>1 DEF StoreInv, RefusalExplained, Resolver
            <3> QED
                BY <1>7, <2>1, <3>1, <3>2 DEF Resolver
        <2>2. CASE Opened(o)
            <3>1. /\ call'[o].ticket \in Tickets
                  /\ Known(call'[o].ticket)
                  /\ tickets[call'[o].ticket].status \in Decision
                BY <2>2 DEF Opened
            <3>2. PICK p \in Operators : Resolver(p, call'[o].ticket)
                BY <3>1 DEF StoreInv, DecisionsExplained
            <3> QED
                BY <1>7, <3>1, <3>2 DEF Resolver
        <2> QED
            BY <2>1, <2>2 DEF Steps, CallStep, Decision
    <1> QED
        BY <1>2, <1>3, <1>4, <1>6, <1>8, <1>9 DEF StoreInv

LEMMA InitStoreInv == Init => StoreInv
    BY InitIInv
    DEF IInv, Init, StoreInit, IdleCall, StoreInv, SavedIfKnown, CheckedSigned,
        DecisionsExplained, RefusalExplained, Known, Decision

-----------------------------------------------------------------------------
(* The theorems *)

\* StoreInv holds in every reachable state, with any store and any
\* cancellations.
THEOREM StoreInvariance == Spec => []StoreInv
    <1>1. StoreInv /\ [Next]_vars => StoreInv'
        BY NextSteps, StepsKeep
    <1> QED
        BY InitStoreInv, <1>1, PTL DEF Spec

\* Type correctness: the deadline, the decision and the operator of a card,
\* and what a call returns or raises, are what the code's annotations say.
THEOREM TypeCorrect == Spec => []TypeOK
    <1>1. StoreInv => TypeOK
        BY DEF StoreInv
    <1> QED
        BY StoreInvariance, <1>1, PTL

\* If the operator presented arguments, the decision goes with the arguments
\* that were signed when the ticket was created.
THEOREM DecisionsSigned == Spec => []SignedArguments
    <1>1. StoreInv => SignedArguments
        BY DEF StoreInv, CheckedSigned, SignedArguments, Decided
    <1> QED
        BY StoreInvariance, <1>1, PTL

\* Who is told that a ticket is already resolved is told the truth: the store
\* has taken some call's decision, if only of one that was cancelled since.
THEOREM RefusalsTrue == Spec => []RefusalExplained
    <1>1. StoreInv => RefusalExplained
        BY DEF StoreInv
    <1> QED
        BY StoreInvariance, <1>1, PTL

\* The TTL check in the critical section of the write is enough for any
\* store: no interleaving gives a PENDING card a decision past its deadline.
THEOREM NoLateDecision == Spec => PendingDecidedInTime
    <1> DEFINE InTime == \A t \in Tickets :
          Known(t) /\ tickets[t].status = "PENDING" /\ tickets'[t] # None
            /\ tickets'[t].status \in Decision
              => now <= tickets[t].expires
    <1>1. ASSUME StoreInv, [Next]_vars PROVE InTime
        <2> SUFFICES ASSUME NEW t \in Tickets, Known(t),
                            tickets[t].status = "PENDING", tickets'[t] # None,
                            tickets'[t].status \in Decision
                     PROVE  now <= tickets[t].expires
            OBVIOUS
        <2>1. tickets[t] \in ApprovalCard /\ now \in Nat /\ stage[t] # "built"
            BY <1>1 DEF StoreInv, TypeOK, StoreTypeOK, Known, SavedIfKnown
        <2>2. tickets'[t] # tickets[t] /\ Refreshed(tickets[t]).status \notin Decision
            BY <2>1 DEF Refreshed, Decision, ApprovalCard
        <2>3. \A args : [tickets[t] EXCEPT !.args = args].status = "PENDING"
            BY <2>1 DEF ApprovalCard
        <2>4. ~UpdateTooLate(t)
            BY <1>1, <2>1, <2>2, <2>3, NextSteps
            DEF Steps, CardStep, Decides, Decision
        <2> QED
            BY <2>1, <2>4 DEF UpdateTooLate, Lapsed, ApprovalCard
    <1>2. StoreInv /\ [Next]_vars => [InTime]_vars
        BY <1>1
    <1> QED
        BY StoreInvariance, <1>2, PTL DEF Spec, PendingDecidedInTime

=============================================================================
