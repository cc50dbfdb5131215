----------------------------- MODULE Suspension -----------------------------
(***************************************************************************)
(* suspension/controller.py: the SuspensionController, which turns an L3   *)
(* request into a ticket and an operator's decision into its resolution.   *)
(*                                                                         *)
(* create_ticket and resolve_ticket are coroutines, and each consists of   *)
(* pieces separated by awaits.  A piece is an action.  Whether the awaits  *)
(* on the store let another task in depends on the store:                  *)
(*                                                                         *)
(*   StoreYields = FALSE  InMemoryTicketStore on one event loop.  Its lock *)
(*       is never contended, because nothing is awaited while it is held,  *)
(*       so awaiting its methods never gives up the loop.  holder is the   *)
(*       task that has the loop in the middle of such a chain of pieces.   *)
(*   StoreYields = TRUE   a store whose calls do give up the processor:    *)
(*       the StateStore over a shared database that the README calls for.  *)
(*       Each store call is still atomic, but its answer takes a while to  *)
(*       come, and a task may be cancelled while it awaits one, before the *)
(*       call took effect or after.                                        *)
(*                                                                         *)
(* The clock runs in both cases, between any two pieces.  Not modelled is  *)
(* one InMemoryTicketStore used from several threads: its class comment    *)
(* calls it thread-safe, and its lock is one that serves a single loop.    *)
(***************************************************************************)
EXTENDS TicketStore

CONSTANTS
    StoreYields,     \* does awaiting the store let other tasks run?
    Alterations,     \* may a holder of a card change its arguments?
    DefaultTTL,      \* default_ttl_seconds
    RequestedTTLs    \* values of the ttl_seconds parameter; may hold None
                     \* and numbers below zero

ASSUME ModesAreBoolean == StoreYields \in BOOLEAN /\ Alterations \in BOOLEAN

ASSUME TTLsAreInt == DefaultTTL \in Int /\ RequestedTTLs \subseteq Int \cup {None}

ASSUME TasksDistinct == Tickets \cap Operators = {}

VARIABLES
    stage,     \* where create_ticket stands, for each ticket
    draft,     \* the card create_ticket has built and not yet saved
    call,      \* the resolve_ticket call of each operator
    answers,   \* what the store has made of its update, seen by it or not yet
    holder,    \* the task that holds the event loop, or None
    requested  \* history: the ttl asked for and the time it was asked at

vars == <<now, tickets, stage, draft, call, answers, holder, requested>>

Stage == {"unborn", "built", "notifying", "returned", "raised"}

Decision == {"APPROVED", "REJECTED"}

\* KeyError, ApprovalExpiredError, ValueError, ApprovalTamperedError, and
\* the CancelledError of a task that is cancelled.
Refusals == {"Unknown", "Expired", "AlreadyResolved", "Tampered", "Cancelled"}

\* A call is idle, has passed the checks that follow its read of the ticket
\* ("checked"), has returned a decided card, or has raised.
CallState == {"idle", "checked"} \cup Decision \cup Refusals

Call == [state    : CallState,
         ticket   : Tickets \cup {None},
         approved : BOOLEAN,
         verify   : Args \cup {None}]

\* The outcome of update_ticket_status: the card that it returns, of which its
\* arguments are told, or what it raises.
Answer == [outcome : Decision, args : Args]
              \cup [outcome : {"Unknown", "Expired"}, args : {None}]

ASSUME NoneIsNoAnswer == None \notin Answer

IdleCall == [state |-> "idle", ticket |-> None,
             approved |-> FALSE, verify |-> None]

TypeOK ==
    /\ StoreTypeOK
    /\ stage \in [Tickets -> Stage]
    /\ draft \in [Tickets -> ApprovalCard \cup {None}]
    /\ call \in [Operators -> Call]
    /\ answers \in [Operators -> Answer \cup {None}]
    /\ holder \in Tickets \cup Operators \cup {None}
    /\ requested \in [Tickets -> [ttl : Int \cup {None}, at : Nat]]

Init ==
    /\ StoreInit
    /\ stage = [t \in Tickets |-> "unborn"]
    /\ draft = [t \in Tickets |-> None]
    /\ call = [o \in Operators |-> IdleCall]
    /\ answers = [o \in Operators |-> None]
    /\ holder = None
    /\ requested = [t \in Tickets |-> [ttl |-> None, at |-> 0]]

-----------------------------------------------------------------------------
(* The event loop *)

\* Mutation: a task in the middle of its chain waits for the loop to be free.
MayRunNotReentrant(task) == holder = None

MayRun(task) == holder \in {None, task}

\* Mutation: the task lets others run between its store calls.
AwaitStoreYields(task) == holder' = None

\* The task goes on to await the store, and keeps the loop if that is free.
AwaitStore(task) == holder' = IF StoreYields THEN None ELSE task

\* The task returns, raises, or awaits something that really suspends it.
Yield == holder' = None

-----------------------------------------------------------------------------
(* create_ticket *)

\* ttl_seconds or self.default_ttl_seconds: a zero is as good as no value, and
\* a negative number is a value.
EffectiveTTL(ttl) == IF ttl \in {None, 0} THEN DefaultTTL ELSE ttl

\* Everything up to the await of save_ticket.
BuildCard(t, args, ttl) ==
    /\ stage[t] = "unborn"
    /\ MayRun(t)
    /\ stage' = [stage EXCEPT ![t] = "built"]
    /\ draft' = [draft EXCEPT ![t] =
                    [status   |-> "PENDING",
                     expires  |-> now + EffectiveTTL(ttl),
                     args     |-> args,
                     token    |-> GenerateToken(t, args),
                     operator |-> None]]
    /\ requested' = [requested EXCEPT ![t] = [ttl |-> ttl, at |-> now]]
    /\ AwaitStore(t)
    /\ UNCHANGED <<now, tickets, call, answers>>

\* save_ticket and what follows it up to the next suspension: with no
\* on_suspended_event, or a plain function, create_ticket ends here, by
\* returning or by raising what the function raised; with a coroutine, or
\* while the answer of a store that yields is on its way, the ticket is live
\* and create_ticket still waits ("notifying").
SaveCard(t) ==
    /\ stage[t] = "built"
    /\ MayRun(t)
    /\ SaveTicket(t, draft[t])
    /\ draft' = [draft EXCEPT ![t] = None]
    /\ \E next \in {"returned", "notifying", "raised"} :
           stage' = [stage EXCEPT ![t] = next]
    /\ Yield
    /\ UNCHANGED <<now, call, answers, requested>>

\* The awaited notification ends; if it raises, so does create_ticket, and
\* its caller never learns the identifier of a ticket that exists.
EndNotification(t) ==
    /\ stage[t] = "notifying"
    /\ MayRun(t)
    /\ \E next \in {"returned", "raised"} : stage' = [stage EXCEPT ![t] = next]
    /\ Yield
    /\ UNCHANGED <<now, tickets, draft, call, answers, requested>>

\* create_ticket is cancelled while it awaits save_ticket.  Its caller gets
\* no ticket; whether the store has one depends on how far the call had got.
CancelCreate(t) ==
    /\ StoreYields
    /\ stage[t] = "built"
    /\ SaveTicket(t, draft[t]) \/ UNCHANGED tickets
    /\ draft' = [draft EXCEPT ![t] = None]
    /\ stage' = [stage EXCEPT ![t] = "raised"]
    /\ UNCHANGED <<now, call, answers, holder, requested>>

-----------------------------------------------------------------------------
(* resolve_ticket *)

\* Mutation: a ticket that is already resolved can be resolved again.
OutcomeIfAnyLive(t, card, verify) ==
    CASE card.status = "EXPIRED" -> "Expired"
      [] card.status # "EXPIRED" /\ verify # None
            /\ ~VerifyToken(t, verify, card.token) -> "Tampered"
      [] OTHER -> "checked"

\* Mutation: the arguments presented are not compared with the signature.
OutcomeUnverified(t, card, verify) ==
    CASE card.status = "EXPIRED"   -> "Expired"
      [] card.status \in Decision  -> "AlreadyResolved"
      [] OTHER                     -> "checked"

\* Mutation: an expired ticket is reported as resolved by somebody else.
OutcomeExpiredIsResolved(t, card, verify) ==
    CASE card.status # "PENDING"   -> "AlreadyResolved"
      [] card.status = "PENDING" /\ verify # None
            /\ ~VerifyToken(t, verify, card.token) -> "Tampered"
      [] OTHER                     -> "checked"

\* The checks on the card that get_ticket returned, in their order.
CheckOutcome(t, card, verify) ==
    CASE card.status = "EXPIRED"   -> "Expired"
      [] card.status \in Decision  -> "AlreadyResolved"
      [] card.status = "PENDING" /\ verify # None
            /\ ~VerifyToken(t, verify, card.token) -> "Tampered"
      [] OTHER                     -> "checked"

Settle(o, state) == call' = [call EXCEPT ![o].state = state]

\* From the start of resolve_ticket to the await of update_ticket_status.  The
\* checks are made on the card that get_ticket returned and see nothing of what
\* others do meanwhile: they may as well be made at once.
ReadTicket(o, t, approved, verify) ==
    LET outcome == IF Known(t)
                   THEN CheckOutcome(t, Refreshed(tickets[t]), verify)
                   ELSE "Unknown"
    IN /\ call[o].state = "idle"
       /\ MayRun(o)
       /\ GetTicket(t)
       /\ call' = [call EXCEPT ![o] = [state |-> outcome, ticket |-> t,
                                       approved |-> approved, verify |-> verify]]
       /\ IF outcome = "checked" THEN AwaitStore(o) ELSE Yield
       /\ UNCHANGED <<now, stage, draft, answers, requested>>

NewStatus(o) == IF call[o].approved THEN "APPROVED" ELSE "REJECTED"

Answers(o, outcome, args) ==
    answers' = [answers EXCEPT ![o] = [outcome |-> outcome, args |-> args]]

\* The three ends of update_ticket_status.
UpdateStatus(o) ==
    LET t == call[o].ticket
    IN \/ UpdateUnknown(t) /\ Answers(o, "Unknown", None)
       \/ UpdateExpired(t) /\ Answers(o, "Expired", None)
       \/ UpdateStored(t, NewStatus(o), o) /\ Answers(o, NewStatus(o), tickets[t].args)

\* A store that yields acts, and its caller has yet to learn of it.
WriteDecision(o) ==
    /\ StoreYields
    /\ call[o].state = "checked"
    /\ answers[o] = None
    /\ UpdateStatus(o)
    /\ UNCHANGED <<now, stage, draft, call, holder, requested>>

\* resolve_ticket returns or raises, as the store has answered or does now.
DecideTicket(o) ==
    /\ call[o].state = "checked"
    /\ MayRun(o)
    /\ IF answers[o] = None THEN UpdateStatus(o) ELSE UNCHANGED <<tickets, answers>>
    /\ Settle(o, answers'[o].outcome)
    /\ Yield
    /\ UNCHANGED <<now, stage, draft, requested>>

\* resolve_ticket is cancelled while it awaits update_ticket_status: if the
\* store has acted, the ticket is decided and nobody is told.
CancelResolve(o) ==
    /\ StoreYields
    /\ call[o].state = "checked"
    /\ Settle(o, "Cancelled")
    /\ UNCHANGED <<now, tickets, stage, draft, answers, holder, requested>>

-----------------------------------------------------------------------------
(* The other users of the store, and the environment *)

\* get_ticket on behalf of anyone.
Poll(t) ==
    /\ MayRun(None)
    /\ GetTicket(t)
    /\ UNCHANGED <<now, stage, draft, call, answers, holder, requested>>

Sweep ==
    /\ MayRun(None)
    /\ CleanupExpired
    /\ UNCHANGED <<now, stage, draft, call, answers, holder, requested>>

ClearStore ==
    /\ MayRun(None)
    /\ Clear
    /\ UNCHANGED <<now, stage, draft, call, answers, holder, requested>>

\* The store, the caller of create_ticket and on_suspended_event share one
\* mutable card: whoever holds it may change the arguments of a ticket that
\* is waiting for its review.
AlterArguments(t, args) ==
    /\ Alterations
    /\ MayRun(None)
    /\ Known(t)
    /\ tickets[t].status = "PENDING"
    /\ tickets' = [tickets EXCEPT ![t].args = args]
    /\ UNCHANGED <<now, stage, draft, call, answers, holder, requested>>

PassTime ==
    /\ Tick \/ StepBack
    /\ UNCHANGED <<tickets, stage, draft, call, answers, holder, requested>>

-----------------------------------------------------------------------------
Create(t) ==
    \/ \E args \in Args, ttl \in RequestedTTLs : BuildCard(t, args, ttl)
    \/ SaveCard(t)
    \/ EndNotification(t)
    \/ CancelCreate(t)

Resolve(o) ==
    \/ \E t \in Tickets, approved \in BOOLEAN, verify \in Args \cup {None} :
           ReadTicket(o, t, approved, verify)
    \/ WriteDecision(o)
    \/ DecideTicket(o)
    \/ CancelResolve(o)

Environment ==
    \/ \E t \in Tickets : Poll(t)
    \/ Sweep
    \/ ClearStore
    \/ \E t \in Tickets, args \in Args : AlterArguments(t, args)
    \/ PassTime

Next ==
    \/ \E t \in Tickets : Create(t)
    \/ \E o \in Operators : Resolve(o)
    \/ Environment

Spec == Init /\ [][Next]_vars

\* The event loop runs every task that is ready, so a coroutine that has been
\* started over InMemoryTicketStore goes on.  Nothing obliges anybody to start
\* one: operators, pollers, the sweep and the clock are unfair.  Of a store
\* that yields nothing is assumed, and no run checks this specification for it.
Fairness ==
    /\ \A o \in Operators : WF_vars(DecideTicket(o))
    /\ \A t \in Tickets : WF_vars(SaveCard(t))

FairSpec == Spec /\ Fairness

-----------------------------------------------------------------------------
(* Properties *)

Decided(o) == call[o].state \in Decision

\* A ticket is resolved once: of all the resolve_ticket calls made for it,
\* at most one returns a card, whatever the others see or raise.
DecidedOnce ==
    \A o1, o2 \in Operators :
        Decided(o1) /\ Decided(o2) /\ call[o1].ticket = call[o2].ticket
            => o1 = o2

\* The decision an operator was told is the one in force: as long as the
\* store knows the ticket, it holds that decision under that operator's name,
\* if the operator gave one.
DecisionInForce ==
    \A o \in Operators :
        LET t == call[o].ticket
        IN Decided(o) /\ Known(t) =>
               /\ tickets[t].status = call[o].state
               /\ o \notin Unnamed => tickets[t].operator = o

\* The life of a ticket is PENDING and then one final status: no operation,
\* reader, sweep or late answer rewrites the status of a settled card.
StatusFinal ==
    [][\A t \in Tickets :
          Known(t) /\ tickets[t].status # "PENDING" /\ tickets'[t] # None
              => tickets'[t].status = tickets[t].status]_vars

\* No decision takes effect after the deadline, although the check of the
\* TTL that resolve_ticket itself makes is older than the decision.
DecisionInTime ==
    [][\A o \in Operators :
          ~Decided(o) /\ Decided(o)' => now <= tickets[call[o].ticket].expires]_vars

\* A PENDING card is never given a decision past its deadline.  This is what
\* the TTL check inside the store's critical section secures for any store.
PendingDecidedInTime ==
    [][\A t \in Tickets :
          Known(t) /\ tickets[t].status = "PENDING" /\ tickets'[t] # None
            /\ tickets'[t].status \in Decision
              => now <= tickets[t].expires]_vars

\* An operator told that a ticket is already resolved is told the truth: the
\* store has taken another operator's decision on it, even if that one's call
\* is still on its way back or was cancelled there.
RefusalExplained ==
    \A o \in Operators : call[o].state = "AlreadyResolved" =>
        \E other \in Operators :
            /\ answers[other] # None
            /\ answers[other].outcome \in Decision
            /\ call[other].ticket = call[o].ticket

\* If the operator presented arguments, the decision goes with the arguments
\* that were signed when the ticket was created.
SignedArguments ==
    \A o \in Operators :
        LET t == call[o].ticket
        IN Decided(o) /\ call[o].verify # None /\ Known(t)
               => call[o].verify = tickets[t].token.args

\* No task keeps the event loop: whoever is in the middle of a chain of store
\* calls comes to the end of it, whatever became of the ticket meanwhile, and
\* lets the other tasks run.
LoopReleased == holder # None ~> holder = None

-----------------------------------------------------------------------------
(* Claims of the documentation that the code does not keep *)

\* README.md, architectural rationale: the HMAC serves "to detect accidental
\* alteration while ticket is pending review".  So a call that presents the
\* arguments and is not refused returns a card with these arguments.
AlterationDetected ==
    [][\A o \in Operators :
          LET t == call[o].ticket
          IN ~Decided(o) /\ Decided(o)' /\ call[o].verify # None
                 => tickets'[t].args = call[o].verify]_vars

\* tests/test_suspension.py, test_ttl_expiration: ttl_seconds=0 is commented
\* "Expire immediately".
RequestedTTLHonoured ==
    \A t \in Tickets :
        Known(t) /\ requested[t].ttl # None
            => tickets[t].expires = requested[t].at + requested[t].ttl
=============================================================================
