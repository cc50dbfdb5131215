------------------------ MODULE SuspensionRefinement ------------------------
(***************************************************************************)
(* The approval tickets as the ledger sees them.  A ticket is issued when  *)
(* its card reaches the store, and forgotten when the store is cleared.    *)
(***************************************************************************)
EXTENDS Suspension

Entry(t) ==
    IF Known(t)
    THEN [status |-> tickets[t].status, deadline |-> tickets[t].expires]
    ELSE [status   |-> IF stage[t] \in {"unborn", "built"} THEN "UNISSUED"
                                                           ELSE "FORGOTTEN",
          deadline |-> 0]

Book == [t \in Tickets |-> Entry(t)]

Told == [o \in Operators |->
            IF Decided(o) THEN [ticket |-> call[o].ticket,
                                status |-> call[o].state]
                          ELSE None]

Ledger == INSTANCE ApprovalLedger WITH book <- Book, verdict <- Told

\* On one event loop over InMemoryTicketStore, create_ticket, resolve_ticket,
\* the store's readers and its sweep do what the ledger promises: reading and
\* deciding, two critical sections in the code, act as one step.
ImplementsLedger == Ledger!Spec

-----------------------------------------------------------------------------
(* What holds in between, on one event loop. *)

\* A call beyond idle names its ticket; until then the store has not been
\* asked for anything.
CallsNameTickets ==
    \A o \in Operators : /\ call[o].state # "idle" => call[o].ticket \in Tickets
                         /\ call[o].state = "idle" => answers[o] = None

\* Between its read and its write a call owns the loop, so what it read is
\* still so, but for the clock.
ReadStillTrue ==
    \A o \in Operators : call[o].state = "checked" =>
        /\ holder = o
        /\ answers[o] = None
        /\ Known(call[o].ticket)
        /\ tickets[call[o].ticket].status = "PENDING"

\* A ticket that has not been saved is unknown to everybody but its creator.
UnsavedUnknown ==
    \A t \in Tickets : stage[t] \in {"unborn", "built"} =>
        /\ tickets[t] = None
        /\ \A o \in Operators : Decided(o) => call[o].ticket # t

\* What create_ticket is about to save is a fresh card.
DraftFresh ==
    \A t \in Tickets : stage[t] = "built" =>
        draft[t] \in ApprovalCard /\ draft[t].status = "PENDING"

\* The inductive invariant.
IInv ==
    /\ TypeOK
    /\ CallsNameTickets
    /\ ReadStillTrue
    /\ UnsavedUnknown
    /\ DraftFresh
    /\ DecisionInForce
    /\ DecidedOnce
=============================================================================
