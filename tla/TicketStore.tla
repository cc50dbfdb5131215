----------------------------- MODULE TicketStore -----------------------------
(***************************************************************************)
(* core/state_store.py: the ticket table and its operations, each of them  *)
(* one critical section of the store's lock and therefore one step.  Time  *)
(* is the wall clock behind utc_now() (core/contracts.py), which an        *)
(* operating system may also set back.                                     *)
(*                                                                         *)
(* The module gives the operations only; who calls them, and what happens  *)
(* between two calls, is the business of the modules that extend it.       *)
(***************************************************************************)
EXTENDS TagContracts, CryptoSigner

CONSTANTS Operators,  \* operator identifiers, as recorded on a decided card
          Unnamed,    \* those among them that are an empty string
          None,       \* Python's None
          MaxTime     \* bound on the clock

ASSUME UnnamedOperate == Unnamed \subseteq Operators

ASSUME NoneIsNoMember ==
    None \notin Tickets \cup Args \cup Operators

ASSUME MaxTimeIsNat == MaxTime \in Nat

VARIABLES now,      \* what utc_now() returns
          tickets   \* self._tickets: the card of each known ticket

storeVars == <<now, tickets>>

\* ApprovalCard, less the fields that are only shown to the operator.
ApprovalCard == [status   : TicketStatus,
                 expires  : Int,
                 args     : Args,
                 token    : Token,
                 operator : Operators \cup {None}]

ASSUME NoneIsNoCard == None \notin ApprovalCard

StoreTypeOK ==
    /\ now \in Nat
    /\ tickets \in [Tickets -> ApprovalCard \cup {None}]

StoreInit ==
    /\ now = 0
    /\ tickets = [t \in Tickets |-> None]

-----------------------------------------------------------------------------
(* Helpers *)

Known(t) == tickets[t] # None

\* A card that is still good at the very instant of its deadline.
Lapsed(card) == now > card.expires

\* Mutation: the card of a ticket that was already settled expires as well.
RefreshedWhateverStatus(card) ==
    IF Lapsed(card) THEN [card EXCEPT !.status = "EXPIRED"] ELSE card

\* The lazy evaluation of the TTL that every reader performs.
Refreshed(card) ==
    IF card.status = "PENDING" /\ Lapsed(card)
    THEN [card EXCEPT !.status = "EXPIRED"]
    ELSE card

\* Mutation: update_ticket_status trusts the reader to have checked the TTL.
UpdateTooLateNever(t) == FALSE

\* The TTL check that update_ticket_status makes in the critical section of
\* its write.  It only looks at cards that are still PENDING.
UpdateTooLate(t) == tickets[t].status = "PENDING" /\ Lapsed(tickets[t])

-----------------------------------------------------------------------------
(* Operations *)

SaveTicket(t, card) == tickets' = [tickets EXCEPT ![t] = card]

\* get_ticket: the caller receives tickets'[t], or None for an unknown ticket.
GetTicket(t) ==
    tickets' = IF Known(t) THEN [tickets EXCEPT ![t] = Refreshed(@)]
                           ELSE tickets

\* update_ticket_status raises KeyError: there is no such ticket.
UpdateUnknown(t) ==
    /\ ~Known(t)
    /\ UNCHANGED tickets

\* update_ticket_status raises ApprovalExpiredError, and marks the card.
UpdateExpired(t) ==
    /\ Known(t)
    /\ UpdateTooLate(t)
    /\ tickets' = [tickets EXCEPT ![t].status = "EXPIRED"]

\* Mutation: the decision is stored without the operator who made it.
UpdateStoredAnonymously(t, status, operator) ==
    /\ Known(t)
    /\ ~UpdateTooLate(t)
    /\ tickets' = [tickets EXCEPT ![t].status = status]

\* Mutation: the two values are passed in each other's place.
UpdateStoredSwapped(t, status, operator) ==
    /\ Known(t)
    /\ ~UpdateTooLate(t)
    /\ tickets' = [tickets EXCEPT ![t].status = operator,
                                  ![t].operator = status]

\* update_ticket_status writes the status it is given, whatever it replaces,
\* and the operator if there is a name to write.
UpdateStored(t, status, operator) ==
    /\ Known(t)
    /\ ~UpdateTooLate(t)
    /\ tickets' = [tickets EXCEPT ![t].status = status,
                      ![t].operator = IF operator \in Unnamed THEN @ ELSE operator]

\* cleanup_expired: one sweep over the whole table, under one clock reading.
CleanupExpired ==
    tickets' = [t \in Tickets |->
                    IF Known(t) THEN Refreshed(tickets[t]) ELSE None]

Clear == tickets' = [t \in Tickets |-> None]

-----------------------------------------------------------------------------
(* The clock *)

Tick == now < MaxTime /\ now' = now + 1

\* The wall clock is set back (time synchronisation).
StepBack == now > 0 /\ now' = now - 1
=============================================================================
