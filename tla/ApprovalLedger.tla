--------------------------- MODULE ApprovalLedger ---------------------------
(***************************************************************************)
(* What the approval half of the guard promises, with no tasks, stores or  *)
(* checks: a book of tickets, each with a status and a deadline, and the   *)
(* verdict every operator was given.  A verdict and the status of its      *)
(* ticket change in one step, out of PENDING, and before the deadline.     *)
(***************************************************************************)
EXTENDS Integers

CONSTANTS Tickets, Operators, None

VARIABLES
    now,     \* the time
    book,    \* the status and the deadline of each ticket
    verdict  \* what each operator was told: a ticket and its decision

vars == <<now, book, verdict>>

Decision == {"APPROVED", "REJECTED"}

\* A FORGOTTEN ticket was issued once and its record is gone.
BookStatus == {"UNISSUED", "PENDING", "EXPIRED", "FORGOTTEN"} \cup Decision

Unissued == [status |-> "UNISSUED", deadline |-> 0]

Forgotten == [status |-> "FORGOTTEN", deadline |-> 0]

Init ==
    /\ now = 0
    /\ book = [t \in Tickets |-> Unissued]
    /\ verdict = [o \in Operators |-> None]

\* A ticket may be issued with any deadline, one that has passed included.
Issue(t) ==
    /\ book[t].status = "UNISSUED"
    /\ book'[t].deadline \in Int
    /\ book' = [book EXCEPT ![t] = [status   |-> "PENDING",
                                   deadline |-> book'[t].deadline]]
    /\ UNCHANGED <<now, verdict>>

Decide(o, t, decision) ==
    /\ verdict[o] = None
    /\ book[t].status = "PENDING"
    /\ now <= book[t].deadline
    /\ book' = [book EXCEPT ![t].status = decision]
    /\ verdict' = [verdict EXCEPT ![o] = [ticket |-> t, status |-> decision]]
    /\ UNCHANGED now

Overdue(t) == book[t].status = "PENDING" /\ now > book[t].deadline

\* Some of the tickets that are overdue expire, and no other does.
Expire(S) ==
    /\ \A t \in S : Overdue(t)
    /\ book' = [t \in Tickets |->
                   IF t \in S THEN [book[t] EXCEPT !.status = "EXPIRED"]
                              ELSE book[t]]
    /\ UNCHANGED <<now, verdict>>

Forget ==
    /\ book' = [t \in Tickets |->
                   IF book[t].status = "UNISSUED" THEN book[t] ELSE Forgotten]
    /\ UNCHANGED <<now, verdict>>

SetClock ==
    /\ now' \in Nat
    /\ UNCHANGED <<book, verdict>>

Next ==
    \/ \E t \in Tickets : Issue(t)
    \/ \E o \in Operators, t \in Tickets, decision \in Decision :
           Decide(o, t, decision)
    \/ \E S \in SUBSET Tickets : Expire(S)
    \/ Forget
    \/ SetClock

Spec == Init /\ [][Next]_vars

\* Of all the operators, at most one was given a verdict on a given ticket.
OneVerdict ==
    \A o1, o2 \in Operators :
        verdict[o1] # None /\ verdict[o2] # None
          /\ verdict[o1].ticket = verdict[o2].ticket => o1 = o2
=============================================================================
