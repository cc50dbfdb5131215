----------------------------- MODULE CallBudget -----------------------------
(***************************************************************************)
(* What the circuit breaker promises a session: a budget of calls, one of  *)
(* critical calls, and a rate, all judged on the complete record of what   *)
(* was admitted since the last reset.  The session is broken when a call   *)
(* comes that one of them does not allow, and stays broken.                *)
(***************************************************************************)
EXTENDS Integers, FiniteSets

CONSTANTS Sessions, MaxCalls, MaxCritical, MaxRate, Window

VARIABLES
    mono,      \* the time
    admitted,  \* the calls admitted since the last reset: [call, at]
    critical,  \* those of them that were critical
    broken     \* the sessions that get nothing any more

vars == <<mono, admitted, critical, broken>>

Init ==
    /\ mono = 0
    /\ admitted = [s \in Sessions |-> {}]
    /\ critical = [s \in Sessions |-> {}]
    /\ broken = {}

Lately(s) == {c \in admitted[s] : mono - c.at < Window}

\* There is room for a call.
Allowed(s, isCritical) ==
    /\ Cardinality(Lately(s)) < MaxRate
    /\ Cardinality(admitted[s]) < MaxCalls
    /\ isCritical => Cardinality(critical[s]) < MaxCritical

Admit(s, isCritical) ==
    LET c == [call |-> Cardinality(admitted[s]) + 1, at |-> mono]
    IN /\ s \notin broken
       /\ Allowed(s, isCritical)
       /\ admitted' = [admitted EXCEPT ![s] = @ \cup {c}]
       /\ critical' = [critical EXCEPT ![s] = IF isCritical THEN @ \cup {c} ELSE @]
       /\ UNCHANGED <<mono, broken>>

Break(s, isCritical) ==
    /\ s \notin broken
    /\ ~Allowed(s, isCritical)
    /\ broken' = broken \cup {s}
    /\ UNCHANGED <<mono, admitted, critical>>

Reset(s) ==
    /\ admitted' = [admitted EXCEPT ![s] = {}]
    /\ critical' = [critical EXCEPT ![s] = {}]
    /\ broken' = broken \ {s}
    /\ UNCHANGED mono

PassTime ==
    /\ mono' = mono + 1
    /\ UNCHANGED <<admitted, critical, broken>>

Next ==
    \/ \E s \in Sessions, isCritical \in BOOLEAN :
           Admit(s, isCritical) \/ Break(s, isCritical)
    \/ \E s \in Sessions : Reset(s)
    \/ PassTime

Spec == Init /\ [][Next]_vars
=============================================================================
