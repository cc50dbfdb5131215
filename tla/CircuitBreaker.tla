--------------------------- MODULE CircuitBreaker ---------------------------
(***************************************************************************)
(* gatekeeper/circuit_breaker.py: the limits on the calls of a session.    *)
(* check_and_increment and reset_session never await, so each is one step. *)
(* Time is time.monotonic(), in ticks of which Window make a minute.       *)
(***************************************************************************)
EXTENDS TagContracts, FiniteSets

CONSTANTS
    Sessions,      \* session identifiers
    MaxCalls,      \* max_calls_per_session
    MaxCritical,   \* max_critical_calls_per_session
    MaxRate,       \* max_rate_per_minute
    Window,        \* the 60 seconds of the sliding window, in ticks
    MaxMono        \* bound on the clock

ASSUME LimitsAreNat ==
    /\ MaxCalls \in Nat
    /\ MaxCritical \in Nat
    /\ MaxRate \in Nat
    /\ Window \in Nat \ {0}
    /\ MaxMono \in Nat

VARIABLES
    mono,           \* time.monotonic()
    totalCalls,     \* self._session_total_calls
    criticalCalls,  \* self._session_critical_calls
    timestamps,     \* self._session_call_timestamps
    tripped,        \* self._tripped_sessions
    admitted,       \* history: the calls admitted since the last reset
    critical        \* history: the critical ones among them

counters == <<totalCalls, criticalCalls, timestamps, admitted, critical>>

breakerVars == <<mono, counters, tripped>>

\* A timestamp in the list is told from an equal one by the number of the
\* call that appended it.
Stamp == [call : Nat \ {0}, at : Nat]

BreakerTypeOK ==
    /\ mono \in Nat
    /\ totalCalls \in [Sessions -> 0 .. MaxCalls]
    /\ criticalCalls \in [Sessions -> 0 .. MaxCritical]
    /\ timestamps \in [Sessions -> SUBSET Stamp]
    /\ tripped \in SUBSET Sessions
    /\ admitted \in [Sessions -> SUBSET Stamp]
    /\ critical \in [Sessions -> SUBSET Stamp]

BreakerInit ==
    /\ mono = 0
    /\ totalCalls = [s \in Sessions |-> 0]
    /\ criticalCalls = [s \in Sessions |-> 0]
    /\ timestamps = [s \in Sessions |-> {}]
    /\ tripped = {}
    /\ admitted = [s \in Sessions |-> {}]
    /\ critical = [s \in Sessions |-> {}]

-----------------------------------------------------------------------------
(* check_and_increment *)

\* The timestamps less than a minute old.
Recent(s) == {c \in timestamps[s] : mono - c.at < Window}

OverRate(s) == Cardinality(Recent(s)) >= MaxRate

\* Mutation: the budget is compared with the calls before this one.
OverTotalOffByOne(s) == totalCalls[s] > MaxCalls

OverTotal(s) == totalCalls[s] + 1 > MaxCalls

\* Mutation: the budget is compared with the critical calls before this one.
OverCriticalOffByOne(s, tier) ==
    tier = "L3_CRITICAL" /\ criticalCalls[s] > MaxCritical

OverCritical(s, tier) ==
    tier = "L3_CRITICAL" /\ criticalCalls[s] + 1 > MaxCritical

\* Mutation: the call is refused, and the session not marked.
TripUnlatched(s) == UNCHANGED breakerVars

\* The call is refused and not counted; the session is marked for good.
Trip(s) ==
    /\ tripped' = tripped \cup {s}
    /\ UNCHANGED <<mono, counters>>

\* A session that has tripped is refused, whatever it did meanwhile.
RefuseTripped(s) ==
    /\ s \in tripped
    /\ UNCHANGED breakerVars

\* Any of the three limits trips the session; which one is looked at first
\* shows in the text of the error only.
TripOnLimit(s, tier) ==
    /\ s \notin tripped
    /\ OverRate(s) \/ OverTotal(s) \/ OverCritical(s, tier)
    /\ Trip(s)

Admits(s, tier) ==
    /\ s \notin tripped
    /\ ~OverRate(s) /\ ~OverTotal(s) /\ ~OverCritical(s, tier)

\* Mutation: the pruned list is written back without the call.
KeptUnstamped(s, stamp) == Recent(s)

\* window.append(now): what becomes of the list of timestamps.
Kept(s, stamp) == Recent(s) \cup {stamp}

Commit(s, tier) ==
    LET isCritical == tier = "L3_CRITICAL"
        stamp      == [call |-> totalCalls[s] + 1, at |-> mono]
    IN /\ Admits(s, tier)
       /\ totalCalls' = [totalCalls EXCEPT ![s] = @ + 1]
       /\ criticalCalls' = IF isCritical THEN [criticalCalls EXCEPT ![s] = @ + 1]
                                         ELSE criticalCalls
       /\ timestamps' = [timestamps EXCEPT ![s] = Kept(s, stamp)]
       /\ admitted' = [admitted EXCEPT ![s] = @ \cup {stamp}]
       /\ critical' = IF isCritical THEN [critical EXCEPT ![s] = @ \cup {stamp}]
                                    ELSE critical
       /\ UNCHANGED <<mono, tripped>>

CheckAndIncrement(s, tier) ==
    RefuseTripped(s) \/ TripOnLimit(s, tier) \/ Commit(s, tier)

-----------------------------------------------------------------------------
\* Mutation: the session gets its budgets back and stays tripped.
ResetSessionCountersOnly(s) ==
    /\ totalCalls' = [totalCalls EXCEPT ![s] = 0]
    /\ criticalCalls' = [criticalCalls EXCEPT ![s] = 0]
    /\ timestamps' = [timestamps EXCEPT ![s] = {}]
    /\ admitted' = [admitted EXCEPT ![s] = {}]
    /\ critical' = [critical EXCEPT ![s] = {}]
    /\ UNCHANGED <<mono, tripped>>

ResetSession(s) ==
    /\ totalCalls' = [totalCalls EXCEPT ![s] = 0]
    /\ criticalCalls' = [criticalCalls EXCEPT ![s] = 0]
    /\ timestamps' = [timestamps EXCEPT ![s] = {}]
    /\ tripped' = tripped \ {s}
    /\ admitted' = [admitted EXCEPT ![s] = {}]
    /\ critical' = [critical EXCEPT ![s] = {}]
    /\ UNCHANGED mono

TickMono ==
    /\ mono < MaxMono
    /\ mono' = mono + 1
    /\ UNCHANGED <<counters, tripped>>

BreakerNext ==
    \/ \E s \in Sessions, tier \in ToolTier : CheckAndIncrement(s, tier)
    \/ \E s \in Sessions : ResetSession(s)
    \/ TickMono

BreakerSpec == BreakerInit /\ [][BreakerNext]_breakerVars

-----------------------------------------------------------------------------
(* Properties *)

\* A sliding window, not a calendar minute: at the instant of any admitted
\* call, the calls admitted in the minute that ends there are within the rate,
\* although the list of timestamps is pruned whenever a call is admitted.
RateHolds ==
    \A s \in Sessions : \A c \in admitted[s] :
        Cardinality({d \in admitted[s] : d.at <= c.at /\ c.at - d.at < Window})
            <= MaxRate

\* The counters and the pruned list are as good as the complete record of
\* admitted calls: a call is admitted, or breaks the session, just when the
\* record says so, and only a reset gives a broken session anything again.
Budget == INSTANCE CallBudget WITH broken <- tripped

ImplementsBudget == Budget!Spec

\* The counters count the record of admitted calls, and the list of
\* timestamps holds that part of the record that the window still needs.
RecordKept ==
    \A s \in Sessions :
        /\ IsFiniteSet(admitted[s])
        /\ totalCalls[s] = Cardinality(admitted[s])
        /\ \A c \in admitted[s] : c.call <= totalCalls[s] /\ c.at <= mono
        /\ critical[s] \subseteq admitted[s]
        /\ criticalCalls[s] = Cardinality(critical[s])
        /\ timestamps[s] \subseteq admitted[s]
        /\ \A c \in admitted[s] : mono - c.at < Window => c \in timestamps[s]

\* The inductive invariant.
BreakerInv == BreakerTypeOK /\ RecordKept /\ RateHolds

=============================================================================
