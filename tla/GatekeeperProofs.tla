-------------------------- MODULE GatekeeperProofs --------------------------
(***************************************************************************)
(* The limits of the circuit breaker, and the gatekeeper around it: its    *)
(* trail, budgets and latch agree for every number of sessions, tools and  *)
(* requests, and for every limit and window.                               *)
(***************************************************************************)
EXTENDS Gatekeeper, FiniteSetTheorems, SequenceTheorems, TLAPS

-----------------------------------------------------------------------------
(* The circuit breaker. *)

\* The ledger of calls counts as the breaker does.
LEMMA SameCardinality == \A S : Budget!Cardinality(S) = Cardinality(S)
    BY DEF Cardinality, Budget!Cardinality

LEMMA BreakerInitInv == BreakerInit => BreakerInv
    BY FS_EmptySet, LimitsAreNat
    DEF BreakerInit, BreakerInv, BreakerTypeOK, RecordKept, RateHolds

\* The list of timestamps is finite, and its recent part is that of the record.
LEMMA RecentIsLate ==
    ASSUME BreakerInv, NEW s \in Sessions
    PROVE  /\ Recent(s) = Budget!Lately(s)
           /\ IsFiniteSet(Recent(s))
           /\ Cardinality(Recent(s)) \in Nat
    <1>1. Recent(s) = Budget!Lately(s)
        BY DEF BreakerInv, RecordKept, Recent, Budget!Lately
    <1>2. Budget!Lately(s) \subseteq admitted[s]
        BY DEF Budget!Lately
    <1> QED
        BY <1>1, <1>2, FS_Subset, FS_CardinalityType DEF BreakerInv, RecordKept

\* The breaker admits a call just when the record allows it.
LEMMA SameVerdict ==
    ASSUME BreakerInv, NEW s \in Sessions, NEW tier \in ToolTier
    PROVE  (~OverRate(s) /\ ~OverTotal(s) /\ ~OverCritical(s, tier))
               <=> Budget!Allowed(s, tier = "L3_CRITICAL")
    <1>1. ~OverRate(s) <=> Cardinality(Budget!Lately(s)) < MaxRate
        BY RecentIsLate, LimitsAreNat DEF OverRate
    <1>2. ~OverTotal(s) <=> Cardinality(admitted[s]) < MaxCalls
        BY LimitsAreNat DEF OverTotal, BreakerInv, BreakerTypeOK, RecordKept
    <1>3. ~OverCritical(s, tier)
            <=> (tier = "L3_CRITICAL" => Cardinality(critical[s]) < MaxCritical)
        BY LimitsAreNat DEF OverCritical, BreakerInv, BreakerTypeOK, RecordKept
    <1> QED
        BY <1>1, <1>2, <1>3, SameCardinality DEF Budget!Allowed

LEMMA RefusalKeeps ==
    ASSUME BreakerInv, NEW s \in Sessions, NEW tier \in ToolTier,
           RefuseTripped(s) \/ TripOnLimit(s, tier)
    PROVE  BreakerInv'
    <1>1. tripped' \in SUBSET Sessions /\ UNCHANGED <<mono, counters>>
        BY DEF RefuseTripped, TripOnLimit, Trip, breakerVars, BreakerInv,
               BreakerTypeOK
    <1> QED
        BY <1>1
        DEF counters, BreakerInv, BreakerTypeOK, RecordKept, RateHolds

\* Adding the call to the record keeps the rate: a window that sees the new
\* call ends now, and sees besides it no more than the recent calls.
LEMMA CommitKeeps ==
    ASSUME BreakerInv, NEW s \in Sessions, NEW tier \in ToolTier, Commit(s, tier)
    PROVE  BreakerInv'
    <1> DEFINE n     == totalCalls[s] + 1
               stamp == [call |-> n, at |-> mono]
    <1> USE LimitsAreNat
    <1>1. /\ n \in Nat \ {0} /\ mono \in Nat
          /\ stamp \in Stamp /\ stamp \notin admitted[s]
        BY DEF BreakerInv, BreakerTypeOK, RecordKept, Stamp
    <1>2. /\ totalCalls' = [totalCalls EXCEPT ![s] = n]
          /\ admitted' = [admitted EXCEPT ![s] = @ \cup {stamp}]
          /\ timestamps' = [timestamps EXCEPT ![s] = Recent(s) \cup {stamp}]
          /\ UNCHANGED <<mono, tripped>>
        BY DEF Commit, Kept
    <1>3. \/ /\ tier = "L3_CRITICAL"
             /\ criticalCalls' = [criticalCalls EXCEPT ![s] = @ + 1]
             /\ critical' = [critical EXCEPT ![s] = @ \cup {stamp}]
          \/ /\ tier # "L3_CRITICAL"
             /\ UNCHANGED <<criticalCalls, critical>>
        BY DEF Commit
    <1>4. /\ Cardinality(Recent(s)) < MaxRate
          /\ n <= MaxCalls
          /\ tier = "L3_CRITICAL" => criticalCalls[s] + 1 <= MaxCritical
        BY RecentIsLate
        DEF Commit, Admits, OverRate, OverTotal, OverCritical, BreakerInv,
            BreakerTypeOK
    <1> HIDE DEF n, stamp
    <1>5. BreakerTypeOK'
        <2>1. totalCalls' \in [Sessions -> 0 .. MaxCalls]
            BY <1>1, <1>2, <1>4 DEF BreakerInv, BreakerTypeOK
        <2>2. criticalCalls' \in [Sessions -> 0 .. MaxCritical]
            BY <1>3, <1>4 DEF BreakerInv, BreakerTypeOK
        <2>3. /\ timestamps' \in [Sessions -> SUBSET Stamp]
              /\ admitted' \in [Sessions -> SUBSET Stamp]
              /\ critical' \in [Sessions -> SUBSET Stamp]
            BY <1>1, <1>2, <1>3 DEF BreakerInv, BreakerTypeOK, Recent
        <2> QED
            BY <1>2, <2>1, <2>2, <2>3 DEF BreakerInv, BreakerTypeOK
    <1>6. RecordKept'
        <2> SUFFICES ASSUME NEW r \in Sessions
                     PROVE  /\ IsFiniteSet(admitted'[r])
                            /\ totalCalls'[r] = Cardinality(admitted'[r])
                            /\ \A c \in admitted'[r] :
                                   c.call <= totalCalls'[r] /\ c.at <= mono'
                            /\ critical'[r] \subseteq admitted'[r]
                            /\ criticalCalls'[r] = Cardinality(critical'[r])
                            /\ timestamps'[r] \subseteq admitted'[r]
                            /\ \A c \in admitted'[r] :
                                   mono' - c.at < Window => c \in timestamps'[r]
            BY DEF RecordKept
        <2>1. CASE r # s
            BY <1>2, <1>3, <2>1 DEF BreakerInv, BreakerTypeOK, RecordKept
        <2>2. CASE r = s
            <3>1. /\ admitted'[s] = admitted[s] \cup {stamp}
                  /\ timestamps'[s] = Recent(s) \cup {stamp}
                  /\ totalCalls'[s] = n
                BY <1>2 DEF BreakerInv, BreakerTypeOK
            <3>2. IsFiniteSet(admitted'[s]) /\ n = Cardinality(admitted'[s])
                <4>1. IsFiniteSet(admitted[s]) /\ Cardinality(admitted[s]) + 1 = n
                    BY DEF BreakerInv, RecordKept, n
                <4>2. /\ IsFiniteSet(admitted[s] \cup {stamp})
                      /\ Cardinality(admitted[s] \cup {stamp}) = n
                    BY <1>1, <4>1, FS_AddElement
                <4> QED
                    BY <3>1, <4>2
            <3>3. \A c \in admitted'[s] : c.call <= n /\ c.at <= mono
                BY <1>1, <3>1
                DEF BreakerInv, BreakerTypeOK, RecordKept, Stamp, stamp, n
            <3>4. /\ critical'[s] \subseteq admitted'[s]
                  /\ criticalCalls'[s] = Cardinality(critical'[s])
                <4>1. /\ IsFiniteSet(critical[s])
                      /\ stamp \notin critical[s]
                      /\ critical[s] \subseteq admitted[s]
                      /\ criticalCalls[s] = Cardinality(critical[s])
                    BY <1>1, FS_Subset DEF BreakerInv, RecordKept
                <4>2. Cardinality(critical[s] \cup {stamp}) = criticalCalls[s] + 1
                    BY <4>1, FS_AddElement
                <4>3. CASE tier = "L3_CRITICAL"
                    <5>1. /\ critical'[s] = critical[s] \cup {stamp}
                          /\ criticalCalls'[s] = criticalCalls[s] + 1
                        BY <1>3, <4>3 DEF BreakerInv, BreakerTypeOK
                    <5> QED
                        BY <3>1, <4>1, <4>2, <5>1
                <4>4. CASE tier # "L3_CRITICAL"
                    BY <1>3, <3>1, <4>1, <4>4
                <4> QED
                    BY <4>3, <4>4
            <3>5. timestamps'[s] \subseteq admitted'[s]
                BY <3>1 DEF Recent, BreakerInv, RecordKept
            <3>6. \A c \in admitted'[s] : mono - c.at < Window => c \in timestamps'[s]
                BY <3>1 DEF Recent, BreakerInv, RecordKept
            <3> QED
                BY <1>2, <2>2, <3>1, <3>2, <3>3, <3>4, <3>5, <3>6
        <2> QED
            BY <2>1, <2>2
    <1>7. RateHolds'
        <2> SUFFICES ASSUME NEW r \in Sessions, NEW c \in admitted'[r]
                     PROVE  Cardinality({d \in admitted'[r] :
                                d.at <= c.at /\ c.at - d.at < Window}) <= MaxRate
            BY DEF RateHolds
        <2>1. CASE r # s
            BY <1>2, <2>1 DEF BreakerInv, BreakerTypeOK, RateHolds
        <2>2. CASE r = s
            <3>1. /\ admitted'[s] = admitted[s] \cup {stamp}
                  /\ stamp.at = mono
                BY <1>2 DEF BreakerInv, BreakerTypeOK, stamp
            <3>2. \A d \in admitted'[s] : d.at \in Nat /\ d.at <= mono
                BY <1>1, <3>1 DEF BreakerInv, BreakerTypeOK, RecordKept, Stamp
            <3>3. CASE c.at = mono
                <4>1. {d \in admitted'[s] : d.at <= c.at /\ c.at - d.at < Window}
                          = Recent(s) \cup {stamp}
                    BY <1>1, <3>1, <3>2, <3>3, RecentIsLate DEF Budget!Lately
                <4>2. Cardinality(Recent(s) \cup {stamp}) <= MaxRate
                    <5>1. \/ Cardinality(Recent(s) \cup {stamp}) = Cardinality(Recent(s))
                          \/ Cardinality(Recent(s) \cup {stamp}) = Cardinality(Recent(s)) + 1
                        BY RecentIsLate, FS_AddElement
                    <5> QED
                        BY <1>4, <5>1, RecentIsLate
                <4> QED
                    BY <2>2, <4>1, <4>2
            <3>4. CASE c.at # mono
                <4>1. c \in admitted[s] /\ c.at < mono
                    BY <1>1, <2>2, <3>1, <3>2, <3>4
                <4>2. {d \in admitted'[s] : d.at <= c.at /\ c.at - d.at < Window}
                          = {d \in admitted[s] : d.at <= c.at /\ c.at - d.at < Window}
                    BY <1>1, <3>1, <3>2, <4>1
                <4> QED
                    BY <2>2, <4>1, <4>2 DEF BreakerInv, RateHolds
            <3> QED
                BY <3>3, <3>4
        <2> QED
            BY <2>1, <2>2
    <1> QED
        BY <1>5, <1>6, <1>7 DEF BreakerInv

LEMMA ResetKeeps ==
    ASSUME BreakerInv, NEW s \in Sessions, ResetSession(s)
    PROVE  BreakerInv'
    <1> USE DEF ResetSession, BreakerInv
    <1>1. BreakerTypeOK'
        BY LimitsAreNat DEF BreakerTypeOK
    <1>2. RecordKept'
        <2> SUFFICES ASSUME NEW r \in Sessions
                     PROVE  /\ IsFiniteSet(admitted'[r])
                            /\ totalCalls'[r] = Cardinality(admitted'[r])
                            /\ \A c \in admitted'[r] :
                                   c.call <= totalCalls'[r] /\ c.at <= mono'
                            /\ critical'[r] \subseteq admitted'[r]
                            /\ criticalCalls'[r] = Cardinality(critical'[r])
                            /\ timestamps'[r] \subseteq admitted'[r]
                            /\ \A c \in admitted'[r] :
                                   mono' - c.at < Window => c \in timestamps'[r]
            BY DEF RecordKept
        <2>1. CASE r = s
            BY <2>1, FS_EmptySet DEF BreakerTypeOK
        <2>2. CASE r # s
            BY <2>2 DEF BreakerTypeOK, RecordKept
        <2> QED
            BY <2>1, <2>2
    <1>3. RateHolds'
        <2>1. admitted'[s] = {}
            BY DEF BreakerTypeOK
        <2>2. \A r \in Sessions : r # s => admitted'[r] = admitted[r]
            BY DEF BreakerTypeOK
        <2> QED
            BY <2>1, <2>2 DEF RateHolds
    <1> QED
        BY <1>1, <1>2, <1>3

LEMMA TickKeeps == BreakerInv /\ TickMono => BreakerInv'
    <1> SUFFICES ASSUME BreakerInv, TickMono PROVE BreakerInv'
        OBVIOUS
    <1>1. BreakerTypeOK' /\ RateHolds'
        BY LimitsAreNat
        DEF TickMono, counters, BreakerInv, BreakerTypeOK, RateHolds
    <1>2. \A s \in Sessions : \A c \in admitted[s] :
              c.at \in Nat /\ c.call \in Nat /\ c.at <= mono
        BY DEF BreakerInv, BreakerTypeOK, RecordKept, Stamp
    <1>3. RecordKept'
        BY <1>2, LimitsAreNat
        DEF TickMono, counters, BreakerInv, BreakerTypeOK, RecordKept
    <1> QED
        BY <1>1, <1>3 DEF BreakerInv

\* Every step of the breaker keeps the invariant.
LEMMA BreakerStep ==
    ASSUME BreakerInv, [BreakerNext]_breakerVars
    PROVE  BreakerInv'
    <1>1. CASE UNCHANGED breakerVars
        BY <1>1
        DEF breakerVars, counters, BreakerInv, BreakerTypeOK, RecordKept,
            RateHolds
    <1> QED
        BY <1>1, RefusalKeeps, CommitKeeps, ResetKeeps, TickKeeps
        DEF BreakerNext, CheckAndIncrement

\* The invariant holds in every reachable state.
THEOREM BreakerInvariance == BreakerSpec => []BreakerInv
    BY BreakerInitInv, BreakerStep, PTL DEF BreakerSpec

\* Type correctness; with it, that no session is charged beyond its budgets.
THEOREM BreakerTypeCorrect == BreakerSpec => []BreakerTypeOK
    <1>1. BreakerInv => BreakerTypeOK
        BY DEF BreakerInv
    <1> QED
        BY BreakerInvariance, <1>1, PTL

\* Whatever the limits, no minute that ends at an admitted call holds more
\* than MaxRate admitted calls, although old timestamps are thrown away.
THEOREM RateKept == BreakerSpec => []RateHolds
    <1>1. BreakerInv => RateHolds
        BY DEF BreakerInv
    <1> QED
        BY BreakerInvariance, <1>1, PTL

-----------------------------------------------------------------------------
(* Refinement *)

LEMMA RefusalRefines ==
    ASSUME BreakerInv, NEW s \in Sessions, NEW tier \in ToolTier,
           RefuseTripped(s) \/ TripOnLimit(s, tier)
    PROVE  [Budget!Next]_(Budget!vars)
    <1>1. CASE RefuseTripped(s)
        BY <1>1 DEF RefuseTripped, breakerVars, counters, Budget!vars
    <1>2. CASE TripOnLimit(s, tier)
        <2>1. /\ s \notin tripped
              /\ tripped' = tripped \cup {s}
              /\ UNCHANGED <<mono, admitted, critical>>
              /\ ~(~OverRate(s) /\ ~OverTotal(s) /\ ~OverCritical(s, tier))
            BY <1>2 DEF TripOnLimit, Trip, counters
        <2>2. ~Budget!Allowed(s, tier = "L3_CRITICAL")
            BY <2>1, SameVerdict
        <2>3. Budget!Break(s, tier = "L3_CRITICAL")
            BY <2>1, <2>2 DEF Budget!Break
        <2> QED
            BY <2>3 DEF Budget!Next
    <1> QED
        BY <1>1, <1>2

LEMMA CommitRefines ==
    ASSUME BreakerInv, NEW s \in Sessions, NEW tier \in ToolTier, Commit(s, tier)
    PROVE  Budget!Next
    <1> DEFINE isCritical == tier = "L3_CRITICAL"
    <1>1. Budget!Allowed(s, isCritical) /\ s \notin tripped
        BY SameVerdict DEF Commit, Admits
    <1>2. totalCalls[s] = Cardinality(admitted[s])
        BY DEF BreakerInv, RecordKept
    <1> DEFINE stamp == [call |-> Cardinality(admitted[s]) + 1, at |-> mono]
    <1>3. /\ admitted' = [admitted EXCEPT ![s] = @ \cup {stamp}]
          /\ UNCHANGED <<mono, tripped>>
        BY <1>2 DEF Commit
    <1>4. critical' = [critical EXCEPT ![s] = IF isCritical THEN @ \cup {stamp}
                                                            ELSE @]
        BY <1>2 DEF Commit, BreakerInv, BreakerTypeOK
    <1> HIDE DEF isCritical
    <1>5. Budget!Admit(s, isCritical)
        BY <1>1, <1>3, <1>4, SameCardinality DEF Budget!Admit
    <1> QED
        BY <1>5 DEF Budget!Next, isCritical

\* The counters and the pruned list implement the judgement on the complete
\* record, for every choice of the limits.
THEOREM BudgetImplemented == BreakerSpec => ImplementsBudget
    <1>1. BreakerInit => Budget!Init
        BY DEF BreakerInit, Budget!Init
    <1>2. ASSUME BreakerInv, [BreakerNext]_breakerVars
          PROVE  [Budget!Next]_(Budget!vars)
        <2>1. CASE UNCHANGED breakerVars
            BY <2>1 DEF breakerVars, counters, Budget!vars
        <2>2. ASSUME NEW s \in Sessions, ResetSession(s) PROVE Budget!Next
            BY <2>2 DEF ResetSession, Budget!Reset, Budget!Next
        <2>3. CASE TickMono
            BY <2>3 DEF TickMono, counters, Budget!PassTime, Budget!Next
        <2> QED
            BY <1>2, <2>1, <2>2, <2>3, RefusalRefines, CommitRefines
            DEF BreakerNext, CheckAndIncrement
    <1> QED
        BY BreakerInvariance, <1>1, <1>2, PTL
        DEF BreakerSpec, ImplementsBudget, Budget!Spec

-----------------------------------------------------------------------------
(* The gatekeeper. *)

\* Registered tools have tiers.
RegistryTyped == registry \in [Tools -> Policy \cup {NoPolicy}]

\* A registration keeps the registry typed.
LEMMA RegisterKeeps ==
    ASSUME RegistryTyped, NEW tool, NEW tier \in ToolTier,
           NEW minRole \in UserRole \cup {NoRole}, Register(tool, tier, minRole)
    PROVE  RegistryTyped'
    <1> DEFINE role == IF minRole = NoRole THEN DefaultTierMinRole[tier] ELSE minRole
    <1>1. DefaultTierMinRole[tier] \in UserRole
        BY DEF DefaultTierMinRole, ToolTier, UserRole
    <1>2. [tier |-> tier, minRole |-> role] \in Policy
        BY <1>1 DEF Policy
    <1>3. registry' = [registry EXCEPT ![tool] = [tier |-> tier, minRole |-> role]]
        BY DEF Register
    <1> HIDE DEF role
    <1> QED
        BY <1>2, <1>3 DEF RegistryTyped

\* evaluate moves the breaker by its own steps.
LEMMA EvaluateBreaker ==
    ASSUME RegistryTyped, NEW req \in Requests, NEW role, Evaluate(req, role)
    PROVE  [BreakerNext]_breakerVars
    <1>1. CASE EvaluateUnregistered(req)
        BY <1>1 DEF EvaluateUnregistered
    <1>2. req.session \in Sessions /\ req.tool \in Tools
        BY DEF Requests
    <1>3. ASSUME registry[req.tool] # NoPolicy
          PROVE  registry[req.tool].tier \in ToolTier
        BY <1>2, <1>3 DEF RegistryTyped, Policy
    <1>4. CASE EvaluateBroken(req)
        BY <1>2, <1>3, <1>4 DEF EvaluateBroken, BreakerNext, CheckAndIncrement
    <1>5. CASE EvaluateCharged(req, role)
        BY <1>2, <1>3, <1>5 DEF EvaluateCharged, BreakerNext, CheckAndIncrement
    <1> QED
        BY <1>1, <1>4, <1>5 DEF Evaluate

-----------------------------------------------------------------------------
(* What evaluate leaves in the trail. *)

\* The trail is a sequence of entries that carry events.
TrailTyped ==
    /\ \E S : entries \in Seq(S)
    /\ \A i \in DOMAIN entries : entries[i].event \in Event

\* One entry more, and those before it as they were.
Appended(event) ==
    /\ event \in Event
    /\ Len(entries') = Len(entries) + 1
    /\ \A i \in DOMAIN entries : entries'[i] = entries[i]
    /\ entries'[Len(entries')].event = event

\* An entry is appended and the entries before it stay.
LEMMA AuditAppends ==
    ASSUME TrailTyped, NEW req \in Requests, NEW tier \in ToolTier,
           NEW verdict \in Verdict, Audit(req, tier, verdict)
    PROVE  /\ TrailTyped'
           /\ Appended([request |-> req, tier |-> tier, verdict |-> verdict])
    <1> DEFINE event == [request |-> req, tier |-> tier, verdict |-> verdict]
    <1>1. event \in Event
        BY DEF Event
    <1>2. PICK new : entries' = Append(entries, new) /\ new.event = event
        BY DEF Audit, RecordEvent, NewEntry
    <1> HIDE DEF event
    <1>3. PICK S : entries \in Seq(S)
        BY DEF TrailTyped
    <1>4. entries \in Seq(S \cup {new})
        BY <1>3, SeqMonotonic
    <1>5. /\ entries' \in Seq(S \cup {new})
          /\ Len(entries') = Len(entries) + 1
          /\ \A i \in 1 .. Len(entries) : entries'[i] = entries[i]
          /\ entries'[Len(entries) + 1] = new
        BY <1>2, <1>4, AppendProperties
    <1>6. /\ DOMAIN entries = 1 .. Len(entries)
          /\ DOMAIN entries' = 1 .. Len(entries')
          /\ Len(entries) \in Nat
        BY <1>4, <1>5
    <1>7. Appended(event)
        BY <1>1, <1>2, <1>5, <1>6 DEF Appended
    <1>8. TrailTyped'
        BY <1>1, <1>2, <1>5, <1>6 DEF TrailTyped
    <1> QED
        BY <1>7, <1>8 DEF event

\* The trail has a length.
LEMMA TrailLength ==
    ASSUME TrailTyped
    PROVE  Len(entries) \in Nat /\ DOMAIN entries = 1 .. Len(entries)
    BY DEF TrailTyped

-----------------------------------------------------------------------------
(* What evaluate does to the breaker, branch by branch. *)

\* A call that was let go ahead, or was denied its role, was charged.
Charged(s, verdict) ==
    /\ verdict \in GoAhead \cup {"REJECTED_POLICY_VIOLATION"}
    /\ s \notin tripped
    /\ totalCalls' = [totalCalls EXCEPT ![s] = @ + 1]
    /\ criticalCalls' = [criticalCalls EXCEPT ![s] = @ + 1] \/ criticalCalls' = criticalCalls
    /\ verdict = "SUSPENDED_PENDING_APPROVAL" =>
           criticalCalls' = [criticalCalls EXCEPT ![s] = @ + 1]
    /\ tripped' = tripped

Broken(s, verdict) ==
    /\ verdict = "REJECTED_CIRCUIT_BROKEN"
    /\ tripped' = tripped \cup {s}
    /\ UNCHANGED <<totalCalls, criticalCalls>>

Unknown(verdict) ==
    /\ verdict = "REJECTED_POLICY_VIOLATION"
    /\ UNCHANGED <<totalCalls, criticalCalls, tripped>>

\* evaluate leaves one entry, which tells what it did to the breaker.
LEMMA EvaluateEntry ==
    ASSUME RegistryTyped, TrailTyped, NEW req \in Requests, NEW role \in UserRole,
           Evaluate(req, role)
    PROVE  /\ TrailTyped'
           /\ \E event : /\ Appended(event)
                         /\ event.request = req
                         /\ \/ Charged(req.session, event.verdict)
                            \/ Broken(req.session, event.verdict)
                            \/ Unknown(event.verdict)
    <1> DEFINE Told(tier, verdict) == [request |-> req, tier |-> tier, verdict |-> verdict]
    <1>1. req.tool \in Tools /\ req.session \in Sessions
        BY DEF Requests
    <1>2. ASSUME registry[req.tool] # NoPolicy
          PROVE  registry[req.tool].tier \in ToolTier /\ registry[req.tool] \in Policy
        BY <1>1, <1>2 DEF RegistryTyped, Policy
    <1>3. \A tier, verdict : /\ Told(tier, verdict).request = req
                            /\ Told(tier, verdict).verdict = verdict
        OBVIOUS
    <1>4. CASE EvaluateUnregistered(req)
        <2> DEFINE event == Told("L3_CRITICAL", "REJECTED_POLICY_VIOLATION")
        <2>1. TrailTyped' /\ Appended(event)
            BY <1>4, AuditAppends DEF EvaluateUnregistered, ToolTier, Verdict
        <2>2. event.request = req /\ event.verdict = "REJECTED_POLICY_VIOLATION"
            OBVIOUS
        <2>3. Unknown("REJECTED_POLICY_VIOLATION")
            BY <1>4 DEF EvaluateUnregistered, Unknown, breakerVars, counters
        <2> HIDE DEF event
        <2> QED
            BY <2>1, <2>2, <2>3
    <1>5. CASE EvaluateBroken(req)
        <2> DEFINE event == Told(registry[req.tool].tier, "REJECTED_CIRCUIT_BROKEN")
        <2>1. TrailTyped' /\ Appended(event)
            BY <1>2, <1>5, AuditAppends DEF EvaluateBroken, Verdict
        <2>2. event.request = req /\ event.verdict = "REJECTED_CIRCUIT_BROKEN"
            OBVIOUS
        <2>3. Broken(req.session, "REJECTED_CIRCUIT_BROKEN")
            BY <1>5 DEF EvaluateBroken, RefuseTripped, TripOnLimit, Trip, Broken,
                        breakerVars, counters
        <2> HIDE DEF event
        <2> QED
            BY <2>1, <2>2, <2>3
    <1>6. CASE EvaluateCharged(req, role)
        <2> DEFINE tier    == registry[req.tool].tier
                   verdict == VerdictOf(registry[req.tool], role)
                   event   == Told(tier, verdict)
        <2>1. /\ RoleLevel[role] \in Int
              /\ RoleLevel[registry[req.tool].minRole] \in Int
            BY <1>2, <1>6 DEF EvaluateCharged, RoleLevel, UserRole, Policy
        <2>2. /\ verdict \in Verdict
              /\ verdict \in GoAhead \cup {"REJECTED_POLICY_VIOLATION"}
              /\ verdict = "SUSPENDED_PENDING_APPROVAL" => tier = "L3_CRITICAL"
            BY <2>1 DEF VerdictOf, Verdict, GoAhead
        <2>3. Charged(req.session, verdict)
            BY <1>6, <2>2 DEF EvaluateCharged, Commit, Admits, Charged
        <2>4. TrailTyped' /\ Appended(event)
            BY <1>2, <1>6, <2>2, AuditAppends DEF EvaluateCharged
        <2>5. event.request = req /\ event.verdict = verdict
            OBVIOUS
        <2> HIDE DEF event, verdict
        <2> QED
            BY <2>3, <2>4, <2>5
    <1> QED
        BY <1>4, <1>5, <1>6 DEF Evaluate

-----------------------------------------------------------------------------
(* The inductive invariant. *)

SinceTyped == since \in [Sessions -> 0 .. Len(entries)]

\* More than SuspensionsBudgeted: operators were called on no more often than
\* the breaker has counted.
SuspensionsCounted ==
    \A s \in Sessions :
        Cardinality(OursWith(s, {"SUSPENDED_PENDING_APPROVAL"})) <= criticalCalls[s]

\* More than BrokenForGood: the latch remembers what the trail says.
BrokenIsTripped ==
    \A s \in Sessions : OursWith(s, {"REJECTED_CIRCUIT_BROKEN"}) # {} => s \in tripped

GateInv ==
    /\ BreakerInv
    /\ RegistryTyped
    /\ TrailTyped
    /\ SinceTyped
    /\ SuspensionsCounted
    /\ TrailCoversBudget
    /\ BrokenIsTripped
    /\ BrokenForGood

\* The entries of a session are finitely many, and numbered.
LEMMA OursFinite ==
    ASSUME TrailTyped, NEW s, NEW V
    PROVE  /\ IsFiniteSet(OursWith(s, V))
           /\ Cardinality(OursWith(s, V)) \in Nat
           /\ OursWith(s, V) \subseteq 1 .. Len(entries)
    <1>1. OursWith(s, V) \subseteq 1 .. Len(entries)
        BY TrailLength DEF OursWith, Ours
    <1>2. IsFiniteSet(1 .. Len(entries))
        BY TrailLength, FS_Interval
    <1>3. IsFiniteSet(OursWith(s, V))
        BY <1>1, <1>2, FS_Subset
    <1> QED
        BY <1>1, <1>3, FS_CardinalityType

\* A new entry joins the entries of its session, and no others.
LEMMA OursGrows ==
    ASSUME TrailTyped, TrailTyped', SinceTyped, NEW event, Appended(event),
           since' = since, NEW s \in Sessions, NEW V
    PROVE  OursWith(s, V)' =
               IF event.request.session = s /\ event.verdict \in V
               THEN OursWith(s, V) \cup {Len(entries) + 1} ELSE OursWith(s, V)
    <1> DEFINE n == Len(entries)
    <1>1. /\ n \in Nat /\ DOMAIN entries = 1 .. n /\ DOMAIN entries' = 1 .. (n + 1)
          /\ since[s] \in 0 .. n
        BY TrailLength DEF TrailTyped, Appended, SinceTyped
    <1>2. /\ \A i \in 1 .. n : entries'[i] = entries[i]
          /\ entries'[n + 1].event = event
        BY <1>1 DEF Appended
    <1>3. OursWith(s, V) = {i \in 1 .. n : /\ i > since[s]
                                          /\ entries[i].event.request.session = s
                                          /\ entries[i].event.verdict \in V}
        BY <1>1 DEF OursWith, Ours
    <1>4. OursWith(s, V)' = {i \in 1 .. (n + 1) :
                                /\ i > since[s]
                                /\ entries'[i].event.request.session = s
                                /\ entries'[i].event.verdict \in V}
        BY <1>1 DEF OursWith, Ours
    <1> HIDE DEF n
    <1>5. \A i \in 1 .. (n + 1) : i \in 1 .. n \/ i = n + 1
        BY <1>1
    <1>6. n + 1 > since[s] /\ n + 1 \in 1 .. (n + 1) /\ 1 .. n \subseteq 1 .. (n + 1)
        BY <1>1
    <1> QED
        BY <1>2, <1>3, <1>4, <1>5, <1>6 DEF n

\* ... and is one more of them.
LEMMA OursCounted ==
    ASSUME TrailTyped, TrailTyped', SinceTyped, NEW event, Appended(event),
           since' = since, NEW s \in Sessions, NEW V
    PROVE  Cardinality(OursWith(s, V))' =
               IF event.request.session = s /\ event.verdict \in V
               THEN Cardinality(OursWith(s, V)) + 1 ELSE Cardinality(OursWith(s, V))
    <1>1. Len(entries) + 1 \notin OursWith(s, V)
        BY OursFinite, TrailLength
    <1> QED
        BY <1>1, OursGrows, OursFinite, FS_AddElement

\* evaluate keeps the counts, branch by branch.
LEMMA EvaluateKeeps ==
    ASSUME GateInv, NEW req \in Requests, NEW role \in UserRole, Evaluate(req, role)
    PROVE  GateInv'
    <1>1. TrailTyped'
        BY EvaluateEntry DEF GateInv
    <1>2. PICK event : /\ Appended(event)
                       /\ event.request = req
                       /\ \/ Charged(req.session, event.verdict)
                          \/ Broken(req.session, event.verdict)
                          \/ Unknown(event.verdict)
        BY EvaluateEntry DEF GateInv
    <1>3. BreakerInv'
        BY EvaluateBreaker, BreakerStep DEF GateInv
    <1>4. registry' = registry /\ since' = since
        BY DEF Evaluate
    <1>5. RegistryTyped'
        BY <1>4 DEF GateInv, RegistryTyped
    <1>6. SinceTyped'
        BY <1>2, <1>4, TrailLength DEF GateInv, SinceTyped, Appended
    <1>7. \A V : \A s \in Sessions :
              Cardinality(OursWith(s, V))' =
                  IF req.session = s /\ event.verdict \in V
                  THEN Cardinality(OursWith(s, V)) + 1
                  ELSE Cardinality(OursWith(s, V))
        BY <1>1, <1>2, <1>4, OursCounted DEF GateInv
    <1>8. \A V : \A s \in Sessions : Cardinality(OursWith(s, V)) \in Nat
        BY OursFinite DEF GateInv
    <1>9. /\ req.session \in Sessions /\ event.verdict \in Verdict
          /\ \A s \in Sessions : totalCalls[s] \in Int /\ criticalCalls[s] \in Int
          /\ DOMAIN totalCalls = Sessions /\ DOMAIN criticalCalls = Sessions
        BY <1>2, LimitsAreNat DEF GateInv, BreakerInv, BreakerTypeOK, Requests,
           Appended, Event
    <1>10. SuspensionsCounted'
        <2> SUFFICES ASSUME NEW s \in Sessions
                     PROVE  (Cardinality(OursWith(s, {"SUSPENDED_PENDING_APPROVAL"}))
                                <= criticalCalls[s])'
            BY DEF SuspensionsCounted
        <2> QED
            BY <1>2, <1>7, <1>8, <1>9
            DEF GateInv, SuspensionsCounted, Charged, Broken, Unknown
    <1>11. TrailCoversBudget'
        <2> SUFFICES ASSUME NEW s \in Sessions
                     PROVE  (/\ Cardinality(OursWith(s, GoAhead)) <= totalCalls[s]
                             /\ totalCalls[s] <= Cardinality(OursWith(s,
                                    GoAhead \cup {"REJECTED_POLICY_VIOLATION"})))'
            BY DEF TrailCoversBudget
        <2>1. /\ Cardinality(OursWith(s, GoAhead)) <= totalCalls[s]
              /\ totalCalls[s] <= Cardinality(OursWith(s,
                                    GoAhead \cup {"REJECTED_POLICY_VIOLATION"}))
            BY DEF GateInv, TrailCoversBudget
        <2> QED
            BY <1>2, <1>7, <1>8, <1>9, <2>1
            DEF Charged, Broken, Unknown, GoAhead
    <1>12. BrokenIsTripped'
        <2> SUFFICES ASSUME NEW s \in Sessions,
                            OursWith(s, {"REJECTED_CIRCUIT_BROKEN"})' # {}
                     PROVE  s \in tripped'
            BY DEF BrokenIsTripped
        <2>1. tripped \subseteq tripped'
            BY <1>2 DEF Charged, Broken, Unknown
        <2>2. CASE OursWith(s, {"REJECTED_CIRCUIT_BROKEN"}) # {}
            BY <2>1, <2>2 DEF GateInv, BrokenIsTripped
        <2>3. CASE /\ req.session = s
                   /\ event.verdict = "REJECTED_CIRCUIT_BROKEN"
            BY <1>2, <2>3 DEF Charged, Broken, Unknown, GoAhead
        <2> QED
            BY <1>1, <1>2, <1>4, <2>2, <2>3, OursGrows DEF GateInv
    <1>13. BrokenForGood'
        <2> SUFFICES ASSUME NEW s \in Sessions,
                            NEW i \in OursWith(s, {"REJECTED_CIRCUIT_BROKEN"})',
                            NEW j \in Ours(s)', j > i,
                            entries'[j].event.verdict \in GoAhead
                     PROVE  FALSE
            BY DEF BrokenForGood
        <2>1. /\ Len(entries) \in Nat /\ DOMAIN entries = 1 .. Len(entries)
              /\ DOMAIN entries' = 1 .. (Len(entries) + 1)
              /\ \A k \in 1 .. Len(entries) : entries'[k] = entries[k]
              /\ entries'[Len(entries) + 1].event = event
            BY <1>1, <1>2, TrailLength DEF GateInv, TrailTyped, Appended
        <2>2. /\ i \in 1 .. (Len(entries) + 1) /\ j \in 1 .. (Len(entries) + 1)
              /\ entries'[i].event.verdict = "REJECTED_CIRCUIT_BROKEN"
              /\ entries'[i].event.request.session = s /\ i > since[s]
              /\ entries'[j].event.request.session = s /\ j > since[s]
            BY <1>4, <2>1 DEF OursWith, Ours
        <2>3. i \in OursWith(s, {"REJECTED_CIRCUIT_BROKEN"})
            BY <2>1, <2>2 DEF OursWith, Ours
        <2>4. s \in tripped
            BY <2>3 DEF GateInv, BrokenIsTripped
        <2>5. CASE j = Len(entries) + 1
            <3>1. event.verdict \in GoAhead /\ req.session = s
                BY <1>2, <2>1, <2>2, <2>5
            <3> QED
                BY <1>2, <2>4, <3>1 DEF Charged, Broken, Unknown, GoAhead
        <2>6. CASE j \in 1 .. Len(entries)
            <3>1. j \in Ours(s) /\ entries[j].event.verdict \in GoAhead
                BY <2>1, <2>2, <2>6 DEF Ours
            <3> QED
                BY <2>3, <3>1 DEF GateInv, BrokenForGood
        <2> QED
            BY <2>1, <2>2, <2>5, <2>6
    <1> QED
        BY <1>1, <1>3, <1>5, <1>6, <1>10, <1>11, <1>12, <1>13 DEF GateInv

\* A reset starts the counts of its session afresh.
LEMMA GateResetKeeps ==
    ASSUME GateInv, NEW r \in Sessions, Reset(r)
    PROVE  GateInv'
    <1>1. BreakerInv'
        BY ResetKeeps DEF GateInv, Reset
    <1>2. RegistryTyped' /\ TrailTyped'
        BY DEF GateInv, Reset, RegistryTyped, TrailTyped
    <1>3. /\ Len(entries) \in Nat /\ DOMAIN entries = 1 .. Len(entries)
          /\ entries' = entries
          /\ since' = [since EXCEPT ![r] = Len(entries)]
          /\ since \in [Sessions -> 0 .. Len(entries)]
        BY TrailLength DEF GateInv, Reset, SinceTyped
    <1>4. SinceTyped'
        BY <1>3 DEF SinceTyped
    <1>5. Ours(r)' = {}
        BY <1>3 DEF Ours
    <1>6. \A s \in Sessions \ {r} : Ours(s)' = Ours(s)
        BY <1>3 DEF Ours
    <1>7. \A V : /\ OursWith(r, V)' = {}
                 /\ \A s \in Sessions \ {r} : OursWith(s, V)' = OursWith(s, V)
        BY <1>3, <1>5, <1>6 DEF OursWith
    <1>8. /\ totalCalls' = [totalCalls EXCEPT ![r] = 0]
          /\ criticalCalls' = [criticalCalls EXCEPT ![r] = 0]
          /\ tripped' = tripped \ {r}
          /\ DOMAIN totalCalls = Sessions /\ DOMAIN criticalCalls = Sessions
        BY DEF Reset, ResetSession, GateInv, BreakerInv, BreakerTypeOK
    <1>9. Cardinality({}) = 0
        BY FS_EmptySet
    <1>10. SuspensionsCounted'
        BY <1>7, <1>8, <1>9 DEF GateInv, SuspensionsCounted
    <1>11. TrailCoversBudget'
        BY <1>7, <1>8, <1>9 DEF GateInv, TrailCoversBudget
    <1>12. BrokenIsTripped'
        BY <1>7, <1>8 DEF GateInv, BrokenIsTripped
    <1>13. BrokenForGood'
        BY <1>3, <1>5, <1>6, <1>7 DEF GateInv, BrokenForGood
    <1> QED
        BY <1>1, <1>2, <1>4, <1>10, <1>11, <1>12, <1>13 DEF GateInv

\* Registrations and time leave counters, latch and trail alone.
LEMMA GateQuietKeeps ==
    ASSUME GateInv, RegistryTyped', BreakerInv',
           UNCHANGED <<entries, since, totalCalls, criticalCalls, tripped>>
    PROVE  GateInv'
    BY DEF GateInv, TrailTyped, SinceTyped, SuspensionsCounted, TrailCoversBudget,
           BrokenIsTripped, BrokenForGood, OursWith, Ours

\* The inductive invariant of the gatekeeper.
THEOREM GateInvariance == GateSpec => []GateInv
    <1>1. GateInit => GateInv
        <2> SUFFICES ASSUME GateInit PROVE GateInv
            OBVIOUS
        <2>1. BreakerInv
            BY BreakerInitInv DEF GateInit
        <2>2. entries = <<>> /\ Len(entries) = 0 /\ DOMAIN entries = {}
            BY DEF GateInit
        <2>3. entries \in Seq({})
            BY <2>2
        <2>4. RegistryTyped /\ TrailTyped /\ SinceTyped
            BY <2>2, <2>3 DEF GateInit, RegistryTyped, TrailTyped, SinceTyped
        <2>5. \A s \in Sessions : Ours(s) = {}
            BY <2>2 DEF Ours
        <2>6. \A V : \A s \in Sessions : OursWith(s, V) = {}
            BY <2>5 DEF OursWith
        <2>7. \A V : \A s \in Sessions : Cardinality(OursWith(s, V)) = 0
            BY <2>6, FS_EmptySet
        <2>8. \A s \in Sessions : totalCalls[s] = 0 /\ criticalCalls[s] = 0
            BY DEF GateInit, BreakerInit
        <2>9. SuspensionsCounted /\ TrailCoversBudget
            BY <2>7, <2>8 DEF SuspensionsCounted, TrailCoversBudget
        <2>10. BrokenIsTripped /\ BrokenForGood
            BY <2>5, <2>6 DEF BrokenIsTripped, BrokenForGood
        <2> QED
            BY <2>1, <2>4, <2>9, <2>10 DEF GateInv
    <1>2. ASSUME GateInv, [GateNext]_gateVars PROVE GateInv'
        <2>1. CASE UNCHANGED gateVars
            <3>1. RegistryTyped' /\ BreakerInv'
                BY <1>2, <2>1, BreakerStep DEF gateVars, GateInv, RegistryTyped
            <3> QED
                BY <1>2, <2>1, <3>1, GateQuietKeeps DEF gateVars, breakerVars, counters
        <2>2. ASSUME NEW tool \in Tools, NEW tier \in OfferedTiers,
                     NEW minRole \in OfferedRoles, Register(tool, tier, minRole)
              PROVE  GateInv'
            <3>1. RegistryTyped'
                BY <1>2, <2>2, RegisterKeeps, OffersAreTyped DEF GateInv
            <3>2. BreakerInv'
                BY <1>2, <2>2, BreakerStep DEF Register, GateInv
            <3> QED
                BY <1>2, <2>2, <3>1, <3>2, GateQuietKeeps
                DEF Register, breakerVars, counters
        <2>3. CASE PassMono
            <3>1. BreakerInv'
                BY <1>2, <2>3, TickKeeps DEF PassMono, GateInv
            <3>2. RegistryTyped'
                BY <1>2, <2>3 DEF PassMono, GateInv, RegistryTyped
            <3> QED
                BY <1>2, <2>3, <3>1, <3>2, GateQuietKeeps DEF PassMono, TickMono, counters
        <2> QED
            BY <1>2, <2>1, <2>2, <2>3, EvaluateKeeps, GateResetKeeps DEF GateNext
    <1> QED
        BY <1>1, <1>2, PTL DEF GateSpec

\* Type correctness of the registry, the trail and the breaker together.
THEOREM GateTypeCorrect == GateSpec => []GateTypeOK
    <1>1. GateInv => GateTypeOK
        BY DEF GateInv, BreakerInv, RegistryTyped, TrailTyped, SinceTyped, GateTypeOK
    <1> QED
        BY GateInvariance, <1>1, PTL

\* Whatever the registrations and resets, what the trail says went ahead was
\* charged, and what was charged is in the trail.
THEOREM BudgetsTold == GateSpec => []TrailCoversBudget
    <1>1. GateInv => TrailCoversBudget
        BY DEF GateInv
    <1> QED
        BY GateInvariance, <1>1, PTL

\* No session calls on an operator more often than its critical budget allows.
THEOREM SuspensionsLimited == GateSpec => []SuspensionsBudgeted
    <1>1. ASSUME GateInv PROVE SuspensionsBudgeted
        <2>1. \A s \in Sessions : criticalCalls[s] \in Nat /\ criticalCalls[s] <= MaxCritical
            BY <1>1, LimitsAreNat DEF GateInv, BreakerInv, BreakerTypeOK
        <2>2. \A V : \A s \in Sessions : Cardinality(OursWith(s, V)) \in Nat
            BY <1>1, OursFinite DEF GateInv
        <2> QED
            BY <1>1, <2>1, <2>2, LimitsAreNat
            DEF GateInv, SuspensionsCounted, SuspensionsBudgeted
    <1> QED
        BY GateInvariance, <1>1, PTL

\* Behind the entry that breaks a session none lets its calls go ahead.
THEOREM StaysBroken == GateSpec => []BrokenForGood
    <1>1. GateInv => BrokenForGood
        BY DEF GateInv
    <1> QED
        BY GateInvariance, <1>1, PTL
=============================================================================
