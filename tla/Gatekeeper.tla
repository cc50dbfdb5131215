----------------------------- MODULE Gatekeeper -----------------------------
(***************************************************************************)
(* gatekeeper/policy.py: the registry of tools and PolicyEnforcer.evaluate,*)
(* which puts a request before the circuit breaker, the roles and the tier *)
(* and leaves one entry in the audit trail.  evaluate never awaits, so a   *)
(* request is evaluated in one step; tools may be registered again, and    *)
(* sessions reset, between any two of them.                                *)
(***************************************************************************)
EXTENDS CircuitBreaker, AuditTrail

CONSTANTS
    Tools,         \* the tool names requests may carry
    NoPolicy,      \* the tool is not registered
    OfferedRoles,  \* the values of min_role a registration gives, or NoRole
    NoRole,        \* register was called without a min_role
    OfferedTiers,  \* the tiers a registration gives
    RequestIds,    \* request identifiers, which a caller may choose
    Arguments,     \* argument dictionaries, up to their hash
    MaxRequests    \* bound on the length of the audit trail

ASSUME OffersAreTyped ==
    /\ OfferedRoles \subseteq UserRole \cup {NoRole}
    /\ OfferedTiers \subseteq ToolTier
    /\ MaxRequests \in Nat

VARIABLES
    registry,  \* self._policies: the tier and minimal role of each tool
    since      \* history: the length of the trail at each session's last reset

gateVars == <<breakerVars, entries, registry, since>>

Policy == [tier : ToolTier, minRole : UserRole]

\* ToolExecutionRequest, less its caller context: the role is looked at once,
\* when the request is evaluated.  Nothing keeps a caller from making the same
\* request again.
Requests == [id : RequestIds, session : Sessions, tool : Tools, args : Arguments]

Event == [request : Requests, tier : ToolTier, verdict : Verdict]

GateTypeOK ==
    /\ BreakerTypeOK
    /\ registry \in [Tools -> Policy \cup {NoPolicy}]
    /\ \A i \in DOMAIN entries : entries[i].event \in Event
    /\ since \in [Sessions -> 0 .. Len(entries)]

GateInit ==
    /\ BreakerInit
    /\ entries = <<>>
    /\ registry = [tool \in Tools |-> NoPolicy]
    /\ since = [s \in Sessions |-> 0]

-----------------------------------------------------------------------------
(* PolicyRegistry.register *)

Register(tool, tier, minRole) ==
    /\ registry' = [registry EXCEPT ![tool] =
           [tier    |-> tier,
            minRole |-> IF minRole = NoRole THEN DefaultTierMinRole[tier]
                                            ELSE minRole]]
    /\ UNCHANGED <<breakerVars, entries, since>>

-----------------------------------------------------------------------------
(* PolicyEnforcer.evaluate *)

\* One entry goes to the trail.  What it says beside the hashed content (the
\* reason, or the impact and the risk) is left out.
Audit(req, tier, verdict) ==
    RecordEvent([request |-> req, tier |-> tier, verdict |-> verdict], {})

\* Mutation: a request for an unknown tool counts as a call.
EvaluateUnregisteredCounted(req) ==
    /\ registry[req.tool] = NoPolicy
    /\ Audit(req, "L3_CRITICAL", "REJECTED_POLICY_VIOLATION")
    /\ totalCalls' = [totalCalls EXCEPT ![req.session] = @ + 1]
    /\ UNCHANGED <<mono, criticalCalls, timestamps, admitted, critical,
                   tripped>>

\* An unknown tool is taken for a critical one and costs the session nothing.
EvaluateUnregistered(req) ==
    /\ registry[req.tool] = NoPolicy
    /\ Audit(req, "L3_CRITICAL", "REJECTED_POLICY_VIOLATION")
    /\ UNCHANGED breakerVars

\* Mutation: the breaker is asked again although it has answered.
EvaluateBrokenAdmits(req) ==
    /\ registry[req.tool] # NoPolicy
    /\ RefuseTripped(req.session) \/ TripOnLimit(req.session, registry[req.tool].tier)
    /\ Audit(req, registry[req.tool].tier, "PERMITTED")

EvaluateBroken(req) ==
    /\ registry[req.tool] # NoPolicy
    /\ RefuseTripped(req.session) \/ TripOnLimit(req.session, registry[req.tool].tier)
    /\ Audit(req, registry[req.tool].tier, "REJECTED_CIRCUIT_BROKEN")

VerdictOf(policy, role) ==
    CASE RoleLevel[role] < RoleLevel[policy.minRole] -> "REJECTED_POLICY_VIOLATION"
      [] RoleLevel[role] >= RoleLevel[policy.minRole]
            /\ policy.tier = "L3_CRITICAL"           -> "SUSPENDED_PENDING_APPROVAL"
      [] OTHER                                       -> "PERMITTED"

\* The breaker charges the session before the role is looked at, so that a
\* caller who is denied has spent a call as well.
EvaluateCharged(req, role) ==
    /\ registry[req.tool] # NoPolicy
    /\ Commit(req.session, registry[req.tool].tier)
    /\ Audit(req, registry[req.tool].tier, VerdictOf(registry[req.tool], role))

Evaluate(req, role) ==
    /\ Len(entries) < MaxRequests
    /\ \/ EvaluateUnregistered(req)
       \/ EvaluateBroken(req)
       \/ EvaluateCharged(req, role)
    /\ UNCHANGED <<registry, since>>

-----------------------------------------------------------------------------
Reset(s) ==
    /\ ResetSession(s)
    /\ since' = [since EXCEPT ![s] = Len(entries)]
    /\ UNCHANGED <<entries, registry>>

PassMono == TickMono /\ UNCHANGED <<entries, registry, since>>

GateNext ==
    \/ \E tool \in Tools, tier \in OfferedTiers, minRole \in OfferedRoles :
           Register(tool, tier, minRole)
    \/ \E req \in Requests, role \in UserRole : Evaluate(req, role)
    \/ \E s \in Sessions : Reset(s)
    \/ PassMono

GateSpec == GateInit /\ [][GateNext]_gateVars

-----------------------------------------------------------------------------
(* Properties *)

\* The entries of a session since its last reset.
Ours(s) ==
    {i \in DOMAIN entries : i > since[s] /\ entries[i].event.request.session = s}

OursWith(s, verdicts) == {i \in Ours(s) : entries[i].event.verdict \in verdicts}

GoAhead == {"PERMITTED", "SUSPENDED_PENDING_APPROVAL"}

\* The trail and the budget tell the same story: every call that went ahead
\* or to an operator was charged to its session, and every charge has its
\* entry, that of a caller who was denied included.
TrailCoversBudget ==
    \A s \in Sessions :
        /\ Cardinality(OursWith(s, GoAhead)) <= totalCalls[s]
        /\ totalCalls[s] <= Cardinality(OursWith(s,
                                GoAhead \cup {"REJECTED_POLICY_VIOLATION"}))

\* A session cannot put more operations before an operator than its critical
\* budget, whatever was registered again, under whichever tier, meanwhile.
SuspensionsBudgeted ==
    \A s \in Sessions :
        Cardinality(OursWith(s, {"SUSPENDED_PENDING_APPROVAL"})) <= MaxCritical

\* A broken session stays broken: behind the entry that says so there is none
\* that let a call of the session go ahead, until somebody resets it, not
\* when the window has passed.
BrokenForGood ==
    \A s \in Sessions :
        \A i \in OursWith(s, {"REJECTED_CIRCUIT_BROKEN"}), j \in Ours(s) :
            j > i => entries[j].event.verdict \notin GoAhead
=============================================================================
