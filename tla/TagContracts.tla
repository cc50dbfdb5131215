---------------------------- MODULE TagContracts ----------------------------
(***************************************************************************)
(* The vocabulary shared by every component of Tiered Agent Guard: the     *)
(* enumerations of core/enums.py and the role and tier tables of           *)
(* gatekeeper/policy.py.  An enumeration member is the string of its name. *)
(***************************************************************************)
EXTENDS Integers

ToolTier == {"L1_READ_ONLY", "L2_STATE_CHANGING", "L3_CRITICAL"}

Verdict == {"PERMITTED", "SUSPENDED_PENDING_APPROVAL",
            "REJECTED_VALIDATION_FAILED", "REJECTED_POLICY_VIOLATION",
            "REJECTED_CIRCUIT_BROKEN"}

TicketStatus == {"PENDING", "APPROVED", "REJECTED", "EXPIRED"}

\* STANDARD_USER is an alias of AGENT: the two have the same value.
UserRole == {"ANONYMOUS", "AGENT", "OPERATOR", "ADMIN"}

\* ROLE_HIERARCHY
RoleLevel == [ANONYMOUS |-> 0, AGENT |-> 1, OPERATOR |-> 2, ADMIN |-> 3]

\* DEFAULT_TIER_MIN_ROLES: the role a tool requires when its registration
\* names none.
DefaultTierMinRole == [L1_READ_ONLY      |-> "ANONYMOUS",
                       L2_STATE_CHANGING |-> "AGENT",
                       L3_CRITICAL       |-> "AGENT"]
=============================================================================
