-------------------------- MODULE TagRuntimeProofs --------------------------
(***************************************************************************)
(* The runtime moves its parts by their own steps only, keeps its types,   *)
(* and starts at most one handler for a call.                              *)
(***************************************************************************)
EXTENDS TagRuntime, AnyStoreProofs, GatekeeperProofs

\* Every step of execute_tool is a step of create_ticket, or leaves the
\* controller, its store and its clock alone.
LEMMA ExecuteToolSuspension ==
    ASSUME NEW c \in Tickets, NEW req \in Requests, NEW role, NEW given,
           ExecuteTool(c, req, role, given)
    PROVE  [Next]_vars
    <1>1. CASE RejectArguments(c, req, given)
        BY <1>1 DEF RejectArguments
    <1>2. CASE Refuse(c, req, given)
        BY <1>2 DEF Refuse
    <1>3. CASE Suspend(c, req, given)
        <2>1. BuildCard(c, req.args, None)
            BY <1>3 DEF Suspend
        <2>2. req.args \in Args
            BY RuntimeInputs DEF Requests
        <2>3. Create(c)
            BY <2>1, <2>2, NoTTLOffered DEF Create
        <2> QED
            BY <2>3 DEF Next
    <1>4. CASE Permit(c, req, given)
        BY <1>4 DEF Permit
    <1> QED
        BY <1>1, <1>2, <1>3, <1>4 DEF ExecuteTool

\* A call through a wrapper is a call of execute_tool.
LEMMA BeginsExecute ==
    ASSUME NEW c \in Tickets, Begins(c)
    PROVE  \E req \in Requests, role \in UserRole,
              given \in Functions \cup {NoHandler} : ExecuteTool(c, req, role, given)
  BY GuardedHidden, RuntimeInputs DEF Begins, CallGuarded

\* Every step of the runtime is a step of the suspension controller, or
\* leaves it alone.
LEMMA SuspensionSteps ==
    ASSUME [RuntimeNext]_runtimeVars
    PROVE  [Next]_vars
    <1>1. CASE UNCHANGED runtimeVars
        BY <1>1 DEF runtimeVars
    <1>2. ASSUME NEW offer, RegisterTool(offer) \/ Decorate(offer)
          PROVE  [Next]_vars
        BY <1>2 DEF RegisterTool, Decorate, Registers
    <1>3. ASSUME NEW c \in Tickets, CreateTicket(c)
          PROVE  [Next]_vars
        <2>1. Create(c)
            BY <1>3 DEF CreateTicket, Create
        <2> QED
            BY <2>1 DEF Next
    <1>4. ASSUME NEW c \in Tickets, Begins(c) \/ EndExecution(c)
          PROVE  [Next]_vars
        BY <1>4, BeginsExecute, ExecuteToolSuspension DEF EndExecution
    <1>5. ASSUME NEW o \in Operators, OpenTicket(o)
          PROVE  [Next]_vars
        BY <1>5 DEF OpenTicket, Resolve, Next
    <1>6. ASSUME NEW o \in Operators, EndResumed(o)
          PROVE  [Next]_vars
        BY <1>6 DEF EndResumed
    <1>7. ASSUME NEW o \in Operators, StoreDecision(o) \/ CancelResume(o)
          PROVE  [Next]_vars
        BY <1>7 DEF StoreDecision, CancelResume, Resolve, Next
    <1>8. ASSUME NEW o \in Operators, NEW given, ResumeTicket(o, given)
          PROVE  [Next]_vars
        <2>1. DecideTicket(o)
            BY <1>8 DEF ResumeTicket
        <2> QED
            BY <2>1 DEF Resolve, Next
    <1>9. CASE Around
        BY <1>9 DEF Around, Next
    <1> QED
        BY <1>1, <1>2, <1>3, <1>4, <1>5, <1>6, <1>7, <1>8, <1>9 DEF RuntimeNext

\* The suspension controller inside the runtime is the one of Suspension: its
\* theorems hold of the runtime.
THEOREM SuspensionInside == RuntimeSpec => ImplementsSuspension
    <1>1. RuntimeInit => Init
        BY DEF RuntimeInit
    <1>2. [RuntimeNext]_runtimeVars => [Next]_vars
        BY SuspensionSteps
    <1> QED
        BY <1>1, <1>2, PTL DEF RuntimeSpec, ImplementsSuspension, Spec

-----------------------------------------------------------------------------
LEMMA RegistrySteps ==
    ASSUME RegistryTyped, [RuntimeNext]_runtimeVars
    PROVE  RegistryTyped'
    <1>1. ASSUME NEW offer \in OfferedTools \cup Guards,
                 RegisterTool(offer) \/ Decorate(offer)
          PROVE  RegistryTyped'
        <2>1. offer.tier \in ToolTier /\ offer.minRole \in UserRole \cup {NoRole}
            BY RuntimeInputs, OffersAreTyped DEF Registration
        <2> QED
            BY <1>1, <2>1, RegisterKeeps DEF RegisterTool, Decorate, Registers
    <1>2. ASSUME NEW c \in Tickets, Begins(c)
          PROVE  registry' = registry
        BY <1>2, BeginsExecute DEF ExecuteTool, RejectArguments, Evaluate
    <1>3. ASSUME ~ \E offer \in OfferedTools : RegisterTool(offer),
                 ~ \E g \in Guards : Decorate(g),
                 ~ \E c \in Tickets : Begins(c)
          PROVE  registry' = registry
        BY <1>3 DEF RuntimeNext, runtimeVars, gateVars, CreateTicket, EndExecution,
         OpenTicket, EndResumed, StoreDecision, CancelResume, ResumeTicket, Around,
         Reset, PassMono
    <1> QED
        BY <1>1, <1>2, <1>3 DEF RegistryTyped

\* The breaker is moved by evaluate and reset_session and by nothing else.
LEMMA BreakerSteps ==
    ASSUME RegistryTyped, [RuntimeNext]_runtimeVars
    PROVE  [BreakerNext]_breakerVars
    <1>1. CASE UNCHANGED runtimeVars
        BY <1>1 DEF runtimeVars, gateVars
    <1>2. ASSUME NEW offer, RegisterTool(offer) \/ Decorate(offer)
          PROVE  UNCHANGED breakerVars
        BY <1>2 DEF RegisterTool, Decorate, Registers, Register
    <1>3. ASSUME NEW c \in Tickets, Begins(c)
          PROVE  [BreakerNext]_breakerVars
        BY <1>3, BeginsExecute, EvaluateBreaker DEF ExecuteTool, RejectArguments
    <1>4. ASSUME NEW c \in Tickets, CreateTicket(c) \/ EndExecution(c)
          PROVE  UNCHANGED breakerVars
        BY <1>4 DEF CreateTicket, EndExecution, gateVars
    <1>5. ASSUME NEW o \in Operators, \/ OpenTicket(o) \/ EndResumed(o)
                                       \/ StoreDecision(o) \/ CancelResume(o)
          PROVE  UNCHANGED breakerVars
        BY <1>5 DEF OpenTicket, EndResumed, StoreDecision, CancelResume, gateVars
    <1>6. ASSUME NEW o \in Operators, NEW given, ResumeTicket(o, given)
          PROVE  UNCHANGED breakerVars
        BY <1>6 DEF ResumeTicket
    <1>7. CASE Around
        BY <1>7 DEF Around, Reset, PassMono, gateVars, BreakerNext
    <1> QED
        BY <1>1, <1>2, <1>3, <1>4, <1>5, <1>6, <1>7 DEF RuntimeNext

\* The breaker inside the runtime is the one of CircuitBreaker: its limits and
\* its budget hold of the runtime.
THEOREM BreakerInside == RuntimeSpec => ImplementsBreaker
    <1>1. RuntimeInit => BreakerInit /\ RegistryTyped
        BY DEF RuntimeInit, GateInit, RegistryTyped
    <1>2. RegistryTyped /\ [RuntimeNext]_runtimeVars => RegistryTyped'
        BY RegistrySteps
    <1>3. RegistryTyped /\ [RuntimeNext]_runtimeVars => [BreakerNext]_breakerVars
        BY BreakerSteps
    <1> QED
        BY <1>1, <1>2, <1>3, PTL DEF RuntimeSpec, ImplementsBreaker, BreakerSpec

-----------------------------------------------------------------------------
(* What a step does to the trail. *)

TrailGrows == entries' = entries \/ \E event : Appended(event)

-----------------------------------------------------------------------------
(* What a step does to the calls of execute_tool. *)

\* execute_tool, as far as the invariants below are concerned.
Executes(c, req, given, event, state) ==
    /\ work[c] = NoWork
    /\ Appended(event)
    /\ event.request = req
    /\ work' = [work EXCEPT ![c] = [request |-> req, given |-> given,
                                    entry |-> Len(entries'), state |-> state]]
    /\ UNCHANGED <<registry, since, tools, resumed>>
    /\ \/ /\ state = "refused"
          /\ event.verdict \notin GoAhead
          /\ UNCHANGED <<vars, runs>>
       \/ /\ state = "suspended"
          /\ Validates(req)
          /\ event.verdict = "SUSPENDED_PENDING_APPROVAL"
          /\ event.tier = "L3_CRITICAL"
          /\ BuildCard(c, req.args, None)
          /\ runs' = runs
       \/ /\ state \in Execution
          /\ Validates(req)
          /\ event.verdict = "PERMITTED"
          /\ event.tier # "L3_CRITICAL"
          /\ event.tier = registry[req.tool].tier
          /\ UNCHANGED vars
          /\ Begin(c, None, Target(req.tool, given), schemas[req.tool][req.args],
                   state)

LEMMA EvaluateAppends ==
    ASSUME RegistryTyped, TrailTyped, NEW req \in Requests, NEW role \in UserRole,
           Evaluate(req, role)
    PROVE  /\ TrailTyped'
           /\ UNCHANGED <<registry, since>>
           /\ \E event :
                 /\ Appended(event)
                 /\ event.request = req
                 /\ VerdictGiven = event.verdict
                 /\ event.verdict = "SUSPENDED_PENDING_APPROVAL"
                        => event.tier = "L3_CRITICAL"
                 /\ event.verdict = "PERMITTED"
                        => /\ event.tier # "L3_CRITICAL"
                           /\ event.tier = registry[req.tool].tier
    <1> DEFINE policy == registry[req.tool]
    <1>1. policy # NoPolicy => policy \in Policy
        BY DEF RegistryTyped, Requests
    <1>2. PICK tier \in ToolTier, verdict \in Verdict :
              /\ Audit(req, tier, verdict)
              /\ verdict = "SUSPENDED_PENDING_APPROVAL" => tier = "L3_CRITICAL"
              /\ verdict = "PERMITTED" => tier # "L3_CRITICAL" /\ tier = policy.tier
        <2>1. CASE EvaluateUnregistered(req)
            BY <2>1 DEF EvaluateUnregistered, ToolTier, Verdict
        <2>2. CASE EvaluateBroken(req)
            BY <1>1, <2>2 DEF EvaluateBroken, Policy, Verdict
        <2>3. CASE EvaluateCharged(req, role)
            <3>1. policy \in Policy /\ Audit(req, policy.tier, VerdictOf(policy, role))
                BY <1>1, <2>3 DEF EvaluateCharged
            <3>2. RoleLevel[role] \in Nat /\ RoleLevel[policy.minRole] \in Nat
                BY <3>1 DEF RoleLevel, UserRole, Policy
            <3>3. /\ VerdictOf(policy, role) \in Verdict
                  /\ VerdictOf(policy, role) = "SUSPENDED_PENDING_APPROVAL"
                         => policy.tier = "L3_CRITICAL"
                  /\ VerdictOf(policy, role) = "PERMITTED"
                         => policy.tier # "L3_CRITICAL"
                BY <3>2 DEF VerdictOf, Verdict
            <3> QED
                BY <3>1, <3>3 DEF Policy
        <2> QED
            BY <2>1, <2>2, <2>3 DEF Evaluate
    <1> DEFINE event == [request |-> req, tier |-> tier, verdict |-> verdict]
    <1>3. TrailTyped' /\ Appended(event)
        BY <1>2, AuditAppends
    <1>4. VerdictGiven = event.verdict
        BY <1>3 DEF Appended, VerdictGiven
    <1>5. UNCHANGED <<registry, since>>
        BY DEF Evaluate
    <1> QED
        BY <1>2, <1>3, <1>4, <1>5

LEMMA ExecuteToolDoes ==
    ASSUME RegistryTyped, TrailTyped, NEW c \in Tickets, NEW req \in Requests,
           NEW role \in UserRole, NEW given, ExecuteTool(c, req, role, given)
    PROVE  /\ TrailTyped'
           /\ \E event, state : Executes(c, req, given, event, state)
    <1>1. CASE RejectArguments(c, req, given)
        <2> DEFINE tier == IF registry[req.tool] = NoPolicy THEN "L3_CRITICAL"
                           ELSE registry[req.tool].tier
        <2>1. tier \in ToolTier
            BY DEF RegistryTyped, Requests, Policy, ToolTier
        <2>2. Audit(req, tier, "REJECTED_VALIDATION_FAILED")
            BY <1>1 DEF RejectArguments
        <2> DEFINE event == [request |-> req, tier |-> tier,
                             verdict |-> "REJECTED_VALIDATION_FAILED"]
        <2>3. TrailTyped' /\ Appended(event)
            BY <2>1, <2>2, AuditAppends DEF Verdict
        <2>4. event.request = req /\ event.verdict \notin GoAhead
            BY DEF GoAhead
        <2> HIDE DEF event, tier
        <2> QED
            BY <1>1, <2>3, <2>4 DEF ExecuteTool, RejectArguments, Enter, Executes
    <1>2. CASE Validates(req) /\ Evaluate(req, role)
        <2>1. PICK event :
                 /\ Appended(event)
                 /\ event.request = req
                 /\ VerdictGiven = event.verdict
                 /\ event.verdict = "SUSPENDED_PENDING_APPROVAL"
                        => event.tier = "L3_CRITICAL"
                 /\ event.verdict = "PERMITTED"
                        => /\ event.tier # "L3_CRITICAL"
                           /\ event.tier = registry[req.tool].tier
            BY <1>2, EvaluateAppends
        <2>2. TrailTyped' /\ UNCHANGED <<registry, since>>
            BY <1>2, EvaluateAppends
        <2>3. work[c] = NoWork /\ UNCHANGED tools
            BY DEF ExecuteTool
        <2>4. CASE Refuse(c, req, given)
            BY <2>1, <2>2, <2>3, <2>4 DEF Refuse, Enter, Executes, GoAhead
        <2>5. CASE Suspend(c, req, given)
            BY <1>2, <2>1, <2>2, <2>3, <2>5 DEF Suspend, Enter, Executes
        <2>6. CASE Permit(c, req, given)
            BY <1>2, <2>1, <2>2, <2>3, <2>6 DEF Permit, Enter, Executes
        <2> QED
            BY <1>1, <2>2, <2>4, <2>5, <2>6 DEF ExecuteTool
    <1> QED
        BY <1>1, <1>2 DEF ExecuteTool

-----------------------------------------------------------------------------
(* What the other steps do. *)

\* The store has taken the decision of a call.
DecisionGiven(o) == answers[o] \in [outcome : Decision, args : Args]

\* The approval of a card, or another end of resume_ticket.
Resumes(o, given) ==
    LET c == call[o].ticket
    IN /\ DecideTicket(o)
       /\ c \in Tickets
       /\ TrailGrows
       /\ UNCHANGED <<work, registry, since, tools>>
       /\ \E end \in {"none", "rejected"} \cup Execution :
              resumed' = [resumed EXCEPT ![o] = end]
       /\ \/ runs' = runs
          \/ /\ Made(c)
             /\ call'[o].state = "APPROVED"
             /\ DecisionGiven(o)'
             /\ \E end : Begin(c, o, Target(work[c].request.tool, given),
                               answers'[o].args, end)

\* A registration, by register_tool or by guard.
Registered(offer) ==
    /\ Registers(offer)
    /\ \/ offer \in OfferedTools /\ UNCHANGED guards
       \/ offer \in Guards \ guards /\ guards' = guards \cup {offer}

\* A step that makes no call and starts no handler.
Quiet ==
    /\ TrailGrows
    /\ UNCHANGED <<registry, tools, runs>>
    /\ work' \in [Tickets -> Work \cup {NoWork}]
    /\ \A c \in Tickets :
          \/ work'[c] = work[c]
          \/ \E end \in Execution :
                Made(c) /\ work'[c] = [work[c] EXCEPT !.state = end]
    /\ \A t \in Tickets : stage[t] = "unborn" => stage'[t] = "unborn"
    /\ since' \in [Sessions -> 0 .. Len(entries')]
    /\ resumed' \in [Operators -> {"none", "rejected"} \cup Execution]

\* A handler is brought by a caller of the runtime, or by a wrapper.
Brought(req, given) ==
    \/ given \in Handlers
    \/ \E g \in guards : given = g.handler /\ req.tool = g.tool

\* What makes the entries of the trail well-formed: nobody resumes, and
\* nothing runs, but for a call that was made.
MadeFirst ==
    /\ \A run \in runs : Made(run.call)
    /\ \A c \in Tickets : stage[c] # "unborn" => Made(c)

ToolsTyped ==
    /\ schemas \in [Tools -> Schema]
    /\ handlers \in [Tools -> Functions \cup {NoHandler}]
    /\ guards \subseteq Guards
    /\ overtaken \subseteq guards

ProgressTyped ==
    /\ since \in [Sessions -> 0 .. Len(entries)]
    /\ work \in [Tickets -> Work \cup {NoWork}]
    /\ resumed \in [Operators -> {"none", "rejected"} \cup Execution]
    /\ runs \subseteq Run

RuntimeTyped ==
    RegistryTyped /\ TrailTyped /\ ToolsTyped /\ ProgressTyped

LEMMA MadeRequests ==
    ASSUME ProgressTyped, NEW c \in Tickets, Made(c)
    PROVE  work[c] \in Work /\ work[c].request \in Requests
    BY DEF ProgressTyped, Made, Work

\* The card's entry is an entry like any other.
LEMMA AuditCardAppends ==
    ASSUME TrailTyped, ProgressTyped, NEW c \in Tickets, Made(c),
           NEW args \in Args, NEW verdict \in Verdict, AuditCard(c, args, verdict)
    PROVE  /\ TrailTyped' /\ TrailGrows
           /\ \E event : /\ Appended(event)
                         /\ event.request.id = work[c].request.id
                         /\ event.tier = "L3_CRITICAL" /\ event.verdict = verdict
    <1> DEFINE req == [work[c].request EXCEPT !.args = args]
               event == [request |-> req, tier |-> "L3_CRITICAL", verdict |-> verdict]
    <1>1. req \in Requests
        BY MadeRequests, RuntimeInputs DEF Requests
    <1>2. Audit(req, "L3_CRITICAL", verdict)
        BY DEF AuditCard
    <1>3. /\ event.tier = "L3_CRITICAL" /\ event.verdict = verdict
          /\ event.request.id = work[c].request.id
        BY MadeRequests DEF Requests
    <1> HIDE DEF req
    <1>4. TrailTyped' /\ Appended(event)
        BY <1>1, <1>2, AuditAppends DEF ToolTier
    <1> HIDE DEF event
    <1> QED
        BY <1>3, <1>4 DEF TrailGrows

\* A ticket that is decided belongs to a call, and the card has arguments.
LEMMA DecidedTickets ==
    ASSUME StoreInv, MadeFirst, NEW o \in Operators, NEW c, c = call[o].ticket,
           DecideTicket(o)
    PROVE  /\ c \in Tickets /\ Made(c)
           /\ call'[o].state \in Decision => DecisionGiven(o)'
    <1>1. c \in Tickets
        BY DEF DecideTicket, StoreInv, CallsNameTickets
    <1>2. call[o].state = "checked"
        BY DEF DecideTicket
    <1>3. Made(c)
        BY <1>1, <1>2 DEF StoreInv, CheckedSigned, MadeFirst
    <1>4. call'[o].state = answers'[o].outcome /\ call'[o].ticket = c
        BY DEF DecideTicket, Settle, StoreInv, TypeOK, Call
    <1>5. answers'[o] \in Answer
        <2>1. CASE answers[o] = None
            BY <1>2, <1>4, <2>1, UpdateSteps DEF DecideTicket
        <2>2. CASE answers[o] # None
            BY <2>2 DEF DecideTicket, StoreInv, TypeOK
        <2> QED
            BY <2>1, <2>2
    <1>6. answers'[o].outcome \in Decision => DecisionGiven(o)'
        BY <1>5 DEF Answer, Decision, DecisionGiven
    <1> QED
        BY <1>1, <1>3, <1>4, <1>6

LEMMA ResumeTicketDoes ==
    ASSUME StoreInv, RuntimeTyped, MadeFirst, NEW o \in Operators,
           NEW given \in Handlers, ResumeTicket(o, given)
    PROVE  TrailTyped' /\ Resumes(o, given)
    <1>0. PICK c \in Tickets : c = call[o].ticket
        BY DecidedTickets DEF ResumeTicket
    <1>1. /\ DecideTicket(o) /\ call[o].state = "checked"
          /\ UNCHANGED <<registry, since, tools>>
        BY DEF ResumeTicket, DecideTicket
    <1>2. Made(c)
        BY <1>0, <1>1, DecidedTickets
    <1>3. /\ call'[o].state \in Decision => DecisionGiven(o)'
          /\ DecisionGiven(o)' => answers'[o].args \in Args
        BY <1>0, <1>1, DecidedTickets DEF DecisionGiven
    <1>4. CASE ResolutionFails(o)
        <2>1. resumed' = [resumed EXCEPT ![o] = resumed[o]]
            BY <1>4 DEF ResolutionFails, progress, RuntimeTyped, ProgressTyped
        <2> QED
            BY <1>0, <1>1, <1>4, <2>1
            DEF ResolutionFails, progress, RuntimeTyped, ProgressTyped, TrailTyped,
                TrailGrows, Resumes
    <1>5. CASE RejectCard(o, c)
        <2>1. TrailTyped' /\ TrailGrows
            BY <1>2, <1>3, <1>5, AuditCardAppends
            DEF RejectCard, Decision, Verdict, RuntimeTyped
        <2> QED
            BY <1>0, <1>1, <1>5, <2>1 DEF RejectCard, Resumes
    <1>6. CASE ExecuteCard(o, c, given)
        <2>1. PICK end \in Execution :
                  /\ Begin(c, o, Target(work[c].request.tool, given),
                           answers'[o].args, end)
                  /\ resumed' = [resumed EXCEPT ![o] = end]
                  /\ AuditEnd(c, answers'[o].args, end)
            BY <1>6 DEF ExecuteCard
        <2>2. /\ DecisionGiven(o)' /\ answers'[o].args \in Args
              /\ call'[o].state = "APPROVED"
            BY <1>3, <1>6 DEF ExecuteCard, Decision
        <2>3. TrailTyped' /\ TrailGrows
            <3>1. CASE end = "succeeded"
                BY <1>2, <2>1, <2>2, <3>1, AuditCardAppends
                DEF AuditEnd, Verdict, RuntimeTyped
            <3>2. CASE end # "succeeded"
                BY <2>1, <3>2 DEF AuditEnd, RuntimeTyped, TrailTyped, TrailGrows
            <3> QED
                BY <3>1, <3>2
        <2> QED
            BY <1>0, <1>1, <1>2, <1>6, <2>1, <2>2, <2>3 DEF ExecuteCard, Resumes
    <1> QED
        BY <1>0, <1>4, <1>5, <1>6 DEF ResumeTicket

LEMMA QuietSteps ==
    ASSUME TypeOK, RuntimeTyped, MadeFirst,
           \/ UNCHANGED runtimeVars
           \/ \E c \in Tickets : CreateTicket(c) \/ EndExecution(c)
           \/ \E o \in Operators : \/ OpenTicket(o) \/ EndResumed(o)
                                   \/ StoreDecision(o) \/ CancelResume(o)
           \/ Around /\ UNCHANGED <<tools, progress>>
    PROVE  TrailTyped' /\ Quiet
    <1> USE DEF RuntimeTyped
    <1> DEFINE StagesKept ==
                   \A t \in Tickets : stage[t] = "unborn" => stage'[t] = "unborn"
    <1>1. ASSUME UNCHANGED <<gateVars, tools, progress>>, StagesKept
          PROVE  TrailTyped' /\ Quiet
        BY <1>1 DEF gateVars, progress, TrailTyped, ProgressTyped, TrailGrows, Quiet
    <1>2. CASE UNCHANGED runtimeVars
        BY <1>1, <1>2 DEF runtimeVars, vars
    <1>3. ASSUME NEW c \in Tickets, CreateTicket(c)
          PROVE  TrailTyped' /\ Quiet
        <2>1. StagesKept
            BY <1>3 DEF CreateTicket, SaveCard, EndNotification, CancelCreate, TypeOK
        <2> QED
            BY <1>1, <1>3, <2>1 DEF CreateTicket
    <1>4. ASSUME NEW c \in Tickets, EndExecution(c)
          PROVE  TrailTyped' /\ Quiet
        <2>1. PICK end \in {"succeeded", "failed", "cancelled"} :
                  work' = [work EXCEPT ![c].state = end]
            BY <1>4 DEF EndExecution
        <2> DEFINE new == [work[c] EXCEPT !.state = end]
        <2>2. new \in Work /\ Made(c) /\ end \in Execution
            BY <1>4, MadeRequests DEF EndExecution, Work, Execution
        <2>3. work' = [work EXCEPT ![c] = new]
            BY <2>1
        <2> HIDE DEF new
        <2>4. /\ work' \in [Tickets -> Work \cup {NoWork}]
              /\ \A d \in Tickets : work'[d] = IF d = c THEN new ELSE work[d]
            BY <2>2, <2>3 DEF ProgressTyped
        <2> QED
            BY <1>4, <2>2, <2>4
            DEF EndExecution, gateVars, vars, TrailTyped, ProgressTyped, TrailGrows,
                Quiet, new
    <1>5. ASSUME NEW o \in Operators,
                 OpenTicket(o) \/ StoreDecision(o) \/ CancelResume(o)
          PROVE  TrailTyped' /\ Quiet
        BY <1>1, <1>5
        DEF OpenTicket, StoreDecision, CancelResume, ReadTicket, WriteDecision,
            CancelResolve
    <1>6. ASSUME NEW o \in Operators, EndResumed(o)
          PROVE  TrailTyped' /\ Quiet
        <2>1. PICK run \in runs, end \in {"succeeded", "failed", "cancelled"} :
                  /\ resumed' = [resumed EXCEPT ![o] = end]
                  /\ AuditEnd(run.call, run.args, end)
            BY <1>6 DEF EndResumed
        <2>2. run.call \in Tickets /\ run.args \in Args /\ Made(run.call)
            BY DEF ProgressTyped, Run, MadeFirst
        <2>3. TrailTyped' /\ TrailGrows
            BY <2>1, <2>2, AuditCardAppends DEF AuditEnd, Verdict, TrailTyped, TrailGrows
        <2>4. since' \in [Sessions -> 0 .. Len(entries')]
            BY <1>6, <2>3, TrailLength DEF EndResumed, TrailGrows, Appended, ProgressTyped
        <2>5. resumed' \in [Operators -> {"none", "rejected"} \cup Execution]
            BY <2>1 DEF ProgressTyped, Execution
        <2> QED
            BY <1>6, <2>3, <2>4, <2>5 DEF EndResumed, vars, ProgressTyped, Quiet
    <1>7. CASE Around /\ UNCHANGED <<tools, progress>>
        <2>1. UNCHANGED <<entries, registry>> /\ StagesKept
            BY <1>7 DEF Around, Environment, Poll, Sweep, ClearStore, AlterArguments,
                        PassTime, Reset, PassMono, gateVars, vars
        <2>2. since' \in [Sessions -> 0 .. Len(entries')]
            BY <1>7, TrailLength DEF Around, Reset, PassMono, gateVars, ProgressTyped
        <2> QED
            BY <1>7, <2>1, <2>2 DEF TrailTyped, progress, ProgressTyped, TrailGrows, Quiet
    <1> QED
        BY <1>2, <1>3, <1>4, <1>5, <1>6, <1>7

\* Every step of the runtime is one of four kinds.
LEMMA RuntimeSteps ==
    ASSUME StoreInv, RuntimeTyped, MadeFirst, [RuntimeNext]_runtimeVars
    PROVE  /\ TrailTyped'
           /\ \/ \E offer : Registered(offer)
              \/ \E c \in Tickets, req \in Requests : \E given, event, state :
                     Executes(c, req, given, event, state) /\ Brought(req, given)
              \/ \E o \in Operators, given \in Handlers : Resumes(o, given)
              \/ Quiet
    <1> USE DEF RuntimeTyped
    <1>1. ASSUME NEW offer \in OfferedTools, RegisterTool(offer)
          PROVE  TrailTyped' /\ Registered(offer)
        BY <1>1 DEF RegisterTool, Registered, Registers, Register, TrailTyped
    <1>2. ASSUME NEW g \in Guards, Decorate(g)
          PROVE  TrailTyped' /\ Registered(g)
        BY <1>2 DEF Decorate, Registered, Registers, Register, TrailTyped
    <1>3. ASSUME NEW c \in Tickets, Begins(c)
          PROVE  TrailTyped' /\ \E req \in Requests : \E given, event, state :
                     Executes(c, req, given, event, state) /\ Brought(req, given)
        <2>1. \E req \in Requests, role \in UserRole : \E given :
                  ExecuteTool(c, req, role, given) /\ Brought(req, given)
            BY <1>3 DEF Begins, CallGuarded, Brought
        <2> QED
            BY <2>1, ExecuteToolDoes
    <1>4. ASSUME NEW o \in Operators, NEW given \in Handlers, ResumeTicket(o, given)
          PROVE  TrailTyped' /\ Resumes(o, given)
        BY <1>4, ResumeTicketDoes
    <1> QED
        BY <1>1, <1>2, <1>3, <1>4, QuietSteps DEF RuntimeNext, StoreInv

-----------------------------------------------------------------------------
(* A handler is started at most once for a call. *)

\* The inductive invariant of the runtime, for any store.
RuntimeInv ==
    /\ RuntimeTyped
    /\ RunsOwned
    /\ OneRunEach
    /\ TicketsHaveWork

\* Starting a handler adds a well-formed start, or none.
LEMMA BeginTyped ==
    ASSUME NEW c \in Tickets, NEW by \in Operators \cup {None}, NEW args \in Args,
           NEW target \in Functions \cup {NoHandler}, NEW end,
           Begin(c, by, target, args, end)
    PROVE  /\ end \in Execution
           /\ \/ runs' = runs
              \/ \E run \in Run : /\ run.call = c /\ run.by = by
                                  /\ run.handler = target /\ run.args = args
                                  /\ runs' = runs \cup {run}
    <1> DEFINE run == [call |-> c, by |-> by, handler |-> target, args |-> args]
    <1>1. end \in Execution
        BY DEF Begin, Execution
    <1>2. CASE target = NoHandler
        BY <1>1, <1>2 DEF Begin
    <1>3. CASE target # NoHandler
        <2>1. run \in Run
            BY <1>3 DEF Run
        <2>2. runs' = runs \cup {run}
            BY <1>3 DEF Begin
        <2> QED
            BY <1>1, <2>1, <2>2
    <1> QED
        BY <1>2, <1>3

\* The handler that is found, and what an L1 or L2 handler is given.
LEMMA Targets ==
    ASSUME ToolsTyped, NEW req \in Requests,
           NEW given \in Functions \cup {NoHandler}
    PROVE  /\ Target(req.tool, given) \in Functions \cup {NoHandler}
           /\ Validates(req) => schemas[req.tool][req.args] \in Args
    BY DEF ToolsTyped, Target, Validates, Requests, Schema

LEMMA BroughtHandlers ==
    ASSUME ToolsTyped, NEW req, NEW given, Brought(req, given)
    PROVE  given \in Functions \cup {NoHandler}
    BY GuardedHidden, RuntimeInputs DEF Brought, ToolsTyped

LEMMA ExecutesStarts ==
    ASSUME ToolsTyped, ProgressTyped, NEW c \in Tickets, NEW req \in Requests,
           NEW given, NEW event, NEW state,
           Executes(c, req, given, event, state), Brought(req, given)
    PROVE  /\ state \in {"refused", "suspended"} \cup Execution
           /\ \/ /\ UNCHANGED <<stage, runs>>
              \/ /\ stage' = [stage EXCEPT ![c] = "built"]
                 /\ UNCHANGED <<call, runs>>
              \/ /\ UNCHANGED vars
                 /\ registry[req.tool].tier # "L3_CRITICAL"
                 /\ \E run \in Run : /\ run.call = c /\ run.by = None
                                     /\ run.handler = Target(req.tool, given)
                                     /\ runs' = runs \cup {run}
    <1> USE DEF Executes
    <1>1. CASE state \in Execution /\ Validates(req) /\ UNCHANGED vars
               /\ registry[req.tool].tier # "L3_CRITICAL"
               /\ Begin(c, None, Target(req.tool, given),
                        schemas[req.tool][req.args], state)
        <2> DEFINE target == Target(req.tool, given)
                   args == schemas[req.tool][req.args]
        <2>1. target \in Functions \cup {NoHandler} /\ args \in Args
            BY <1>1, Targets, BroughtHandlers
        <2>2. Begin(c, None, target, args, state)
            BY <1>1
        <2> HIDE DEF target, args, Executes
        <2>3. /\ state \in Execution
              /\ \/ runs' = runs
                 \/ \E run \in Run : /\ run.call = c /\ run.by = None
                                     /\ run.handler = target /\ run.args = args
                                     /\ runs' = runs \cup {run}
            BY <2>1, <2>2, BeginTyped
        <2> QED
            BY <1>1, <2>3 DEF vars, target
    <1> QED
        BY <1>1 DEF BuildCard, vars

\* The call is made with that.
LEMMA ExecutesMakes ==
    ASSUME RuntimeTyped, NEW c \in Tickets, NEW req \in Requests,
           NEW given \in Functions \cup {NoHandler}, NEW event, NEW state,
           Executes(c, req, given, event, state)
    PROVE  /\ work'[c] \in Work /\ Made(c)'
           /\ work'[c].request = req /\ work'[c].entry = Len(entries')
           /\ \A d \in Tickets \ {c} : work'[d] = work[d]
    <1> DEFINE new == [request |-> req, given |-> given,
                       entry |-> Len(entries'), state |-> state]
    <1>1. work' = [work EXCEPT ![c] = new]
        BY DEF Executes
    <1>2. state \in {"refused", "suspended"} \cup Execution
        BY DEF Executes
    <1>3. Len(entries') \in Nat
        BY TrailLength DEF Executes, Appended, RuntimeTyped
    <1>4. new \in Work /\ new.request = req /\ new.entry = Len(entries')
        BY <1>2, <1>3 DEF Work
    <1> HIDE DEF new
    <1>5. work'[c] = new /\ \A d \in Tickets \ {c} : work'[d] = work[d]
        BY <1>1 DEF RuntimeTyped, ProgressTyped
    <1> QED
        BY <1>4, <1>5, NoneIsNoWork DEF Made

\* What an approval starts, in the name of the operator.
LEMMA ResumesStarts ==
    ASSUME ToolsTyped, ProgressTyped, NEW o \in Operators, NEW given \in Handlers,
           Resumes(o, given)
    PROVE  \/ runs' = runs
           \/ /\ Made(call[o].ticket)
              /\ call'[o].state = "APPROVED"
              /\ \E run \in Run :
                    /\ run.call = call[o].ticket /\ run.by = o
                    /\ run.handler = Target(work[call[o].ticket].request.tool, given)
                    /\ runs' = runs \cup {run}
    <1> DEFINE c == call[o].ticket
    <1> USE DEF Resumes
    <1>1. CASE runs' # runs
        <2>1. PICK end : Begin(c, o, Target(work[c].request.tool, given),
                               answers'[o].args, end)
            BY <1>1
        <2>2. c \in Tickets /\ Made(c) /\ answers'[o].args \in Args
            BY <1>1 DEF DecisionGiven
        <2>3. given \in Functions \cup {NoHandler}
            BY RuntimeInputs
        <2> DEFINE target == Target(work[c].request.tool, given)
        <2>4. /\ target \in Functions \cup {NoHandler}
              /\ Begin(c, o, target, answers'[o].args, end)
            BY <2>1, <2>2, <2>3, Targets, MadeRequests
        <2>5. \E run \in Run : /\ run.call = c /\ run.by = o
                               /\ run.handler = target
                               /\ runs' = runs \cup {run}
            <3> HIDE DEF target
            <3> QED
                BY <1>1, <2>2, <2>4, BeginTyped
        <2> QED
            BY <1>1, <2>2, <2>5
    <1> QED
        BY <1>1

LEMMA TypingSteps ==
    ASSUME StoreInv, RuntimeTyped, MadeFirst, [RuntimeNext]_runtimeVars
    PROVE  RuntimeTyped'
    <1> USE DEF RuntimeTyped
    <1>1. RegistryTyped' /\ TrailTyped'
        BY RegistrySteps, RuntimeSteps
    <1>2. Len(entries) \in Nat
        BY TrailLength
    <1>3. ASSUME NEW offer, Registered(offer)
          PROVE  ToolsTyped' /\ ProgressTyped'
        <2>1. /\ offer \in Registration
              /\ guards' \subseteq Guards
              /\ guards \subseteq guards'
            BY <1>3, RuntimeInputs DEF Registered, ToolsTyped
        <2>2. ToolsTyped'
            BY <1>3, <2>1 DEF Registered, Registers, ToolsTyped, Registration
        <2> QED
            BY <1>3, <2>2 DEF Registered, Registers, Register, progress, ProgressTyped
    <1>4. ASSUME NEW c \in Tickets, NEW req \in Requests, NEW given, NEW event,
                 NEW state, Executes(c, req, given, event, state), Brought(req, given)
          PROVE  ToolsTyped' /\ ProgressTyped'
        <2>1. Len(entries') = Len(entries) + 1
            BY <1>4 DEF Executes, Appended
        <2>2. runs' \subseteq Run /\ state \in {"refused", "suspended"} \cup Execution
            BY <1>4, ExecutesStarts DEF ProgressTyped, vars
        <2> DEFINE new == [request |-> req, given |-> given,
                           entry |-> Len(entries'), state |-> state]
        <2>3. new \in Work
            BY <1>2, <1>4, <2>1, <2>2, BroughtHandlers DEF Work
        <2>4. work' = [work EXCEPT ![c] = new]
            BY <1>4 DEF Executes
        <2> HIDE DEF new
        <2>5. /\ work' \in [Tickets -> Work \cup {NoWork}]
              /\ UNCHANGED <<since, resumed, tools>>
            BY <1>4, <2>3, <2>4 DEF Executes, ProgressTyped
        <2>6. since' \in [Sessions -> 0 .. Len(entries')]
            BY <1>2, <2>1, <2>5 DEF ProgressTyped
        <2> QED
            BY <2>2, <2>5, <2>6 DEF tools, ToolsTyped, ProgressTyped
    <1>5. ASSUME NEW o \in Operators, NEW given \in Handlers, Resumes(o, given)
          PROVE  ToolsTyped' /\ ProgressTyped'
        <2>1. runs' \subseteq Run
            BY <1>5, ResumesStarts DEF ProgressTyped
        <2>2. /\ resumed' \in [Operators -> {"none", "rejected"} \cup Execution]
              /\ UNCHANGED <<work, since, tools>>
            BY <1>5 DEF Resumes, ProgressTyped
        <2>3. since' \in [Sessions -> 0 .. Len(entries')]
            BY <1>2, <1>5, <2>2 DEF Resumes, TrailGrows, Appended, ProgressTyped
        <2> QED
            BY <2>1, <2>2, <2>3 DEF tools, ToolsTyped, ProgressTyped
    <1>6. CASE Quiet
        <2>1. UNCHANGED <<schemas, handlers, guards, overtaken, runs>>
            BY <1>6 DEF Quiet, tools
        <2>2. ToolsTyped'
            BY <2>1 DEF ToolsTyped
        <2>3. /\ since' \in [Sessions -> 0 .. Len(entries')]
              /\ work' \in [Tickets -> Work \cup {NoWork}]
              /\ resumed' \in [Operators -> {"none", "rejected"} \cup Execution]
            BY <1>6 DEF Quiet
        <2>4. runs' \subseteq Run
            BY <2>1 DEF ProgressTyped
        <2> QED
            BY <1>1, <2>2, <2>3, <2>4 DEF ProgressTyped
    <1> QED
        BY <1>1, <1>3, <1>4, <1>5, <1>6, RuntimeSteps

LEMMA InvMadeFirst == RuntimeInv => MadeFirst
    BY DEF RuntimeInv, RunsOwned, TicketsHaveWork, MadeFirst

\* An approval is the end of a resolve_ticket call, and a ticket that was
\* created stays created.
LEMMA ApprovalsStay ==
    ASSUME StoreInv, [Next]_vars
    PROVE  /\ \A o \in Operators : call[o].state = "APPROVED" => call'[o] = call[o]
           /\ \A t \in Tickets : stage[t] # "unborn" => stage'[t] # "unborn"
    BY NextSteps DEF Steps, CallStep, StageStep

\* A call stays what it was, but for its state, once it has been made.
WorkKept ==
    \A c \in Tickets : Made(c) =>
        /\ Made(c)'
        /\ work'[c].request = work[c].request
        /\ work'[c].given = work[c].given
        /\ work'[c].entry = work[c].entry

LEMMA WorkSteps ==
    ASSUME StoreInv, RuntimeTyped, MadeFirst, [RuntimeNext]_runtimeVars
    PROVE  WorkKept
    <1>1. \A c \in Tickets : Made(c) => work[c] \in Work
        BY MadeRequests DEF RuntimeTyped
    <1>2. ASSUME NEW c \in Tickets, Made(c),
                 \/ work'[c] = work[c]
                 \/ \E end \in Execution : work'[c] = [work[c] EXCEPT !.state = end]
          PROVE  /\ Made(c)'
                 /\ work'[c].request = work[c].request
                 /\ work'[c].given = work[c].given
                 /\ work'[c].entry = work[c].entry
        <2>1. work[c] \in Work
            BY <1>1, <1>2
        <2>2. work'[c] \in Work
            BY <1>2, <2>1 DEF Work
        <2> QED
            BY <1>2, <2>1, <2>2, NoneIsNoWork DEF Work, Made
    <1>3. ASSUME NEW c \in Tickets, Made(c)
          PROVE  \/ work'[c] = work[c]
                 \/ \E end \in Execution : work'[c] = [work[c] EXCEPT !.state = end]
        <2>1. CASE \E offer : Registered(offer)
            BY <2>1 DEF Registered, Registers, progress
        <2>2. ASSUME NEW d \in Tickets, NEW req \in Requests, NEW given, NEW event,
                     NEW state, Executes(d, req, given, event, state)
              PROVE  work'[c] = work[c]
            BY <1>3, <2>2 DEF Executes, Made, RuntimeTyped, ProgressTyped
        <2>3. CASE \E o \in Operators, given \in Handlers : Resumes(o, given)
            BY <2>3 DEF Resumes
        <2>4. CASE Quiet
            BY <2>4 DEF Quiet
        <2> QED
            BY <2>1, <2>2, <2>3, <2>4, RuntimeSteps
    <1> QED
        BY <1>2, <1>3 DEF WorkKept

LEMMA RunSteps ==
    ASSUME StoreInv, RuntimeInv, [RuntimeNext]_runtimeVars
    PROVE  RuntimeInv'
    <1>1. /\ RuntimeTyped /\ RuntimeTyped' /\ WorkKept
          /\ [Next]_vars
          /\ ToolsTyped /\ ProgressTyped /\ ProgressTyped'
        BY TypingSteps, WorkSteps, SuspensionSteps, InvMadeFirst
        DEF RuntimeInv, RuntimeTyped
    <1>2. \A run \in runs : run.call \in Tickets /\ run.by \in Operators \cup {None}
        BY <1>1 DEF ProgressTyped, Run
    \* A step that starts no handler, and no ticket but for a new call.
    <1>3. ASSUME runs' = runs,
                 \A t \in Tickets : \/ stage[t] = "unborn" => stage'[t] = "unborn"
                                    \/ ~Made(t) /\ Made(t)'
          PROVE  RunsOwned' /\ OneRunEach' /\ TicketsHaveWork'
        <2>1. ASSUME NEW run \in runs
              PROVE  /\ Made(run.call)'
                     /\ run.by = None => stage'[run.call] = "unborn"
                     /\ run.by # None => /\ call'[run.by].state = "APPROVED"
                                         /\ call'[run.by].ticket = run.call
            BY <1>1, <1>2, <1>3, ApprovalsStay DEF RuntimeInv, RunsOwned, WorkKept
        <2>2. RunsOwned'
            BY <1>3, <2>1 DEF RunsOwned, Made
        <2>3. ASSUME NEW t \in Tickets, stage'[t] # "unborn"
              PROVE  Made(t)'
            BY <1>1, <1>3, <2>3 DEF RuntimeInv, TicketsHaveWork, WorkKept
        <2> QED
            BY <1>3, <2>2, <2>3 DEF RuntimeInv, OneRunEach, TicketsHaveWork, Made
    \* A step that starts one.
    <1>4. ASSUME NEW run \in Run, runs' = runs \cup {run}, stage' = stage,
                 Made(run.call)',
                 \A other \in runs : run.call # other.call \/ run.by # other.by,
                 run.by = None => stage[run.call] = "unborn",
                 run.by # None => /\ call'[run.by].state = "APPROVED"
                                  /\ call'[run.by].ticket = run.call
          PROVE  RunsOwned' /\ OneRunEach' /\ TicketsHaveWork'
        <2>1. ASSUME NEW other \in runs
              PROVE  /\ Made(other.call)'
                     /\ other.by = None => stage'[other.call] = "unborn"
                     /\ other.by # None => /\ call'[other.by].state = "APPROVED"
                                           /\ call'[other.by].ticket = other.call
            BY <1>1, <1>2, <1>4, ApprovalsStay DEF RuntimeInv, RunsOwned, WorkKept
        <2>2. RunsOwned'
            BY <1>4, <2>1 DEF RunsOwned, Made
        <2>3. OneRunEach'
            BY <1>4 DEF RuntimeInv, OneRunEach
        <2>4. TicketsHaveWork'
            BY <1>1, <1>4 DEF RuntimeInv, TicketsHaveWork, WorkKept, Made
        <2> QED
            BY <2>2, <2>3, <2>4
    <1>5. CASE \E offer : Registered(offer)
        BY <1>1, <1>3, <1>5 DEF Registered, Registers, progress, vars, RuntimeInv
    <1>6. ASSUME NEW c \in Tickets, NEW req \in Requests, NEW given, NEW event,
                 NEW state, Executes(c, req, given, event, state), Brought(req, given)
          PROVE  RunsOwned' /\ OneRunEach' /\ TicketsHaveWork'
        <2>1. ~Made(c) /\ stage[c] = "unborn"
            BY <1>6 DEF Executes, Made, RuntimeInv, TicketsHaveWork
        <2>2. Made(c)'
            BY <1>1, <1>6, BroughtHandlers, ExecutesMakes
        <2>3. \A run \in runs : run.call # c
            BY <2>1 DEF RuntimeInv, RunsOwned
        <2>4. CASE UNCHANGED <<stage, runs>>
            BY <1>3, <2>4
        <2>5. CASE stage' = [stage EXCEPT ![c] = "built"] /\ UNCHANGED runs
            <3>1. \A t \in Tickets : t # c => stage'[t] = stage[t]
                BY <2>5 DEF StoreInv, TypeOK
            <3> QED
                BY <1>3, <2>1, <2>2, <2>5, <3>1
        <2>6. ASSUME UNCHANGED vars, NEW run \in Run, run.call = c, run.by = None,
                     runs' = runs \cup {run}
              PROVE  RunsOwned' /\ OneRunEach' /\ TicketsHaveWork'
            BY <1>4, <2>1, <2>2, <2>3, <2>6 DEF vars
        <2> QED
            BY <1>1, <1>6, <2>4, <2>5, <2>6, ExecutesStarts
    <1>7. ASSUME NEW o \in Operators, NEW given \in Handlers, Resumes(o, given)
          PROVE  RunsOwned' /\ OneRunEach' /\ TicketsHaveWork'
        <2>1. /\ stage' = stage /\ call[o].state = "checked"
              /\ call'[o].ticket = call[o].ticket
            BY <1>7 DEF Resumes, DecideTicket, Settle, StoreInv, TypeOK, Call
        <2>2. CASE runs' = runs
            BY <1>3, <2>1, <2>2
        <2>3. ASSUME Made(call[o].ticket), call'[o].state = "APPROVED",
                     NEW run \in Run, run.call = call[o].ticket, run.by = o,
                     runs' = runs \cup {run}
              PROVE  RunsOwned' /\ OneRunEach' /\ TicketsHaveWork'
            <3>1. o # None
                BY NoneIsNoMember
            <3>2. \A other \in runs : other.by # o
                BY <2>1, <3>1 DEF RuntimeInv, RunsOwned
            <3>3. Made(run.call)'
                BY <1>1, <1>7, <2>3 DEF WorkKept, Resumes, Made
            <3> QED
                BY <1>4, <2>1, <2>3, <3>1, <3>2, <3>3
        <2> QED
            BY <1>1, <1>7, <2>2, <2>3, ResumesStarts
    <1>8. CASE Quiet
        BY <1>1, <1>3, <1>8 DEF Quiet, RuntimeInv
    <1> QED
        BY <1>1, <1>5, <1>6, <1>7, <1>8, RuntimeSteps, InvMadeFirst DEF RuntimeInv

LEMMA InitRuntimeInv == RuntimeInit => RuntimeInv
    <1> SUFFICES ASSUME RuntimeInit PROVE RuntimeInv
        OBVIOUS
    <1> USE DEF RuntimeInit, GateInit
    <1>1. RegistryTyped /\ ToolsTyped
        BY DEF RegistryTyped, ToolsTyped, Schema
    <1>2. TrailTyped
        BY DEF TrailTyped
    <1>3. ProgressTyped
        BY DEF ProgressTyped, Execution
    <1>4. RunsOwned /\ OneRunEach /\ TicketsHaveWork
        BY DEF RunsOwned, OneRunEach, TicketsHaveWork, Init
    <1> QED
        BY <1>1, <1>2, <1>3, <1>4 DEF RuntimeInv, RuntimeTyped

\* What holds of the controller holds of the controller in the runtime.
LEMMA StoreInside == RuntimeSpec => []StoreInv
    BY SuspensionInside, StoreInvariance DEF ImplementsSuspension

\* With any store, RuntimeInv holds in every reachable state.
THEOREM RuntimeInvariance == RuntimeSpec => []RuntimeInv
    <1>1. StoreInv /\ RuntimeInv /\ [RuntimeNext]_runtimeVars => RuntimeInv'
        BY RunSteps
    <1> QED
        BY StoreInside, InitRuntimeInv, <1>1, PTL DEF RuntimeSpec

\* Type correctness of the runtime and of all its parts.
THEOREM RuntimeTypeCorrect == RuntimeSpec => []RuntimeTypeOK
    <1>1. RuntimeSpec => []BreakerTypeOK
        BY BreakerInside, BreakerTypeCorrect DEF ImplementsBreaker
    <1>2. StoreInv /\ BreakerTypeOK /\ RuntimeInv => RuntimeTypeOK
        BY DEF StoreInv, RuntimeInv, RuntimeTyped, RegistryTyped, TrailTyped,
               ToolsTyped, ProgressTyped, RuntimeTypeOK, GateTypeOK
    <1> QED
        BY StoreInside, RuntimeInvariance, <1>1, <1>2, PTL

\* With any store, every start of a handler has its execute_tool call, and an
\* approval behind it if there was a ticket; neither has two.
THEOREM RunsExplained == RuntimeSpec => []RunInv
    <1>1. RuntimeInv => RunInv
        BY DEF RuntimeInv, RuntimeTyped, ProgressTyped, RunInv
    <1> QED
        BY RuntimeInvariance, <1>1, PTL

\* On one event loop the handler is started at most once for a call, whoever
\* answers, and whatever the tool has become in between.
THEOREM StartedOnce ==
    ASSUME ~StoreYields
    PROVE  RuntimeSpec => []RunOnce
    <1>1. RuntimeSpec => []IInv
        BY SuspensionInside, Invariance DEF ImplementsSuspension
    <1>2. IInv /\ RunInv => RunOnce
        <2> SUFFICES ASSUME IInv, RunInv, NEW run1 \in runs, NEW run2 \in runs,
                            run1.call = run2.call
                     PROVE  run1 = run2
            BY DEF RunOnce
        <2>1. run1 \in Run /\ run2 \in Run
            BY DEF RunInv
        <2>2. \A run \in Run : run.call \in Tickets /\ run.by \in Operators \cup {None}
            BY DEF Run
        <2>3. CASE run1.by # None /\ run2.by # None
            <3>1. Decided(run1.by) /\ Decided(run2.by)
                BY <2>3 DEF RunInv, RunsOwned, Decided, Decision
            <3>2. call[run1.by].ticket = call[run2.by].ticket
                BY <2>3 DEF RunInv, RunsOwned
            <3>3. run1.by = run2.by
                BY <2>1, <2>2, <2>3, <3>1, <3>2 DEF IInv, DecidedOnce
            <3> QED
                BY <3>3 DEF RunInv, OneRunEach
        <2>4. ASSUME NEW run \in runs, run.by # None
              PROVE  stage[run.call] # "unborn"
            <3>1. Decided(run.by) /\ call[run.by].ticket = run.call
                BY <2>4 DEF RunInv, RunsOwned, Decided, Decision
            <3>2. run.call \in Tickets /\ run.by \in Operators
                BY <2>2, <2>4 DEF RunInv
            <3> QED
                BY <3>1, <3>2 DEF IInv, UnsavedUnknown
        <2>5. ASSUME NEW run \in runs, run.by = None
              PROVE  stage[run.call] = "unborn"
            BY <2>5 DEF RunInv, RunsOwned
        <2> QED
            BY <2>3, <2>4, <2>5 DEF RunInv, OneRunEach
    <1> QED
        BY <1>1, <1>2, RunsExplained, PTL

=============================================================================
