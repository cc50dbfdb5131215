----------------------------- MODULE TagRuntime -----------------------------
(***************************************************************************)
(* interceptor.py: TAGRuntime, which puts the parts together, and guard,   *)
(* which puts a function behind it.                                        *)
(*                                                                         *)
(* execute_tool validates the arguments, has the request evaluated by the  *)
(* Gatekeeper, and then refuses it, opens a ticket through the Suspension  *)
(* controller, or runs the tool's handler.  resume_ticket has the ticket   *)
(* resolved and, if it was approved, runs the handler that the tool has    *)
(* by then.  Both run without interruption between two awaits that really  *)
(* suspend: those of the store (see Suspension), of the notification, and  *)
(* of a handler that is a coroutine function.                              *)
(*                                                                         *)
(* A call of execute_tool goes by the ticket that may come of it.  Several *)
(* calls may carry one request.                                            *)
(***************************************************************************)
EXTENDS Suspension, Gatekeeper

CONSTANTS
    Clean,         \* the arguments in which the InjectionGuard finds nothing
    Functions,     \* the functions that may stand behind a tool
    Coroutines,    \* those of them that suspend; the others run to their end
    NoHandler,     \* no handler: the parameter's default
    Handlers,      \* the handlers that callers of the runtime may pass
    OfferedTools,  \* the registrations that may be made
    Guards         \* the decorations with guard that may be made

\* A schema maps the arguments it accepts to the validated, coerced data.
Schema == UNION {[accepted -> Args] : accepted \in SUBSET Args}

Registration == [tool : Tools, tier : OfferedTiers, minRole : OfferedRoles,
                 schema : Schema, handler : Functions \cup {NoHandler}]

ASSUME RuntimeInputs ==
    /\ Arguments = Args
    /\ Clean \subseteq Args
    /\ Coroutines \subseteq Functions
    /\ Handlers \subseteq Functions \cup {NoHandler}
    /\ NoHandler \notin Functions
    /\ OfferedTools \cup Guards \subseteq Registration

\* execute_tool asks for the default TTL.
ASSUME NoTTLOffered == None \in RequestedTTLs

\* Once decorated, a function goes by the name of its wrapper only, and every
\* decoration has a function of its own.
ASSUME GuardedHidden ==
    \A g \in Guards :
        /\ g.handler \in Functions \ Handlers
        /\ \A offer \in OfferedTools : offer.handler # g.handler
        /\ \A other \in Guards : other.handler = g.handler => other = g

VARIABLES
    schemas,    \* policy.schema_model of each tool
    handlers,   \* policy.handler of each tool
    guards,     \* the decorations made, whose wrappers can be called
    overtaken,  \* history: those whose tool was registered again since
    work,       \* the calls of execute_tool
    resumed,    \* what became of each operator's resume_ticket call
    runs        \* history: the starts of handlers

tools == <<schemas, handlers, guards, overtaken>>

progress == <<work, resumed, runs>>

runtimeVars == <<vars, gateVars, tools, progress>>

\* How an execution of a handler stands or has ended; "nohandler" when there
\* was nothing to execute.
Execution == {"nohandler", "running", "succeeded", "failed", "cancelled"}

\* An execute_tool call has not been made, or it has brought a request and
\* perhaps a handler, has left its verdict in the trail, and has been refused,
\* has gone on to create a ticket (stage tells how far), or executes.
Work == [request : Requests,
         given   : Functions \cup {NoHandler},
         entry   : Nat,
         state   : {"refused", "suspended"} \cup Execution]

NoWork == None

ASSUME NoneIsNoWork == NoWork \notin Work

\* A handler was started for a call with some arguments: by execute_tool
\* itself (None), or on behalf of the operator who approved it.
Run == [call : Tickets, by : Operators \cup {None}, handler : Functions,
        args : Args]

RuntimeTypeOK ==
    /\ TypeOK
    /\ GateTypeOK
    /\ schemas \in [Tools -> Schema]
    /\ handlers \in [Tools -> Functions \cup {NoHandler}]
    /\ guards \subseteq Guards
    /\ overtaken \subseteq guards
    /\ work \in [Tickets -> Work \cup {NoWork}]
    /\ resumed \in [Operators -> {"none", "rejected"} \cup Execution]
    /\ runs \subseteq Run

RuntimeInit ==
    /\ Init
    /\ GateInit
    /\ schemas = [tool \in Tools |-> [args \in Args |-> args]]
    /\ handlers = [tool \in Tools |-> NoHandler]
    /\ guards = {}
    /\ overtaken = {}
    /\ work = [c \in Tickets |-> NoWork]
    /\ resumed = [o \in Operators |-> "none"]
    /\ runs = {}

-----------------------------------------------------------------------------
(* register_tool and guard *)

\* Mutation: a tool that has a handler keeps it.
RegistersKeepingHandler(offer) ==
    /\ Register(offer.tool, offer.tier, offer.minRole)
    /\ schemas' = [schemas EXCEPT ![offer.tool] = offer.schema]
    /\ handlers' = [handlers EXCEPT ![offer.tool] =
                        IF @ = NoHandler THEN offer.handler ELSE @]
    /\ overtaken' = overtaken \cup {g \in guards : g.tool = offer.tool}
    /\ UNCHANGED <<vars, progress>>

\* The policy of a name is replaced, that of a guarded function included.
Registers(offer) ==
    /\ Register(offer.tool, offer.tier, offer.minRole)
    /\ schemas' = [schemas EXCEPT ![offer.tool] = offer.schema]
    /\ handlers' = [handlers EXCEPT ![offer.tool] = offer.handler]
    /\ overtaken' = overtaken \cup {g \in guards : g.tool = offer.tool}
    /\ UNCHANGED <<vars, progress>>

RegisterTool(offer) ==
    /\ MayRun(None)
    /\ Registers(offer)
    /\ UNCHANGED guards

\* A function is decorated: its tool is registered, and the wrapper takes its
\* place.
Decorate(g) ==
    /\ MayRun(None)
    /\ g \notin guards
    /\ Registers(g)
    /\ guards' = guards \cup {g}

\* handler or policy.handler, at the moment of the call.
Target(tool, given) == IF given # NoHandler THEN given ELSE handlers[tool]

\* Starting the handler found for an execution: a plain function is over, for
\* better or worse, before anybody else runs.
Begin(c, by, target, args, end) ==
    /\ end \in CASE target = NoHandler                 -> {"nohandler"}
                 [] target \in Coroutines              -> {"running"}
                 [] target \in Functions \ Coroutines  -> {"succeeded", "failed"}
    /\ runs' = IF target = NoHandler THEN runs
               ELSE runs \cup {[call |-> c, by |-> by, handler |-> target,
                                args |-> args]}

-----------------------------------------------------------------------------
(* execute_tool *)

\* Mutation: the schema is consulted, the injection guard is not.
ValidatesSchemaOnly(req) == req.args \in DOMAIN schemas[req.tool]

\* SchemaContractValidator.validate; the schema of a tool that has none, or
\* is not registered, accepts everything as it is.
Validates(req) == req.args \in Clean /\ req.args \in DOMAIN schemas[req.tool]

\* What the call has come to, with the entry it has just put in the trail.
Enter(c, req, given, state) ==
    work' = [work EXCEPT ![c] = [request |-> req, given |-> given,
                                 entry |-> Len(entries'), state |-> state]]

\* Invalid arguments are refused before the gatekeeper hears of the request.
RejectArguments(c, req, given) ==
    /\ Audit(req, IF registry[req.tool] = NoPolicy THEN "L3_CRITICAL"
                                                   ELSE registry[req.tool].tier,
             "REJECTED_VALIDATION_FAILED")
    /\ Enter(c, req, given, "refused")
    /\ UNCHANGED <<vars, breakerVars, registry, since, resumed, runs>>

\* The verdict that evaluate has just put in the trail.
VerdictGiven == entries'[Len(entries')].event.verdict

Refuse(c, req, given) ==
    /\ VerdictGiven \in {"REJECTED_POLICY_VIOLATION", "REJECTED_CIRCUIT_BROKEN"}
    /\ Enter(c, req, given, "refused")
    /\ UNCHANGED <<vars, resumed, runs>>

\* The ticket gets the raw arguments; the handler brought is forgotten.
Suspend(c, req, given) ==
    /\ VerdictGiven = "SUSPENDED_PENDING_APPROVAL"
    /\ BuildCard(c, req.args, None)
    /\ Enter(c, req, given, "suspended")
    /\ UNCHANGED <<resumed, runs>>

Permit(c, req, given) ==
    /\ VerdictGiven = "PERMITTED"
    /\ \E end \in Execution :
           /\ Begin(c, None, Target(req.tool, given), schemas[req.tool][req.args],
                    end)
           /\ Enter(c, req, given, end)
    /\ UNCHANGED <<vars, resumed>>

\* From the call to the first await that suspends.
ExecuteTool(c, req, role, given) ==
    /\ work[c] = NoWork
    /\ MayRun(None)
    /\ \/ /\ ~Validates(req)
          /\ RejectArguments(c, req, given)
       \/ /\ Validates(req)
          /\ Evaluate(req, role)
          /\ \/ Refuse(c, req, given)
             \/ Suspend(c, req, given)
             \/ Permit(c, req, given)
    /\ UNCHANGED tools

Made(c) == work[c] # NoWork

\* The wrapper that guard puts around a function is called: it makes a request
\* of the keyword arguments, for the session and the role of the caller
\* context that came with them or of the default one, and brings the function.
\* What it makes of the result (a value, a SuspensionException or a
\* RuntimeError) changes nothing.
CallGuarded(g, c, req, role) ==
    /\ g \in guards
    /\ req.tool = g.tool
    /\ \A d \in Tickets : Made(d) => work[d].request.id # req.id
    /\ ExecuteTool(c, req, role, g.handler)

\* The rest of create_ticket, after which execute_tool returns or raises.
CreateTicket(c) ==
    /\ SaveCard(c) \/ EndNotification(c) \/ CancelCreate(c)
    /\ UNCHANGED <<gateVars, tools, progress>>

\* The coroutine of an L1 or L2 tool returns, raises or is cancelled.
EndExecution(c) ==
    /\ Made(c)
    /\ work[c].state = "running"
    /\ MayRun(None)
    /\ \E end \in {"succeeded", "failed", "cancelled"} :
           work' = [work EXCEPT ![c].state = end]
    /\ UNCHANGED <<vars, gateVars, tools, resumed, runs>>

-----------------------------------------------------------------------------
(* resume_ticket *)

\* resolve_ticket, up to its decision.
OpenTicket(o) ==
    /\ \E t \in Tickets, approved \in BOOLEAN, verify \in Args \cup {None} :
           ReadTicket(o, t, approved, verify)
    /\ UNCHANGED <<gateVars, tools, progress>>

\* The entry that tells what became of an approval card.
AuditCard(c, args, verdict) ==
    Audit([work[c].request EXCEPT !.args = args], "L3_CRITICAL", verdict)

\* Mutation: the approval is audited when the handler starts.
AuditEndFromStart(c, args, end) ==
    IF end \in {"running", "succeeded"} THEN AuditCard(c, args, "PERMITTED")
                                        ELSE UNCHANGED entries

\* An execution is audited when it has succeeded, and only then.
AuditEnd(c, args, end) ==
    IF end = "succeeded" THEN AuditCard(c, args, "PERMITTED")
                         ELSE UNCHANGED entries

\* resolve_ticket raises, and so does resume_ticket.
ResolutionFails(o) ==
    /\ call'[o].state \in Refusals
    /\ UNCHANGED <<entries, progress>>

RejectCard(o, c) ==
    /\ call'[o].state = "REJECTED"
    /\ AuditCard(c, answers'[o].args, "REJECTED_POLICY_VIOLATION")
    /\ resumed' = [resumed EXCEPT ![o] = "rejected"]
    /\ UNCHANGED <<work, runs>>

\* Mutation: any answer of the operator is taken for an approval.
ExecuteCardAnswered(o, c, given) ==
    /\ call'[o].state \in Decision
    /\ \E end \in Execution :
           /\ Begin(c, o, Target(work[c].request.tool, given), answers'[o].args, end)
           /\ resumed' = [resumed EXCEPT ![o] = end]
           /\ AuditEnd(c, answers'[o].args, end)
    /\ UNCHANGED work

\* The handler is looked up now, whatever it was when the ticket was created,
\* and gets the arguments of the card.
ExecuteCard(o, c, given) ==
    /\ call'[o].state = "APPROVED"
    /\ \E end \in Execution :
           /\ Begin(c, o, Target(work[c].request.tool, given), answers'[o].args, end)
           /\ resumed' = [resumed EXCEPT ![o] = end]
           /\ AuditEnd(c, answers'[o].args, end)
    /\ UNCHANGED work

\* The decision and what follows it up to the next await that suspends.
ResumeTicket(o, given) ==
    LET c == call[o].ticket
    IN /\ DecideTicket(o)
       /\ \/ ResolutionFails(o)
          \/ RejectCard(o, c)
          \/ ExecuteCard(o, c, given)
       /\ UNCHANGED <<breakerVars, registry, since, tools>>

\* Mutation: the ticket of an execution that fails is opened again.
EndResumedReopens(o) ==
    /\ resumed[o] = "running"
    /\ MayRun(None)
    /\ Known(call[o].ticket)
    /\ tickets' = [tickets EXCEPT ![call[o].ticket].status = "PENDING"]
    /\ resumed' = [resumed EXCEPT ![o] = "failed"]
    /\ UNCHANGED <<now, stage, draft, call, answers, holder, requested, gateVars,
                   tools, work, runs>>

\* The coroutine of an approved tool returns, raises or is cancelled.
EndResumed(o) ==
    /\ resumed[o] = "running"
    /\ MayRun(None)
    /\ \E run \in runs, end \in {"succeeded", "failed", "cancelled"} :
           /\ run.by = o
           /\ resumed' = [resumed EXCEPT ![o] = end]
           /\ AuditEnd(run.call, run.args, end)
    /\ UNCHANGED <<vars, breakerVars, registry, since, tools, work, runs>>

\* resume_ticket waits for a store that yields, and the store acts.
StoreDecision(o) ==
    /\ WriteDecision(o)
    /\ UNCHANGED <<gateVars, tools, progress>>

CancelResume(o) ==
    /\ CancelResolve(o)
    /\ UNCHANGED <<gateVars, tools, progress>>

-----------------------------------------------------------------------------
Begins(c) ==
    \E req \in Requests, role \in UserRole :
        \/ \E given \in Handlers : ExecuteTool(c, req, role, given)
        \/ \E g \in Guards : CallGuarded(g, c, req, role)

Around ==
    \/ Environment /\ UNCHANGED gateVars
    \/ /\ (\E s \in Sessions : MayRun(None) /\ Reset(s)) \/ PassMono
       /\ UNCHANGED vars

RuntimeNext ==
    \/ \E offer \in OfferedTools : RegisterTool(offer)
    \/ \E g \in Guards : Decorate(g)
    \/ \E c \in Tickets : Begins(c) \/ CreateTicket(c) \/ EndExecution(c)
    \/ \E o \in Operators : \/ OpenTicket(o) \/ StoreDecision(o)
                            \/ CancelResume(o) \/ EndResumed(o)
    \/ \E o \in Operators, given \in Handlers : ResumeTicket(o, given)
    \/ Around /\ UNCHANGED <<tools, progress>>

RuntimeSpec == RuntimeInit /\ [][RuntimeNext]_runtimeVars

-----------------------------------------------------------------------------
(* Properties *)

\* However many operators answer, and however often the tool is registered
\* again, the handler is started at most once for a call of execute_tool.
RunOnce ==
    \A run1, run2 \in runs : run1.call = run2.call => run1 = run2

\* Behind every start of a handler stands an execute_tool call that went ahead
\* without a ticket, or the call of the operator who approved the ticket.
RunsOwned ==
    \A run \in runs :
        /\ Made(run.call)
        /\ run.by = None => stage[run.call] = "unborn"
        /\ run.by # None => /\ call[run.by].state = "APPROVED"
                            /\ call[run.by].ticket = run.call

\* Neither of them starts a second one.
OneRunEach ==
    \A run1, run2 \in runs :
        run1.call = run2.call /\ run1.by = run2.by => run1 = run2

\* A ticket has been created on behalf of an execute_tool call.
TicketsHaveWork == \A c \in Tickets : stage[c] # "unborn" => Made(c)

\* What makes RunOnce inductive, beside what holds of the controller.
RunInv ==
    /\ runs \subseteq Run
    /\ work \in [Tickets -> Work \cup {NoWork}]
    /\ RunsOwned
    /\ OneRunEach
    /\ TicketsHaveWork

\* The entry of the trail that lets a request be executed, or be put before
\* an operator.
LetsGo(event) ==
    \/ event.verdict = "SUSPENDED_PENDING_APPROVAL"
    \/ event.verdict = "PERMITTED" /\ event.tier # "L3_CRITICAL"

\* No handler starts without its leave, in the tier the request was evaluated
\* in: an L1 or L2 request by execute_tool, an L3 request by an operator who
\* approved it; whatever was refused for the same request, and whatever the
\* tool has become.  The arguments the agent sent had passed the injection audit
\* (of the schema nothing is said), and an approved handler gets these, as they
\* were audited.
RunsAuthorised ==
    \A run \in runs :
        LET req   == work[run.call].request
            event == entries[work[run.call].entry].event
        IN /\ LetsGo(event)
           /\ event.tier = "L3_CRITICAL" <=> run.by # None
           /\ req.args \in Clean
           /\ run.by # None => run.args = event.request.args

\* Handlers are not started more often than their session was charged: no
\* approval is ever executed beyond the call that was paid for it.
RunsBudgeted ==
    \A s \in Sessions :
        Cardinality({run \in runs : work[run.call].entry \in Ours(s)})
            <= totalCalls[s]

\* The entries that bear a request's identifier, and those of them up to the
\* n-th that give a certain verdict in a certain tier.
Story(id) == {i \in DOMAIN entries : entries[i].event.request.id = id}

StoryOf(id, n, tier, verdict) ==
    {i \in Story(id) : /\ i <= n
                       /\ entries[i].event.tier = tier
                       /\ entries[i].event.verdict = verdict}

\* The execute_tool calls for a request.
CallsFor(id) == {c \in Tickets : Made(c) /\ work[c].request.id = id}

\* The resume_ticket calls for a request that ended in a certain way.
ResumedFor(id, ends) ==
    {o \in Operators : /\ resumed[o] \in ends
                       /\ work[call[o].ticket].request.id = id}

\* What the trail says of a request that is made again and again adds up: it
\* has an entry for every call, a rejection for every operator who refused,
\* and says "executed" once for every approved handler that has succeeded (one
\* that raised or was cancelled leaves no entry); nowhere along the trail has
\* more been executed than was suspended.
TrailTellsFate ==
    \A id \in RequestIds :
        /\ Cardinality(Story(id)) = Cardinality(CallsFor(id))
               + Cardinality(ResumedFor(id, {"rejected", "succeeded"}))
        /\ Cardinality(StoryOf(id, Len(entries), "L3_CRITICAL", "PERMITTED"))
               = Cardinality(ResumedFor(id, {"succeeded"}))
        /\ \A n \in DOMAIN entries :
               Cardinality(StoryOf(id, n, "L3_CRITICAL", "PERMITTED"))
                   <= Cardinality(StoryOf(id, n, "L3_CRITICAL",
                                          "SUSPENDED_PENDING_APPROVAL"))

\* What guard promises the author of a function, as long as nobody registers
\* its name again: guarded as critical it is started for an operator only, and
\* a call of it that is executed, at once or after its approval, starts it and
\* not another function (unless the operator's side brings one).
GuardKept ==
    \A g \in guards \ overtaken : \A run \in runs :
        /\ run.handler = g.handler /\ g.tier = "L3_CRITICAL" => run.by # None
        /\ work[run.call].given = g.handler
               => run.handler \in Handlers \cup {g.handler}

\* Composed with everything else, the controller and its store still take the
\* steps of the Suspension specification and no others, so that all that holds
\* there holds here.
ImplementsSuspension == Spec

\* And so does the breaker.
ImplementsBreaker == BreakerSpec

-----------------------------------------------------------------------------
(* A claim of the documentation that the code does not keep *)

\* gatekeeper/audit.py: "audit logging for tool executions".  An execution
\* that is over has an entry that says the request was let go.
ExecutionsAudited ==
    \A o \in Operators : resumed[o] \in {"succeeded", "failed"} =>
        \E i \in DOMAIN entries :
            /\ entries[i].event.request = work[call[o].ticket].request
            /\ entries[i].event.verdict = "PERMITTED"
=============================================================================
