------------------------ MODULE AuthorisationProofs ------------------------
(***************************************************************************)
(* No handler starts without its leave, whatever was registered meanwhile, *)
(* a guarded function stays behind its guard, and handlers are not started *)
(* more often than their session was charged, for any number of calls,     *)
(* operators, sessions and registrations.                                  *)
(***************************************************************************)
EXTENDS TagRuntimeProofs

-----------------------------------------------------------------------------
(* What a step leaves as it was. *)

\* The trail only grows.
TrailKept ==
    \A i \in DOMAIN entries : i \in DOMAIN entries' /\ entries'[i] = entries[i]

LEMMA GrowthKeeps ==
    ASSUME TrailTyped, TrailTyped', TrailGrows
    PROVE  TrailKept
    <1>1. ASSUME NEW event, Appended(event)
          PROVE  TrailKept
        <2>1. /\ Len(entries) \in Nat
              /\ DOMAIN entries = 1 .. Len(entries)
              /\ DOMAIN entries' = 1 .. Len(entries')
            BY DEF TrailTyped
        <2> QED
            BY <1>1, <2>1 DEF Appended, TrailKept
    <1> QED
        BY <1>1 DEF TrailGrows, TrailKept

LEMMA TrailSteps ==
    ASSUME StoreInv, RuntimeInv, [RuntimeNext]_runtimeVars
    PROVE  TrailTyped /\ TrailTyped' /\ TrailKept
    <1>1. TrailTyped /\ TrailTyped'
        BY RunSteps DEF RuntimeInv, RuntimeTyped
    <1>2. TrailGrows
        <2>1. ASSUME NEW offer, Registered(offer) PROVE TrailGrows
            BY <2>1 DEF Registered, Registers, Register, TrailGrows
        <2>2. ASSUME NEW c, NEW req, NEW given, NEW event, NEW state,
                     Executes(c, req, given, event, state)
              PROVE  TrailGrows
            BY <2>2 DEF Executes, TrailGrows
        <2>3. ASSUME NEW o, NEW given, Resumes(o, given) PROVE TrailGrows
            BY <2>3 DEF Resumes
        <2> QED
            BY <2>1, <2>2, <2>3, RuntimeSteps, InvMadeFirst DEF RuntimeInv, Quiet
    <1> QED
        BY <1>1, <1>2, GrowthKeeps

\* A card keeps its arguments if nobody alters them.
LEMMA CardArguments ==
    ASSUME StoreInv, ~Alterations, [Next]_vars, NEW t \in Tickets, Known(t)'
    PROVE  \/ Known(t) /\ tickets'[t].args = tickets[t].args
           \/ stage[t] = "built" /\ tickets'[t].args = draft[t].args
    <1>1. CASE Known(t)
        <2>1. tickets[t] \in ApprovalCard
            BY <1>1 DEF StoreInv, TypeOK, StoreTypeOK, Known
        <2>2. Refreshed(tickets[t]).args = tickets[t].args
            BY <2>1 DEF Refreshed, ApprovalCard
        <2>3. \A o \in Operators : Decides(o, t) => tickets'[t].args = tickets[t].args
            BY <2>1 DEF Decides, ApprovalCard
        <2> QED
            BY <1>1, <2>2, <2>3, NextSteps DEF Steps, CardStep, Known
    <1>2. CASE ~Known(t)
        BY <1>2, NextSteps DEF Steps, CardStep, Known
    <1> QED
        BY <1>1, <1>2

-----------------------------------------------------------------------------
(* What the trail says of a call. *)

\* The leave a handler was started with.
RunLeave(run) ==
    LET req   == work[run.call].request
        event == entries[work[run.call].entry].event
    IN /\ run.by = None => /\ event.verdict = "PERMITTED"
                           /\ event.tier # "L3_CRITICAL"
                           /\ req.args \in Clean
       /\ run.by # None => run.args = req.args

\* A call's entry is about its request, and lets it go if there is a ticket;
\* the card has the arguments of the request.
CallAccounted(c) ==
    LET req   == work[c].request
        event == entries[work[c].entry].event
    IN /\ work[c].entry \in DOMAIN entries
       /\ event.request = req
       /\ stage[c] # "unborn" =>
              /\ event.verdict = "SUSPENDED_PENDING_APPROVAL"
              /\ event.tier = "L3_CRITICAL"
              /\ req.args \in Clean
       /\ stage[c] = "built" => draft[c].args = req.args
       /\ Known(c) => tickets[c].args = req.args

\* A decision that the store has taken goes with the arguments of the request.
AnswerAccounted(o) ==
    DecisionGiven(o) => /\ Made(call[o].ticket)
                        /\ answers[o].args = work[call[o].ticket].request.args

Accounted ==
    /\ \A c \in Tickets : Made(c) => CallAccounted(c)
    /\ \A o \in Operators : AnswerAccounted(o)
    /\ \A run \in runs : RunLeave(run)

\* A call that was made keeps its account.
LEMMA AccountKept ==
    ASSUME StoreInv, RuntimeInv, ~Alterations, Accounted,
           [RuntimeNext]_runtimeVars, NEW c \in Tickets, Made(c),
           stage[c] = "unborn" => stage'[c] = "unborn"
    PROVE  /\ CallAccounted(c)'
           /\ work'[c].request = work[c].request
           /\ entries'[work'[c].entry] = entries[work[c].entry]
    <1>1. /\ work'[c].request = work[c].request
          /\ work'[c].entry = work[c].entry
        BY WorkSteps, InvMadeFirst DEF RuntimeInv, WorkKept
    <1>2. CallAccounted(c)
        BY DEF Accounted
    <1>3. /\ work'[c].entry \in DOMAIN entries'
          /\ entries'[work'[c].entry] = entries[work[c].entry]
        BY <1>1, <1>2, TrailSteps DEF TrailKept, CallAccounted
    <1>4. [Next]_vars
        BY SuspensionSteps
    <1>5. stage'[c] = "built" => stage[c] = "built" /\ draft'[c] = draft[c]
        BY <1>4, NextSteps DEF Steps, StageStep
    <1>6. Known(c)' => tickets'[c].args = work[c].request.args
        BY <1>2, <1>4, CardArguments DEF CallAccounted
    <1> QED
        BY <1>1, <1>2, <1>3, <1>5, <1>6 DEF CallAccounted

LEMMA AnswersAccounted ==
    ASSUME StoreInv, RuntimeInv, ~Alterations, Accounted,
           [RuntimeNext]_runtimeVars, NEW o \in Operators
    PROVE  AnswerAccounted(o)'
    <1> DEFINE c == call[o].ticket
    <1>1. \A o1 \in Operators : CallStep(o1) /\ AnswerStep(o1)
        BY SuspensionSteps, NextSteps DEF Steps
    <1>2. WorkKept
        BY WorkSteps, InvMadeFirst DEF RuntimeInv
    <1>3. CASE answers'[o] = answers[o]
        <2> SUFFICES ASSUME DecisionGiven(o)
                     PROVE  /\ Made(call[o].ticket)' /\ call'[o].ticket = c
                            /\ answers[o].args = work'[c].request.args
            BY <1>3 DEF AnswerAccounted, DecisionGiven, Made
        <2>1. answers[o] # None
            BY NoneIsNoAnswer DEF DecisionGiven, Answer
        <2>2. c \in Tickets /\ call[o].state # "idle"
            BY <2>1 DEF StoreInv, CallsNameTickets
        <2>3. call'[o].ticket = c
            BY <1>1, <2>2 DEF CallStep
        <2>4. Made(c) /\ answers[o].args = work[c].request.args
            BY DEF Accounted, AnswerAccounted
        <2> QED
            BY <1>2, <2>2, <2>3, <2>4 DEF WorkKept, Made
    <1>4. CASE answers'[o] # answers[o]
        <2> SUFFICES ASSUME DecisionGiven(o)'
                     PROVE  /\ Made(c)' /\ call'[o].ticket = c
                            /\ answers'[o].args = work'[c].request.args
            BY DEF AnswerAccounted, Made
        <2>1. /\ call[o].state = "checked"
              /\ Known(c) /\ answers'[o].args = tickets[c].args
            BY <1>1, <1>4 DEF AnswerStep, DecisionGiven
        <2>2. c \in Tickets /\ call'[o].ticket = c
            BY <1>1, <2>1 DEF CallStep, StoreInv, CallsNameTickets
        <2>3. Made(c)
            BY <2>1, <2>2 DEF StoreInv, SavedIfKnown, RuntimeInv, TicketsHaveWork
        <2>4. tickets[c].args = work[c].request.args
            BY <2>1, <2>2, <2>3 DEF Accounted, CallAccounted
        <2> QED
            BY <1>2, <2>1, <2>2, <2>3, <2>4 DEF WorkKept
    <1> QED
        BY <1>3, <1>4

LEMMA AccountSteps ==
    ASSUME StoreInv, RuntimeInv, ~Alterations, Accounted, [RuntimeNext]_runtimeVars
    PROVE  Accounted'
    <1>0. \A o \in Operators : AnswerAccounted(o)'
        BY AnswersAccounted
    <1>1. /\ ToolsTyped /\ ProgressTyped /\ ProgressTyped' /\ TrailTyped'
          /\ \A run \in runs : run.call \in Tickets /\ Made(run.call)
        BY RunSteps DEF RuntimeInv, RuntimeTyped, RunsOwned, ProgressTyped, Run
    \* What has been accounted for stays so.
    <1>2. ASSUME NEW c \in Tickets, Made(c), stage[c] = "unborn" => stage'[c] = "unborn"
          PROVE  /\ CallAccounted(c)'
                 /\ \A run \in runs : run.call = c => RunLeave(run)'
        <2>1. ASSUME NEW run \in runs, run.call = c
              PROVE  RunLeave(run)'
            BY <1>2, <2>1, AccountKept DEF Accounted, RunLeave
        <2> QED
            BY <1>2, <2>1, AccountKept
    <1>3. ASSUME runs' = runs, \A c \in Tickets : Made(c)' => Made(c),
                 \A t \in Tickets : stage[t] = "unborn" => stage'[t] = "unborn"
          PROVE  Accounted'
        <2>1. \A c \in Tickets : Made(c)' => CallAccounted(c)'
            BY <1>2, <1>3
        <2>2. \A run \in runs : RunLeave(run)'
            BY <1>1, <1>2, <1>3
        <2> QED
            BY <1>0, <1>3, <2>1, <2>2 DEF Accounted, Made
    <1>4. CASE \E offer : Registered(offer)
        BY <1>3, <1>4 DEF Registered, Registers, progress, vars, Made
    <1>5. ASSUME NEW c \in Tickets, NEW req \in Requests, NEW given, NEW event,
                 NEW state, Executes(c, req, given, event, state), Brought(req, given)
          PROVE  Accounted'
        <2>1. /\ ~Made(c) /\ stage[c] = "unborn" /\ ~Known(c)
              /\ \A run \in runs : run.call # c
            BY <1>1, <1>5 DEF Executes, Made, RuntimeInv, TicketsHaveWork, StoreInv,
                              SavedIfKnown
        <2>2. /\ work'[c].request = req
              /\ work'[c].entry = Len(entries')
              /\ \A d \in Tickets : d # c => work'[d] = work[d]
            BY <1>1, <1>5 DEF Executes, ProgressTyped
        <2>3. /\ work'[c].entry \in DOMAIN entries'
              /\ entries'[work'[c].entry].event = event
              /\ event.request = req
            <3>1. Len(entries') \in Nat /\ Len(entries) \in Nat
                  /\ DOMAIN entries' = 1 .. Len(entries')
                BY <1>1, TrailSteps DEF TrailTyped
            <3> QED
                BY <1>5, <2>2, <3>1 DEF Executes, Appended
        <2>4. \A d \in Tickets : d # c => stage'[d] = stage[d]
            BY <1>5 DEF Executes, BuildCard, vars, StoreInv, TypeOK
        <2>5. ~Known(c)'
            BY <1>5, <2>1 DEF Executes, BuildCard, vars, Known
        <2>6. stage'[c] # "unborn" =>
                  /\ event.verdict = "SUSPENDED_PENDING_APPROVAL"
                  /\ event.tier = "L3_CRITICAL"
                  /\ req.args \in Clean
                  /\ draft'[c].args = req.args
            BY <1>5, <2>1 DEF Executes, BuildCard, Validates, vars, StoreInv, TypeOK
        <2>7. CallAccounted(c)'
            BY <2>2, <2>3, <2>5, <2>6 DEF CallAccounted
        <2>8. \A d \in Tickets : Made(d)' => CallAccounted(d)'
            BY <1>2, <2>2, <2>4, <2>7 DEF Made
        <2>9. \A run \in runs : RunLeave(run)'
            BY <1>1, <1>2, <2>1, <2>4
        <2>10. ASSUME NEW run \in Run, run.call = c, run.by = None,
                      UNCHANGED vars, runs' = runs \cup {run}, runs' # runs
               PROVE  RunLeave(run)'
            <3>1. /\ event.verdict = "PERMITTED" /\ event.tier # "L3_CRITICAL"
                  /\ req.args \in Clean
                BY <1>5, <2>1, <2>10
                DEF Executes, BuildCard, Validates, vars, StoreInv, TypeOK
            <3> QED
                BY <2>2, <2>3, <2>10, <3>1 DEF RunLeave
        <2>11. \A run \in runs' : RunLeave(run)'
            BY <1>1, <1>5, <2>9, <2>10, ExecutesStarts
        <2> QED
            BY <1>0, <2>8, <2>11 DEF Accounted, Made
    <1>6. ASSUME NEW o \in Operators, NEW given \in Handlers, Resumes(o, given)
          PROVE  Accounted'
        <2> DEFINE c == call[o].ticket
        <2>1. stage' = stage /\ work' = work /\ c \in Tickets
            BY <1>6 DEF Resumes, DecideTicket
        <2>2. \A d \in Tickets : Made(d)' => CallAccounted(d)'
            BY <1>2, <2>1 DEF Made
        <2>3. \A run \in runs : RunLeave(run)'
            BY <1>1, <1>2, <2>1
        <2>4. ASSUME runs' # runs
              PROVE  \A run \in runs' : RunLeave(run)'
            <3>1. PICK end : /\ Begin(c, o, Target(work[c].request.tool, given),
                                      answers'[o].args, end)
                             /\ Made(c) /\ DecisionGiven(o)'
                BY <1>6, <2>4 DEF Resumes
            <3>2. answers'[o].args \in Args /\ call'[o].ticket = c
                BY <1>6, <3>1
                DEF DecisionGiven, Resumes, DecideTicket, Settle, StoreInv, TypeOK, Call
            <3>3. Target(work[c].request.tool, given) \in Functions \cup {NoHandler}
                BY <1>1, <2>1, <3>1, RuntimeInputs, Targets, MadeRequests
            <3>4. PICK run \in Run : /\ run.call = c /\ run.by = o
                                     /\ run.args = answers'[o].args
                                     /\ runs' = runs \cup {run}
                <4> DEFINE target == Target(work[c].request.tool, given)
                           args == answers'[o].args
                <4>1. /\ target \in Functions \cup {NoHandler} /\ args \in Args
                      /\ Begin(c, o, target, args, end)
                    BY <3>1, <3>2, <3>3
                <4> HIDE DEF target, args
                <4>2. \/ runs' = runs
                      \/ \E run \in Run : /\ run.call = c /\ run.by = o
                                          /\ run.args = args
                                          /\ runs' = runs \cup {run}
                    BY <2>1, <4>1, BeginTyped
                <4> QED
                    BY <2>4, <4>2 DEF args
            <3>5. run.args = work'[c].request.args /\ o # None
                BY <1>0, <3>1, <3>2, <3>4, NoneIsNoMember DEF AnswerAccounted
            <3>6. RunLeave(run)'
                BY <3>4, <3>5 DEF RunLeave
            <3> QED
                BY <2>3, <3>4, <3>6
        <2> QED
            BY <1>0, <2>2, <2>3, <2>4 DEF Accounted, Made
    <1>7. CASE Quiet
        <2>1. \A c \in Tickets : Made(c)' => Made(c)
            BY <1>7 DEF Quiet, Made
        <2> QED
            BY <1>3, <1>7, <2>1 DEF Quiet
    <1> QED
        BY <1>4, <1>5, <1>6, <1>7, RuntimeSteps, InvMadeFirst DEF RuntimeInv

\* With any store, as long as nobody alters a card: no handler starts without
\* its leave in the trail, given in the tier the request was evaluated in to
\* arguments that passed the validation, and an approved one gets these.
THEOREM Authorised ==
    ASSUME ~Alterations
    PROVE  RuntimeSpec => []RunsAuthorised
    <1>1. RuntimeInit => Accounted
        BY NoneIsNoAnswer
        DEF RuntimeInit, Init, Accounted, AnswerAccounted, DecisionGiven, Answer, Made
    <1>2. StoreInv /\ RuntimeInv /\ Accounted /\ [RuntimeNext]_runtimeVars => Accounted'
        BY AccountSteps
    <1>3. StoreInv /\ RuntimeInv /\ Accounted => RunsAuthorised
        <2> SUFFICES ASSUME StoreInv, RuntimeInv, Accounted, NEW run \in runs
                     PROVE  LET req   == work[run.call].request
                                event == entries[work[run.call].entry].event
                            IN /\ LetsGo(event)
                               /\ event.tier = "L3_CRITICAL" <=> run.by # None
                               /\ req.args \in Clean
                               /\ run.by # None => run.args = event.request.args
            BY DEF RunsAuthorised
        <2>1. run.call \in Tickets /\ run.by \in Operators \cup {None}
            BY DEF RuntimeInv, RuntimeTyped, ProgressTyped, Run
        <2>2. CallAccounted(run.call) /\ RunLeave(run)
            BY <2>1 DEF RuntimeInv, RunsOwned, Accounted
        <2>3. run.by # None => stage[run.call] # "unborn"
            BY <2>1 DEF RuntimeInv, RunsOwned, StoreInv, CheckedSigned, Decision
        <2> QED
            BY <2>2, <2>3 DEF CallAccounted, RunLeave, LetsGo
    <1> QED
        BY StoreInside, RuntimeInvariance, <1>1, <1>2, <1>3, PTL DEF RuntimeSpec

-----------------------------------------------------------------------------
(* What guard promises. *)

\* A tool that was not registered again is as its decoration left it.
GuardsInForce ==
    \A g \in guards \ overtaken :
        handlers[g.tool] = g.handler /\ registry[g.tool].tier = g.tier

\* A guarded function is nobody's but its decoration's.
GuardsOwn ==
    /\ \A g \in Guards, tool \in Tools :
          handlers[tool] = g.handler => g \in guards /\ tool = g.tool
    /\ \A g \in Guards, c \in Tickets :
          Made(c) /\ work[c].given = g.handler
              => g \in guards /\ work[c].request.tool = g.tool
    /\ \A g \in Guards, run \in runs :
          run.handler = g.handler => g \in guards

GuardInv == GuardsInForce /\ GuardsOwn /\ GuardKept

\* What holds of a start of a guarded function, or of a call of its wrapper.
StartGuarded(g, run) ==
    /\ run.handler = g.handler /\ g.tier = "L3_CRITICAL" => run.by # None
    /\ work[run.call].given = g.handler
           => run.handler \in Handlers \cup {g.handler}

LEMMA GuardFunctions ==
    ASSUME NEW g \in Guards
    PROVE  /\ g \in Registration /\ g.tool \in Tools
           /\ g.handler \in Functions \ Handlers
           /\ g.handler # NoHandler
    BY GuardedHidden, RuntimeInputs DEF Registration

LEMMA GuardSteps ==
    ASSUME StoreInv, RuntimeInv, GuardInv, [RuntimeNext]_runtimeVars
    PROVE  GuardInv'
    <1>1. /\ ToolsTyped /\ ProgressTyped /\ RegistryTyped /\ WorkKept
          /\ \A run \in runs : run.call \in Tickets /\ Made(run.call)
          /\ \A c \in Tickets : Made(c) => work[c].request.tool \in Tools
        BY WorkSteps, InvMadeFirst, MadeRequests
        DEF RuntimeInv, RuntimeTyped, RunsOwned, ProgressTyped, Run, Requests
    \* Starts of the past keep their promise.
    <1>2. ASSUME NEW g \in guards \ overtaken, NEW run \in runs
          PROVE  StartGuarded(g, run)'
        BY <1>1, <1>2 DEF GuardInv, GuardKept, StartGuarded, WorkKept
    <1>3. ASSUME NEW offer, Registered(offer)
          PROVE  GuardInv'
        <2>1. /\ offer \in Registration
              /\ \A g \in Guards : offer.handler = g.handler =>
                                       g = offer /\ guards' = guards \cup {g}
              /\ \A g \in guards' : \/ g \in guards
                                    \/ g = offer /\ g \notin guards
              /\ guards \subseteq guards'
            BY <1>3, GuardedHidden, RuntimeInputs DEF Registered
        <2>2. /\ UNCHANGED <<work, runs>>
              /\ overtaken' = overtaken \cup {g \in guards : g.tool = offer.tool}
              /\ \A tool \in Tools :
                    IF tool = offer.tool
                    THEN /\ handlers'[tool] = offer.handler
                         /\ registry'[tool].tier = offer.tier
                    ELSE /\ handlers'[tool] = handlers[tool]
                         /\ registry'[tool] = registry[tool]
            BY <1>1, <1>3
            DEF Registered, Registers, Register, progress, ToolsTyped, RegistryTyped
        <2>3. guards' \subseteq Guards
            BY <1>1, <1>3 DEF Registered, ToolsTyped
        <2>4. GuardsInForce'
            <3> SUFFICES ASSUME NEW g \in guards', g \notin overtaken'
                         PROVE  handlers'[g.tool] = g.handler
                                /\ registry'[g.tool].tier = g.tier
                BY DEF GuardsInForce
            <3>1. g.tool \in Tools
                BY <2>3, GuardFunctions
            <3> QED
                BY <2>1, <2>2, <3>1 DEF GuardInv, GuardsInForce
        <2>5. GuardsOwn'
            BY <2>1, <2>2 DEF GuardInv, GuardsOwn, Made
        <2>6. ASSUME NEW g \in guards', g \notin overtaken', NEW run \in runs
              PROVE  StartGuarded(g, run)'
            <3>1. CASE g \in guards
                BY <1>2, <2>2, <2>6, <3>1
            <3>2. CASE g \notin guards
                BY <1>1, <2>2, <2>3, <2>6, <3>2
                DEF GuardInv, GuardsOwn, StartGuarded
            <3> QED
                BY <3>1, <3>2
        <2>7. GuardKept'
            BY <2>2, <2>6 DEF GuardKept, StartGuarded
        <2> QED
            BY <2>4, <2>5, <2>7 DEF GuardInv
    <1>4. ASSUME NEW c \in Tickets, NEW req \in Requests, NEW given, NEW event,
                 NEW state, Executes(c, req, given, event, state), Brought(req, given)
          PROVE  GuardInv'
        <2>1. /\ UNCHANGED <<handlers, guards, overtaken, registry>>
              /\ work'[c].request = req /\ work'[c].given = given
              /\ \A d \in Tickets : d # c => work'[d] = work[d]
            BY <1>1, <1>4 DEF Executes, tools, ProgressTyped
        <2>2. GuardsInForce' /\ guards \subseteq Guards /\ req.tool \in Tools
            BY <1>1, <2>1 DEF GuardInv, GuardsInForce, ToolsTyped, Requests
        <2>3. ASSUME NEW g \in Guards, given = g.handler
              PROVE  g \in guards /\ req.tool = g.tool
            BY <1>4, <2>2, <2>3, GuardFunctions, GuardedHidden DEF Brought
        <2>4. ASSUME NEW g \in Guards, Target(req.tool, given) = g.handler
              PROVE  g \in guards /\ req.tool = g.tool
            BY <2>2, <2>3, <2>4 DEF Target, GuardInv, GuardsOwn
        <2>5. ASSUME NEW run \in runs'
              PROVE  /\ \A g \in Guards : run.handler = g.handler => g \in guards
                     /\ \A g \in guards \ overtaken : StartGuarded(g, run)'
            <3>1. CASE run \in runs
                BY <1>2, <3>1 DEF GuardInv, GuardsOwn
            <3>2. CASE /\ run.call = c
                       /\ run.handler = Target(req.tool, given)
                       /\ registry[req.tool].tier # "L3_CRITICAL"
                <4>1. ASSUME NEW g \in guards \ overtaken
                      PROVE  StartGuarded(g, run)'
                    <5>1. g \in Guards /\ registry[g.tool].tier = g.tier
                        BY <2>2 DEF GuardInv, GuardsInForce
                    <5>2. work'[c].given = g.handler => Target(req.tool, given) = g.handler
                        BY <2>1, <5>1, GuardFunctions DEF Target
                    <5> QED
                        BY <2>4, <3>2, <5>1, <5>2 DEF StartGuarded
                <4> QED
                    BY <2>4, <3>2, <4>1
            <3> QED
                BY <1>1, <1>4, <2>5, <3>1, <3>2, ExecutesStarts
        <2>6. GuardsOwn'
            <3>1. \A g \in Guards, d \in Tickets :
                     Made(d)' /\ work'[d].given = g.handler
                         => g \in guards /\ work'[d].request.tool = g.tool
                BY <2>1, <2>3 DEF GuardInv, GuardsOwn, Made
            <3> QED
                BY <2>1, <2>5, <3>1 DEF GuardInv, GuardsOwn, Made
        <2>7. GuardKept'
            BY <2>1, <2>5 DEF GuardKept, StartGuarded
        <2> QED
            BY <2>2, <2>6, <2>7 DEF GuardInv
    <1>5. ASSUME NEW o \in Operators, NEW given \in Handlers, Resumes(o, given)
          PROVE  GuardInv'
        <2> DEFINE c == call[o].ticket
                   target == Target(work[c].request.tool, given)
        <2>1. UNCHANGED <<work, handlers, guards, overtaken, registry>> /\ c \in Tickets
            BY <1>5 DEF Resumes, tools
        <2>2. GuardsInForce' /\ guards \subseteq Guards
            BY <1>1, <2>1 DEF GuardInv, GuardsInForce, ToolsTyped
        <2>3. ASSUME NEW run \in runs'
              PROVE  /\ \A g \in Guards : run.handler = g.handler => g \in guards
                     /\ \A g \in guards \ overtaken : StartGuarded(g, run)'
            <3>1. CASE run \in runs
                BY <1>2, <3>1 DEF GuardInv, GuardsOwn
            <3>2. CASE Made(c) /\ run.call = c /\ run.by = o /\ run.handler = target
                <4>1. ASSUME NEW g \in Guards, target = g.handler
                      PROVE  g \in guards
                    <5>1. given # g.handler
                        BY GuardFunctions
                    <5>2. handlers[work[c].request.tool] = g.handler
                        BY <4>1, <5>1 DEF Target
                    <5> QED
                        BY <1>1, <2>1, <3>2, <5>2 DEF GuardInv, GuardsOwn
                <4>2. ASSUME NEW g \in guards \ overtaken
                      PROVE  StartGuarded(g, run)'
                    <5>1. g \in Guards /\ handlers[g.tool] = g.handler
                        BY <2>2 DEF GuardInv, GuardsInForce
                    <5>2. work[c].given = g.handler => work[c].request.tool = g.tool
                        BY <2>1, <3>2, <5>1 DEF GuardInv, GuardsOwn
                    <5>3. work[c].given = g.handler => target \in Handlers \cup {g.handler}
                        BY <5>1, <5>2 DEF Target
                    <5>4. o # None
                        BY NoneIsNoMember
                    <5> QED
                        BY <2>1, <3>2, <5>3, <5>4 DEF StartGuarded
                <4> QED
                    BY <3>2, <4>1, <4>2
            <3> QED
                BY <1>1, <1>5, <2>3, <3>1, <3>2, ResumesStarts
        <2>4. GuardsOwn'
            BY <2>1, <2>3 DEF GuardInv, GuardsOwn, Made
        <2>5. GuardKept'
            BY <2>1, <2>3 DEF GuardKept, StartGuarded
        <2> QED
            BY <2>2, <2>4, <2>5 DEF GuardInv
    <1>6. CASE Quiet
        <2>1. UNCHANGED <<runs, handlers, guards, overtaken, registry>>
            BY <1>6 DEF Quiet, tools
        <2>2. \A c \in Tickets : Made(c)' => Made(c)
            BY <1>6 DEF Quiet, Made
        <2>3. GuardsInForce' /\ GuardsOwn'
            BY <1>1, <2>1, <2>2 DEF GuardInv, GuardsInForce, GuardsOwn, WorkKept
        <2>4. GuardKept'
            BY <1>2, <2>1 DEF GuardKept, StartGuarded
        <2> QED
            BY <2>3, <2>4 DEF GuardInv
    <1> QED
        BY <1>3, <1>4, <1>5, <1>6, RuntimeSteps, InvMadeFirst DEF RuntimeInv

\* With any store, any operators and any registrations: as long as nobody
\* registers the name of a guarded function again, the function is started
\* for an operator only if it is critical, and its calls start no other.
THEOREM GuardsHold == RuntimeSpec => []GuardKept
    <1>1. RuntimeInit => GuardInv
        <2>1. ASSUME RuntimeInit PROVE GuardInv
            BY <2>1, GuardFunctions
            DEF RuntimeInit, GuardInv, GuardsInForce, GuardsOwn, GuardKept, Made
        <2> QED
            BY <2>1
    <1>2. StoreInv /\ RuntimeInv /\ GuardInv /\ [RuntimeNext]_runtimeVars => GuardInv'
        BY GuardSteps
    <1>3. GuardInv => GuardKept
        BY DEF GuardInv
    <1> QED
        BY StoreInside, RuntimeInvariance, <1>1, <1>2, <1>3, PTL DEF RuntimeSpec

-----------------------------------------------------------------------------
(* Every leave was charged. *)

\* The entries since the session's reset that let a request go.
Leaves(s) == {i \in Ours(s) : LetsGo(entries[i].event)}

LeavesCharged == \A s \in Sessions : Cardinality(Leaves(s)) <= totalCalls[s]

\* An entry that lets a request go costs its session a call.
Paid(event) ==
    LetsGo(event) => totalCalls'[event.request.session]
                         = totalCalls[event.request.session] + 1

\* A step resets a session, or charges those it lets go.
Charges ==
    /\ UNCHANGED since
    /\ \A s \in Sessions : totalCalls'[s] \in {totalCalls[s], totalCalls[s] + 1}
    /\ entries' = entries \/ \E event : Appended(event) /\ Paid(event)

\* The entry that ends a critical execution lets nothing go.
LEMMA EndsUnpaid ==
    ASSUME TrailTyped, ProgressTyped, NEW c \in Tickets, Made(c),
           NEW args \in Args, NEW verdict \in {"PERMITTED", "REJECTED_POLICY_VIOLATION"},
           AuditCard(c, args, verdict)
    PROVE  \E event : Appended(event) /\ Paid(event)
    <1>1. verdict \in Verdict
        BY DEF Verdict
    <1> QED
        BY <1>1, AuditCardAppends DEF Paid, LetsGo

\* What execute_tool lets go, evaluate has charged.
LEMMA ExecuteToolCharges ==
    ASSUME RegistryTyped, TrailTyped, BreakerTypeOK, NEW c, NEW req \in Requests,
           NEW role \in UserRole, NEW given, ExecuteTool(c, req, role, given)
    PROVE  Charges
    <1>1. req.session \in Sessions /\ totalCalls \in [Sessions -> Nat]
        BY LimitsAreNat DEF Requests, BreakerTypeOK
    <1>2. CASE RejectArguments(c, req, given)
        <2> DEFINE tier == IF registry[req.tool] = NoPolicy THEN "L3_CRITICAL"
                           ELSE registry[req.tool].tier
                   event == [request |-> req, tier |-> tier,
                             verdict |-> "REJECTED_VALIDATION_FAILED"]
        <2>1. tier \in ToolTier
            BY DEF RegistryTyped, Requests, Policy, ToolTier
        <2>2. Audit(req, tier, "REJECTED_VALIDATION_FAILED")
            BY <1>2 DEF RejectArguments
        <2>3. event.verdict = "REJECTED_VALIDATION_FAILED"
            OBVIOUS
        <2>4. Appended(event)
            BY <2>1, <2>2, AuditAppends DEF Verdict
        <2> HIDE DEF event
        <2>5. Paid(event)
            BY <2>3 DEF Paid, LetsGo
        <2>6. UNCHANGED <<since, totalCalls>>
            BY <1>2 DEF RejectArguments, breakerVars, counters
        <2> QED
            BY <1>1, <2>4, <2>5, <2>6 DEF Charges
    <1>3. CASE Evaluate(req, role)
        <2>1. PICK event : /\ Appended(event)
                           /\ event.request = req
                           /\ \/ Charged(req.session, event.verdict)
                              \/ Broken(req.session, event.verdict)
                              \/ Unknown(event.verdict)
            BY <1>3, EvaluateEntry
        <2>2. UNCHANGED since
            BY <1>3 DEF Evaluate
        <2>3. CASE Charged(req.session, event.verdict)
            BY <1>1, <2>1, <2>2, <2>3 DEF Charged, Charges, Paid
        <2>4. CASE Broken(req.session, event.verdict) \/ Unknown(event.verdict)
            BY <1>1, <2>1, <2>2, <2>4 DEF Broken, Unknown, Charges, Paid, LetsGo
        <2> QED
            BY <2>1, <2>3, <2>4
    <1> QED
        BY <1>2, <1>3 DEF ExecuteTool

\* What resume_ticket leaves in the trail lets nothing go.
LEMMA ResumeTicketCharges ==
    ASSUME StoreInv, RuntimeTyped, MadeFirst, BreakerTypeOK, NEW o \in Operators,
           NEW given, ResumeTicket(o, given)
    PROVE  Charges
    <1> USE DEF RuntimeTyped
    <1>1. PICK c \in Tickets : /\ c = call[o].ticket /\ Made(c)
                               /\ call'[o].state \in Decision => answers'[o].args \in Args
        BY DecidedTickets DEF ResumeTicket, DecisionGiven
    <1>2. UNCHANGED <<since, totalCalls>> /\ totalCalls \in [Sessions -> Nat]
        BY LimitsAreNat DEF ResumeTicket, breakerVars, counters, BreakerTypeOK
    <1>3. ASSUME entries' # entries
          PROVE  \E event : Appended(event) /\ Paid(event)
        <2>1. CASE ResolutionFails(o)
            BY <1>3, <2>1 DEF ResolutionFails
        <2>2. CASE RejectCard(o, c)
            BY <1>1, <2>2, EndsUnpaid DEF RejectCard, Decision
        <2>3. CASE ExecuteCard(o, c, given)
            BY <1>1, <1>3, <2>3, EndsUnpaid DEF ExecuteCard, AuditEnd, Decision
        <2> QED
            BY <1>1, <2>1, <2>2, <2>3 DEF ResumeTicket
    <1> QED
        BY <1>2, <1>3 DEF Charges

LEMMA ChargeSteps ==
    ASSUME StoreInv, RuntimeTyped, MadeFirst, BreakerTypeOK,
           [RuntimeNext]_runtimeVars
    PROVE  Charges \/ \E r \in Sessions : Reset(r)
    <1> USE DEF RuntimeTyped
    <1>1. totalCalls \in [Sessions -> Nat]
        BY LimitsAreNat DEF BreakerTypeOK
    <1>2. ASSUME UNCHANGED <<since, totalCalls, entries>>
          PROVE  Charges
        BY <1>1, <1>2 DEF Charges
    <1>3. CASE UNCHANGED runtimeVars
        BY <1>2, <1>3 DEF runtimeVars, gateVars, breakerVars, counters
    <1>4. ASSUME NEW offer, RegisterTool(offer) \/ Decorate(offer)
          PROVE  Charges
        BY <1>2, <1>4 DEF RegisterTool, Decorate, Registers, Register, breakerVars, counters
    <1>5. ASSUME NEW c \in Tickets, Begins(c)
          PROVE  Charges
        BY <1>5, BeginsExecute, ExecuteToolCharges
    <1>6. ASSUME NEW c \in Tickets, CreateTicket(c) \/ EndExecution(c)
          PROVE  Charges
        BY <1>2, <1>6 DEF CreateTicket, EndExecution, gateVars, breakerVars, counters
    <1>7. ASSUME NEW o \in Operators,
                 OpenTicket(o) \/ StoreDecision(o) \/ CancelResume(o)
          PROVE  Charges
        BY <1>2, <1>7
        DEF OpenTicket, StoreDecision, CancelResume, gateVars, breakerVars, counters
    <1>8. ASSUME NEW o \in Operators, EndResumed(o)
          PROVE  Charges
        <2>1. PICK run \in runs : \E end : AuditEnd(run.call, run.args, end)
            BY <1>8 DEF EndResumed
        <2>2. run.call \in Tickets /\ run.args \in Args /\ Made(run.call)
            BY DEF ProgressTyped, Run, MadeFirst
        <2>3. entries' = entries \/ \E event : Appended(event) /\ Paid(event)
            BY <2>1, <2>2, EndsUnpaid DEF AuditEnd
        <2> QED
            BY <1>1, <1>8, <2>3 DEF EndResumed, breakerVars, counters, Charges
    <1>9. CASE Around
        BY <1>2, <1>9 DEF Around, PassMono, TickMono, gateVars, breakerVars, counters
    <1> QED
        BY <1>3, <1>4, <1>5, <1>6, <1>7, <1>8, <1>9, ResumeTicketCharges DEF RuntimeNext

LEMMA LeavesFinite ==
    ASSUME TrailTyped, NEW s
    PROVE  /\ IsFiniteSet(Leaves(s))
           /\ Cardinality(Leaves(s)) \in Nat
           /\ Leaves(s) \subseteq 1 .. Len(entries)
    <1>1. Leaves(s) \subseteq 1 .. Len(entries)
        BY TrailLength DEF Leaves, Ours
    <1>2. IsFiniteSet(1 .. Len(entries))
        BY TrailLength, FS_Interval
    <1> QED
        BY <1>1, <1>2, FS_Subset, FS_CardinalityType

LEMMA LeavesSteps ==
    ASSUME StoreInv, RuntimeTyped, MadeFirst, BreakerTypeOK, LeavesCharged,
           [RuntimeNext]_runtimeVars
    PROVE  LeavesCharged'
    <1>1. /\ totalCalls \in [Sessions -> Nat]
          /\ Len(entries) \in Nat /\ DOMAIN entries = 1 .. Len(entries)
          /\ \A s \in Sessions : since[s] \in 0 .. Len(entries)
        BY LimitsAreNat, TrailLength DEF BreakerTypeOK, RuntimeTyped, ProgressTyped
    <1>2. TrailTyped /\ TrailTyped'
        BY RuntimeSteps DEF RuntimeTyped
    <1>3. ASSUME NEW r \in Sessions, Reset(r)
          PROVE  LeavesCharged'
        <2>1. /\ entries' = entries
              /\ since' = [since EXCEPT ![r] = Len(entries)]
              /\ totalCalls' = [totalCalls EXCEPT ![r] = 0]
            BY <1>3 DEF Reset, ResetSession
        <2>2. since \in [Sessions -> 0 .. Len(entries)]
            BY DEF RuntimeTyped, ProgressTyped
        <2>3. Leaves(r)' = {}
            BY <1>1, <2>1, <2>2 DEF Leaves, Ours
        <2>4. \A s \in Sessions \ {r} : Leaves(s)' = Leaves(s)
            BY <2>1, <2>2 DEF Leaves, Ours
        <2>5. Cardinality(Leaves(r)') = 0
            BY <2>3, FS_EmptySet
        <2> QED
            BY <1>1, <2>1, <2>4, <2>5 DEF LeavesCharged
    <1>4. ASSUME Charges, NEW s \in Sessions
          PROVE  Cardinality(Leaves(s))' <= totalCalls'[s]
        <2>1. /\ Cardinality(Leaves(s)) \in Nat
              /\ totalCalls'[s] \in {totalCalls[s], totalCalls[s] + 1}
            BY <1>2, <1>4, LeavesFinite DEF Charges
        <2>2. CASE entries' = entries
            <3>1. Leaves(s)' = Leaves(s)
                BY <1>4, <2>2 DEF Charges, Leaves, Ours
            <3> QED
                BY <1>1, <1>4, <2>1, <3>1 DEF LeavesCharged
        <2>3. ASSUME NEW event, Appended(event), Paid(event)
              PROVE  Cardinality(Leaves(s))' <= totalCalls'[s]
            <3> DEFINE n == Len(entries) + 1
            <3>1. /\ Len(entries') = n /\ DOMAIN entries' = 1 .. n
                  /\ \A i \in 1 .. Len(entries) : entries'[i] = entries[i]
                  /\ entries'[n].event = event
                  /\ since' = since
                BY <1>1, <1>2, <1>4, <2>3, TrailLength
                DEF Appended, TrailTyped, Charges
            <3>2. CASE LetsGo(event) /\ event.request.session = s
                <4>1. \A i \in Leaves(s)' : i \in Leaves(s) \cup {n}
                    BY <1>1, <3>1 DEF Leaves, Ours
                <4>2. Leaves(s)' \subseteq Leaves(s) \cup {n}
                    BY <4>1
                <4>3. /\ IsFiniteSet(Leaves(s) \cup {n})
                      /\ Cardinality(Leaves(s) \cup {n}) <= Cardinality(Leaves(s)) + 1
                    <5>1. IsFiniteSet(Leaves(s))
                        BY <1>2, LeavesFinite
                    <5>2. /\ IsFiniteSet(Leaves(s) \cup {n})
                          /\ Cardinality(Leaves(s) \cup {n})
                                 = IF n \in Leaves(s) THEN Cardinality(Leaves(s))
                                   ELSE Cardinality(Leaves(s)) + 1
                        BY <5>1, FS_AddElement
                    <5> QED
                        BY <2>1, <5>2
                <4>4. Cardinality(Leaves(s)') <= Cardinality(Leaves(s) \cup {n})
                    BY <4>2, <4>3, FS_Subset
                <4>5. /\ Cardinality(Leaves(s)') \in Nat
                      /\ Cardinality(Leaves(s) \cup {n}) \in Nat
                    BY <4>2, <4>3, FS_Subset, FS_CardinalityType
                <4> QED
                    BY <1>1, <2>1, <2>3, <3>2, <4>3, <4>4, <4>5 DEF Paid, LeavesCharged
            <3>3. CASE ~LetsGo(event) \/ event.request.session # s
                <4>1. \A i : i \in Leaves(s)' <=> i \in Leaves(s)
                    BY <1>1, <3>1, <3>3 DEF Leaves, Ours
                <4>2. Leaves(s)' = Leaves(s)
                    BY <4>1
                <4> QED
                    BY <1>1, <2>1, <4>2 DEF LeavesCharged
            <3> QED
                BY <3>2, <3>3
        <2> QED
            BY <1>4, <2>2, <2>3 DEF Charges
    <1> QED
        BY <1>3, <1>4, ChargeSteps DEF LeavesCharged

-----------------------------------------------------------------------------
(* Every start has a leave of its own. *)

\* A call that has a ticket or has started a handler.
Going(c) == stage[c] # "unborn" \/ \E run \in runs : run.call = c

\* A call has an entry about its request, which lets it go if it has gone
\* anywhere, and has suspended it if there is a ticket.
Recorded(c) ==
    LET event == entries[work[c].entry].event
    IN /\ work[c].entry \in DOMAIN entries
       /\ event.request = work[c].request
       /\ Going(c) => LetsGo(event)
       /\ stage[c] # "unborn" =>
              /\ event.verdict = "SUSPENDED_PENDING_APPROVAL"
              /\ event.tier = "L3_CRITICAL"

\* No two calls share an entry.
EntriesOwned ==
    \A c, d \in Tickets :
        Made(c) /\ Made(d) /\ work[c].entry = work[d].entry => c = d

LeavesGiven == (\A c \in Tickets : Made(c) => Recorded(c)) /\ EntriesOwned

LEMMA LeavesGivenSteps ==
    ASSUME StoreInv, RuntimeInv, LeavesGiven, [RuntimeNext]_runtimeVars
    PROVE  LeavesGiven'
    <1>1. /\ ToolsTyped /\ ProgressTyped /\ TrailTyped /\ TrailTyped'
          /\ TrailKept /\ WorkKept /\ MadeFirst
          /\ Len(entries) \in Nat /\ DOMAIN entries = 1 .. Len(entries)
        BY TrailSteps, WorkSteps, InvMadeFirst, TrailLength DEF RuntimeInv, RuntimeTyped
    <1>2. ASSUME NEW c \in Tickets, Made(c), Going(c)' => Going(c),
                 stage[c] = "unborn" => stage'[c] = "unborn"
          PROVE  Recorded(c)'
        BY <1>1, <1>2 DEF LeavesGiven, Recorded, WorkKept, TrailKept
    \* A step that makes no call.
    <1>3. ASSUME \A c \in Tickets : /\ Made(c)' => Made(c)
                                    /\ Going(c)' => Going(c)
                                    /\ stage[c] = "unborn" => stage'[c] = "unborn"
          PROVE  LeavesGiven'
        <2>1. \A c \in Tickets : Made(c)' => Recorded(c)'
            BY <1>2, <1>3
        <2>2. EntriesOwned'
            BY <1>1, <1>3 DEF LeavesGiven, EntriesOwned, WorkKept
        <2> QED
            BY <2>1, <2>2 DEF LeavesGiven
    <1>4. CASE \E offer : Registered(offer)
        <2>1. UNCHANGED <<work, runs, stage>>
            BY <1>4 DEF Registered, Registers, progress, vars
        <2> QED
            BY <1>3, <2>1 DEF Made, Going
    <1>5. ASSUME NEW c \in Tickets, NEW req \in Requests, NEW given, NEW event,
                 NEW state, Executes(c, req, given, event, state), Brought(req, given)
          PROVE  LeavesGiven'
        <2>1. ~Made(c) /\ ~Going(c)
            BY <1>1, <1>5
            DEF Executes, Made, Going, RuntimeInv, TicketsHaveWork, MadeFirst
        <2>2. /\ work'[c].entry = Len(entries') /\ work'[c].request = req
              /\ \A d \in Tickets \ {c} : work'[d] = work[d]
            BY <1>1, <1>5 DEF Executes, ProgressTyped
        <2>3. /\ Len(entries') = Len(entries) + 1
              /\ Len(entries') \in DOMAIN entries'
              /\ entries'[Len(entries')].event = event /\ event.request = req
            <3>1. DOMAIN entries' = 1 .. Len(entries')
                BY <1>1 DEF TrailTyped
            <3> QED
                BY <1>1, <1>5, <3>1 DEF Executes, Appended
        <2>4. \A d \in Tickets \ {c} : /\ Going(d)' => Going(d)
                                       /\ stage'[d] = stage[d]
            <3>1. CASE UNCHANGED <<stage, runs>>
                BY <3>1 DEF Going
            <3>2. CASE stage' = [stage EXCEPT ![c] = "built"] /\ UNCHANGED runs
                BY <3>2 DEF Going, StoreInv, TypeOK
            <3>3. ASSUME UNCHANGED vars, NEW run, run.call = c, runs' = runs \cup {run}
                  PROVE  \A d \in Tickets \ {c} : /\ Going(d)' => Going(d)
                                                  /\ stage'[d] = stage[d]
                BY <3>3 DEF Going, vars
            <3> QED
                BY <1>1, <1>5, <3>1, <3>2, <3>3, ExecutesStarts
        <2>5. /\ Going(c)' => LetsGo(event)
              /\ stage'[c] # "unborn" =>
                     /\ event.verdict = "SUSPENDED_PENDING_APPROVAL"
                     /\ event.tier = "L3_CRITICAL"
            <3>1. CASE state = "refused"
                BY <1>5, <2>1, <3>1 DEF Executes, Execution, Going, vars
            <3>2. CASE state = "suspended"
                BY <1>5, <3>2 DEF Executes, LetsGo, Execution
            <3>3. CASE state \in Execution
                BY <1>5, <2>1, <3>3 DEF Executes, LetsGo, Execution, Going, vars
            <3> QED
                BY <1>5, <3>1, <3>2, <3>3 DEF Executes
        <2>6. Recorded(c)'
            BY <2>2, <2>3, <2>5 DEF Recorded
        <2>7. \A d \in Tickets \ {c} : Made(d)' => Made(d) /\ Recorded(d)'
            <3> SUFFICES ASSUME NEW d \in Tickets \ {c}, Made(d)'
                         PROVE  Made(d) /\ Recorded(d)'
                OBVIOUS
            <3>1. Made(d)
                BY <2>2 DEF Made
            <3>2. Recorded(d)'
                BY <1>2, <2>4, <3>1
            <3> QED
                BY <3>1, <3>2
        <2>8. \A d \in Tickets \ {c} : Made(d) => work[d].entry # Len(entries')
            BY <1>1, <2>3 DEF LeavesGiven, Recorded
        <2>9. EntriesOwned'
            BY <2>2, <2>7, <2>8 DEF LeavesGiven, EntriesOwned
        <2> QED
            BY <2>6, <2>7, <2>9 DEF LeavesGiven
    <1>6. ASSUME NEW o \in Operators, NEW given \in Handlers, Resumes(o, given)
          PROVE  LeavesGiven'
        <2>1. /\ UNCHANGED <<work, stage>>
              /\ call[o].ticket \in Tickets /\ call[o].state = "checked"
            BY <1>6 DEF Resumes, DecideTicket
        <2>2. Going(call[o].ticket)
            BY <2>1 DEF StoreInv, CheckedSigned, Going
        <2>3. \A c \in Tickets : Going(c)' => Going(c)
            BY <1>1, <1>6, <2>1, <2>2, ResumesStarts DEF Going
        <2> QED
            BY <1>3, <2>1, <2>3 DEF Made
    <1>7. CASE Quiet
        <2>1. \A c \in Tickets : Made(c)' => Made(c)
            BY <1>7 DEF Quiet, Made
        <2>2. \A c \in Tickets : /\ Going(c)' => Going(c)
                                 /\ stage[c] = "unborn" => stage'[c] = "unborn"
            BY <1>7 DEF Quiet, Going
        <2> QED
            BY <1>3, <2>1, <2>2
    <1> QED
        BY <1>1, <1>4, <1>5, <1>6, <1>7, RuntimeSteps DEF RuntimeInv

\* With any store, what was let go was charged, and what goes was let go.
THEOREM LeavesPaid == RuntimeSpec => [](LeavesCharged /\ LeavesGiven)
    <1>1. RuntimeSpec => []BreakerTypeOK
        BY BreakerInside, BreakerTypeCorrect DEF ImplementsBreaker
    <1>2. RuntimeInit => LeavesCharged /\ LeavesGiven
        <2> SUFFICES ASSUME RuntimeInit PROVE LeavesCharged /\ LeavesGiven
            OBVIOUS
        <2>1. \A s \in Sessions : Leaves(s) = {}
            BY DEF RuntimeInit, GateInit, Leaves, Ours
        <2>2. \A s \in Sessions : Cardinality(Leaves(s)) = 0
            BY <2>1, FS_EmptySet
        <2> QED
            BY <2>2 DEF RuntimeInit, GateInit, BreakerInit, LeavesCharged,
                        LeavesGiven, EntriesOwned, Made
    <1>3. /\ StoreInv /\ RuntimeInv /\ BreakerTypeOK
          /\ LeavesCharged /\ LeavesGiven /\ [RuntimeNext]_runtimeVars
          => LeavesCharged' /\ LeavesGiven'
        BY LeavesSteps, LeavesGivenSteps, InvMadeFirst DEF RuntimeInv
    <1> QED
        BY StoreInside, RuntimeInvariance, <1>1, <1>2, <1>3, PTL DEF RuntimeSpec

\* On one event loop handlers are not started more often than their session
\* was charged, whoever answers and whatever is registered or reset meanwhile.
THEOREM RunsPaid ==
    ASSUME ~StoreYields
    PROVE  RuntimeSpec => []RunsBudgeted
    <1>1. RuntimeSpec => []BreakerTypeOK
        BY BreakerInside, BreakerTypeCorrect DEF ImplementsBreaker
    <1>2. ASSUME RuntimeInv, BreakerTypeOK, RunOnce, LeavesCharged, LeavesGiven
          PROVE  RunsBudgeted
        <2> SUFFICES ASSUME NEW s \in Sessions
                     PROVE  Cardinality({run \in runs : work[run.call].entry \in Ours(s)})
                                <= totalCalls[s]
            BY DEF RunsBudgeted
        <2> DEFINE R == {run \in runs : work[run.call].entry \in Ours(s)}
                   f == [run \in R |-> work[run.call].entry]
        <2>1. \A run \in R : /\ run.call \in Tickets /\ Made(run.call)
                             /\ Recorded(run.call) /\ Going(run.call)
            BY <1>2 DEF RuntimeInv, RuntimeTyped, ProgressTyped, Run, RunsOwned,
                        LeavesGiven, Going
        <2>2. f \in [R -> Leaves(s)]
            BY <2>1 DEF Recorded, Leaves
        <2>3. \A run1, run2 \in R : f[run1] = f[run2] => run1 = run2
            BY <1>2, <2>1 DEF LeavesGiven, EntriesOwned, RunOnce
        <2>4. f \in Injection(R, Leaves(s))
            BY <2>2, <2>3 DEF Injection, IsInjective
        <2>5. TrailTyped
            BY <1>2 DEF RuntimeInv, RuntimeTyped
        <2>6. /\ IsFiniteSet(Leaves(s)) /\ Cardinality(Leaves(s)) \in Nat
              /\ totalCalls[s] \in Nat
            BY <1>2, <2>5, LeavesFinite, LimitsAreNat DEF BreakerTypeOK
        <2> HIDE DEF R, f
        <2>7. IsFiniteSet(R) /\ Cardinality(R) <= Cardinality(Leaves(s))
            BY <2>4, <2>6, FS_Injection
        <2>8. Cardinality(R) \in Nat /\ Cardinality(Leaves(s)) <= totalCalls[s]
            BY <1>2, <2>7, FS_CardinalityType DEF LeavesCharged
        <2> QED
            BY <2>6, <2>7, <2>8 DEF R
    <1> QED
        BY RuntimeInvariance, StartedOnce, LeavesPaid, <1>1, <1>2, PTL
=============================================================================
