---------------------------- MODULE TrailProofs ----------------------------
(***************************************************************************)
(* What the trail says of a request adds up, for any number of requests,   *)
(* calls and operators.                                                    *)
(***************************************************************************)
EXTENDS AuthorisationProofs

\* The ends of resume_ticket that leave an entry.
Ends == {"rejected", "succeeded"}

\* A resume_ticket call that came to a decision holds its ticket for good.
FatesOwned ==
    \A o \in Operators : resumed[o] # "none" =>
        /\ Decided(o)
        /\ call[o].ticket \in Tickets /\ Made(call[o].ticket)

\* The ends that were told stay as they were, and no other operator's end is
\* told.
FatesKept(o) ==
    \A p \in Operators \ {o} :
        resumed[p] \in Ends \/ resumed'[p] \in Ends =>
            /\ resumed[p] # "none"
            /\ resumed'[p] = resumed[p] /\ call'[p].ticket = call[p].ticket

\* A step that tells nothing.
Untold ==
    /\ entries' = entries
    /\ \A c \in Tickets : Made(c)' <=> Made(c)
    /\ FatesKept(None)

\* A call of execute_tool is made, and its entry lets no critical tool run.
CallTold(c, event) ==
    /\ Appended(event)
    /\ ~Made(c) /\ Made(c)'
    /\ work'[c].request.id = event.request.id
    /\ \A d \in Tickets \ {c} : Made(d)' <=> Made(d)
    /\ event.verdict = "PERMITTED" => event.tier # "L3_CRITICAL"
    /\ FatesKept(None)

\* What became of an approval card is told, once.
EndTold(o, event) ==
    /\ Appended(event)
    /\ \A c \in Tickets : Made(c)' <=> Made(c)
    /\ resumed[o] \notin Ends
    /\ call[o].ticket \in Tickets /\ Made(call[o].ticket)
    /\ call'[o].ticket = call[o].ticket
    /\ event.request.id = work[call[o].ticket].request.id
    /\ event.tier = "L3_CRITICAL"
    /\ \/ resumed'[o] = "succeeded" /\ event.verdict = "PERMITTED"
       \/ resumed'[o] = "rejected" /\ event.verdict = "REJECTED_POLICY_VIOLATION"
    /\ FatesKept(o)

\* A decision is the end of a resolve_ticket call, whichever it was.
LEMMA DecisionsStay ==
    ASSUME StoreInv, [Next]_vars, NEW o \in Operators, Decided(o)
    PROVE  call'[o] = call[o]
    BY NextSteps DEF Steps, CallStep, Decided, Decision

LEMMA FatesKeptDecided ==
    ASSUME StoreInv, FatesOwned, [Next]_vars, NEW o,
           \A p \in Operators \ {o} : resumed'[p] = resumed[p]
    PROVE  FatesKept(o)
    BY DecisionsStay DEF FatesKept, FatesOwned, Ends

\* resume_ticket, up to its decision and what follows it.
LEMMA ResumeTold ==
    ASSUME StoreInv, RuntimeInv, FatesOwned, [Next]_vars, NEW o \in Operators,
           NEW given \in Handlers, ResumeTicket(o, given)
    PROVE  /\ FatesOwned'
           /\ Untold \/ \E event : EndTold(o, event)
    <1>1. PICK c \in Tickets :
              /\ c = call[o].ticket /\ Made(c)
              /\ call'[o].state \in Decision => answers'[o].args \in Args
        BY DecidedTickets, InvMadeFirst DEF ResumeTicket, RuntimeInv, DecisionGiven
    <1>2. /\ call[o].state = "checked" /\ call'[o].ticket = c
          /\ ~Decided(o) /\ resumed[o] = "none"
        BY <1>1 DEF ResumeTicket, DecideTicket, Settle, StoreInv, TypeOK, Call,
                    Decided, Decision, FatesOwned
    <1>3. /\ work' = work /\ resumed' \in [Operators -> {"none", "rejected"} \cup Execution]
          /\ \A p \in Operators \ {o} : resumed'[p] = resumed[p]
          /\ resumed'[o] = resumed[o] \/ Decided(o)'
        <2>1. CASE ResolutionFails(o)
            BY <2>1 DEF ResolutionFails, progress, RuntimeInv, RuntimeTyped, ProgressTyped
        <2>2. CASE RejectCard(o, c)
            BY <2>2 DEF RejectCard, Decided, Decision, RuntimeInv, RuntimeTyped,
                        ProgressTyped
        <2>3. CASE ExecuteCard(o, c, given)
            BY <2>3 DEF ExecuteCard, Decided, Decision, RuntimeInv, RuntimeTyped,
                        ProgressTyped
        <2> QED
            BY <1>1, <2>1, <2>2, <2>3 DEF ResumeTicket
    <1>4. FatesKept(o)
        BY <1>3, FatesKeptDecided
    <1>5. FatesOwned'
        <2> SUFFICES ASSUME NEW p \in Operators, resumed'[p] # "none"
                     PROVE  /\ Decided(p)'
                            /\ call'[p].ticket \in Tickets
                            /\ work'[call'[p].ticket] # NoWork
            BY DEF FatesOwned, Made
        <2>1. CASE p = o
            BY <1>1, <1>2, <1>3, <2>1 DEF Made
        <2>2. CASE p # o
            BY <1>3, <2>2, DecisionsStay DEF FatesOwned, Decided, Made
        <2> QED
            BY <2>1, <2>2
    <1>6. \A d \in Tickets : Made(d)' <=> Made(d)
        BY <1>3 DEF Made
    <1>7. ASSUME entries' = entries, resumed'[o] \notin Ends
          PROVE  Untold
        BY <1>2, <1>4, <1>6, <1>7 DEF Untold, FatesKept, Ends
    <1>8. ASSUME NEW args \in Args, NEW verdict \in Verdict, AuditCard(c, args, verdict),
                 \/ resumed'[o] = "succeeded" /\ verdict = "PERMITTED"
                 \/ resumed'[o] = "rejected" /\ verdict = "REJECTED_POLICY_VIOLATION"
          PROVE  \E event : EndTold(o, event)
        <2>1. PICK event : /\ Appended(event)
                           /\ event.request.id = work[c].request.id
                           /\ event.tier = "L3_CRITICAL" /\ event.verdict = verdict
            BY <1>1, <1>8, AuditCardAppends DEF RuntimeInv, RuntimeTyped
        <2> QED
            BY <1>1, <1>2, <1>4, <1>6, <1>8, <2>1 DEF EndTold, Ends
    <1>9. CASE ResolutionFails(o)
        BY <1>2, <1>7, <1>5, <1>9 DEF ResolutionFails, progress, Ends
    <1>10. CASE RejectCard(o, c)
        BY <1>1, <1>5, <1>8, <1>10
        DEF RejectCard, Decision, Verdict, RuntimeInv, RuntimeTyped, ProgressTyped
    <1>11. CASE ExecuteCard(o, c, given)
        <2>1. PICK end \in Execution :
                  /\ resumed'[o] = end
                  /\ AuditEnd(c, answers'[o].args, end)
            BY <1>11 DEF ExecuteCard, RuntimeInv, RuntimeTyped, ProgressTyped
        <2>2. answers'[o].args \in Args
            BY <1>1, <1>11 DEF ExecuteCard, Decision
        <2>3. CASE end = "succeeded"
            BY <1>5, <1>8, <2>1, <2>2, <2>3 DEF AuditEnd, Verdict
        <2>4. CASE end # "succeeded"
            BY <1>5, <1>7, <2>1, <2>4 DEF AuditEnd, Ends, Execution
        <2> QED
            BY <2>3, <2>4
    <1> QED
        BY <1>1, <1>9, <1>10, <1>11 DEF ResumeTicket

\* The end of the coroutine of an approved tool.
LEMMA EndResumedTold ==
    ASSUME StoreInv, RuntimeInv, FatesOwned, [Next]_vars, NEW o \in Operators,
           EndResumed(o)
    PROVE  /\ FatesOwned'
           /\ Untold \/ \E event : EndTold(o, event)
    <1>1. PICK run \in runs, end \in {"succeeded", "failed", "cancelled"} :
              /\ run.by = o
              /\ resumed' = [resumed EXCEPT ![o] = end]
              /\ AuditEnd(run.call, run.args, end)
        BY DEF EndResumed
    <1>2. /\ run.call \in Tickets /\ run.args \in Args
          /\ Made(run.call) /\ call[o].ticket = run.call
        BY <1>1, NoneIsNoMember DEF RuntimeInv, RuntimeTyped, ProgressTyped, Run, RunsOwned
    <1>3. /\ resumed[o] = "running" /\ UNCHANGED <<call, work>>
          /\ resumed'[o] = end
          /\ \A p \in Operators \ {o} : resumed'[p] = resumed[p]
        BY <1>1 DEF EndResumed, vars, RuntimeInv, RuntimeTyped, ProgressTyped
    <1>4. FatesKept(o)
        BY <1>3, FatesKeptDecided
    <1>5. FatesOwned'
        BY <1>3 DEF FatesOwned, Decided, Made
    <1>6. \A d \in Tickets : Made(d)' <=> Made(d)
        BY <1>3 DEF Made
    <1>7. CASE end = "succeeded"
        <2>1. AuditCard(run.call, run.args, "PERMITTED") /\ "PERMITTED" \in Verdict
            BY <1>1, <1>7 DEF AuditEnd, Verdict
        <2>2. PICK event : /\ Appended(event)
                           /\ event.request.id = work[run.call].request.id
                           /\ event.tier = "L3_CRITICAL" /\ event.verdict = "PERMITTED"
            BY <1>2, <2>1, AuditCardAppends DEF RuntimeInv, RuntimeTyped
        <2>3. EndTold(o, event)
            BY <1>2, <1>3, <1>4, <1>6, <1>7, <2>2 DEF EndTold, Ends
        <2> QED
            BY <1>5, <2>3
    <1>8. CASE end # "succeeded"
        BY <1>1, <1>3, <1>4, <1>5, <1>6, <1>8 DEF AuditEnd, Untold, FatesKept, Ends
    <1> QED
        BY <1>7, <1>8

\* Every step tells of one call, or of one end, or of nothing.
LEMMA FateSteps ==
    ASSUME StoreInv, RuntimeInv, FatesOwned, [RuntimeNext]_runtimeVars
    PROVE  /\ FatesOwned'
           /\ \/ Untold
              \/ \E c \in Tickets : \E event : CallTold(c, event)
              \/ \E o \in Operators : \E event : EndTold(o, event)
    <1>1. [Next]_vars /\ WorkKept /\ RuntimeTyped
        BY SuspensionSteps, WorkSteps, InvMadeFirst DEF RuntimeInv
    \* A step in which no resume_ticket call comes to an end.
    <1>2. ASSUME UNCHANGED resumed
          PROVE  FatesOwned' /\ FatesKept(None)
        <2>1. FatesKept(None)
            BY <1>1, <1>2, FatesKeptDecided
        <2>2. FatesOwned'
            BY <1>1, <1>2, DecisionsStay DEF FatesOwned, Decided, WorkKept, Made
        <2> QED
            BY <2>1, <2>2
    <1>3. ASSUME UNCHANGED <<entries, resumed>>, \A c \in Tickets : Made(c)' <=> Made(c)
          PROVE  FatesOwned' /\ Untold
        BY <1>2, <1>3 DEF Untold
    <1>4. CASE UNCHANGED runtimeVars
        BY <1>3, <1>4 DEF runtimeVars, gateVars, progress, Made
    <1>5. ASSUME NEW offer, RegisterTool(offer) \/ Decorate(offer)
          PROVE  FatesOwned' /\ Untold
        BY <1>3, <1>5 DEF RegisterTool, Decorate, Registers, Register, progress, Made
    <1>6. ASSUME NEW c \in Tickets, Begins(c)
          PROVE  FatesOwned' /\ \E event : CallTold(c, event)
        <2>1. PICK req \in Requests, role \in UserRole, given \in Functions \cup {NoHandler} :
                  ExecuteTool(c, req, role, given)
            BY <1>6, BeginsExecute
        <2>2. PICK event, state : Executes(c, req, given, event, state)
            BY <1>1, <2>1, ExecuteToolDoes DEF RuntimeTyped
        <2>3. /\ UNCHANGED resumed
              /\ ~Made(c) /\ Appended(event) /\ event.request = req
            BY <2>2 DEF Executes, Made
        <2>4. /\ Made(c)' /\ work'[c].request = req
              /\ \A d \in Tickets \ {c} : work'[d] = work[d]
            BY <1>1, <2>2, ExecutesMakes
        <2>5. event.verdict = "PERMITTED" => event.tier # "L3_CRITICAL"
            BY <2>2 DEF Executes, GoAhead
        <2> QED
            BY <1>2, <2>3, <2>4, <2>5 DEF CallTold, Made
    <1>7. ASSUME NEW c \in Tickets, CreateTicket(c) \/ EndExecution(c)
          PROVE  FatesOwned' /\ Untold
        <2>1. CASE CreateTicket(c)
            BY <1>3, <2>1 DEF CreateTicket, gateVars, progress, Made
        <2>2. CASE EndExecution(c)
            <3>1. \A d \in Tickets : Made(d)' <=> Made(d)
                BY <1>1, <2>2 DEF EndExecution, WorkKept, Made, RuntimeTyped, ProgressTyped
            <3> QED
                BY <1>3, <2>2, <3>1 DEF EndExecution, gateVars
        <2> QED
            BY <1>7, <2>1, <2>2
    <1>8. ASSUME NEW o \in Operators,
                 OpenTicket(o) \/ StoreDecision(o) \/ CancelResume(o)
          PROVE  FatesOwned' /\ Untold
        BY <1>3, <1>8
        DEF OpenTicket, StoreDecision, CancelResume, gateVars, progress, Made
    <1>9. CASE Around /\ UNCHANGED <<tools, progress>>
        BY <1>3, <1>9 DEF Around, Reset, PassMono, gateVars, progress, Made
    <1> QED
        BY <1>1, <1>4, <1>5, <1>6, <1>7, <1>8, <1>9, ResumeTold, EndResumedTold
        DEF RuntimeNext

-----------------------------------------------------------------------------
(* Counting. *)

\* A set that may have one element more.
Joined(S, x, joins) == S \cup (IF joins THEN {x} ELSE {})

LEMMA JoinedSize ==
    ASSUME NEW S, IsFiniteSet(S), NEW x, x \notin S, NEW joins \in BOOLEAN
    PROVE  /\ IsFiniteSet(Joined(S, x, joins))
           /\ Cardinality(S) \in Nat
           /\ Cardinality(Joined(S, x, joins)) = Cardinality(S) + IF joins THEN 1 ELSE 0
    <1>1. Cardinality(S) \in Nat
        BY FS_CardinalityType
    <1>2. CASE joins
        BY <1>1, <1>2, FS_AddElement DEF Joined
    <1>3. CASE ~joins
        <2>1. Joined(S, x, joins) = S
            BY <1>3 DEF Joined
        <2> QED
            BY <1>1, <1>3, <2>1
    <1> QED
        BY <1>2, <1>3

\* The entries that bear an identifier are finitely many.
LEMMA StoryFinite ==
    ASSUME TrailTyped, NEW id
    PROVE  /\ IsFiniteSet(Story(id))
           /\ \A n, tier, verdict : IsFiniteSet(StoryOf(id, n, tier, verdict))
    <1>1. IsFiniteSet(1 .. Len(entries))
        BY TrailLength, FS_Interval
    <1>2. Story(id) \subseteq 1 .. Len(entries)
        BY TrailLength DEF Story
    <1>3. \A n, tier, verdict :
              StoryOf(id, n, tier, verdict) \subseteq 1 .. Len(entries)
        BY <1>2 DEF StoryOf
    <1> QED
        BY <1>1, <1>2, <1>3, FS_Subset

\* An entry joins the story of its request, and no other.
LEMMA StoryGrows ==
    ASSUME TrailTyped, TrailTyped', NEW event, Appended(event), NEW id
    PROVE  /\ Len(entries) + 1 \notin Story(id)
           /\ Story(id)' = Joined(Story(id), Len(entries) + 1, event.request.id = id)
           /\ \A tier, verdict :
                  /\ Len(entries) + 1 \notin StoryOf(id, Len(entries), tier, verdict)
                  /\ StoryOf(id, Len(entries), tier, verdict)'
                         = Joined(StoryOf(id, Len(entries), tier, verdict), Len(entries) + 1,
                                  /\ event.request.id = id
                                  /\ event.tier = tier /\ event.verdict = verdict)
    <1> DEFINE n == Len(entries)
    <1>1. /\ n \in Nat /\ DOMAIN entries = 1 .. n
          /\ Len(entries') = n + 1 /\ DOMAIN entries' = 1 .. (n + 1)
          /\ \A i \in 1 .. n : entries'[i] = entries[i]
          /\ entries'[n + 1].event = event
        BY TrailLength DEF TrailTyped, Appended
    <1>2. \A i : i \in Story(id)' <=> i \in Joined(Story(id), n + 1, event.request.id = id)
        BY <1>1 DEF Story, Joined
    <1>3. n + 1 \notin Story(id)
        BY <1>1 DEF Story
    <1>4. ASSUME NEW tier, NEW verdict
          PROVE  /\ n + 1 \notin StoryOf(id, n, tier, verdict)
                 /\ StoryOf(id, Len(entries), tier, verdict)'
                        = Joined(StoryOf(id, n, tier, verdict), n + 1,
                                 /\ event.request.id = id
                                 /\ event.tier = tier /\ event.verdict = verdict)
        <2>1. \A i : i \in StoryOf(id, Len(entries), tier, verdict)'
                         <=> i \in Joined(StoryOf(id, n, tier, verdict), n + 1,
                                          /\ event.request.id = id
                                          /\ event.tier = tier /\ event.verdict = verdict)
            BY <1>1 DEF StoryOf, Story, Joined
        <2> QED
            BY <1>3, <2>1 DEF StoryOf
    <1> QED
        BY <1>2, <1>3, <1>4

-----------------------------------------------------------------------------
(* The trail tells the fate of every request. *)

\* There is an entry for every call, and one for every end that is told; so
\* many critical executions as it tells of have succeeded.
FateTold(id) ==
    /\ IsFiniteSet(CallsFor(id))
    /\ IsFiniteSet(ResumedFor(id, Ends))
    /\ IsFiniteSet(ResumedFor(id, {"succeeded"}))
    /\ Cardinality(Story(id)) = Cardinality(CallsFor(id)) + Cardinality(ResumedFor(id, Ends))
    /\ Cardinality(StoryOf(id, Len(entries), "L3_CRITICAL", "PERMITTED"))
           = Cardinality(ResumedFor(id, {"succeeded"}))

LEMMA FateToldSteps ==
    ASSUME StoreInv, RuntimeInv, FatesOwned, [RuntimeNext]_runtimeVars,
           NEW id, FateTold(id)
    PROVE  FateTold(id)'
    <1>1. /\ WorkKept /\ TrailTyped /\ TrailTyped'
          /\ \A c \in Tickets : Made(c) => work[c].request.id = work'[c].request.id
        BY WorkSteps, TrailSteps, InvMadeFirst DEF RuntimeInv, WorkKept
    \* What is kept of the ends, for any set of ends that are told.
    <1>2. ASSUME NEW o, FatesKept(o), NEW ends, ends \subseteq Ends,
                 NEW p \in Operators \ {o}
          PROVE  p \in ResumedFor(id, ends)' <=> p \in ResumedFor(id, ends)
        BY <1>1, <1>2 DEF FatesKept, ResumedFor, FatesOwned
    <1>3. ASSUME FatesKept(None), NEW ends, ends \subseteq Ends
          PROVE  ResumedFor(id, ends)' = ResumedFor(id, ends)
        <2>1. \A p \in Operators : p # None
            BY NoneIsNoMember
        <2>2. \A p : p \in ResumedFor(id, ends)' <=> p \in ResumedFor(id, ends)
            BY <1>2, <1>3, <2>1 DEF ResumedFor
        <2> QED
            BY <2>2
    <1>4. ASSUME \A c \in Tickets : Made(c)' <=> Made(c)
          PROVE  CallsFor(id)' = CallsFor(id)
        BY <1>1, <1>4 DEF CallsFor
    <1>5. CASE Untold
        <2>1. /\ Story(id)' = Story(id)
              /\ StoryOf(id, Len(entries), "L3_CRITICAL", "PERMITTED")'
                     = StoryOf(id, Len(entries), "L3_CRITICAL", "PERMITTED")
            BY <1>5 DEF Untold, Story, StoryOf
        <2>2. /\ CallsFor(id)' = CallsFor(id)
              /\ ResumedFor(id, Ends)' = ResumedFor(id, Ends)
              /\ ResumedFor(id, {"succeeded"})' = ResumedFor(id, {"succeeded"})
            BY <1>3, <1>4, <1>5 DEF Untold, Ends
        <2> QED
            BY <2>1, <2>2 DEF FateTold
    <1> DEFINE n == Len(entries) + 1
               done == StoryOf(id, Len(entries), "L3_CRITICAL", "PERMITTED")
    <1>6. ASSUME NEW c \in Tickets, NEW event, CallTold(c, event)
          PROVE  FateTold(id)'
        <2> DEFINE ours == event.request.id = id
        <2>1. /\ Story(id)' = Joined(Story(id), n, ours) /\ n \notin Story(id)
              /\ done' = Joined(done, n, FALSE)
              /\ IsFiniteSet(Story(id)) /\ done' = done
            <3>1. /\ Appended(event)
                  /\ ~(event.tier = "L3_CRITICAL" /\ event.verdict = "PERMITTED")
                BY <1>6 DEF CallTold
            <3>2. IsFiniteSet(Story(id))
                BY <1>1, StoryFinite
            <3>3. /\ Story(id)' = Joined(Story(id), n, ours) /\ n \notin Story(id)
                  /\ done' = Joined(done, n,
                                    /\ event.request.id = id
                                    /\ event.tier = "L3_CRITICAL" /\ event.verdict = "PERMITTED")
                BY <1>1, <3>1, StoryGrows DEF Joined
            <3> HIDE DEF done
            <3>4. done' = Joined(done, n, FALSE) /\ done' = done
                BY <3>1, <3>3 DEF Joined
            <3> QED
                BY <3>2, <3>3, <3>4
        <2>2. CallsFor(id)' = Joined(CallsFor(id), c, ours) /\ c \notin CallsFor(id)
            <3>1. \A d : d \in CallsFor(id)' <=> d \in Joined(CallsFor(id), c, ours)
                BY <1>1, <1>6 DEF CallTold, CallsFor, Joined
            <3> QED
                BY <1>6, <3>1 DEF CallTold, CallsFor
        <2>3. /\ ResumedFor(id, Ends)' = ResumedFor(id, Ends)
              /\ ResumedFor(id, {"succeeded"})' = ResumedFor(id, {"succeeded"})
            BY <1>3, <1>6 DEF CallTold, Ends
        <2>4. IsFiniteSet(CallsFor(id)) /\ ours \in BOOLEAN
            BY DEF FateTold
        <2> HIDE DEF ours, n, done
        <2>5. /\ Cardinality(Story(id)') = Cardinality(Story(id)) + IF ours THEN 1 ELSE 0
              /\ IsFiniteSet(CallsFor(id)')
              /\ Cardinality(CallsFor(id)') = Cardinality(CallsFor(id)) + IF ours THEN 1 ELSE 0
              /\ Cardinality(CallsFor(id)) \in Nat /\ Cardinality(Story(id)) \in Nat
            BY <2>1, <2>2, <2>4, JoinedSize
        <2>6. Cardinality(ResumedFor(id, Ends)) \in Nat
            BY FS_CardinalityType DEF FateTold
        <2> QED
            BY <2>1, <2>3, <2>5, <2>6 DEF FateTold, done
    <1>7. ASSUME NEW o \in Operators, NEW event, EndTold(o, event)
          PROVE  FateTold(id)'
        <2> DEFINE ours == event.request.id = id
                   ran  == ours /\ event.verdict = "PERMITTED"
        <2>1. /\ Story(id)' = Joined(Story(id), n, ours) /\ n \notin Story(id)
              /\ done' = Joined(done, n, ran) /\ n \notin done
              /\ IsFiniteSet(Story(id)) /\ IsFiniteSet(done)
            <3>1. event.tier = "L3_CRITICAL" /\ Appended(event)
                BY <1>7 DEF EndTold
            <3>2. IsFiniteSet(Story(id)) /\ IsFiniteSet(done)
                BY <1>1, StoryFinite
            <3>3. /\ Story(id)' = Joined(Story(id), n, ours) /\ n \notin Story(id)
                  /\ n \notin done
                  /\ done' = Joined(done, n,
                                    /\ event.request.id = id
                                    /\ event.tier = "L3_CRITICAL" /\ event.verdict = "PERMITTED")
                BY <1>1, <3>1, StoryGrows DEF Joined
            <3> QED
                BY <3>1, <3>2, <3>3 DEF Joined
        <2>2. CallsFor(id)' = CallsFor(id)
            BY <1>4, <1>7 DEF EndTold
        <2>3. ASSUME NEW ends, ends \subseteq Ends, NEW joins,
                     joins <=> ours /\ resumed'[o] \in ends
              PROVE  /\ ResumedFor(id, ends)' = Joined(ResumedFor(id, ends), o, joins)
                     /\ o \notin ResumedFor(id, ends)
            <3>1. o \notin ResumedFor(id, ends)
                BY <1>7, <2>3 DEF EndTold, ResumedFor
            <3>2. o \in ResumedFor(id, ends)' <=> joins
                BY <1>1, <1>7, <2>3 DEF EndTold, ResumedFor
            <3>3. \A p : p \in ResumedFor(id, ends)'
                             <=> p \in Joined(ResumedFor(id, ends), o, joins)
                BY <1>2, <1>7, <2>3, <3>1, <3>2 DEF EndTold, ResumedFor, Joined
            <3> QED
                BY <3>1, <3>3
        <2>4. /\ ResumedFor(id, Ends)' = Joined(ResumedFor(id, Ends), o, ours)
              /\ o \notin ResumedFor(id, Ends)
            <3>1. ours <=> ours /\ resumed'[o] \in Ends
                BY <1>7 DEF EndTold, Ends
            <3> HIDE DEF ours
            <3> QED
                BY <2>3, <3>1
        <2>5. /\ ResumedFor(id, {"succeeded"})' = Joined(ResumedFor(id, {"succeeded"}), o, ran)
              /\ o \notin ResumedFor(id, {"succeeded"})
            BY <1>7, <2>3 DEF EndTold, Ends
        <2>6. ours \in BOOLEAN /\ ran \in BOOLEAN
            OBVIOUS
        <2> HIDE DEF ours, ran, n, done
        <2>7. /\ Cardinality(Story(id)') = Cardinality(Story(id)) + IF ours THEN 1 ELSE 0
              /\ Cardinality(done') = Cardinality(done) + IF ran THEN 1 ELSE 0
              /\ Cardinality(Story(id)) \in Nat /\ Cardinality(done) \in Nat
            BY <2>1, <2>6, JoinedSize
        <2>8. /\ IsFiniteSet(ResumedFor(id, Ends)')
              /\ Cardinality(ResumedFor(id, Ends)')
                     = Cardinality(ResumedFor(id, Ends)) + IF ours THEN 1 ELSE 0
              /\ Cardinality(ResumedFor(id, Ends)) \in Nat
            BY <2>4, <2>6, JoinedSize DEF FateTold
        <2>9. /\ IsFiniteSet(ResumedFor(id, {"succeeded"})')
              /\ Cardinality(ResumedFor(id, {"succeeded"})')
                     = Cardinality(ResumedFor(id, {"succeeded"})) + IF ran THEN 1 ELSE 0
            BY <2>5, <2>6, JoinedSize DEF FateTold
        <2>10. Cardinality(CallsFor(id)) \in Nat
            BY FS_CardinalityType DEF FateTold
        <2> QED
            BY <2>2, <2>7, <2>8, <2>9, <2>10 DEF FateTold, done
    <1> QED
        BY <1>5, <1>6, <1>7, FateSteps

\* With any store, the trail tells every call and every end once.
THEOREM FatesTold == RuntimeSpec => [](FatesOwned /\ \A id \in RequestIds : FateTold(id))
    <1>1. RuntimeInit => FatesOwned /\ \A id \in RequestIds : FateTold(id)
        <2> SUFFICES ASSUME RuntimeInit, NEW id \in RequestIds
                     PROVE  FatesOwned /\ FateTold(id)
            BY DEF RuntimeInit, FatesOwned
        <2>1. /\ CallsFor(id) = {} /\ ResumedFor(id, Ends) = {}
              /\ ResumedFor(id, {"succeeded"}) = {}
              /\ Story(id) = {}
              /\ StoryOf(id, Len(entries), "L3_CRITICAL", "PERMITTED") = {}
            BY DEF RuntimeInit, GateInit, CallsFor, Made, ResumedFor, Ends, Story, StoryOf
        <2>2. /\ IsFiniteSet(CallsFor(id)) /\ IsFiniteSet(ResumedFor(id, Ends))
              /\ IsFiniteSet(ResumedFor(id, {"succeeded"}))
              /\ Cardinality(CallsFor(id)) = 0 /\ Cardinality(ResumedFor(id, Ends)) = 0
              /\ Cardinality(ResumedFor(id, {"succeeded"})) = 0
              /\ Cardinality(Story(id)) = 0
              /\ Cardinality(StoryOf(id, Len(entries), "L3_CRITICAL", "PERMITTED")) = 0
            BY <2>1, FS_EmptySet
        <2>3. FateTold(id)
            BY <2>2 DEF FateTold
        <2> QED
            BY <2>3 DEF RuntimeInit, FatesOwned
    <1>2. /\ StoreInv /\ RuntimeInv /\ [RuntimeNext]_runtimeVars
          /\ FatesOwned /\ (\A id \in RequestIds : FateTold(id))
          => (FatesOwned /\ \A id \in RequestIds : FateTold(id))'
        BY FateSteps, FateToldSteps
    <1> QED
        BY StoreInside, RuntimeInvariance, <1>1, <1>2, PTL DEF RuntimeSpec

\* Nothing more is executed than was suspended, as far as the trail goes.
NeverAhead(id, n) ==
    Cardinality(StoryOf(id, n, "L3_CRITICAL", "PERMITTED"))
        <= Cardinality(StoryOf(id, n, "L3_CRITICAL", "SUSPENDED_PENDING_APPROVAL"))

\* On one event loop, every approved execution has a suspension of its own.
LEMMA NotAhead ==
    ASSUME IInv, RuntimeInv, LeavesGiven, FatesOwned, NEW id, FateTold(id)
    PROVE  NeverAhead(id, Len(entries))
    <1> DEFINE R == ResumedFor(id, {"succeeded"})
               S == StoryOf(id, Len(entries), "L3_CRITICAL", "SUSPENDED_PENDING_APPROVAL")
               f == [o \in R |-> work[call[o].ticket].entry]
    <1>1. ASSUME NEW o \in R
          PROVE  /\ Decided(o) /\ o \in Operators
                 /\ call[o].ticket \in Tickets /\ Made(call[o].ticket)
                 /\ stage[call[o].ticket] # "unborn"
                 /\ work[call[o].ticket].request.id = id
        BY DEF ResumedFor, FatesOwned, IInv, UnsavedUnknown
    <1>2. TrailTyped
        BY DEF RuntimeInv, RuntimeTyped
    <1>3. ASSUME NEW o \in R
          PROVE  work[call[o].ticket].entry \in S
        BY <1>1, <1>2, TrailLength DEF LeavesGiven, Recorded, StoryOf, Story
    <1>4. f \in [R -> S]
        BY <1>3
    <1>5. ASSUME NEW o \in R, NEW p \in R, f[o] = f[p]
          PROVE  o = p
        <2>1. call[o].ticket = call[p].ticket
            BY <1>1, <1>5 DEF LeavesGiven, EntriesOwned
        <2> QED
            BY <1>1, <2>1 DEF IInv, DecidedOnce
    <1>6. f \in Injection(R, S)
        BY <1>4, <1>5 DEF Injection, IsInjective
    <1>7. IsFiniteSet(S)
        BY <1>2, StoryFinite
    <1>8. Cardinality(R) <= Cardinality(S)
        <2> HIDE DEF R, S, f
        <2> QED
            BY <1>6, <1>7, FS_Injection
    <1> QED
        BY <1>8 DEF FateTold, NeverAhead

\* On one event loop, what the trail says of a request adds up, however often
\* it is made, and whoever answers.
THEOREM TrailAddsUp ==
    ASSUME ~StoreYields
    PROVE  RuntimeSpec => []TrailTellsFate
    <1> DEFINE Fate  == FatesOwned /\ \A id \in RequestIds : FateTold(id)
               Ahead == \A id \in RequestIds : \A n \in DOMAIN entries : NeverAhead(id, n)
               Last  == \A id \in RequestIds : \A n : n = Len(entries) => NeverAhead(id, n)
               Inv   == StoreInv /\ IInv /\ RuntimeInv /\ LeavesGiven /\ Fate
    <1>1. RuntimeSpec => []IInv
        BY SuspensionInside, Invariance DEF ImplementsSuspension
    <1>2. RuntimeInit => Ahead
        BY DEF RuntimeInit, GateInit
    <1>3. Inv => Last
        BY NotAhead
    <1>4. ASSUME Inv, Ahead, Last', [RuntimeNext]_runtimeVars
          PROVE  Ahead'
        <2>1. /\ TrailTyped /\ TrailTyped' /\ TrailKept
              /\ Len(entries) \in Nat /\ DOMAIN entries = 1 .. Len(entries)
              /\ DOMAIN entries' = 1 .. Len(entries')
            BY <1>4, TrailSteps, TrailLength DEF TrailTyped
        <2>2. entries' = entries \/ Len(entries') = Len(entries) + 1
            BY <1>4, FateSteps DEF Untold, CallTold, EndTold, Appended
        <2>3. ASSUME NEW id \in RequestIds, NEW n \in DOMAIN entries
              PROVE  NeverAhead(id, n)'
            <3>1. \A verdict : StoryOf(id, n, "L3_CRITICAL", verdict)'
                                   = StoryOf(id, n, "L3_CRITICAL", verdict)
                BY <2>1 DEF TrailKept, StoryOf, Story
            <3> QED
                BY <1>4, <3>1 DEF NeverAhead
        <2>4. ASSUME NEW id \in RequestIds, NEW n \in DOMAIN entries'
              PROVE  NeverAhead(id, n)'
            <3>1. n \in DOMAIN entries \/ n = Len(entries')
                <4>1. n \in 1 .. Len(entries')
                    BY <2>1
                <4>2. CASE entries' = entries
                    BY <4>2
                <4>3. CASE Len(entries') = Len(entries) + 1
                    BY <2>1, <4>1, <4>3
                <4> QED
                    BY <2>2, <4>2, <4>3
            <3> QED
                BY <1>4, <2>3, <3>1
        <2> QED
            BY <2>4
    <1>5. Inv /\ Ahead => TrailTellsFate
        BY DEF FateTold, Ends, NeverAhead, TrailTellsFate
    <1>6. RuntimeSpec => []Inv
        BY StoreInside, RuntimeInvariance, LeavesPaid, FatesTold, <1>1, PTL
    <1> HIDE DEF Inv, Ahead, Last
    <1> QED
        BY <1>2, <1>3, <1>4, <1>5, <1>6, PTL DEF RuntimeSpec

=============================================================================
