# Tiered Agent Guard in TLA+

Specifications of [tiered-agent-guard](../src/README.md), the model-checking runs
that exercise them, and the theorems proved about them. Paths below are relative to
`src/src/tag/`.

Tiered Agent Guard stands between an autonomous agent and the functions it may call.
Harmless tools (L1, L2) run after validation and a policy check; critical ones (L3) are
turned into a ticket that an operator approves or rejects before it expires. Everything
the guard promises (one decision per ticket, one execution per approval, budgets that
hold, a log that can be trusted) rests on short pieces of code that read a piece of
state, do something else, and write it back. That is what is specified here.

## 1. Inventory

| Component | State it keeps | Operations | Module |
| :-- | :-- | :-- | :-- |
| Contracts, enumerations (`core/contracts.py`, `core/enums.py`) | – | – | `TagContracts`, cards in `TicketStore` |
| Ticket store (`core/state_store.py`) | `_tickets`, a lock | `save_ticket`, `get_ticket`, `update_ticket_status`, `cleanup_expired`, `clear` | `TicketStore` |
| Token signer (`suspension/crypto.py`) | its key | `generate_token`, `verify_token` | `CryptoSigner` |
| Suspension controller (`suspension/controller.py`) | only what its coroutines hold across awaits | `create_ticket`, `get_ticket`, `resolve_ticket` | `Suspension` |
| Circuit breaker (`gatekeeper/circuit_breaker.py`) | per session: total, critical calls, timestamps; the tripped sessions | `check_and_increment`, `reset_session`, `is_tripped` | `CircuitBreaker` |
| Audit trail (`gatekeeper/audit.py`) | `_entries` | `record_event`, `verify_integrity` | `AuditTrail`, `AuditDamage` |
| Policy registry and enforcer (`gatekeeper/policy.py`) | `_policies` | `register`, `evaluate` | `Gatekeeper` |
| Validators (`validators/`) | – | `inspect_value`, `audit_arguments`, `validate` | `Validation` |
| Runtime (`interceptor.py`) | its parts; what `execute_tool` and `resume_ticket` hold across awaits | `register_tool`, `execute_tool`, `resume_ticket`, `get_ticket`, `guard` | `TagRuntime` |
| Exceptions (`core/exceptions.py`) | – | – | outcomes in `Suspension` |
| Examples, benchmarks | – | scripts | not modelled |

**How they interact.** `execute_tool` validates the arguments, has the request evaluated
(breaker, role, tier, one audit entry) and then refuses it, has the controller create a
ticket, or runs the handler. `resume_ticket` has the controller resolve the ticket and
then audits a rejection, or looks the handler up, runs it, and audits its success. The
controller, the pollers of `get_ticket` and any periodic `cleanup_expired` share the
store; the runtime and the enforcer share the audit trail and the registry.

**What is hard.**

* *Interleaving.* `resolve_ticket` reads in one critical section of the store and writes
  in another. The write looks at the deadline of a PENDING card and otherwise overwrites
  what it finds. What keeps two operators apart is that awaiting an uncontended
  `asyncio.Lock` does not give up the event loop. It is not in the code of the
  controller, and is not so for another store.
* *Time.* A ticket can lapse between any two steps; who notices first (operator, poller,
  sweep) writes EXPIRED. The clock is the wall clock and can be set back.
* *Partial failure.* The notification can raise after the ticket is live; a call can be
  cancelled while it awaits a store, before or after the store has acted; an approved
  handler can raise, be cancelled, or not exist.
* *Distance.* A store that yields has acted a while before its caller knows: an operator can be
  refused on account of a decision whose own call has not come back.
* *Retries.* A caller chooses its request identifier and may make the same request again
  (`examples/cli_demo.py` does so in a loop), so that several calls, tickets and
  executions go by one identifier in the trail.
* *Stale state.* Registrations and budgets change while tickets wait; the card is one
  mutable object in several hands; two guarded functions can share a name, and so a policy.
* *Boundaries.* `>=` for the rate, `>` after adding one for the budgets, a pruned list of
  timestamps, a latch that has to outlast the limits.

**What makes each part correct.**

* Controller and store: at most one decision per ticket, in time, and never rewritten;
  a refusal says the truth; what was presented is what was signed.
* Breaker: counters and the pruned list are as good as the full record of calls; the
  rate holds in every window of a minute, not in calendar minutes.
* Trail: an intact trail holds genuine entries only, as far as the hash covers them, which
  is not quite up to the names in them; recording never changes the verdict.
* Enforcer: budgets, latch and trail tell one story over re-registrations and resets.
* Validators: of the strings that dictionaries and lists lead to, the report is complete, and
  none that offends is in the data passed on. Of others (keys, tuples, sets, bytes, models)
  nothing is promised, since nothing is looked at.
* Runtime: a handler starts at most once per call, with leave, on arguments the injection
  audit passed, within the budget, and the trail's story of a request adds up with what
  succeeded.
* `guard`: a function guarded as critical starts for an operator only, and a call through
  its wrapper starts it and no other, until its name is registered again.

The hazards, each at its line, are listed in `PROJECT.json` with the properties that would
show them going wrong.

## 2. The modules

```
TagContracts   CryptoSigner            ApprovalLedger (abstract)   CallBudget (abstract)
      \          /                           |                          |
      TicketStore                            |       TagContracts       |
           |                                 |            |             |
      Suspension --- SuspensionRefinement ---+     CircuitBreaker ------+
           |                 |                            |
           |            MCSuspension                 Gatekeeper --- AuditTrail --- AuditDamage
           |                                              |
           +----------------- TagRuntime -----------------+          Validation
```

with an `MC...` module for each that is run, and, each extending the ones before it where
an arrow says so, the modules that hold proofs:

```
SuspensionProofs -> AnyStoreProofs --+
                                     +-> TagRuntimeProofs -> AuthorisationProofs -> TrailProofs
                  GatekeeperProofs --+

AuditDamageProofs      ValidationProofs
```

In the first picture the lower module extends or instantiates the upper one. Every
definition names in its comment what part of the code it stands for; `PROJECT.json` gives
the lines.

**TicketStore** holds the table of cards and the clock. Each store method is one critical
section and one operator over `tickets`; the three ends of `update_ticket_status` are
three operators (`UpdateUnknown`, `UpdateExpired`, `UpdateStored`). Readers expire a lapsed
PENDING card as they read it (`Refreshed`).

**Suspension** cuts the coroutines where they await. `BuildCard`, `SaveCard`,
`EndNotification` and `CancelCreate` are `create_ticket`; `ReadTicket`, `WriteDecision`,
`DecideTicket` and `CancelResolve` are `resolve_ticket`; `Poll`, `Sweep`, `ClearStore`,
`AlterArguments` and `PassTime` are the rest of the world. `holder` is the task that has the
event loop between two store calls.
With `StoreYields = FALSE` (the in-memory store on one loop) a task keeps the loop across
its store calls; only the clock moves. With `StoreYields = TRUE` (a store that really
awaits) every store call is a scheduling point. The store acts (`WriteDecision`), its answer is
on its way (`answers`), and the caller goes on when it comes (`DecideTicket`), whatever has
become of the ticket since; a store that answers at once is the special case. A call can be
cancelled there: the store may have acted or not, and the caller hears nothing either way.
Of an answer the model keeps the outcome and the arguments the card had when the store acted.
The answers to `save_ticket` (nothing) and `get_ticket` (a card that is then only looked at, or
refused) add nothing by being late that `notifying` and `checked` do not have already.
An operator in `Unnamed` gives no `operator_id`, and `update_ticket_status` leaves the card's
as it was. A `ttl_seconds` may be negative, and its deadline in the past.

**ApprovalLedger** is what the controller promises its callers: a book of tickets, each
issued once, expiring, decided once and in time; deciding is one step and tells one
operator. **SuspensionRefinement** maps the store onto the book and states
`ImplementsLedger`, together with the parts of the inductive invariant `IInv`.

**CircuitBreaker** is `check_and_increment` as the disjunction of its ends (`RefuseTripped`,
`TripOnLimit`, `Commit`), `reset_session` and the monotonic clock. `admitted` and `critical`
are history: the complete record since the last reset. **CallBudget** judges a call by the
complete record alone; `ImplementsBudget` says that the counters and the pruned list do as
well.

**AuditTrail** is the chain; a digest is a term, the predecessor's digest with the content
appended. Equal digests are digests of equal strings, and the string is the code's: the fields
joined by `|`. The three names in the middle (request, session, tool) are the caller's, and
contracts.py puts no restriction on them, so a name is its text (`Text`), which may hold a
`Bar`, and the content has the three as they run together (`JoinedNames`): two different
requests can have one hash. The fields around them hold no `|` and can be told apart.
**AuditDamage** adds what may befall the entries: a field overwritten, an entry
lost, repeated or exchanged, in any combination with further recording.

**Gatekeeper** has requests (identifier, session, tool, arguments) and is `register` and
`evaluate` on top of the breaker and the trail, in the order of the code: unknown tool,
breaker (which charges), role, tier; one entry in each branch.

**Validation** is the audit of an argument tree and `validate`. `inspect_value` calls itself for
every item of a dictionary or a list; each call is a step (`InspectValue`), and `calls` are the
calls still to be made, in their order: those for the items go in front of the rest, as the
recursion has it. `found` is the list that the callers extend one by the other, and `Validate`
is what follows once `audit_arguments` has returned: it adds pydantic's errors, one violation
each. Trees are of any breadth and depth, and hold other objects too (numbers, but also tuples,
sets, bytes and models with strings in them), which `inspect_value` passes over, as it does the
keys of dictionaries. A call deeper than Python allows ends the audit without a report
(`InspectTooDeep`, `Overflow`). The properties look along paths from the outside (`Walk`), which
is not how the code goes, and speak of the strings that dictionaries and lists lead to: that a
string in a tuple passes is what the code does, and the trees of the run have one.

**TagRuntime** extends Suspension and Gatekeeper and takes their actions as parts of its
own. A call of `execute_tool` is known by the ticket that may come of it (`work`), and
several calls may carry one request. `ExecuteTool` is validation, `Evaluate` and, for an L3
request, `BuildCard`, in one step, since nothing in between suspends; `ResumeTicket` is
`DecideTicket` and what follows it up to the handler's first suspension (over a yielding store
`StoreDecision` is `WriteDecision` before it; the handler gets the arguments of the card the
store answered with). Plain handlers end
in the step they start in; coroutines run until `EndExecution` or `EndResumed`. A schema is
a function from the arguments it accepts to the data it makes of them, so that what an L1 or
L2 handler gets differs from what was sent, while an approved one gets what is on the card.
`Decorate` is `guard`: it registers the name and puts the wrapper in the function's place;
`CallGuarded` is a call through the wrapper, which brings its function along; for an L3 call
that function is forgotten, and the approval looks the name up. `runs` is history: who
started which function, for which call, with what; `overtaken` too: the decorations whose
name was registered again.

### Abstractions

* A ticket goes by the call of `execute_tool` it was created for; its identifier stands for
  the request and session identifiers under the signature. uuid4 does not repeat. In
  particular the request a wrapper makes has an identifier of its own.
* HMAC and SHA-256 are injective in the string they are given. Arguments are classes of
  dictionaries with one canonical form. The string under the audit hash is modelled as the code
  joins it. That under the signature, joined by `:`, is the identifiers of one ticket and its
  arguments: `verify_token` puts in the same identifiers again, so that how they run together
  makes no difference. The joins with `.` and `[i]` that name a field in a violation are not
  made: `Validation` keeps the path, and counts items from 1.
* An element of `timestamps` carries the number of its call, so that equal clock readings
  in the list are told apart.
* Reasons, feedback, risk levels, prompts and timings are left out. The metadata of an
  entry is modelled where a property is about it (`AuditDamage`).
* An operator makes one `resolve_ticket` call; more calls by one person are more operators.
* In `Validation` a schema is the set of arguments it accepts, and a string the set of
  patterns it matches; in the runtime a schema is a function, and `Clean` is the set of
  arguments the injection audit passes.
* A handler is a function with an identity, which suspends (`Coroutines`) or does not. A
  decorated function is reached through its wrapper only (`GuardedHidden`), which is what
  the decorator's syntax makes of the name.
* The results a caller gets, and the exceptions the wrapper makes of them, are the states of
  `work` and `resumed`.

## 3. What is checked

| Run | Question | Properties |
| :-- | :-- | :-- |
| `approval_on_one_loop` | Two tickets, two operators, readers, sweep, clear and clock on one loop | `TypeOK` `DecidedOnce` `DecisionInForce` `IInv` `StatusFinal` `DecisionInTime` `ImplementsLedger` `LoopReleased` |
| `approval_over_yielding_store` | What survives over a store that yields and answers late, with calls cancelled before or after the store acted, altered cards and deadlines in the past? | `SignedArguments` `RefusalExplained` `PendingDecidedInTime` |
| `breaker_limits` | Rate, budgets, resets and clock | `BreakerTypeOK` `RateHolds` `BreakerInv` `ImplementsBudget` |
| `audit_damage` | Does `verify_integrity` notice, with names that hold the separator? | `GenuineIfIntact` `RecordingKeepsVerdict` |
| `gatekeeper_requests` | Two sessions, all roles, re-registration, resets | `GateTypeOK` `TrailCoversBudget` `SuspensionsBudgeted` `BrokenForGood` |
| `validation` | What the calls of `inspect_value` collect, against what lies at the ends of paths through dictionaries and lists | `ReportComplete` `DataOnlyIfClean` |
| `runtime_requests` | Two calls of a session, for two requests or one made again, from the call to the end | `RuntimeTypeOK` `RunInv` `RunOnce` `RunsAuthorised` `RunsBudgeted` `TrailTellsFate` |
| `runtime_over_yielding_store` | Two guarded functions of one name; do the parts keep their specifications when composed, over any store? | `GuardKept` `ImplementsSuspension` `ImplementsBreaker` |

All of these hold. Four more runs each show that the code does not do what a sentence of
the repository says of it:

| Run | The sentence | What happens |
| :-- | :-- | :-- |
| `altered_arguments` | "detect accidental alteration while ticket is pending review" (`README.md:68`) | The operator's arguments are compared with the signature, the card's own arguments with nothing. |
| `zero_ttl` | "Expire immediately" (`tests/test_suspension.py:100`) | `ttl_seconds=0` is falsy and becomes the default of ten minutes. |
| `audit_metadata` | "Immutable audit record" (`gatekeeper/audit.py:20`) | Metadata (operator, feedback, reason) is outside the hash. |
| `runtime_audit` | "audit logging for tool executions" (`gatekeeper/audit.py:1`) | An approved handler that raises leaves no entry. |

**One loop, or not.** `DecidedOnce`, `DecisionInTime`, `StatusFinal` and `RunOnce` hold because the
in-memory store on one loop never lets another task in between a call's read and its write.
With `StoreYields = TRUE` (an I/O-bound `StateStore` as README.md:55 calls for,
with an `update_ticket_status` like this one) none of them does: two operators both get a
decided card and the handler starts twice; a card marked EXPIRED in between is overwritten
with APPROVED. Changing that constant in `Suspension_loop.cfg` shows the traces. What
survives over any store is what `approval_over_yielding_store` checks, and **AnyStoreProofs**
proves.

**What an intact trail does not show.** `GenuineIfIntact` gives for each entry a recorded one
with its number, tier, verdict, arguments, link and hash, and with its names as they run
together; with each of its names only if none of the recorded ones held a `|` (`Legible`).
Overwriting two neighbouring names so that the `|` between them moves passes unnoticed.
So does the loss of the last entries, also when others were recorded in their place
afterwards: nothing in the code records the length of the trail or its last hash elsewhere.

**What the validators do not show.** Of an L1 or L2 handler's arguments `RunsAuthorised` says
that the injection audit passed them, and that the handler got what the schema made of
them. That the audit passed them is, by `DataOnlyIfClean`, a statement about the strings that
dictionaries and lists lead to. Whether the schema accepts them is asked where the call is
made and not again: a tool may be registered anew with another schema while a ticket waits.

**What ran and what the trail says.** In `TrailTellsFate` the entries of approved calls count the
handlers that succeeded. One that raised or was cancelled has started and leaves no entry,
which is what `runtime_audit` shows.

**The gatekeeper inside the runtime.** `TrailCoversBudget` and `BrokenForGood` are about the
entries of `evaluate`. `resume_ticket` adds a PERMITTED entry for a call that was charged
when it was suspended, also after the session has broken or was reset, so neither is a
property of the runtime's trail; `RunsBudgeted` and `TrailTellsFate` are what holds there.

**What `guard` does not promise.** `GuardKept` leaves out the decorations whose name was
registered again. For those the second function takes over: a call through the first
wrapper is judged in the second's tier, and a ticket it leaves is executed by the second.

### Bounds, and why they are enough

* *Suspension*: two operators are what it takes to race, two tickets to be confused; a
  clock of three readings with a TTL of one has a time before, at and after the deadline,
  and the clock steps back as well; one operator gives a name and one gives none. The run has
  a liveness property and so no symmetry, and one value of the arguments; two, and with them a
  verification that fails, appear over the yielding store, with one ticket, since nothing
  there relates two, and with a TTL of zero, none, or below zero.
* *Breaker*: a total of 4, 2 critical and a rate of 2 per window of 2 ticks over 6 ticks:
  each limit can be the one that trips, windows slide over each other, timestamps are
  pruned, and a reset comes at any time. Sessions share no state; two sessions appear in
  the gatekeeper's run.
* *Audit*: three entries and two alterations: any two kinds of damage combined, in front of
  and behind further recording, which may take the place of what was lost. Names are
  nothing, a letter or the separator; two of the four events have the same names joined, and
  two do not.
* *Gatekeeper*: four requests over two sessions, one tool that changes tier and role.
* *Validation*: dictionaries of up to two items, whose values may be dictionaries and lists of
  up to two items, and chains of single items two levels deeper around those; a harmless string,
  an offending one, and a tuple that holds such a one; one pattern, as the patterns are treated
  alike; no error of the schema, one, or three of which two are equal; paths of up to four
  steps, where no value lies deeper, and a limit of three, which the deepest exceed.
* *Runtime*: two calls, two request identifiers and two operators: a request made twice, or
  two of them, each answered by either operator or by both; one tool that is unregistered,
  critical without a handler, or L2 with a handler that suspends and a schema that coerces;
  clean and offending arguments; resets; a critical budget of one; no clock, which
  `Suspension` has. Over a yielding store one call, two operators, both clocks, alterations, a
  function that suspends and one that does not, guarded under one name in two tiers.
* Bounds are in guards and named: `MaxTime`, `MaxMono`, `MaxEntries`, `MaxDamage`,
  `MaxRequests`. `audit_damage` is run without the deadlock check: a full, damaged
  trail has no next step. In `Validation` a call that has returned stays so (`Done`).

### Fairness

`FairSpec` has weak fairness for `DecideTicket` and `SaveCard` only: the event loop goes on
with every coroutine that is ready, and over the in-memory store one that was started always
is. Nobody is obliged to start anything: operators, pollers, the sweep, the clock,
notifications, cancellations and handlers are unfair. On one loop this gives `LoopReleased`.
Of a store that yields nothing is assumed and no liveness is claimed: the code awaits it
without a timeout, and a store that never answers keeps its caller for ever.

## 4. What is proved

TLAPS checks these for any number of tickets, operators, arguments, sessions, tools, and any
limits and bounds; the assumptions are those stated with the constants (`None` is no member
of the other sets, limits are naturals, and so on).

**SuspensionProofs**, assuming `~StoreYields`:

* `Invariance`: `IInv` always holds. `DecidedOnce` alone is not inductive: from a state where
  two calls have both passed their checks for one ticket, both go on to decide. `IInv` adds
  `ReadStillTrue`: a call that has read and not yet written holds the loop, so the ticket is
  still known and PENDING; there can be only one such call. `UnsavedUnknown` and `DraftFresh`
  cover the time before a card is stored, when saving would otherwise overwrite a decision.
* `ResolvedOnce`, `DecisionKept`: from `IInv`.
* `SettledForGood`, `DecidedInTime`: action properties. `DecideTicket` writes only over a
  PENDING card (`ReadStillTrue`), where `update_ticket_status` checks the deadline.
* `Refinement`: the controller over the store implements `ApprovalLedger`; each action maps to
  a ledger step or a stutter.

**AnyStoreProofs**, without that assumption, so for I/O-bound stores with late answers,
cancellations and altered cards as well. `IInv` is false there. `StoreInv` keeps what no
interleaving takes away: a ticket is unknown until it was saved, a card keeps its signature,
a call that passed the checks did so on a card with the signature it was compared with
(`CheckedSigned`), and a decided card has an answer of the store behind it, on its way, received
or lost with a cancelled call (`DecisionsExplained`; a refusal could not be explained by the
calls that have returned). From it `TypeCorrect`, `DecisionsSigned`, `RefusalsTrue`, and `NoLateDecision`.

**GatekeeperProofs**, first of the breaker:

* `BreakerInvariance`: `BreakerInv`. `RateHolds` speaks of all calls ever admitted, the code
  counts those left in a pruned list. `RecordKept` ties them: counters are cardinalities of the
  record, and the list holds whatever the current window needs.
* `BreakerTypeCorrect`, `RateKept`, and `BudgetImplemented` (the refinement of `CallBudget`).

And of the gatekeeper around it: `GateInvariance`, `GateTypeCorrect`, `BudgetsTold`,
`SuspensionsLimited`, `StaysBroken`. `SuspensionsBudgeted` and `BrokenForGood` speak of the trail alone and are not
inductive; `GateInv` ties the trail to the breaker: the suspensions of a session are no more
than its critical counter, which the breaker bounds, and a session with a BROKEN entry is
tripped, so that the branch that would let it go ahead is closed until a reset. `OursGrows`
and `OursCounted` say what one entry more does to the sets that are counted.

**AuditDamageProofs**: `DamageNoticed` (`GenuineIfIntact` for any events, names and number of
alterations) and `VerdictKept`. The invariant (`DamageInv`, lemma `HashesRecorded`): every hash in
the trail is the genesis hash or one that `record_event` made for some entry. An entry that
verifies has the digest of its own content, so its hash is not the genesis hash but a recorded
entry's, and equal digests are digests of equal contents (`DigestCovers`, which follows from
what a digest is modelled to be and is no assumption of its own). From equal contents to equal
names it is a step that needs `Legible`: the two separators of the recorded entry are the only
ones (`JoinPlaces`), so that whatever is joined to the same text is joined at the same places
(`JoinRead`, `LegibleCovered`). Whoever alters entries without computing digests is noticed
unless what he changes is beside the hash, or between two `|`.

**TagRuntimeProofs**:

* `SuspensionInside`, `BreakerInside`: the runtime refines `Suspension` (whatever the store) and
  `CircuitBreaker`, so that every theorem above about these two holds of the runtime.
* `RuntimeInvariance`, `RuntimeTypeCorrect`, `RunsExplained`, for any store: `RunInv` says who
  owns a start: an `execute_tool` call that has no ticket, or the operator whose approval it
  is, and that neither owns two. `RuntimeInv` is that, the types, and that every ticket has
  its call; a call that was made keeps its request, and its entry stays in the trail.
* `StartedOnce`, assuming `~StoreYields`: a handler starts at most once per call. `IInv`,
  inherited through `SuspensionInside`, says that there is at most one operator with an
  approval, and none for a call without a ticket; `RunInv` does the rest.

**AuthorisationProofs**:

* `Authorised`, assuming `~Alterations`, for any store: `RunsAuthorised`. The invariant
  `Accounted` follows a call's arguments from the validation over its entry and its draft to
  the card, which nobody alters, and to the store's answer with it. With alterations it is false, as `altered_arguments` shows.
* `GuardsHold`, with alterations and any store: `GuardKept`. Its invariant says that a name
  whose decoration was not overtaken still has that function and tier, and that nobody else
  can bring the function along.
* `LeavesPaid`, for any store: the entries since a session's reset that let a request go are no
  more than its charged calls (`LeavesCharged`), and every call that has a ticket or has started
  a handler has such an entry, which is no other call's (`LeavesGiven`).
* `RunsPaid`, assuming `~StoreYields`: `RunsBudgeted`. By `StartedOnce` the starts map one to
  one to those entries. Over a yielding store two operators may start two handlers on one
  charge, which is why the assumption is needed.

**TrailProofs**:

* `FatesTold`, for any store: a request identifier has an entry for every call made under it and
  for every operator's end that is told, and as many entries of a critical tool PERMITTED as
  approved handlers have succeeded. Each step is one of three kinds (`Untold`, `CallTold`,
  `EndTold`), and adds as much to one side of the equations as to the other.
  `FatesOwned`, that an operator who came to a decision holds its ticket for good, keeps the
  ends apart.
* `TrailAddsUp`, assuming `~StoreYields`: `TrailTellsFate`. That nowhere along the trail more was
  executed than suspended is not inductive; it follows at the end of the trail from `FatesTold`,
  `LeavesGiven` and `IInv`, which map the executions one to one to suspensions (`NotAhead`), and
  in front of the end from the trail's only ever growing. Over a yielding store two operators
  can have one suspended call executed twice.

**ValidationProofs**, for any arguments, patterns, paths and depth, other objects among the values:
`ReportIsComplete` and `CleanDataOnly`. No path leads into another object, so that passing one
over loses nothing that the properties speak of (`NothingBehind`). The invariant `Inspection` says that the calls to be made are about the values at
their paths, that none of these lies within another (`CallsRight`), that what was found is an
offence, was found once, and lies within no call that is still to be made (`FoundRight`), and
that every offence was found or lies within such a call (`NothingLost`). A string that is
inspected moves its offences from the second part of `NothingLost` to the first
(`LeafInspected`); the items of a dictionary take its place, since whatever lies within it
lies within one of them, by a first step of its own (`ItemsInspected`, `OffenceBehind`). What a
path leads to is a recursive function; that it exists (`WalkExists`), agrees on the
beginnings of a path (`WalkBegins`) and does not come back once it has left the arguments
(`AbsentStays`) are inductions over a set of numbers, `SetInduction`, itself derived from the
well-foundedness of `<`.

**Only model-checked**: liveness (`LoopReleased`), which is out of the prover's reach
with its fairness. Every other property of the runs above that pass is a theorem.

## 5. Not modelled

* Regular expressions, pydantic, hashing, JSON: external, by what the code needs of them.
* The wording of reasons, prompts and summaries; risk levels; elapsed times; the count and the
  threshold in a `CircuitBreakerTrippedError`, which are only displayed.
* Of the wrapper that `guard` makes: positional arguments, which it takes and drops before
  anything of the system sees them; the exceptions it makes of results, after which nothing
  of the system changes; the default caller context, which is one session and one role among
  the others.
* A handler that is no coroutine function and returns a coroutine nobody awaits: to the
  runtime it has succeeded.
* An altered card after its decision: `AlterArguments` is about tickets that wait for one.
* Threads. The comment at core/state_store.py:40 calls the in-memory store thread-safe; what it
  has is an `asyncio.Lock`, which serves the tasks of one loop. Several threads over one store
  would be several loops over one lock, of whose behaviour asyncio promises nothing, so there
  is nothing to model it from. The project takes the store to be used from one loop.
* Examples and benchmarks: scripts without state.

## 6. Plan

Order: the controller and its store first, since the decision of a ticket is what everything
else relies on; then the breaker, the trail, the enforcer that joins them; then the runtime.
All of these exist, and their safety properties are proved. What is left: two runtimes in
two processes over one shared store, each with its own breaker, trail and registry, and the
restart of one of them. Budgets and trails are per process, tickets are not. What the store
itself then keeps is what `approval_over_yielding_store` checks.

## 7. Running

```
tlc -config Suspension_loop.cfg MCSuspension
tlapm SuspensionProofs.tla
```

Each run of `PROJECT.json` names its module and configuration. Definitions whose comment begins
with "Mutation:" are faulty variants of the definition that follows them; `PROJECT.json` says
which property each of them breaks.
