----------------------------- MODULE Validation -----------------------------
(***************************************************************************)
(* validators/injection_guard.py and validators/schema_guard.py: what a    *)
(* tool's arguments go through before the gatekeeper hears of the request. *)
(*                                                                         *)
(* An argument value is a tree: strings in dictionaries, lists and other   *)
(* objects, to any depth.  Of a string only the patterns of the guard that *)
(* it matches are kept (re is external), of a schema only whether pydantic *)
(* accepts the arguments, and the errors it lists (pydantic is external).  *)
(* A dictionary is the sequence of its items, in the order of their        *)
(* insertion.  No pattern is ever tried on a key, so that nothing is kept  *)
(* of what a key holds.                                                    *)
(*                                                                         *)
(* inspect_value calls itself for every item of a dictionary or a list.    *)
(* Its calls are the steps: those that have still to be made are kept in   *)
(* the order in which they will be, and the lists of violations that the   *)
(* callers extend, one by the other, are one list.                         *)
(***************************************************************************)
EXTENDS Naturals, SequencesExt

CONSTANTS
    Keys,       \* keys of dictionaries
    Patterns,   \* the ten compiled patterns of the three lists
    Values,     \* the values that may lie in the arguments
    Arguments,  \* the arguments an agent may send
    ErrorLists, \* the lists of errors that pydantic may find
    MaxDepth,   \* how far inspect_value may call itself (Python's limit)
    Paths       \* the paths that the properties follow

VARIABLES
    arguments,  \* what the agent sent
    schema,     \* "none", or what pydantic makes of the arguments
    errors,     \* the errors of its ValidationError, if it raises one
    strict,     \* raise_on_error
    calls,      \* the calls of inspect_value that are still to be made
    found,      \* the violations found so far
    result      \* the ValidationResult, or the error raised

sent == <<arguments, schema, errors, strict>>

vars == <<sent, calls, found, result>>

Schema == {"none", "accepts", "mismatch"}

\* A string that matches the given patterns.
Strings == [kind : {"str"}, hits : SUBSET Patterns]

\* Whatever is no string, dictionary or list: numbers and None, but tuples,
\* sets, bytes and models as well, with the values that lie in them.
Others(values) == [kind : {"other"}, items : Seq(values)]

\* Dictionaries and lists over given values; the keys of a dictionary differ.
Dicts(values) ==
    {d \in [kind : {"dict"}, items : Seq(Keys \X values)] :
        \A i, j \in DOMAIN d.items : d.items[i][1] = d.items[j][1] => i = j}

Lists(values) == [kind : {"list"}, items : Seq(values)]

\* The way to a value: a key for each dictionary, an index for each list.
Path == Seq(Keys \cup Nat)

\* An error of pydantic names the field it is about.
Mismatch == [path : Path, reason : {"schema"}]

ASSUME TreesOverPatterns ==
    /\ IsFiniteSet(Patterns) /\ "schema" \notin Patterns
    /\ Values \subseteq Strings \cup Others(Values) \cup Dicts(Values) \cup Lists(Values)
    /\ Arguments \subseteq Dicts(Values)
    /\ ErrorLists \subseteq Seq(Mismatch)
    /\ Paths \subseteq Path
    /\ MaxDepth \in Nat

NotYet == [valid |-> FALSE, data |-> "none", violations |-> <<>>, raised |-> FALSE]

\* validate was left by a RecursionError, without a report.
Overflow == [NotYet EXCEPT !.raised = TRUE]

-----------------------------------------------------------------------------
(* InjectionGuard *)

\* The calls of inspect_value for the items of a dictionary or a list; the
\* path stands for the key that is put together on the way.
ItemCalls(path, value) ==
    [i \in DOMAIN value.items |->
        IF value.kind = "dict"
        THEN [path |-> Append(path, value.items[i][1]), value |-> value.items[i][2]]
        ELSE [path |-> Append(path, i), value |-> value.items[i]]]

\* The patterns are tried one after the other.
Matches(path, hits) ==
    SetToSeq({[path |-> path, reason |-> p] : p \in hits})

\* Mutation: lists are not looked into.
InspectDictsOnly ==
    /\ calls # <<>> /\ result = NotYet
    /\ LET path == Head(calls).path  value == Head(calls).value
       IN /\ calls' = IF value.kind = "dict" THEN ItemCalls(path, value) \o Tail(calls)
                                             ELSE Tail(calls)
          /\ found' = IF value.kind = "str" THEN found \o Matches(path, value.hits)
                                            ELSE found
    /\ UNCHANGED <<sent, result>>

\* The next call of inspect_value, as deep as its path is long.
InspectValue ==
    /\ calls # <<>> /\ result = NotYet
    /\ LET path == Head(calls).path  value == Head(calls).value
       IN /\ Len(path) <= MaxDepth
          /\ \/ /\ value.kind = "str"
                /\ found' = found \o Matches(path, value.hits)
                /\ calls' = Tail(calls)
             \/ /\ value.kind \in {"dict", "list"}
                /\ calls' = ItemCalls(path, value) \o Tail(calls)
                /\ UNCHANGED found
             \/ /\ value.kind = "other"
                /\ calls' = Tail(calls)
                /\ UNCHANGED found
    /\ UNCHANGED <<sent, result>>

\* The next call lies too deep, and nobody catches what is raised.
InspectTooDeep ==
    /\ calls # <<>> /\ result = NotYet
    /\ Len(Head(calls).path) > MaxDepth
    /\ result' = Overflow
    /\ UNCHANGED <<sent, calls, found>>

\* The calls that audit_arguments makes.
AuditArguments(args) == ItemCalls(<<>>, args)

-----------------------------------------------------------------------------
(* SchemaContractValidator.validate *)

Init ==
    /\ arguments \in Arguments
    /\ schema \in Schema
    /\ errors \in ErrorLists \cup {<<>>}
    /\ schema = "mismatch" <=> errors # <<>>
    /\ strict \in BOOLEAN
    /\ calls = AuditArguments(arguments)
    /\ found = <<>>
    /\ result = NotYet

\* Mutation: the errors of the schema take the place of what was found.
ViolationsReplaced == IF schema = "mismatch" THEN errors ELSE found

\* Every error of pydantic counts as one more violation.
Violations == found \o errors

\* The arguments as they came, or as the schema coerced them.
ValidatedData == IF schema = "accepts" THEN "coerced" ELSE "raw"

\* validate, once audit_arguments has returned.
Validate ==
    /\ calls = <<>>
    /\ result = NotYet
    /\ result' = IF Violations = <<>>
                 THEN [valid |-> TRUE, data |-> ValidatedData,
                       violations |-> <<>>, raised |-> FALSE]
                 ELSE [valid |-> FALSE, data |-> "none",
                       violations |-> Violations, raised |-> strict]
    /\ UNCHANGED <<sent, calls, found>>

Judged == result # NotYet

Reported == result \notin {NotYet, Overflow}

\* validate has returned or raised.
Done == Judged /\ UNCHANGED vars

Next == InspectValue \/ InspectTooDeep \/ Validate \/ Done

Spec == Init /\ [][Next]_vars

-----------------------------------------------------------------------------
(* Properties *)

\* The value at the end of a path, followed from the outside through
\* dictionaries and lists.  No path leads into another object or to a key.
Absent == [kind |-> "absent"]

Child(value, step) ==
    CASE value.kind = "dict" ->
            LET at == {i \in DOMAIN value.items : value.items[i][1] = step}
            IN IF at = {} THEN Absent ELSE value.items[CHOOSE i \in at : TRUE][2]
      [] value.kind = "list" ->
            IF step \in DOMAIN value.items THEN value.items[step] ELSE Absent
      [] OTHER -> Absent

\* What is passed on the way along a path.
Walk(path) ==
    LET at[i \in 0 .. Len(path)] ==
            IF i = 0 THEN arguments ELSE Child(at[i - 1], path[i])
    IN at

\* A string lies at the end of the path that matches the pattern.
Offends(path, reason) ==
    LET value == Walk(path)[Len(path)]
    IN value.kind = "str" /\ reason \in value.hits

\* The report names every offending string that dictionaries and lists lead
\* to, at its place in the arguments and once for each pattern, every error of
\* the schema, and nothing else: an agent that corrects what it is told has
\* nothing else to correct.  Keys, and strings in tuples, sets, bytes and
\* models, are not looked at, and nothing is said of them.
ReportComplete ==
    Reported =>
        /\ \A path \in Paths, reason \in Patterns :
               Offends(path, reason)
                   => [path |-> path, reason |-> reason] \in ToSet(result.violations)
        /\ \A violation \in ToSet(result.violations) :
               \/ violation.reason = "schema" /\ violation \in ToSet(errors)
               \/ Offends(violation.path, violation.reason)
        /\ ToSet(errors) \subseteq ToSet(result.violations)
        /\ \A i, j \in DOMAIN result.violations :
               /\ result.violations[i] = result.violations[j]
               /\ result.violations[i].reason \in Patterns
               => i = j

\* A handler receives data if no string that dictionaries and lists lead to
\* offends and the schema, if there is one, accepts the arguments, and only
\* then: whatever lies in a key, a tuple, a set, bytes or a model.  Without
\* data validate reports what is wrong, or has been left by a RecursionError.
DataOnlyIfClean ==
    Judged =>
        IF result.data # "none"
        THEN /\ schema # "mismatch"
             /\ \A path \in Paths, reason \in Patterns : ~Offends(path, reason)
        ELSE \/ schema = "mismatch"
             \/ result = Overflow
             \/ \E violation \in ToSet(result.violations) :
                    Offends(violation.path, violation.reason)
=============================================================================
