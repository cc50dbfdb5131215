---------------------------- MODULE MCTagRuntime ----------------------------
(* Small instances of TagRuntime for TLC. *)
EXTENDS TagRuntime, TLC

CONSTANTS w, a1, a2, f, g1, g2, bar

\* A name of one letter.
MCText(name) == <<name>>

Offer(tier, schema, handler) ==
    [tool |-> w, tier |-> tier, minRole |-> NoRole, schema |-> schema,
     handler |-> handler]

AsIs == [args \in Args |-> args]

\* One tool: critical, or harmless and with a schema that makes something
\* else of the arguments it accepts.  An approval that finds the tool as it
\* was has no handler to start; one that finds it registered again has one.
Offers == {Offer("L3_CRITICAL", AsIs, NoHandler),
           Offer("L2_STATE_CHANGING", a1 :> a2, f)}

\* Two functions are guarded under one name.
SameName == {Offer("L3_CRITICAL", AsIs, g1), Offer("L2_STATE_CHANGING", AsIs, g2)}

\* Calls, the requests they carry, and operators are interchangeable.
Symmetry == Permutations(Tickets) \cup Permutations(Operators)
                \cup Permutations(RequestIds)
=============================================================================
