---------------------------- MODULE MCSuspension ----------------------------
(* Small instances of Suspension and of its refinement mapping for TLC. *)
EXTENDS SuspensionRefinement, TLC

\* Among the lifetimes asked for is one that has ended before it begins.
DefaultZeroOrPast == {None, 0, -1}

\* Tickets, operators and argument dictionaries are interchangeable.
Symmetry == Permutations(Tickets) \cup Permutations(Operators)
                \cup Permutations(Args)
=============================================================================
