---------------------------- MODULE MCGatekeeper ----------------------------
(* Small instances of Gatekeeper for TLC. *)
EXTENDS Gatekeeper, TLC

CONSTANT bar

\* A name of one letter.
MCText(name) == <<name>>

Symmetry == Permutations(Sessions) \cup Permutations(Tools)
=============================================================================
