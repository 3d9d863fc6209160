------------------------------ MODULE MCPurge ------------------------------
(* Small instances of Purge. *)
EXTENDS Purge, TLC

CONSTANTS c1, c2, c3, s1, s2

Symmetry == Permutations(Callers) \cup Permutations(Snaps)
=============================================================================
