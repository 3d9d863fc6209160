---------------------------- MODULE MCScheduler ----------------------------
(* Small instances of Scheduler. *)
EXTENDS Scheduler, TLC

CONSTANTS h1, h2, h3, a, b, c, d

Symmetry == Permutations(Names) \cup Permutations(Hosts \ {Local})
=============================================================================
