---------------------------- MODULE MCRetention ----------------------------
(* Small instances of Retention. *)
EXTENDS Retention, TLC

CONSTANTS r1, r2

Symmetry == Permutations(Runs)
\* Removing everything for ever, keeping everything, and a real bound.
MCRetains == {-1, 0, 2}
=============================================================================
