-------------------------- MODULE MCVolumeManager --------------------------
(* Small instances of the volume's life; see the configurations.           *)
EXTENDS VolumeManagerProofs, TLC

CONSTANTS h1, h2, o1, o2, r1, r2

Placed == [r \in Reps |-> IF r = r1 \/ h2 \notin Hosts THEN h1 ELSE h2]

Symmetry == Permutations(Ops)

\* The properties that assume no manager ended say nothing after one did.
AllAlive == ~died
=============================================================================
