---------------------------- MODULE MCMetadata ----------------------------
(* Two clients at a time, two replicas, two machines.                      *)
EXTENDS Metadata, TLC

CONSTANTS c1, c2, r1, r2, m1, m2, none, hourly, a, b

MCClients == {c1, c2}
MCReps == {r1, r2}
MCMachines == {m1, m2}
MCJobs == {none, hourly}
MCValues == {a, b}
Symmetric == Permutations(MCClients) \cup Permutations(MCReps) \cup Permutations(MCMachines)
=============================================================================
