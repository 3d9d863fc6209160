-------------------------- MODULE MCReplicaRebuild --------------------------
(* A small instance of the rebuilding of replicas; see the configuration.  *)
EXTENDS ReplicaRebuild

CONSTANTS r1, r2, r3
=============================================================================
