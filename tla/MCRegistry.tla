---------------------------- MODULE MCRegistry ----------------------------
(* One volume, two requests at a time, two addresses here and one on       *)
(* another host.                                                           *)
EXTENDS Registry, TLC

CONSTANTS r1, r2, v1, here1, here2, there

MCRequests == {r1, r2}
MCVolumes == {v1}
MCLocal == {here1, here2}
MCAddrs == MCLocal \cup {there}
=============================================================================
