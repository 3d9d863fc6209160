----------------------------- MODULE MCMonitor -----------------------------
(* Small instances of Monitor. *)
EXTENDS Monitor

CONSTANTS u1, u2, d1, at, j1, j2, bad
=============================================================================
