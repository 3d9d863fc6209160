----------------------------- MODULE MCBgTasks -----------------------------
(* One runner, one lister, one API request and one recurring job.          *)
EXTENDS BgTasks

CONSTANTS api, job

MCClients == {Runner, Lister, api, job}
=============================================================================
