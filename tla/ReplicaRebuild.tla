--------------------------- MODULE ReplicaRebuild ---------------------------
(***************************************************************************)
(* The replicas of an attached volume: the check that its monitor makes of *)
(* the controller (manager.go, CheckController and what it calls), the     *)
(* goroutines that add new replicas to it, and the request ReplicaRemove.  *)
(*                                                                         *)
(* The engine is external: it lists its replicas with a mode, adds one as  *)
(* WO and makes it RW when it is rebuilt, and puts one that stops in mode  *)
(* ERR.  The volume stays attached until the monitor gives up.  A detach   *)
(* may fail like any other call, and then ends the monitor, or the manager *)
(* with it.                                                                *)
(***************************************************************************)
EXTENDS Integers, FiniteSets

CONSTANTS
  Reps,         \* replica names, a bound on the replicas there are at a time
  First,        \* those of the volume when it is attached
  Num,          \* volume.NumberOfReplicas
  None,         \* no replica
  MaxRetries,   \* MonitoringMaxRetries
  MaxFaults,    \* bound on calls that fail
  MaxStops,     \* bound on replicas that stop by themselves
  MaxRemovals   \* bound on the ReplicaRemove requests

ASSUME RebuildAssumption ==
  /\ IsFiniteSet(Reps) /\ None \notin Reps
  /\ Num \in Nat \ {0} /\ First \subseteq Reps /\ Cardinality(First) = Num
  /\ {MaxRetries, MaxFaults, MaxStops, MaxRemovals} \subseteq Nat

VARIABLES
  rep,       \* the replica keys: "nil", or whether the replica is Running
  bad,       \* the replica keys with a BadTimestamp
  repBox,    \* the replica containers
  up,        \* whether the controller's container runs
  mode,      \* the engine's replicas: "none", "WO", "RW" or "ERR"
  adding,    \* man.addingReplicas[volume]
  adder,     \* where the goroutine that adds each replica is
  mon,       \* where the monitor is
  seen,      \* the replicas it has seen in mode RW, in mode WO
  calls,     \* its calls under way for the replicas seen in mode ERR
  errs,      \* whether one of them has failed
  attempts,  \* failedAttempts
  new,       \* the replica it has created
  marked,    \* history: the replicas MarkBadReplica has returned nil for
  req,       \* where the request ReplicaRemove is, and its replica
  faults, stops, removals

store == <<rep, bad, marked>>
engine == <<repBox, up, mode>>
monitor == <<mon, seen, calls, errs, attempts, new>>
luck == <<faults, stops, removals>>
vars == <<store, engine, adding, adder, monitor, req, luck>>

With(m) == {r \in Reps : mode[r] = m}

TypeOK ==
  /\ rep \in [Reps -> {"nil", "stopped", "running"}]
  /\ bad \subseteq Reps /\ marked \subseteq Reps
  /\ repBox \in [Reps -> {"none", "stopped", "running"}] /\ up \in BOOLEAN
  /\ mode \in [Reps -> {"none", "WO", "RW", "ERR"}]
  /\ adding \in Nat
  /\ adder \in [Reps -> {"off", "inc", "add", "wait", "stop", "remove", "dec"}]
  /\ mon \in {"watch", "calls", "count", "create", "start", "shutdown", "giveup", "ended", "crashed"}
  /\ seen \in [rw : SUBSET Reps, wo : SUBSET Reps]
  /\ calls \in [Reps -> SUBSET {"rm", "mark"}]
  /\ errs \in BOOLEAN /\ attempts \in 0..MaxRetries
  /\ new \in Reps \cup {None}
  /\ req \in [pc : {"idle", "stop", "remove"}, rep : Reps \cup {None}]
  /\ faults \in Nat /\ stops \in Nat /\ removals \in Nat

NoReq == [pc |-> "idle", rep |-> None]
NotSeen == [rw |-> {}, wo |-> {}]
NoCalls == [r \in Reps |-> {}]
NoAdders == [r \in Reps |-> "off"]

\* A volume just attached, with all its replicas in mode RW.
Init ==
  /\ rep = [r \in Reps |-> IF r \in First THEN "running" ELSE "nil"]
  /\ repBox = [r \in Reps |-> IF r \in First THEN "running" ELSE "none"]
  /\ mode = [r \in Reps |-> IF r \in First THEN "RW" ELSE "none"]
  /\ bad = {} /\ marked = {} /\ up = TRUE
  /\ adding = 0 /\ adder = NoAdders
  /\ mon = "watch" /\ seen = NotSeen /\ calls = NoCalls
  /\ errs = FALSE /\ attempts = 0 /\ new = None
  /\ req = NoReq
  /\ faults = 0 /\ stops = 0 /\ removals = 0

\* A call of docker, of the store, of the engine or of a remote host fails.
Fault == faults < MaxFaults /\ faults' = faults + 1 /\ UNCHANGED <<stops, removals>>
----------------------------------------------------------------------------
(* The monitor: CheckController.                                           *)

\* The check ends, with what it has read, and the monitor goes on at m.
Return(m) == mon' = m /\ seen' = NotSeen /\ errs' = FALSE /\ new' = None /\ UNCHANGED calls

\* An error of the controller, of a new replica or of too many checks: the
\* monitor closes its channel and detaches the volume.
GiveUp == Return("giveup") /\ UNCHANGED attempts

\* The check returned nil.
Checked == Return("watch") /\ attempts' = 0

\* Mutant: a replica that is being rebuilt is taken for a failed one.
FailedNotRW(r) == mode[r] \in {"ERR", "WO"}

\* The replicas whose mode is ERR are removed and marked, each by two
\* goroutines.
Failed(r) == mode[r] = "ERR"

GetReplicaStates ==
  /\ mon = "watch"
  /\ \/ /\ seen' = [rw |-> With("RW"), wo |-> With("WO")]
        /\ calls' = [r \in Reps |-> IF Failed(r) THEN {"rm", "mark"} ELSE {}]
        /\ errs' = FALSE /\ mon' = "calls"
        /\ UNCHANGED <<attempts, new, luck>>
     \/ Fault /\ GiveUp
  /\ UNCHANGED <<store, engine, adding, adder, req>>

CallDone(r, c) ==
  calls' = [calls EXCEPT ![r] = @ \ {c}] /\ UNCHANGED <<mon, seen, attempts, new>>

RemoveReplica(r) ==
  /\ "rm" \in calls[r] /\ CallDone(r, "rm")
  /\ \/ mode' = [mode EXCEPT ![r] = "none"] /\ UNCHANGED <<errs, luck>>
     \/ Fault /\ errs' = TRUE /\ UNCHANGED mode
  /\ UNCHANGED <<store, repBox, up, adding, adder, req>>

\* The replica listed by the engine has an address and no name, so it matches
\* none of the volume's replicas; and UpdateVolume stores the volume's base
\* only.  The store stays as it is.
MarkBadReplica(r) ==
  /\ "mark" \in calls[r] /\ CallDone(r, "mark")
  /\ \/ marked' = marked \cup {r} /\ UNCHANGED <<errs, luck>>
     \/ Fault /\ errs' = TRUE /\ UNCHANGED marked
  /\ UNCHANGED <<rep, bad, engine, adding, adder, req>>

\* Mutant: a degraded volume is detached.
NoGoodDegraded == Cardinality(seen.rw) < Num

NoGood == seen.rw = {}

\* Errors are retried a number of times; a volume without good replicas is shut
\* down by the check itself.
CallsJoined ==
  /\ mon = "calls" /\ calls = NoCalls
  /\ IF errs
     THEN IF attempts < MaxRetries
          THEN Return("watch") /\ attempts' = attempts + 1
          ELSE GiveUp
     ELSE IF NoGood THEN Return("shutdown") /\ UNCHANGED attempts
     ELSE mon' = "count" /\ UNCHANGED <<seen, calls, errs, attempts, new>>
  /\ UNCHANGED <<store, engine, adding, adder, req, luck>>

\* Mutant: a replica is added only when none is left (off by one for two).
MissingTwo == Cardinality(seen.rw) + 1 < Num /\ seen.wo = {} /\ adding = 0

Missing == Cardinality(seen.rw) < Num /\ seen.wo = {} /\ adding = 0

AddingReplicasCount ==
  /\ mon = "count"
  /\ IF Missing
     THEN Return("create") /\ UNCHANGED attempts
     ELSE Checked
  /\ UNCHANGED <<store, engine, adding, adder, req, luck>>

\* Names are random and never used again: a name that nothing refers to any
\* more stands for a new one.
Unused == {r \in Reps : /\ repBox[r] = "none" /\ rep[r] = "nil" /\ mode[r] = "none"
                        /\ adder[r] = "off" /\ req.rep # r}

\* createAndAddReplicaToController.  Its errors are wrapped and therefore have
\* a Cause: they are controller failures for the monitor, which gives up.
CreateReplica ==
  /\ mon = "create"
  /\ \/ \E r \in Unused :
          /\ repBox' = [repBox EXCEPT ![r] = "stopped"]
          /\ rep' = [rep EXCEPT ![r] = "stopped"]
          /\ marked' = marked \ {r} /\ new' = r /\ mon' = "start"
          /\ UNCHANGED <<seen, calls, errs, attempts, luck>>
     \/ Fault /\ GiveUp /\ UNCHANGED <<repBox, rep, marked>>
  /\ UNCHANGED <<bad, up, mode, adding, adder, req>>

StartReplica ==
  /\ mon = "start"
  /\ \/ /\ repBox[new] = "stopped"
        /\ repBox' = [repBox EXCEPT ![new] = "running"]
        /\ rep' = [rep EXCEPT ![new] = "running"]
        /\ adder' = [adder EXCEPT ![new] = "inc"]
        /\ Checked /\ UNCHANGED luck
     \/ repBox[new] = "none" /\ GiveUp /\ UNCHANGED <<repBox, rep, adder, luck>>
     \/ Fault /\ GiveUp /\ UNCHANGED <<repBox, rep, adder>>
  /\ UNCHANGED <<bad, marked, up, mode, adding, req>>

\* The monitor's loop ends with its channel closed.  An error that the check
\* returns from its own detach makes the monitor close the channel that the
\* detach has closed: the manager panics, and its goroutines end with it.
Ends(panics) ==
  /\ Return(IF panics THEN "crashed" ELSE "ended") /\ UNCHANGED attempts
  /\ IF panics
     THEN adding' = 0 /\ adder' = NoAdders /\ req' \in {req, NoReq}
     ELSE UNCHANGED <<adding, adder, req>>

Detaching == mon \in {"shutdown", "giveup"}

\* doDetach stops the controller.  When the volume cannot be read nothing is
\* closed yet, and the monitor tries once more; an error of StopInstance is
\* returned.
StopController ==
  /\ Detaching /\ up
  /\ \/ up' = FALSE /\ mode' = [r \in Reps |-> "none"] /\ UNCHANGED <<monitor, adding, adder, req, luck>>
     \/ /\ Fault /\ UNCHANGED <<up, mode>>
        /\ IF mon = "shutdown" THEN GiveUp /\ UNCHANGED <<adding, adder, req>> ELSE Ends(FALSE)
     \/ Fault /\ Ends(mon = "shutdown") /\ UNCHANGED <<up, mode>>
  /\ UNCHANGED <<store, repBox>>

\* It then stops the replicas at the same time, S successfully, and removes the
\* controller.  The errors of replicas are a list, which counts as one more
\* failed check; that of the controller has a Cause.
StopReplicas ==
  /\ Detaching /\ ~up
  /\ \E S \in SUBSET {r \in Reps : rep[r] # "nil" /\ repBox[r] # "none"} :
       LET failed == {r \in Reps \ S : rep[r] # "nil"}
           absent == {r \in failed : repBox[r] = "none"} IN
       /\ repBox' = [r \in Reps |-> IF r \in S THEN "stopped" ELSE repBox[r]]
       /\ rep' = [r \in Reps |-> IF r \in S THEN "stopped" ELSE rep[r]]
       /\ \/ failed = {} /\ Ends(FALSE) /\ UNCHANGED luck
          \/ failed = {} /\ Ends(mon = "shutdown") /\ Fault
          \/ /\ failed # {} /\ Ends(mon = "shutdown" /\ attempts = MaxRetries)
             /\ IF failed = absent THEN UNCHANGED luck ELSE Fault
  /\ UNCHANGED <<bad, marked, up, mode>>

MonitorStep ==
  \/ GetReplicaStates \/ CallsJoined \/ AddingReplicasCount
  \/ CreateReplica \/ StartReplica \/ StopController \/ StopReplicas
  \/ \E r \in Reps : RemoveReplica(r) \/ MarkBadReplica(r)
----------------------------------------------------------------------------
(* The goroutine that adds replica r.                                      *)

To(r, l) == adder' = [adder EXCEPT ![r] = l]

\* addingReplicas is raised by the goroutine, not before it is started.
AddingUp(r) ==
  /\ adder[r] = "inc" /\ To(r, "add")
  /\ adding' = adding + 1
  /\ UNCHANGED <<store, engine, monitor, req, luck>>

\* The engine takes the replica and starts to rebuild it, or refuses.
AddReplica(r) ==
  /\ adder[r] = "add"
  /\ \/ /\ up /\ repBox[r] = "running"
        /\ mode' = [mode EXCEPT ![r] = "WO"]
        /\ To(r, "wait") /\ UNCHANGED luck
     \/ /\ ~up \/ repBox[r] # "running"
        /\ To(r, "stop") /\ UNCHANGED <<mode, luck>>
     \/ Fault /\ To(r, "stop") /\ UNCHANGED mode
  /\ UNCHANGED <<store, repBox, up, adding, monitor, req>>

\* It is rebuilt from a replica in mode RW; or the engine gives it up or goes; or
\* the command is killed at its timeout, which leaves the replica as it is.
Rebuilt(r) ==
  /\ adder[r] = "wait"
  /\ \/ /\ mode[r] = "WO" /\ With("RW") # {}
        /\ mode' = [mode EXCEPT ![r] = "RW"]
        /\ To(r, "dec") /\ UNCHANGED luck
     \/ mode[r] # "WO" /\ To(r, "stop") /\ UNCHANGED <<mode, luck>>
     \/ Fault /\ To(r, "stop") /\ mode' = [mode EXCEPT ![r] = IF @ = "WO" THEN "ERR" ELSE @]
     \/ Fault /\ To(r, "stop") /\ UNCHANGED mode
  /\ UNCHANGED <<store, repBox, up, adding, monitor, req>>

\* docker stops a container that exists and removes one that does not run; the
\* metadata follows.  The call fails before docker has done its part or after
\* it; nobody acts on the error.
StopInstance(r) ==
  IF repBox[r] \in {"stopped", "running"}
  THEN /\ repBox' = [repBox EXCEPT ![r] = "stopped"]
       /\ \/ rep' = [rep EXCEPT ![r] = "stopped"] /\ UNCHANGED luck
          \/ Fault /\ UNCHANGED rep
  ELSE UNCHANGED <<repBox, rep, luck>>

RemoveInstance(r) ==
  IF repBox[r] = "stopped"
  THEN /\ repBox' = [repBox EXCEPT ![r] = "none"]
       /\ \/ rep' = [rep EXCEPT ![r] = "nil"] /\ UNCHANGED luck
          \/ Fault /\ UNCHANGED rep
  ELSE UNCHANGED <<repBox, rep, luck>>

InstanceCallFails == Fault /\ UNCHANGED <<repBox, rep>>

\* Mutant: a goroutine that failed to add its replica does not count down.
RemoveStaleReturns(r) ==
  /\ adder[r] = "remove" /\ To(r, "off")
  /\ RemoveInstance(r) \/ InstanceCallFails
  /\ UNCHANGED <<bad, marked, up, mode, adding, monitor, req>>

StopStale(r) ==
  /\ adder[r] = "stop" /\ To(r, "remove")
  /\ StopInstance(r) \/ InstanceCallFails
  /\ UNCHANGED <<bad, marked, up, mode, adding, monitor, req>>

RemoveStale(r) ==
  /\ adder[r] = "remove" /\ To(r, "dec")
  /\ RemoveInstance(r) \/ InstanceCallFails
  /\ UNCHANGED <<bad, marked, up, mode, adding, monitor, req>>

AddingDown(r) ==
  /\ adder[r] = "dec" /\ To(r, "off")
  /\ adding' = adding - 1
  /\ UNCHANGED <<store, engine, monitor, req, luck>>

AdderStep(r) ==
  \/ AddingUp(r) \/ AddReplica(r) \/ Rebuilt(r)
  \/ StopStale(r) \/ RemoveStale(r) \/ AddingDown(r)
----------------------------------------------------------------------------
(* The request ReplicaRemove.                                              *)

RequestRemove(r) ==
  /\ req = NoReq /\ removals < MaxRemovals /\ removals' = removals + 1
  /\ rep[r] # "nil"
  /\ req' = [pc |-> IF rep[r] = "running" THEN "stop" ELSE "remove", rep |-> r]
  /\ UNCHANGED <<store, engine, adding, adder, monitor, faults, stops>>

RemoveStop ==
  /\ req.pc = "stop" /\ req' = [req EXCEPT !.pc = "remove"]
  /\ StopInstance(req.rep) \/ InstanceCallFails   \* "push on"
  /\ UNCHANGED <<bad, marked, up, mode, adding, adder, monitor>>

RemoveInst ==
  /\ req.pc = "remove" /\ req' = NoReq
  /\ RemoveInstance(req.rep) \/ InstanceCallFails
  /\ UNCHANGED <<bad, marked, up, mode, adding, adder, monitor>>
----------------------------------------------------------------------------
(* The engine and its replicas.                                            *)

ReplicaStops(r) ==
  /\ repBox[r] = "running" /\ stops < MaxStops /\ stops' = stops + 1
  /\ repBox' = [repBox EXCEPT ![r] = "stopped"]
  /\ UNCHANGED <<store, up, mode, adding, adder, monitor, req, faults, removals>>

\* The engine fails to reach a replica that does not run.
EngineNotices(r) ==
  /\ mode[r] \in {"WO", "RW"} /\ repBox[r] # "running"
  /\ mode' = [mode EXCEPT ![r] = "ERR"]
  /\ UNCHANGED <<store, repBox, up, adding, adder, monitor, req, luck>>

\* The monitor of the volume has ended.
GivenUp == mon \in {"ended", "crashed"}

\* It has, or all names are in use.
Rest == (GivenUp \/ Unused = {}) /\ UNCHANGED vars

Next ==
  \/ MonitorStep \/ RemoveStop \/ RemoveInst \/ Rest
  \/ \E r \in Reps : AdderStep(r) \/ RequestRemove(r) \/ ReplicaStops(r) \/ EngineNotices(r)

Spec == Init /\ [][Next]_vars

\* The goroutines run, the monitor's ticker ticks, and the engine uses its
\* replicas.
FairSpec ==
  /\ Spec
  /\ WF_vars(MonitorStep) /\ WF_vars(RemoveStop \/ RemoveInst)
  /\ \A r \in Reps : WF_vars(AdderStep(r)) /\ WF_vars(EngineNotices(r))
----------------------------------------------------------------------------
(* Properties.                                                             *)

\* The check takes no replica out of the engine that is in use: one in mode
\* RW or WO leaves only through mode ERR, or with the engine (manager.go:
\* 474-498), although it acts on modes it has read earlier.
KeepsUsedReplicas ==
  [][\A r \in Reps : mode[r] \in {"RW", "WO"} /\ up' => mode'[r] # "none"]_mode

\* While no call fails and no replica is removed by request, the monitor
\* detaches the volume only when no replica in mode RW is left (manager.go:
\* 514-517), although it decides on the modes it has read before.
DetachOnlyWithoutGood ==
  [][up /\ ~up' /\ faults = 0 /\ removals = 0 => With("RW") = {}]_up

\* The goroutines that add replicas account for addingReplicas, also when
\* adding fails at any point, so a later check can add again.
NoLeakedCount ==
  adding = Cardinality({r \in Reps : adder[r] \notin {"off", "inc"}})

\* A replica that the engine waits for and nobody rebuilds: the command that did
\* was killed, and the container could not be stopped.
Abandoned == \E r \in Reps : mode[r] = "WO" /\ adder[r] = "off" /\ repBox[r] = "running"

\* A volume that has lost replicas is healthy again some time later, or its
\* monitor gives up: what test_ha_simple_recovery expects after a replicaRemove.
\* An abandoned replica is the exception (manager.go:522).  The model may run
\* out of names, which the code does not.
Heals ==
  Cardinality(With("RW")) < Num
    ~> Cardinality(With("RW")) >= Num \/ GivenUp \/ Abandoned \/ Unused = {}
-----------------------------------------------------------------------------
(* What tests, comments and messages lead one to expect and the code does  *)
(* not keep: TLC finds a counterexample to each (see the README).          *)

\* MarkBadReplica is to "find replica by Address" (types.go:122): a replica
\* that was marked and is still stored has a BadTimestamp.
MarkedIsBad == \A r \in marked : rep[r] # "nil" => r \in bad

\* After a replica was removed and replaced, and while nothing is under way,
\* the volume has the number of replicas it is to have (test_ha.py:40).
NoSurplus ==
  mon = "watch" /\ req = NoReq /\ (\A r \in Reps : adder[r] = "off")
    => Cardinality({r \in Reps : rep[r] # "nil"}) <= Num

\* The manager logs the error of a failed detach and goes on (monitor.go:74-76).
NoPanic == mon # "crashed"

\* A monitor that gives up detaches the volume (monitor.go:73): none stays
\* attached without one.
GivenUpIsDetached == GivenUp => ~up

\* What the engine waits for is being rebuilt (manager.go:522).
NoAbandoned == ~Abandoned
=============================================================================
