--------------------------- MODULE VolumeManager ---------------------------
(***************************************************************************)
(* The life of one volume under the managers of several hosts:             *)
(* manager/manager.go (Create, also from a backup, Delete, Attach, Detach, *)
(* Start), its monitor goroutine (manager/monitor.go) and the instances    *)
(* and metadata that they handle through orch/docker and kvstore.          *)
(*                                                                         *)
(* A manager serves each request in a goroutine of its own and takes no    *)
(* lock across it: a request works on the volume as it was when it read    *)
(* it.  Threads are the requests (Ops) and the monitor goroutines (Mons).  *)
(* Every call of the orchestrator is a container operation followed by a   *)
(* check and an update of the metadata, and any thread may move in between.*)
(*                                                                         *)
(* Replicas do not fail by themselves here, and no replica is rebuilt; a   *)
(* replica's BadTimestamp is always empty, as no code stores another.      *)
(***************************************************************************)
EXTENDS Naturals, FiniteSets

CONSTANTS
  Hosts, Ops,
  Mons,        \* numbers of monitor goroutines
  Reps,        \* replica names; a replica created gets an unused one
  RepHost,     \* the host each replica is scheduled on
  NumReps,     \* volume.NumberOfReplicas
  None,        \* no host, no monitor
  Kinds,       \* the requests made
  MaxReqs,     \* bound on the requests made
  MaxCtl,      \* bound on the controller containers ever created
  MaxFaults,   \* bound on calls of docker, etcd or a remote host that fail
  MaxDeaths,   \* bound on engine processes that die
  MaxCrashes   \* bound on manager processes that are killed

Threads == Ops \cup Mons

ASSUME ManagerAssumption ==
  /\ IsFiniteSet(Reps) /\ RepHost \in [Reps -> Hosts]
  /\ NumReps \in Nat /\ NumReps <= Cardinality(Reps)
  /\ None \notin Hosts \cup Mons
  /\ Ops \cap Mons = {} /\ Mons \subseteq Nat
  /\ Kinds \subseteq {"attach", "detach", "delete", "create", "restore"}
  /\ {MaxReqs, MaxCtl, MaxFaults, MaxDeaths, MaxCrashes} \subseteq Nat

VARIABLES
  base,      \* the volume's base key is in the store
  ctl,       \* its controller key; id 0 when there is none
  rep,       \* its replica keys: "nil", or whether the replica is Running
  box,       \* the controller containers, by id, and the replicas in mode RW
  repBox,    \* the replica containers
  up,        \* the manager process of each host
  monitors,  \* man.monitors[volume] of each host
  open,      \* the monitorCh that are not closed
  th,        \* the threads
  died,      \* history: some manager process has ended
  reqs, faults, deaths, crashes

kv == <<base, ctl, rep>>
boxes == <<box, repBox>>
mgr == <<up, monitors, open, died>>
luck == <<reqs, faults, deaths, crashes>>
vars == <<kv, boxes, mgr, th, luck>>

CtlIds == 1..MaxCtl
NoCtl == [id |-> 0, running |-> FALSE]
NoVolume == [ctl |-> NoCtl, rep |-> [r \in Reps |-> "nil"]]
NoCalls == [r \in Reps |-> "off"]

Labels == {"idle", "get", "detach", "unmonitor", "stopctl", "stopctl.get",
  "stopctl.set", "stopreps", "rmctl", "rmctl.get", "rmctl.del", "stopold",
  "startreps", "prepare", "create", "start", "wait", "meta.get", "meta.set",
  "monitor", "restore", "rmreps", "setbase", "newbase", "newreps", "watch",
  "check", "close"}

\* types.VolumeInfo: the stored controller and replicas.
Controller == [id : 0..MaxCtl, running : BOOLEAN]
Replicas == [Reps -> {"nil", "stopped", "running"}]
Volume == [ctl : Controller, rep : Replicas]

\* A thread: where it is, its request and host, the volume as the request read
\* it, the volume as doDetach got it, the replica calls under way, whether one
\* of them failed, and the controller it has created or monitors.
Thread == [pc : Labels,
           kind : {"none", "attach", "detach", "delete", "create", "restore",
                   "restored", "start", "monitor", "nogood"},
           host : Hosts \cup {None},
           vol : Volume, det : Volume,
           left : [Reps -> {"off", "box", "get", "stopped", "running", "nil"}],
           errs : BOOLEAN,
           made : 0..MaxCtl]

Idle == [pc |-> "idle", kind |-> "none", host |-> None, vol |-> NoVolume,
         det |-> NoVolume, left |-> NoCalls, errs |-> FALSE, made |-> 0]

Watching(h, c) ==
  [Idle EXCEPT !.pc = "watch", !.kind = "monitor", !.host = h, !.made = c]

TypeOK ==
  /\ base \in BOOLEAN
  /\ ctl \in Controller
  /\ rep \in Replicas
  /\ box \in [CtlIds -> [host : Hosts \cup {None}, rw : SUBSET Reps,
                         st : {"new", "none", "stopped", "running"}]]
  /\ repBox \in [Reps -> {"new", "none", "stopped", "running"}]
  /\ up \in [Hosts -> {"down", "starting", "up"}]
  /\ monitors \in [Hosts -> Mons \cup {None}]
  /\ open \in [Mons -> BOOLEAN]
  /\ th \in [Threads -> Thread]
  /\ died \in BOOLEAN
  /\ reqs \in Nat /\ faults \in Nat /\ deaths \in Nat /\ crashes \in Nat

\* A detached volume whose replicas have been created, or no volume yet.
Init ==
  /\ base \in BOOLEAN /\ ctl = NoCtl
  /\ \E S \in SUBSET Reps :
       /\ IF base THEN Cardinality(S) = NumReps ELSE S = {}
       /\ rep = [r \in Reps |-> IF r \in S THEN "stopped" ELSE "nil"]
       /\ repBox = [r \in Reps |-> IF r \in S THEN "stopped" ELSE "new"]
  /\ box = [c \in CtlIds |-> [host |-> None, st |-> "new", rw |-> {}]]
  /\ up = [h \in Hosts |-> "up"]
  /\ monitors = [h \in Hosts |-> None]
  /\ open = [m \in Mons |-> FALSE]
  /\ th = [t \in Threads |-> Idle]
  /\ died = FALSE
  /\ reqs = 0 /\ faults = 0 /\ deaths = 0 /\ crashes = 0
----------------------------------------------------------------------------
(* How threads move.                                                       *)

Goto(t, l) == th' = [th EXCEPT ![t].pc = l]

\* The request is answered; a monitor goroutine goes back to its channel.
Return(t) ==
  th' = [th EXCEPT ![t] = IF t \in Mons THEN Watching(@.host, @.made) ELSE Idle]

\* An error.  createFromBackup answers one of attach, restore or detach by
\* deleting the volume it has created (cleanupFailedCreate).
Fail(t) ==
  IF th[t].kind \in {"restore", "restored"}
  THEN th' = [th EXCEPT ![t] = [Idle EXCEPT !.pc = "get", !.kind = "delete", !.host = th[t].host]]
  ELSE Return(t)

\* A goroutine per replica of S calls the orchestrator.
FanOut(t, l, S) ==
  th' = [th EXCEPT ![t].pc = l, ![t].errs = FALSE,
                   ![t].left = [r \in Reps |-> IF r \in S THEN "box" ELSE "off"]]

Has(v) == {r \in Reps : v.rep[r] # "nil"}

\* A call for an instance is executed by the manager of the instance's host.
Reachable(t, h) == th[t].host = h \/ up[h] = "up"

HostOf(c) == box[c].host
Exists(c) == box[c].st \in {"stopped", "running"}
----------------------------------------------------------------------------
(* Calls for one replica: StopInstance, StartInstance, RemoveInstance and  *)
(* CreateReplica, first on the container, then on the metadata.            *)

Doing(t) ==
  CASE th[t].pc \in {"stopreps", "stopold"} -> "stop"
    [] th[t].pc = "startreps" -> "start"
    [] th[t].pc = "rmreps" -> "remove"
    [] OTHER -> "create"

\* Delete removes and doCreate creates the replicas one after the other, and
\* both return at the first error; elsewhere a goroutine serves each replica.
InTurn(t) == Doing(t) \in {"remove", "create"}

\* Names no replica has had and no request is about to use.
Fresh == {r \in Reps : repBox[r] = "new" /\ \A t \in Threads : th[t].left[r] = "off"}

InFlight(ks) == Cardinality({t \in Ops : th[t].kind \in ks})

\* Where Schedule tries a replica next that could not be created: a fresh name
\* of another host stands for the replica there.  The bound on the names leaves
\* the other requests theirs.
NextHosts(t, r) ==
  {q \in Fresh : /\ RepHost[q] # RepHost[r] /\ Reachable(t, RepHost[q])
                 /\ Cardinality(Fresh) > NumReps * (InFlight({"create", "restore"}) - 1)}

TryNextHost(t, r) ==
  \E q \in NextHosts(t, r) :
    th' = [th EXCEPT ![t].left = [@ EXCEPT ![r] = "off", ![q] = "box"]]

ReplicaFails(t, r) ==
  IF Doing(t) = "create" /\ NextHosts(t, r) # {}
  THEN TryNextHost(t, r)
  ELSE IF InTurn(t)
  THEN Return(t)
  ELSE th' = [th EXCEPT ![t].left[r] = "off", ![t].errs = TRUE]

\* docker stops and starts a container that exists, and removes (without
\* force) only one that does not run.
ContainerAllows(what, b) ==
  CASE what \in {"stop", "start"} -> b \in {"stopped", "running"}
    [] what = "remove" -> b = "stopped"
    [] OTHER -> b = "new"

ContainerAfter(what) ==
  CASE what = "start" -> "running" [] what = "remove" -> "none" [] OTHER -> "stopped"

ReplicaContainer(t, r) ==
  /\ th[t].left[r] = "box"
  /\ InTurn(t) => \A q \in Reps : th[t].left[q] \in {"off", "box"}
  /\ IF Doing(t) = "create" /\ ~base
     THEN /\ th' = [th EXCEPT ![t].left[r] = "off"]   \* CreateReplica: nil, nil
          /\ UNCHANGED boxes
     ELSE IF Reachable(t, RepHost[r]) /\ ContainerAllows(Doing(t), repBox[r])
     THEN /\ repBox' = [repBox EXCEPT ![r] = ContainerAfter(Doing(t))]
          \* an engine drops a replica that stops
          /\ box' = IF Doing(t) = "stop"
                    THEN [c \in CtlIds |-> [box[c] EXCEPT !.rw = @ \ {r}]]
                    ELSE box
          /\ th' = [th EXCEPT ![t].left[r] = "get"]
     ELSE ReplicaFails(t, r) /\ UNCHANGED boxes
  /\ UNCHANGED <<kv, mgr, luck>>

\* Mutant: Running is set whatever the call did.
ReplicaCheckRunning(t, r) ==
  /\ th[t].left[r] = "get"
  /\ th' = [th EXCEPT ![t].left[r] = IF Doing(t) = "remove" THEN "nil" ELSE "running"]
  /\ UNCHANGED <<kv, boxes, mgr, luck>>

\* The container is inspected, and what is found is to be stored; after a
\* removal the key has to be there.
ReplicaCheck(t, r) ==
  /\ th[t].left[r] = "get"
  /\ IF Doing(t) = "remove"
     THEN IF rep[r] # "nil"
          THEN th' = [th EXCEPT ![t].left[r] = "nil"]
          ELSE ReplicaFails(t, r)
     ELSE IF repBox[r] # "none"
          THEN th' = [th EXCEPT ![t].left[r] = repBox[r]]
          ELSE ReplicaFails(t, r)
  /\ UNCHANGED <<kv, boxes, mgr, luck>>

ReplicaSet(t, r) ==
  /\ th[t].left[r] \in {"stopped", "running", "nil"}
  /\ rep' = [rep EXCEPT ![r] = th[t].left[r]]
  /\ th' = [th EXCEPT ![t].left[r] = "off"]
  /\ UNCHANGED <<base, ctl, boxes, mgr, luck>>

\* The goroutines of a fan-out have ended.
Joined(t, l) == th[t].pc = l /\ th[t].left = NoCalls
----------------------------------------------------------------------------
(* Detach and doDetach.                                                    *)

StopOld(t, v) == FanOut(t, "stopold", {r \in Reps : v.rep[r] = "running"})

\* Mutant: Delete removes the replicas that were running only.
AfterDetachRunning(t) ==
  CASE th[t].kind \in {"attach", "restore"} -> StopOld(t, th[t].vol)
    [] th[t].kind = "delete" ->
         FanOut(t, "rmreps", {r \in Reps : th[t].det.rep[r] = "running"})
    [] OTHER -> Return(t)

\* doDetach returned nil, or Detach found no volume.
AfterDetach(t) ==
  CASE th[t].kind \in {"attach", "restore"} -> StopOld(t, th[t].vol)
    [] th[t].kind = "delete" -> FanOut(t, "rmreps", Has(th[t].det))
    [] OTHER -> Return(t)

\* doDetach failed on the controller.  Such an error has a Cause, so for the
\* monitor that was checking the controller it is a controller failure.
DetachFails(t) ==
  IF th[t].kind = "nogood"
  THEN th' = [th EXCEPT ![t] = [Watching(@.host, @.made) EXCEPT !.pc = "close"]]
  ELSE Fail(t)

DetachGet(t) ==
  /\ th[t].pc = "detach"
  /\ IF base
     THEN th' = [th EXCEPT ![t].det = [ctl |-> ctl, rep |-> rep], ![t].pc = "unmonitor"]
     ELSE AfterDetach(t)
  /\ UNCHANGED <<kv, boxes, mgr, luck>>

StopReplicas(t) == FanOut(t, "stopreps", Has(th[t].det))

\* Mutant: the closed monitor stays in man.monitors.
CloseMonitorKept(h) ==
  /\ open' = [m \in Mons |-> open[m] /\ m # monitors[h]]
  /\ UNCHANGED monitors

\* The channels of the registered monitor are closed, if they are not yet.
CloseMonitor(h) ==
  /\ monitors' = [monitors EXCEPT ![h] = None]
  /\ open' = [m \in Mons |-> open[m] /\ m # monitors[h]]

StopMonitoring(t) ==
  /\ th[t].pc = "unmonitor"
  /\ CloseMonitor(th[t].host)
  /\ IF th[t].det.ctl.running THEN Goto(t, "stopctl") ELSE StopReplicas(t)
  /\ UNCHANGED <<kv, boxes, up, died, luck>>

StopController(t) ==
  /\ th[t].pc = "stopctl"
  /\ LET c == th[t].det.ctl.id IN
       IF Reachable(t, HostOf(c)) /\ ContainerAllows("stop", box[c].st)
       THEN box' = [box EXCEPT ![c].st = "stopped"] /\ Goto(t, "stopctl.get")
       ELSE DetachFails(t) /\ UNCHANGED box
  /\ UNCHANGED <<kv, repBox, mgr, luck>>

\* The container is inspected and the stored controller compared by id.
StopControllerCheck(t) ==
  /\ th[t].pc = "stopctl.get"
  /\ LET c == th[t].det.ctl.id IN
       IF box[c].st # "none" /\ ctl.id \in {0, c}
       THEN Goto(t, "stopctl.set")
       ELSE DetachFails(t)
  /\ UNCHANGED <<kv, boxes, mgr, luck>>

StopControllerSet(t) ==
  /\ th[t].pc = "stopctl.set"
  /\ ctl' = [id |-> th[t].det.ctl.id, running |-> FALSE]
  /\ StopReplicas(t)
  /\ UNCHANGED <<base, rep, boxes, mgr, luck>>

ReplicasStopped(t) ==
  /\ Joined(t, "stopreps")
  /\ IF th[t].errs THEN Fail(t)
     ELSE IF th[t].det.ctl.id # 0 THEN Goto(t, "rmctl")
     ELSE AfterDetach(t)
  /\ UNCHANGED <<kv, boxes, mgr, luck>>

RemoveController(t) ==
  /\ th[t].pc = "rmctl"
  /\ LET c == th[t].det.ctl.id IN
       IF Reachable(t, HostOf(c)) /\ ContainerAllows("remove", box[c].st)
       THEN box' = [box EXCEPT ![c].st = "none"] /\ Goto(t, "rmctl.get")
       ELSE DetachFails(t) /\ UNCHANGED box
  /\ UNCHANGED <<kv, repBox, mgr, luck>>

RemoveControllerCheck(t) ==
  /\ th[t].pc = "rmctl.get"
  /\ IF ctl.id = th[t].det.ctl.id THEN Goto(t, "rmctl.del") ELSE DetachFails(t)
  /\ UNCHANGED <<kv, boxes, mgr, luck>>

RemoveControllerDelete(t) ==
  /\ th[t].pc = "rmctl.del"
  /\ ctl' = NoCtl
  /\ AfterDetach(t)
  /\ UNCHANGED <<base, rep, boxes, mgr, luck>>

DetachStep(t) ==
  \/ DetachGet(t) \/ StopMonitoring(t)
  \/ StopController(t) \/ StopControllerCheck(t) \/ StopControllerSet(t)
  \/ ReplicasStopped(t)
  \/ RemoveController(t) \/ RemoveControllerCheck(t) \/ RemoveControllerDelete(t)
----------------------------------------------------------------------------
(* Attach and doAttach.                                                    *)

\* Mutant: a running controller is not detached first.
DetachFirstStopped == ctl.id # 0 /\ ~ctl.running

\* doAttach detaches a volume that has a controller.
DetachFirst == ctl.id # 0

\* Get and doAttach.  A volume that is gone is a nil dereference; the HTTP
\* server recovers and the request ends.
BeginAttach(t) ==
  LET v == [ctl |-> ctl, rep |-> rep] IN
    IF ~base THEN Return(t)
    ELSE IF ctl.running /\ HostOf(ctl.id) = th[t].host
    THEN th' = [th EXCEPT ![t].vol = v, ![t].made = ctl.id, ![t].pc = "monitor"]
    ELSE IF DetachFirst
    THEN th' = [th EXCEPT ![t].vol = v, ![t].pc = "detach"]
    ELSE th' = [th EXCEPT ![t].vol = v, ![t].pc = "stopold",
                  ![t].left = [r \in Reps |-> IF rep[r] = "running" THEN "box" ELSE "off"]]

AttachGet(t) ==
  /\ th[t].pc = "get" /\ th[t].kind = "attach"
  /\ BeginAttach(t)
  /\ UNCHANGED <<kv, boxes, mgr, luck>>

\* With no bad replica recorded, all replicas are started.
OldStopped(t) ==
  /\ Joined(t, "stopold")
  /\ IF th[t].errs \/ Has(th[t].vol) = {}
     THEN Fail(t)
     ELSE FanOut(t, "startreps", Has(th[t].vol))
  /\ UNCHANGED <<kv, boxes, mgr, luck>>

ReplicasStarted(t) ==
  /\ Joined(t, "startreps")
  /\ IF th[t].errs THEN Fail(t) ELSE Goto(t, "prepare")
  /\ UNCHANGED <<kv, boxes, mgr, luck>>

\* prepareCreateController reads the volume again and wants the address of
\* every replica; a volume that is gone is a nil dereference once more.
PrepareCreateController(t) ==
  /\ th[t].pc = "prepare"
  /\ IF ~base THEN Return(t)
     ELSE IF \A r \in Has(th[t].vol) : rep[r] = "running"
     THEN Goto(t, "create")
     ELSE Fail(t)
  /\ UNCHANGED <<kv, boxes, mgr, luck>>

\* The container's name is the volume's, so a host has one such container.
CreateContainer(t) ==
  /\ th[t].pc = "create"
  /\ IF \E c \in CtlIds : HostOf(c) = th[t].host /\ Exists(c)
     THEN Fail(t) /\ UNCHANGED box
     ELSE \E c \in CtlIds :
            /\ box[c].st = "new" /\ \A d \in 1..(c - 1) : box[d].st # "new"
            /\ box' = [box EXCEPT ![c] = [host |-> th[t].host, st |-> "stopped", rw |-> {}]]
            /\ th' = [th EXCEPT ![t].made = c, ![t].pc = "start"]
  /\ UNCHANGED <<kv, repBox, mgr, luck>>

\* The engine exits when it cannot reach a replica.
StartContainer(t) ==
  /\ th[t].pc = "start"
  /\ LET S == Has(th[t].vol) IN
       IF \A r \in S : repBox[r] = "running"
       THEN box' = [box EXCEPT ![th[t].made].st = "running", ![th[t].made].rw = S]
       ELSE UNCHANGED box
  /\ Goto(t, "wait")
  /\ UNCHANGED <<kv, repBox, mgr, luck>>

\* removeInstance of the container just created: refused while it runs.
CleanUp(t) ==
  box' = IF box[th[t].made].st = "stopped"
         THEN [box EXCEPT ![th[t].made].st = "none"]
         ELSE box

\* WaitForAPI and WaitForDevice.
WaitForEngine(t) ==
  /\ th[t].pc = "wait"
  /\ IF box[th[t].made].st = "running"
     THEN Goto(t, "meta.get") /\ UNCHANGED box
     ELSE CleanUp(t) /\ Fail(t)
  /\ UNCHANGED <<kv, repBox, mgr, luck>>

\* updateInstanceMetadata: "metadata conflict" when another controller is
\* stored.
ControllerCheck(t) ==
  /\ th[t].pc = "meta.get"
  /\ IF ctl.id \in {0, th[t].made}
     THEN Goto(t, "meta.set") /\ UNCHANGED box
     ELSE CleanUp(t) /\ Fail(t)
  /\ UNCHANGED <<kv, repBox, mgr, luck>>

ControllerSet(t) ==
  /\ th[t].pc = "meta.set"
  /\ ctl' = [id |-> th[t].made, running |-> TRUE]
  /\ Goto(t, "monitor")
  /\ UNCHANGED <<base, rep, boxes, mgr, luck>>

Unused(m) == th[m].pc = "idle" /\ \A h \in Hosts : monitors[h] # m

\* A new goroutine has the first number that is not in use.
Free(m) == Unused(m) /\ \A n \in Mons : n < m => ~Unused(n)

\* Mutant: the map is not looked up.
MonitoredNever(h) == FALSE

Monitored(h) == monitors[h] # None

\* Attach is done; createFromBackup goes on.
Attached(t) == IF th[t].kind = "restore" THEN [th[t] EXCEPT !.pc = "restore"] ELSE Idle

\* startMonitoring: nothing when the volume has a monitor already.
StartMonitoring(t) ==
  /\ th[t].pc = "monitor"
  /\ LET h == th[t].host IN
     /\ IF Monitored(h)
        THEN th' = [th EXCEPT ![t] = Attached(t)] /\ UNCHANGED <<monitors, open>>
        ELSE \E m \in Mons :
               /\ Free(m)
               /\ monitors' = [monitors EXCEPT ![h] = m]
               /\ open' = [open EXCEPT ![m] = TRUE]
               /\ th' = [th EXCEPT ![t] = Attached(t), ![m] = Watching(h, th[t].made)]
     /\ up' = [up EXCEPT ![h] = "up"]
  /\ UNCHANGED <<kv, boxes, died, luck>>

AttachStep(t) ==
  \/ AttachGet(t) \/ OldStopped(t) \/ ReplicasStarted(t)
  \/ PrepareCreateController(t) \/ CreateContainer(t) \/ StartContainer(t)
  \/ WaitForEngine(t) \/ ControllerCheck(t) \/ ControllerSet(t)
  \/ StartMonitoring(t)
----------------------------------------------------------------------------
(* Create, Delete and Start.                                               *)

CreateGet(t) ==
  /\ th[t].pc = "get" /\ th[t].kind \in {"create", "restore"}
  /\ IF base THEN Return(t) ELSE Goto(t, "setbase")
  /\ UNCHANGED <<kv, boxes, mgr, luck>>

\* CreateVolume looks for the volume once more, and writes in a call of its own.
CreateCheck(t) ==
  /\ th[t].pc = "setbase"
  /\ IF base THEN Return(t) ELSE Goto(t, "newbase")
  /\ UNCHANGED <<kv, boxes, mgr, luck>>

CreateVolume(t) ==
  /\ th[t].pc = "newbase"
  /\ base' = TRUE
  /\ \E S \in SUBSET Fresh : Cardinality(S) = NumReps /\ FanOut(t, "newreps", S)
  /\ UNCHANGED <<ctl, rep, boxes, mgr, luck>>

Created(t) ==
  /\ Joined(t, "newreps")
  /\ IF th[t].kind = "restore" THEN BeginAttach(t) ELSE Return(t)
  /\ UNCHANGED <<kv, boxes, mgr, luck>>

\* The engine restores the backup, and doDetach is called for the volume that
\* doCreate has read, with the controller that doAttach has put there.
Restore(t) ==
  /\ th[t].pc = "restore"
  /\ IF box[th[t].made].st = "running"
     THEN th' = [th EXCEPT ![t].kind = "restored", ![t].pc = "unmonitor",
                   ![t].det = [ctl |-> [id |-> th[t].made, running |-> TRUE],
                               rep |-> th[t].vol.rep]]
     ELSE Fail(t)
  /\ UNCHANGED <<kv, boxes, mgr, luck>>

DeleteGet(t) ==
  /\ th[t].pc = "get" /\ th[t].kind = "delete"
  /\ IF base
     THEN th' = [th EXCEPT ![t].det = [ctl |-> ctl, rep |-> rep], ![t].pc = "unmonitor"]
     ELSE Return(t)
  /\ UNCHANGED <<kv, boxes, mgr, luck>>

\* DeleteVolume deletes the volume's keys, whatever they are by now.
DeleteVolume(t) ==
  /\ Joined(t, "rmreps")
  /\ base' = FALSE /\ ctl' = NoCtl /\ rep' = [r \in Reps |-> "nil"]
  /\ Return(t)
  /\ UNCHANGED <<boxes, mgr, luck>>

\* Start monitors the volume attached to this host before the API is served.
StartList(t) ==
  /\ th[t].pc = "get" /\ th[t].kind = "start"
  /\ IF base /\ ctl.running /\ HostOf(ctl.id) = th[t].host
     THEN th' = [th EXCEPT ![t].made = ctl.id, ![t].pc = "monitor"] /\ UNCHANGED up
     ELSE up' = [up EXCEPT ![th[t].host] = "up"] /\ Return(t)
  /\ UNCHANGED <<kv, boxes, monitors, open, died, luck>>

VolumeStep(t) ==
  \/ CreateGet(t) \/ CreateCheck(t) \/ CreateVolume(t) \/ Created(t) \/ Restore(t)
  \/ DeleteGet(t) \/ DeleteVolume(t)
  \/ StartList(t)
----------------------------------------------------------------------------
(* The manager process ends: its goroutines and its map of monitors are    *)
(* gone, the containers and the store are not.                             *)

Exit(h) ==
  /\ up' = [up EXCEPT ![h] = "down"] /\ died' = TRUE
  /\ monitors' = [monitors EXCEPT ![h] = None]
  /\ open' = [m \in Mons |-> open[m] /\ th[m].host # h]
  /\ th' = [t \in Threads |-> IF th[t].host = h THEN Idle ELSE th[t]]
----------------------------------------------------------------------------
(* The monitor goroutine.                                                  *)

\* A tick starts a check; the loop ends when the channel is closed.
Tick(m) ==
  /\ th[m].pc = "watch"
  /\ IF open[m] THEN Goto(m, "check") ELSE th' = [th EXCEPT ![m] = Idle]
  /\ UNCHANGED <<kv, boxes, mgr, luck>>

\* Mutant: an engine that does not answer is asked again, for ever.
NoAnswerIgnored(c) == FALSE

NoAnswer(c) == box[c].st # "running"

\* CheckController: an engine that does not answer has failed, and one that
\* has lost its last replica in mode RW is detached at once.
CheckController(m) ==
  /\ th[m].pc = "check"
  /\ IF NoAnswer(th[m].made) THEN Goto(m, "close")
     ELSE IF box[th[m].made].rw = {}
     THEN th' = [th EXCEPT ![m].kind = "nogood", ![m].pc = "detach"]
     ELSE Goto(m, "watch")
  /\ UNCHANGED <<kv, boxes, mgr, luck>>

\* close(ch) panics on a channel that is closed, and nothing recovers.
CloseChannel(m) ==
  /\ th[m].pc = "close"
  /\ IF open[m]
     THEN open' = [open EXCEPT ![m] = FALSE] /\ Goto(m, "detach")
          /\ UNCHANGED <<up, monitors, died>>
     ELSE Exit(th[m].host)
  /\ UNCHANGED <<kv, boxes, luck>>

MonitorStep(m) == Tick(m) \/ CheckController(m) \/ CloseChannel(m)
----------------------------------------------------------------------------
(* What the environment does.                                              *)

\* A request reaches the manager that serves it: attach is forwarded to the
\* host it names, detach to the host of a running controller.
Request(t, k, h) ==
  /\ th[t].pc = "idle" /\ up[h] = "up" /\ k \in Kinds
  /\ reqs < MaxReqs /\ reqs' = reqs + 1
  /\ k = "detach" /\ base /\ ctl.running => h = HostOf(ctl.id)
  /\ k \in {"attach", "restore"} =>
       Cardinality({c \in CtlIds : box[c].st = "new"}) > InFlight({"attach", "restore"})
  /\ k \in {"create", "restore"} =>
       Cardinality(Fresh) >= NumReps * (1 + InFlight({"create", "restore"}))
  /\ th' = [th EXCEPT ![t].kind = k, ![t].host = h,
                      ![t].pc = IF k = "detach" THEN "detach" ELSE "get"]
  /\ UNCHANGED <<kv, boxes, mgr, faults, deaths, crashes>>

\* The manager process is started again (main.go).
Boot(t, h) ==
  /\ th[t].pc = "idle" /\ up[h] = "down"
  /\ up' = [up EXCEPT ![h] = "starting"]
  /\ th' = [th EXCEPT ![t].kind = "start", ![t].host = h, ![t].pc = "get"]
  /\ UNCHANGED <<kv, boxes, monitors, open, died, luck>>

Kill(h) ==
  /\ up[h] # "down" /\ crashes < MaxCrashes
  /\ crashes' = crashes + 1
  /\ Exit(h)
  /\ UNCHANGED <<kv, boxes, reqs, faults, deaths>>

EngineDies(c) ==
  /\ box[c].st = "running" /\ deaths < MaxDeaths
  /\ deaths' = deaths + 1
  /\ box' = [box EXCEPT ![c].st = "stopped"]
  /\ UNCHANGED <<kv, repBox, mgr, th, reqs, faults, crashes>>

\* A call for a replica fails, before or after what docker does.  A container
\* just created is removed; when that fails too it stays, and nothing is said.
ReplicaCallFails(t, r) ==
  /\ th[t].left[r] # "off" /\ faults < MaxFaults
  /\ InTurn(t) => \A q \in Reps \ {r} : th[t].left[q] \in {"off", "box"}
  /\ faults' = faults + 1
  /\ ReplicaFails(t, r)
  /\ \/ UNCHANGED repBox
     \/ /\ Doing(t) = "create" /\ th[t].left[r] # "box"
        /\ repBox' = [repBox EXCEPT ![r] = "none"]
  /\ UNCHANGED <<kv, box, mgr, reqs, deaths, crashes>>

\* Another call of docker, of the store or of a remote manager fails.  When
\* the container could not be started nothing is cleaned up, as the instance
\* is nil by then (instance.go:207); after that the container is removed.
\* CreateVolume takes an error of its look for no volume, and CheckController
\* takes one of a live engine for a failed engine.
CallFails(t) ==
  /\ faults < MaxFaults /\ faults' = faults + 1
  /\ \/ /\ th[t].pc \in {"get", "newbase"} \/ Joined(t, "newreps") \/ Joined(t, "rmreps")
        /\ Return(t)
        /\ up' = IF th[t].kind = "start" THEN [up EXCEPT ![th[t].host] = "down"] ELSE up
        /\ UNCHANGED box
     \/ th[t].pc = "setbase" /\ Goto(t, "newbase") /\ UNCHANGED <<box, up>>
     \/ th[t].pc = "check" /\ Goto(t, "close") /\ UNCHANGED <<box, up>>
     \/ /\ th[t].pc \in {"prepare", "create", "start", "restore"}
        /\ Fail(t) /\ UNCHANGED <<box, up>>
     \/ /\ th[t].pc \in {"wait", "meta.get", "meta.set"}
        /\ CleanUp(t) /\ Fail(t) /\ UNCHANGED up
     \/ /\ th[t].pc \in {"detach", "stopctl", "stopctl.get", "stopctl.set",
                         "rmctl", "rmctl.get", "rmctl.del"}
        /\ DetachFails(t) /\ UNCHANGED <<box, up>>
  /\ UNCHANGED <<kv, repBox, monitors, open, died, reqs, deaths, crashes>>

Environment ==
  \/ \E t \in Ops, h \in Hosts : \/ \E k \in Kinds : Request(t, k, h)
                                 \/ Boot(t, h)
  \/ \E h \in Hosts : Kill(h)
  \/ \E c \in CtlIds : EngineDies(c)
  \/ \E t \in Threads : CallFails(t) \/ \E r \in Reps : ReplicaCallFails(t, r)
----------------------------------------------------------------------------
ThreadStep(t) ==
  \/ DetachStep(t) \/ AttachStep(t) \/ VolumeStep(t)
  \/ \E r \in Reps : ReplicaContainer(t, r) \/ ReplicaCheck(t, r) \/ ReplicaSet(t, r)
  \/ t \in Mons /\ MonitorStep(t)

\* Nobody has to make another request.
Rest == (\A t \in Threads : th[t].pc = "idle") /\ UNCHANGED vars

Next == Environment \/ Rest \/ \E t \in Threads : ThreadStep(t)

Spec == Init /\ [][Next]_vars

\* Goroutines run, and the period of a monitor's ticker elapses.
FairSpec == Spec /\ \A t \in Threads : WF_vars(ThreadStep(t))
----------------------------------------------------------------------------
(* Properties.                                                             *)

\* At most one monitor of the volume is live on a host, the registered one:
\* a monitor whose channel is open is in man.monitors, and a monitor removed
\* from the map is closed (manager.go:225-231, 246-253).
OneLiveMonitor ==
  \A m \in Mons : open[m] => th[m].host \in Hosts /\ monitors[th[m].host] = m

\* The stored controller is replaced only after it was removed: the conflict
\* check of updateInstanceMetadata (instance.go:489-492) keeps one controller
\* from taking the place of another.
NoControllerReplaced ==
  [][~died /\ ctl.id # 0 => ctl'.id \in {0, ctl.id}]_ctl

\* Two engines never serve the volume at the same time, unless a manager
\* process ended in the middle of a request.
OneEngine ==
  ~died => \A c, d \in CtlIds :
             box[c].st = "running" /\ box[d].st = "running" => c = d

\* A volume's keys are deleted only when none of its containers is left, so
\* that Delete leaves nothing behind that no manager knows of.
DeleteLeavesNothing ==
  ~died /\ ~base => /\ \A c \in CtlIds : ~Exists(c)
                    /\ \A r \in Reps : repBox[r] \in {"new", "none"}

\* An engine that has died does not stay recorded as running: the monitor
\* finds out and detaches the volume (monitor.go:57-77).
DeadEngineNoticed ==
  \A c \in 1..MaxCtl :
    LET stored == ctl = [id |-> c, running |-> TRUE] IN
      stored /\ box[c].st # "running" ~> ~stored \/ died

AtRest == \A t \in Threads : th[t].pc \in {"idle", "watch"}

\* An attached volume is monitored once its attach has been answered: the HA
\* test removes a replica of an attached volume and expects it back
\* (test_ha.py:36-40).  While no engine has died: the monitor that detaches a
\* dead one also ends the monitor of an attach that came in between.
AttachedIsMonitored ==
  AtRest /\ ~died /\ deaths = 0 /\ ctl.running => \E m \in Mons : open[m] /\ th[m].made = ctl.id

\* When no request is served, the store agrees with the containers: every
\* container is recorded with the state it is in, and nothing else is
\* (updateInstanceMetadata and removeInstanceMetadata after every call).  An
\* engine that dies by itself is found out later: DeadEngineNoticed.
StoreMatchesContainers ==
  AtRest /\ ~died /\ deaths = 0 =>
    /\ \A c \in CtlIds :
         /\ Exists(c) <=> ctl.id = c
         /\ ctl.id = c => (ctl.running <=> box[c].st = "running")
    /\ \A r \in Reps :
         rep[r] = IF repBox[r] \in {"stopped", "running"} THEN repBox[r] ELSE "nil"
-----------------------------------------------------------------------------
(* What tests, comments and messages lead one to expect and the code does  *)
(* not keep: TLC finds a counterexample to each (see the README).          *)

\* DeleteVolume "removes volume metadata" (types.go:119): a deleted volume has
\* no key left.
DeletedMeansNoMetadata ==
  ~died /\ ~base => ctl = NoCtl /\ \A r \in Reps : rep[r] = "nil"

\* A monitor stops the controller it has found failed, not one attached
\* since: the volume attached again is "healthy" (test_basic.py:404-411).
MonitorStopsItsOwn ==
  \A m \in Mons : th[m].pc = "stopctl" => th[m].det.ctl.id = th[m].made

\* A failed request leaves no controller container that is not stored: it
\* logs that it is "cleaning up" (instance.go:90, 193).
NoOrphanController ==
  AtRest /\ ~died => \A c \in CtlIds : Exists(c) => ctl.id = c

\* "cleaned up after failing to create volume" (manager.go:77): a volume into
\* which the backup could not be restored is deleted.
FailedCreateIsCleanedUp ==
  \A t \in Ops : th[t].pc = "restore" ~> th[t].kind = "restored" \/ ~base \/ died

\* What is recorded is there, so that it can be stopped and removed: Delete can
\* be tried again, up to "no longer exist for delete" (manager.go:145).
RecordedExists ==
  AtRest => /\ ctl.id # 0 => Exists(ctl.id)
            /\ \A r \in Reps : rep[r] # "nil" => repBox[r] \in {"stopped", "running"}

\* A detach does not end the manager, which goes on to serve requests
\* (test_basic.py:404-411): close(ch) never meets a closed channel.
NoPanic == \A m \in Mons : th[m].pc = "close" => open[m]
=============================================================================
