------------------------ MODULE VolumeManagerProofs ------------------------
(***************************************************************************)
(* Proofs about VolumeManager, for any hosts, requests, monitors, replicas *)
(* and bounds: its type invariant, and that a host has at most one live    *)
(* monitor of the volume.                                                  *)
(***************************************************************************)
EXTENDS VolumeManager, TLAPS

\* Most leaves are first-order and Zenon takes them; SMT takes those that cite
\* it.
USE Zenon

\* Where a monitor goroutine can be: its loop, and the Detach it calls.
MonitorLabels == {"idle", "watch", "check", "close", "detach", "unmonitor",
  "stopctl", "stopctl.get", "stopctl.set", "stopreps", "rmctl", "rmctl.get",
  "rmctl.del"}

\* A thread that has ended holds nothing, one that has not runs on a host, and
\* a monitor goroutine serves no request.
ThreadOK(t, x) ==
  /\ x \in Thread
  /\ IF x.pc = "idle" THEN x = Idle ELSE x.host \in Hosts
  /\ t \in Mons => x.pc \in MonitorLabels /\ x.kind \in {"none", "monitor", "nogood"}

\* A replica whose container has been reached is not a new one.
Touched == \A t \in Threads, r \in Reps :
  th[t].left[r] \notin {"off", "box"} => repBox[r] # "new"

MonitorInv ==
  /\ TypeOK
  /\ \A t \in Threads : ThreadOK(t, th[t])
  /\ Touched
  /\ OneLiveMonitor

\* The record of a thread that has ended is in order.
LEMMA IdleOK == \A t \in Threads : ThreadOK(t, Idle)
<1>1. NoCtl \in Controller
  BY ManagerAssumption, SMT DEF NoCtl, Controller
<1>2. NoVolume \in Volume /\ NoCalls \in [Reps -> {"off", "box", "get", "stopped", "running", "nil"}]
  BY <1>1 DEF NoVolume, Volume, Replicas, NoCalls
<1>3. Idle \in Thread
  BY ManagerAssumption, <1>2, SMT DEF Idle, Thread, Labels
<1> QED
  BY <1>3 DEF ThreadOK, Idle, MonitorLabels

\* At first no thread runs and no channel is open.
LEMMA InitMonitorInv == Init => MonitorInv
<1> SUFFICES ASSUME Init PROVE MonitorInv
  OBVIOUS
<1> USE ManagerAssumption
<1>1. NoCtl \in Controller
  BY SMT DEF NoCtl, Controller
<1>3. \A t \in Threads : Idle \in Thread
  BY IdleOK DEF ThreadOK
<1>4. TypeOK
  <2>1. rep \in Replicas /\ repBox \in [Reps -> {"new", "none", "stopped", "running"}]
    BY DEF Init, Replicas
  <2>2. box \in [CtlIds -> [host : Hosts \cup {None}, rw : SUBSET Reps,
                           st : {"new", "none", "stopped", "running"}]]
    BY DEF Init
  <2>3. th \in [Threads -> Thread]
    BY <1>3 DEF Init
  <2> QED
    BY <1>1, <2>1, <2>2, <2>3 DEF Init, TypeOK
<1>5. \A t \in Threads : th[t] = Idle
  BY DEF Init
<1>6. Touched
  BY <1>5, SMT DEF Touched, Idle, NoCalls
<1>7. \A t \in Threads : ThreadOK(t, th[t])
  BY <1>5, IdleOK
<1>8. OneLiveMonitor
  BY DEF Init, OneLiveMonitor
<1> QED
  BY <1>4, <1>6, <1>7, <1>8 DEF MonitorInv

----------------------------------------------------------------------------
(* One thread moves: to a record x that is in order, keeping its host, and *)
(* with replica calls under way only for containers that are there.        *)

Moved(t) == \E x :
  /\ th' = [th EXCEPT ![t] = x]
  /\ ThreadOK(t, x)
  /\ x.host = th[t].host \/ (t \in Mons => ~open[t])
  /\ \A r \in Reps : x.left[r] \notin {"off", "box"} =>
       x.left[r] = th[t].left[r] \/ repBox'[r] # "new"

\* A thread that moves leaves the threads in order.
LEMMA MovedThreads ==
  ASSUME MonitorInv, NEW t \in Threads, Moved(t),
         \A r \in Reps : repBox[r] # "new" => repBox'[r] # "new"
  PROVE  /\ th' \in [Threads -> Thread]
         /\ \A s \in Threads : ThreadOK(s, th'[s])
         /\ Touched'
<1>1. PICK x : /\ th' = [th EXCEPT ![t] = x]
               /\ ThreadOK(t, x)
               /\ \A r \in Reps : x.left[r] \notin {"off", "box"} =>
                    x.left[r] = th[t].left[r] \/ repBox'[r] # "new"
  BY DEF Moved
<1>2. th \in [Threads -> Thread] /\ x \in Thread
  BY <1>1 DEF MonitorInv, TypeOK, ThreadOK
<1>3. th' \in [Threads -> Thread]
  BY <1>1, <1>2
<1>4. \A s \in Threads : th'[s] = IF s = t THEN x ELSE th[s]
  BY <1>1, <1>2
<1>5. \A s \in Threads : ThreadOK(s, th'[s])
  BY <1>1, <1>4 DEF MonitorInv
<1>6. Touched'
  BY <1>1, <1>4 DEF MonitorInv, Touched
<1> QED
  BY <1>3, <1>5, <1>6

\* When it also leaves the map of monitors and their channels alone, there is
\* one live monitor as before.
LEMMA MovedMonitor ==
  ASSUME MonitorInv, NEW t \in Threads, Moved(t), UNCHANGED <<monitors, open>>
  PROVE  OneLiveMonitor'
<1>1. PICK x : th' = [th EXCEPT ![t] = x] /\ (x.host = th[t].host \/ (t \in Mons => ~open[t]))
  BY DEF Moved
<1>2. \A m \in Mons : open[m] => th'[m].host = th[m].host
  BY <1>1 DEF MonitorInv, TypeOK, Threads
<1> QED
  BY <1>2 DEF MonitorInv, OneLiveMonitor

\* The ways in which a thread moves.
LEMMA GotoMoves ==
  ASSUME MonitorInv, NEW t \in Threads, th[t].pc # "idle", NEW l \in Labels \ {"idle"},
         t \in Mons => l \in MonitorLabels, Goto(t, l)
  PROVE  Moved(t)
<1> DEFINE x == [th[t] EXCEPT !.pc = l]
<1>1. th' = [th EXCEPT ![t] = x]
  BY DEF Goto
<1>2. th[t] \in Thread /\ ThreadOK(t, th[t])
  BY DEF MonitorInv, TypeOK
<1>3. ThreadOK(t, x) /\ x.host = th[t].host /\ x.left = th[t].left
  BY <1>2 DEF ThreadOK, Thread
<1> QED
  BY <1>1, <1>3 DEF Moved

\* A monitor that begins is a thread that watches.
LEMMA WatchingOK ==
  ASSUME NEW t \in Threads, NEW h \in Hosts, NEW c \in 0..MaxCtl
  PROVE  /\ ThreadOK(t, Watching(h, c)) /\ Watching(h, c).host = h
         /\ Watching(h, c).pc = "watch" /\ Watching(h, c).left = NoCalls
<1>1. Idle \in Thread
  BY IdleOK DEF ThreadOK
<1>2. /\ Watching(h, c) \in Thread /\ Watching(h, c).host = h
      /\ Watching(h, c).pc = "watch" /\ Watching(h, c).kind = "monitor"
  BY <1>1 DEF Watching, Thread, Labels
<1>3. Watching(h, c).left = NoCalls
  BY DEF Watching, Idle
<1> QED
  BY <1>2, <1>3 DEF ThreadOK, MonitorLabels

\* A thread that returns is one that may be there.
LEMMA ReturnMoves ==
  ASSUME MonitorInv, NEW t \in Threads, th[t].pc # "idle", Return(t)
  PROVE  Moved(t)
<1> DEFINE x == IF t \in Mons THEN Watching(th[t].host, th[t].made) ELSE Idle
<1>1. th' = [th EXCEPT ![t] = x]
  BY DEF Return
<1>2. th[t].host \in Hosts /\ th[t].made \in 0..MaxCtl
  BY DEF MonitorInv, TypeOK, ThreadOK, Thread
<1>3. Idle.left = NoCalls
  BY DEF Idle
<1>4. ThreadOK(t, x) /\ x.left = NoCalls /\ (t \in Mons => x.host = th[t].host)
  BY <1>2, <1>3, WatchingOK, IdleOK
<1> QED
  BY <1>1, <1>4 DEF Moved, NoCalls

\* So is one that fails.
LEMMA FailMoves ==
  ASSUME MonitorInv, NEW t \in Threads, th[t].pc # "idle", Fail(t)
  PROVE  Moved(t)
<1>1. CASE th[t].kind \notin {"restore", "restored"}
  BY <1>1, ReturnMoves DEF Fail
<1>2. CASE th[t].kind \in {"restore", "restored"}
  <2> DEFINE x == [Idle EXCEPT !.pc = "get", !.kind = "delete", !.host = th[t].host]
  <2>1. th' = [th EXCEPT ![t] = x]
    BY <1>2 DEF Fail
  <2>2. t \notin Mons /\ th[t].host \in Hosts
    BY <1>2 DEF MonitorInv, ThreadOK
  <2>3. Idle \in Thread /\ Idle.left = NoCalls
    BY IdleOK DEF ThreadOK, Idle
  <2>4. x \in Thread /\ x.pc = "get" /\ x.host = th[t].host /\ x.left = NoCalls
    BY <2>2, <2>3 DEF Thread, Labels
  <2> HIDE DEF x
  <2>5. ThreadOK(t, x)
    BY <2>2, <2>4 DEF ThreadOK
  <2> QED
    BY <2>1, <2>4, <2>5 DEF Moved, NoCalls
<1> QED
  BY <1>1, <1>2

\* So is one that begins replica calls.
LEMMA FanOutMoves ==
  ASSUME MonitorInv, NEW t \in Threads, th[t].pc # "idle", NEW l \in Labels \ {"idle"},
         t \in Mons => l \in MonitorLabels, NEW S, FanOut(t, l, S)
  PROVE  Moved(t)
<1> DEFINE f == [r \in Reps |-> IF r \in S THEN "box" ELSE "off"]
           x == [th[t] EXCEPT !.pc = l, !.errs = FALSE, !.left = f]
<1>1. th' = [th EXCEPT ![t] = x]
  BY DEF FanOut
<1>2. th[t] \in Thread /\ ThreadOK(t, th[t])
  BY DEF MonitorInv, TypeOK
<1>3. f \in [Reps -> {"off", "box"}]
  OBVIOUS
<1>4. x \in Thread /\ x.host = th[t].host /\ x.left = f /\ x.pc = l /\ x.kind = th[t].kind
  BY <1>2, <1>3 DEF Thread
<1>5. ThreadOK(t, x)
  BY <1>2, <1>4 DEF ThreadOK
<1> QED
  BY <1>1, <1>3, <1>4, <1>5 DEF Moved

\* So is one that has detached and goes on with what the detach was for.
LEMMA AfterDetachMoves ==
  ASSUME MonitorInv, NEW t \in Threads, th[t].pc # "idle", AfterDetach(t)
  PROVE  Moved(t)
<1>1. t \in Mons => th[t].kind \notin {"attach", "restore", "delete"}
  BY DEF MonitorInv, ThreadOK
<1>2. CASE th[t].kind \in {"attach", "restore"}
  BY <1>1, <1>2, FanOutMoves DEF AfterDetach, StopOld, Labels
<1>3. CASE th[t].kind = "delete"
  BY <1>1, <1>3, FanOutMoves DEF AfterDetach, Labels
<1>4. CASE th[t].kind \notin {"attach", "restore", "delete"}
  BY <1>4, ReturnMoves DEF AfterDetach
<1> QED
  BY <1>2, <1>3, <1>4

\* So is one whose detach has failed.
LEMMA DetachFailsMoves ==
  ASSUME MonitorInv, NEW t \in Threads, th[t].pc # "idle", DetachFails(t)
  PROVE  Moved(t)
<1>1. CASE th[t].kind # "nogood"
  BY <1>1, FailMoves DEF DetachFails
<1>2. CASE th[t].kind = "nogood"
  <2> DEFINE w == Watching(th[t].host, th[t].made)
             x == [w EXCEPT !.pc = "close"]
  <2>1. th' = [th EXCEPT ![t] = x]
    BY <1>2 DEF DetachFails
  <2>2. th[t].host \in Hosts /\ th[t].made \in 0..MaxCtl
    BY DEF MonitorInv, TypeOK, ThreadOK, Thread
  <2>3. ThreadOK(t, w) /\ w.left = NoCalls /\ w.host = th[t].host /\ w.pc = "watch"
    BY <2>2, WatchingOK
  <2> HIDE DEF w
  <2>4. ThreadOK(t, x) /\ x.left = NoCalls /\ x.host = th[t].host
    BY <2>2, <2>3 DEF ThreadOK, Thread, Labels, MonitorLabels
  <2> QED
    BY <2>1, <2>4 DEF Moved, NoCalls
<1> QED
  BY <1>1, <1>2

\* So is one with a replica call that has failed.
LEMMA ReplicaFailsMoves ==
  ASSUME MonitorInv, NEW t \in Threads, NEW r \in Reps, th[t].left[r] # "off",
         ReplicaFails(t, r)
  PROVE  Moved(t)
<1>1. th[t].pc # "idle"
  BY SMT DEF MonitorInv, ThreadOK, Idle, NoCalls
<1>2. CASE Return(t)
  BY <1>1, <1>2, ReturnMoves
<1>4. CASE TryNextHost(t, r)
  <2>1. PICK q \in Reps : th' = [th EXCEPT ![t].left = [@ EXCEPT ![r] = "off", ![q] = "box"]]
    BY <1>4 DEF TryNextHost, NextHosts, Fresh
  <2> DEFINE f == [th[t].left EXCEPT ![r] = "off", ![q] = "box"]
             x == [th[t] EXCEPT !.left = f]
  <2>2. th[t] \in Thread /\ ThreadOK(t, th[t]) /\ th \in [Threads -> Thread]
    BY DEF MonitorInv, TypeOK
  <2>3. th' = [th EXCEPT ![t] = x]
    BY <2>1, <2>2
  <2>4. /\ x \in Thread /\ x.host = th[t].host /\ x.pc = th[t].pc /\ x.kind = th[t].kind
        /\ \A p \in Reps : x.left[p] \notin {"off", "box"} => x.left[p] = th[t].left[p]
    <3>2. /\ f \in [Reps -> {"off", "box", "get", "stopped", "running", "nil"}]
          /\ \A p \in Reps : f[p] \notin {"off", "box"} => f[p] = th[t].left[p]
      BY <2>2 DEF Thread
    <3> HIDE DEF f
    <3> QED BY <2>2, <3>2 DEF Thread
  <2>5. ThreadOK(t, x)
    BY <1>1, <2>2, <2>4 DEF ThreadOK
  <2> HIDE DEF x
  <2> QED
    BY <2>3, <2>4, <2>5 DEF Moved
<1>3. CASE th' = [th EXCEPT ![t].left[r] = "off", ![t].errs = TRUE]
  <2> DEFINE x == [th[t] EXCEPT !.left[r] = "off", !.errs = TRUE]
  <2>1. th' = [th EXCEPT ![t] = x]
    BY <1>3
  <2>2. th[t] \in Thread /\ ThreadOK(t, th[t])
    BY DEF MonitorInv, TypeOK
  <2>3. /\ x \in Thread /\ x.host = th[t].host /\ x.pc = th[t].pc /\ x.kind = th[t].kind
        /\ \A q \in Reps : x.left[q] = IF q = r THEN "off" ELSE th[t].left[q]
    BY <2>2 DEF Thread
  <2>4. ThreadOK(t, x)
    BY <1>1, <2>2, <2>3 DEF ThreadOK
  <2> HIDE DEF x
  <2> QED
    BY <2>1, <2>3, <2>4 DEF Moved
<1> QED
  BY <1>2, <1>3, <1>4 DEF ReplicaFails

\* A thread goes on with other data of the volume, its replica calls as they
\* are.
LEMMA UpdateMoves ==
  ASSUME MonitorInv, NEW t \in Threads, th[t].pc # "idle", NEW x \in Thread,
         th' = [th EXCEPT ![t] = x], x.pc # "idle", x.host = th[t].host,
         x.left = th[t].left,
         t \in Mons => x.pc \in MonitorLabels /\ x.kind \in {"none", "monitor", "nogood"}
  PROVE  Moved(t)
<1>1. ThreadOK(t, th[t])
  BY DEF MonitorInv
<1>2. ThreadOK(t, x)
  BY <1>1 DEF ThreadOK
<1> QED
  BY <1>2 DEF Moved

\* The types of everything but the threads.
StateTypes ==
  /\ base \in BOOLEAN /\ ctl \in Controller /\ rep \in Replicas
  /\ box \in [CtlIds -> [host : Hosts \cup {None}, rw : SUBSET Reps,
                         st : {"new", "none", "stopped", "running"}]]
  /\ repBox \in [Reps -> {"new", "none", "stopped", "running"}]
  /\ up \in [Hosts -> {"down", "starting", "up"}]
  /\ monitors \in [Hosts -> Mons \cup {None}]
  /\ open \in [Mons -> BOOLEAN]
  /\ died \in BOOLEAN
  /\ reqs \in Nat /\ faults \in Nat /\ deaths \in Nat /\ crashes \in Nat

\* A step that moves a thread and leaves the monitors' map and channels alone
\* preserves the invariant when it keeps the types.
LEMMA MovePreserves ==
  ASSUME MonitorInv, NEW t \in Threads, Moved(t), UNCHANGED <<monitors, open>>,
         StateTypes', \A r \in Reps : repBox[r] # "new" => repBox'[r] # "new"
  PROVE  MonitorInv'
<1>1. OneLiveMonitor'
  BY MovedMonitor
<1>2. /\ th' \in [Threads -> Thread]
      /\ \A s \in Threads : ThreadOK(s, th'[s])
      /\ Touched'
  BY MovedThreads
<1>3. TypeOK'
  BY <1>2 DEF StateTypes, TypeOK
<1>4. (\A s \in Threads : ThreadOK(s, th[s]))'
  BY <1>2 DEF ThreadOK
<1> QED
  BY <1>1, <1>2, <1>3, <1>4 DEF MonitorInv

\* The types follow from the invariant.
LEMMA TypesNow == MonitorInv => StateTypes
  BY DEF MonitorInv, TypeOK, StateTypes

\* A controller container changes its state.
LEMMA BoxTypes ==
  ASSUME StateTypes, NEW c, NEW s \in {"none", "stopped"}, box' = [box EXCEPT ![c].st = s]
  PROVE  box' \in [CtlIds -> [host : Hosts \cup {None}, rw : SUBSET Reps,
                              st : {"new", "none", "stopped", "running"}]]
<1> DEFINE Box == [host : Hosts \cup {None}, rw : SUBSET Reps,
                   st : {"new", "none", "stopped", "running"}]
<1>1. box' = [d \in CtlIds |-> IF d = c THEN [box[d] EXCEPT !.st = s] ELSE box[d]]
  BY DEF StateTypes
<1>2. ASSUME NEW x \in Box PROVE [x EXCEPT !.st = s] \in Box
  BY <1>2, SMT
<1>3. \A d \in CtlIds : box[d] \in Box
  BY DEF StateTypes
<1> HIDE DEF Box
<1>4. box' \in [CtlIds -> Box]
  BY <1>1, <1>2, <1>3
<1> QED BY <1>4 DEF Box

\* Every step of Detach and doDetach preserves the invariant.
LEMMA DetachPreserves ==
  ASSUME MonitorInv, NEW t \in Threads, DetachStep(t)
  PROVE  MonitorInv'
<1> USE TypesNow
<1>0. th[t] \in Thread /\ ThreadOK(t, th[t])
  BY DEF MonitorInv, TypeOK
<1>1. CASE DetachGet(t)
  <2>1. th[t].pc # "idle"
    BY <1>1 DEF DetachGet
  <2>2. CASE base
    <3> DEFINE v == [ctl |-> ctl, rep |-> rep]
               x == [th[t] EXCEPT !.det = v, !.pc = "unmonitor"]
    <3>1. v \in Volume
      BY DEF StateTypes, Volume
    <3>2. th' = [th EXCEPT ![t] = x]
      BY <1>1, <2>2 DEF DetachGet
    <3> HIDE DEF v
    <3>3. /\ x \in Thread /\ x.pc = "unmonitor" /\ x.host = th[t].host
          /\ x.left = th[t].left /\ x.kind = th[t].kind
      BY <1>0, <3>1 DEF Thread, Labels
    <3> HIDE DEF x
    <3>4. Moved(t)
      BY <1>0, <2>1, <3>2, <3>3, UpdateMoves DEF ThreadOK, MonitorLabels
    <3> QED
      BY <1>1, <3>4, MovePreserves DEF DetachGet, StateTypes, kv, boxes, mgr, luck
  <2>3. CASE ~base
    <3>1. Moved(t)
      BY <1>1, <2>1, <2>3, AfterDetachMoves DEF DetachGet
    <3> QED
      BY <1>1, <3>1, MovePreserves DEF DetachGet, StateTypes, kv, boxes, mgr, luck
  <2> QED
    BY <2>2, <2>3
<1>3. CASE StopController(t)
  <2>1. th[t].pc # "idle"
    BY <1>3 DEF StopController
  <2>2. Moved(t)
    BY <1>3, <2>1, GotoMoves, DetachFailsMoves DEF StopController, Labels, MonitorLabels
  <2>3. StateTypes'
    <3>1. UNCHANGED box \/ \E c : box' = [box EXCEPT ![c].st = "stopped"]
      BY <1>3 DEF StopController
    <3>2. box' \in [CtlIds -> [host : Hosts \cup {None}, rw : SUBSET Reps,
                               st : {"new", "none", "stopped", "running"}]]
      BY <3>1, BoxTypes DEF StateTypes
    <3>3. UNCHANGED <<base, ctl, rep, repBox, up, monitors, open, died, reqs, faults, deaths, crashes>>
      BY <1>3 DEF StopController, kv, mgr, luck
    <3> QED BY <3>2, <3>3 DEF StateTypes
  <2> QED
    BY <1>3, <2>2, <2>3, MovePreserves DEF StopController, mgr
<1>4. CASE StopControllerCheck(t)
  <2>1. Moved(t)
    BY <1>4, GotoMoves, DetachFailsMoves DEF StopControllerCheck, Labels, MonitorLabels
  <2> QED
    BY <1>4, <2>1, MovePreserves DEF StopControllerCheck, StateTypes, kv, boxes, mgr, luck
<1>5. CASE StopControllerSet(t)
  <2>1. Moved(t)
    BY <1>5, FanOutMoves DEF StopControllerSet, StopReplicas, Labels, MonitorLabels
  <2>2. ctl' \in Controller
    BY <1>0, <1>5 DEF StopControllerSet, Thread, Volume, Controller
  <2> QED
    BY <1>5, <2>1, <2>2, MovePreserves DEF StopControllerSet, StateTypes, boxes, mgr, luck
<1>6. CASE ReplicasStopped(t)
  <2>1. Moved(t)
    BY <1>6, GotoMoves, FailMoves, AfterDetachMoves
       DEF ReplicasStopped, Joined, Labels, MonitorLabels
  <2> QED
    BY <1>6, <2>1, MovePreserves DEF ReplicasStopped, StateTypes, kv, boxes, mgr, luck
<1>7. CASE RemoveController(t)
  <2>1. Moved(t)
    BY <1>7, GotoMoves, DetachFailsMoves DEF RemoveController, Labels, MonitorLabels
  <2>2. StateTypes'
    <3>1. UNCHANGED box \/ \E c : box' = [box EXCEPT ![c].st = "none"]
      BY <1>7 DEF RemoveController
    <3>2. box' \in [CtlIds -> [host : Hosts \cup {None}, rw : SUBSET Reps,
                               st : {"new", "none", "stopped", "running"}]]
      BY <3>1, BoxTypes DEF StateTypes
    <3>3. UNCHANGED <<base, ctl, rep, repBox, up, monitors, open, died, reqs, faults, deaths, crashes>>
      BY <1>7 DEF RemoveController, kv, mgr, luck
    <3> QED BY <3>2, <3>3 DEF StateTypes
  <2> QED
    BY <1>7, <2>1, <2>2, MovePreserves DEF RemoveController, mgr
<1>8. CASE RemoveControllerCheck(t)
  <2>1. Moved(t)
    BY <1>8, GotoMoves, DetachFailsMoves DEF RemoveControllerCheck, Labels, MonitorLabels
  <2> QED
    BY <1>8, <2>1, MovePreserves DEF RemoveControllerCheck, StateTypes, kv, boxes, mgr, luck
<1>9. CASE RemoveControllerDelete(t)
  <2>1. Moved(t)
    BY <1>9, AfterDetachMoves DEF RemoveControllerDelete
  <2>2. ctl' \in Controller
    BY <1>9, ManagerAssumption, SMT DEF RemoveControllerDelete, NoCtl, Controller
  <2> QED
    BY <1>9, <2>1, <2>2, MovePreserves DEF RemoveControllerDelete, StateTypes, boxes, mgr, luck
<1>10. CASE StopMonitoring(t)
  <2> DEFINE h == th[t].host
  <2>1. Moved(t)
    BY <1>10, GotoMoves, FanOutMoves DEF StopMonitoring, StopReplicas, Labels, MonitorLabels
  <2>2. /\ monitors' = [monitors EXCEPT ![h] = None]
        /\ open' = [m \in Mons |-> open[m] /\ m # monitors[h]]
        /\ UNCHANGED <<base, ctl, rep, box, repBox, up, died, reqs, faults, deaths, crashes>>
    BY <1>10 DEF StopMonitoring, CloseMonitor, kv, boxes, luck
  <2>3. StateTypes'
    BY <2>2 DEF StateTypes
  <2>4. OneLiveMonitor'
    <3> SUFFICES ASSUME NEW m \in Mons, open'[m]
                 PROVE  th'[m].host \in Hosts /\ monitors'[th'[m].host] = m
      BY DEF OneLiveMonitor
    <3>1. open[m] /\ m # monitors[h]
      BY <2>2
    <3>2. th[m].host \in Hosts /\ monitors[th[m].host] = m
      BY <3>1 DEF MonitorInv, OneLiveMonitor
    <3>3. th'[m].host = th[m].host
      BY <2>1, <3>1 DEF Moved, MonitorInv, TypeOK, Threads
    <3> QED
      BY <2>2, <3>1, <3>2, <3>3 DEF StateTypes
  <2>5. /\ th' \in [Threads -> Thread]
        /\ \A s \in Threads : ThreadOK(s, th'[s])
        /\ Touched'
    BY <2>1, <2>2, MovedThreads
  <2> QED
    BY <2>3, <2>4, <2>5 DEF MonitorInv, TypeOK, StateTypes, ThreadOK
<1> QED
  BY <1>1, <1>3, <1>4, <1>5, <1>6, <1>7, <1>8, <1>9, <1>10 DEF DetachStep

\* startMonitoring registers a monitor where none is registered, and starts its
\* goroutine with an open channel.
LEMMA StartMonitoringPreserves ==
  ASSUME MonitorInv, NEW t \in Threads, StartMonitoring(t)
  PROVE  MonitorInv'
<1> DEFINE h == th[t].host
<1>1. t \notin Mons /\ th[t].pc # "idle" /\ h \in Hosts /\ th[t].made \in 0..MaxCtl
  BY DEF StartMonitoring, MonitorInv, TypeOK, ThreadOK, MonitorLabels, Thread
<1>2. UNCHANGED <<base, ctl, rep, box, repBox, died, reqs, faults, deaths, crashes>>
  BY DEF StartMonitoring, kv, boxes, luck
<1>3. up' \in [Hosts -> {"down", "starting", "up"}]
  BY DEF StartMonitoring, MonitorInv, TypeOK
<1> DEFINE a == Attached(t)
<1>0. ThreadOK(t, a) /\ a \in Thread /\ \A r \in Reps : a.left[r] \in {"off", th[t].left[r]}
  <2>1. CASE th[t].kind # "restore"
    BY <2>1, IdleOK DEF Attached, ThreadOK, Idle, NoCalls
  <2>2. CASE th[t].kind = "restore"
    <3>1. th[t] \in Thread
      BY DEF MonitorInv, TypeOK
    <3>2. a = [th[t] EXCEPT !.pc = "restore"]
      BY <2>2 DEF Attached
    <3>3. a \in Thread /\ a.pc = "restore" /\ a.host = h /\ a.left = th[t].left
      BY <3>1, <3>2 DEF Thread, Labels
    <3> QED
      BY <1>1, <3>3 DEF ThreadOK
  <2> QED
    BY <2>1, <2>2
<1> HIDE DEF a
<1>4. CASE th' = [th EXCEPT ![t] = a] /\ UNCHANGED <<monitors, open>>
  <2>1. Moved(t)
    BY <1>0, <1>1, <1>4 DEF Moved
  <2> QED
    BY <1>2, <1>3, <1>4, <2>1, MovePreserves, TypesNow DEF StateTypes
<1>5. CASE ~(th' = [th EXCEPT ![t] = a] /\ UNCHANGED <<monitors, open>>)
  <2>1. /\ monitors[h] = None
        /\ \E m \in Mons :
              /\ Free(m)
              /\ monitors' = [monitors EXCEPT ![h] = m]
              /\ open' = [open EXCEPT ![m] = TRUE]
              /\ th' = [th EXCEPT ![t] = a, ![m] = Watching(h, th[t].made)]
    BY <1>5 DEF StartMonitoring, Monitored, a
  <2>2. PICK m \in Mons :
          /\ Free(m)
          /\ monitors' = [monitors EXCEPT ![h] = m]
          /\ open' = [open EXCEPT ![m] = TRUE]
          /\ th' = [th EXCEPT ![t] = a, ![m] = Watching(h, th[t].made)]
    BY <2>1
  <2> DEFINE w == Watching(h, th[t].made)
  <2>3. ThreadOK(m, w) /\ w.host = h /\ w.left = NoCalls /\ w \in Thread
    BY <1>1, WatchingOK, SMT DEF Threads, ThreadOK
  <2> HIDE DEF w
  <2>5. th' = [th EXCEPT ![t] = a, ![m] = w]
    BY <2>2 DEF w
  <2>6. /\ th' \in [Threads -> Thread]
        /\ \A s \in Threads : th'[s] = IF s = m THEN w ELSE IF s = t THEN a ELSE th[s]
    BY <1>0, <1>1, <2>3, <2>5 DEF MonitorInv, TypeOK, Threads
  <2>7. \A s \in Threads : ThreadOK(s, th'[s])
    BY <1>0, <2>3, <2>6 DEF MonitorInv
  <2>8. Touched'
    BY <1>0, <1>2, <2>3, <2>6, SMT DEF MonitorInv, Touched, NoCalls
  <2>9. /\ monitors' \in [Hosts -> Mons \cup {None}] /\ open' \in [Mons -> BOOLEAN]
        /\ monitors'[h] = m /\ \A g \in Hosts \ {h} : monitors'[g] = monitors[g]
        /\ \A n \in Mons : open'[n] => n = m \/ open[n]
    BY <1>1, <2>2 DEF MonitorInv, TypeOK
  <2>10. OneLiveMonitor'
    <3> SUFFICES ASSUME NEW n \in Mons, open'[n]
                 PROVE  th'[n].host \in Hosts /\ monitors'[th'[n].host] = n
      BY DEF OneLiveMonitor
    <3>1. CASE n = m
      BY <1>1, <2>3, <2>6, <2>9, <3>1 DEF Threads
    <3>2. CASE n # m
      <4>1. open[n] /\ th[n].host \in Hosts /\ monitors[th[n].host] = n /\ n # None
        BY <2>9, <3>2, ManagerAssumption DEF MonitorInv, OneLiveMonitor
      <4>2. th[n].host # h
        BY <2>1, <4>1
      <4>3. th'[n] = th[n]
        BY <1>1, <2>6, <3>2 DEF Threads
      <4> QED
        BY <2>9, <4>1, <4>2, <4>3
    <3> QED
      BY <3>1, <3>2
  <2> QED
    BY <1>2, <1>3, <2>6, <2>7, <2>8, <2>9, <2>10 DEF MonitorInv, TypeOK, ThreadOK
<1> QED
  BY <1>4, <1>5

\* doAttach of the volume just read.
LEMMA BeginAttachMoves ==
  ASSUME MonitorInv, NEW t \in Threads, th[t].pc # "idle",
         th[t].kind \in {"attach", "restore"}, BeginAttach(t)
  PROVE  Moved(t)
<1> DEFINE v == [ctl |-> ctl, rep |-> rep]
           f == [r \in Reps |-> IF rep[r] = "running" THEN "box" ELSE "off"]
           x1 == [th[t] EXCEPT !.vol = v, !.made = ctl.id, !.pc = "monitor"]
           x2 == [th[t] EXCEPT !.vol = v, !.pc = "detach"]
           x3 == [th[t] EXCEPT !.vol = v, !.pc = "stopold", !.left = f]
<1>0. th[t] \in Thread /\ ThreadOK(t, th[t])
  BY DEF MonitorInv, TypeOK
<1>1. t \notin Mons
  BY <1>0 DEF ThreadOK
<1>2. Return(t) \/ th' = [th EXCEPT ![t] = x1] \/ th' = [th EXCEPT ![t] = x2]
        \/ th' = [th EXCEPT ![t] = x3]
  BY DEF BeginAttach
<1>3. v \in Volume /\ ctl.id \in 0..MaxCtl /\ f \in [Reps -> {"off", "box"}]
  BY TypesNow DEF StateTypes, Volume, Controller
<1> HIDE DEF v, f
<1>4. x1 \in Thread /\ x1.pc = "monitor" /\ x1.host = th[t].host /\ x1.left = th[t].left
  BY <1>0, <1>3 DEF Thread, Labels
<1>5. x2 \in Thread /\ x2.pc = "detach" /\ x2.host = th[t].host /\ x2.left = th[t].left
  BY <1>0, <1>3 DEF Thread, Labels
<1>6. x3 \in Thread /\ x3.pc = "stopold" /\ x3.host = th[t].host /\ x3.left = f
  <2>1. "stopold" \in Labels /\ f \in [Reps -> {"off", "box", "get", "stopped", "running", "nil"}]
    BY <1>3 DEF Labels
  <2> DEFINE Calls == [Reps -> {"off", "box", "get", "stopped", "running", "nil"}]
  <2>2. ASSUME NEW x \in Thread, NEW g \in Calls, NEW w \in Volume
        PROVE  [x EXCEPT !.vol = w, !.pc = "stopold", !.left = g] \in Thread
    <3> HIDE DEF Calls
    <3> QED BY <2>1, <2>2 DEF Thread, Calls
  <2>4. x3 \in Thread
    BY <1>0, <1>3, <2>1, <2>2
  <2>3. x3.pc = "stopold" /\ x3.host = th[t].host /\ x3.left = f
    BY <1>0, SMT DEF Thread
  <2> QED BY <2>3, <2>4
<1> HIDE DEF x1, x2, x3
<1>7. th' = [th EXCEPT ![t] = x3] => Moved(t)
  BY <1>0, <1>1, <1>3, <1>6 DEF Moved, ThreadOK
<1> QED
  BY <1>1, <1>2, <1>4, <1>5, <1>7, ReturnMoves, UpdateMoves

\* Every step of Attach and doAttach preserves the invariant.
LEMMA AttachPreserves ==
  ASSUME MonitorInv, NEW t \in Threads, AttachStep(t)
  PROVE  MonitorInv'
<1> USE TypesNow
<1>0. /\ th[t] \in Thread /\ ThreadOK(t, th[t])
      /\ t \in Mons => th[t].pc \in MonitorLabels /\ th[t].kind \in {"none", "monitor", "nogood"}
  BY DEF MonitorInv, TypeOK, ThreadOK
<1>1. CASE AttachGet(t)
  <2>1. Moved(t)
    BY <1>0, <1>1, BeginAttachMoves DEF AttachGet
  <2> QED
    BY <1>1, <2>1, MovePreserves DEF AttachGet, StateTypes, kv, boxes, mgr, luck
<1>2. CASE OldStopped(t)
  <2>1. Moved(t)
    BY <1>2, <1>0, FanOutMoves, FailMoves DEF OldStopped, Joined, Labels, MonitorLabels
  <2> QED
    BY <1>2, <2>1, MovePreserves DEF OldStopped, StateTypes, kv, boxes, mgr, luck
<1>3. CASE ReplicasStarted(t)
  <2>1. Moved(t)
    BY <1>3, <1>0, GotoMoves, FailMoves DEF ReplicasStarted, Joined, Labels, MonitorLabels
  <2> QED
    BY <1>3, <2>1, MovePreserves DEF ReplicasStarted, StateTypes, kv, boxes, mgr, luck
<1>4. CASE PrepareCreateController(t)
  <2>1. Moved(t)
    BY <1>4, <1>0, GotoMoves, ReturnMoves, FailMoves DEF PrepareCreateController, Labels, MonitorLabels
  <2> QED
    BY <1>4, <2>1, MovePreserves DEF PrepareCreateController, StateTypes, kv, boxes, mgr, luck
<1>5. CASE CreateContainer(t)
  <2>1. t \notin Mons /\ th[t].pc # "idle" /\ th[t].host \in Hosts
    BY <1>0, <1>5 DEF CreateContainer, MonitorLabels, ThreadOK
  <2>2. CASE Fail(t) /\ UNCHANGED box
    <3>1. Moved(t)
      BY <2>1, <2>2, FailMoves
    <3> QED
      BY <1>5, <2>2, <3>1, MovePreserves DEF CreateContainer, StateTypes, kv, mgr, luck
  <2>3. CASE ~(Fail(t) /\ UNCHANGED box)
    <3>1. PICK c \in CtlIds :
            /\ box' = [box EXCEPT ![c] = [host |-> th[t].host, st |-> "stopped", rw |-> {}]]
            /\ th' = [th EXCEPT ![t].made = c, ![t].pc = "start"]
      BY <1>5, <2>3 DEF CreateContainer
    <3> DEFINE x == [th[t] EXCEPT !.made = c, !.pc = "start"]
    <3>2. th' = [th EXCEPT ![t] = x]
      BY <3>1
    <3>3. c \in 0..MaxCtl
      BY ManagerAssumption, SMT DEF CtlIds
    <3>4. x \in Thread /\ x.pc = "start" /\ x.host = th[t].host /\ x.left = th[t].left
      BY <1>0, <3>3 DEF Thread, Labels
    <3> HIDE DEF x
    <3>5. Moved(t)
      BY <2>1, <3>2, <3>4, UpdateMoves
    <3>6. box' \in [CtlIds -> [host : Hosts \cup {None}, rw : SUBSET Reps,
                              st : {"new", "none", "stopped", "running"}]]
      BY <2>1, <3>1 DEF StateTypes
    <3> QED
      BY <1>5, <3>5, <3>6, MovePreserves DEF CreateContainer, StateTypes, kv, mgr, luck
  <2> QED
    BY <2>2, <2>3
<1>6. CASE StartContainer(t)
  <2>1. Moved(t)
    BY <1>0, <1>6, GotoMoves DEF StartContainer, Labels, MonitorLabels
  <2>2. box' \in [CtlIds -> [host : Hosts \cup {None}, rw : SUBSET Reps,
                            st : {"new", "none", "stopped", "running"}]]
    <3>1. CASE UNCHANGED box
      BY <3>1 DEF StateTypes
    <3>2. CASE box' = [box EXCEPT ![th[t].made].st = "running", ![th[t].made].rw = Has(th[t].vol)]
      <4>1. Has(th[t].vol) \in SUBSET Reps
        BY DEF Has
      <4>2. \A c \in CtlIds : box'[c] =
              IF c = th[t].made
              THEN [box[c] EXCEPT !.st = "running", !.rw = Has(th[t].vol)] ELSE box[c]
        BY <3>2 DEF StateTypes
      <4>3. box' = [c \in CtlIds |-> box'[c]]
        BY <3>2 DEF StateTypes
      <4>4. \A c \in CtlIds : box'[c] \in [host : Hosts \cup {None}, rw : SUBSET Reps,
                                         st : {"new", "none", "stopped", "running"}]
        <5> DEFINE Box == [host : Hosts \cup {None}, rw : SUBSET Reps,
                           st : {"new", "none", "stopped", "running"}]
        <5>1. ASSUME NEW x \in Box, NEW R \in SUBSET Reps
              PROVE  [x EXCEPT !.st = "running", !.rw = R] \in Box
          <6>1. [x EXCEPT !.st = "running"] \in Box
            BY <5>1, SMT
          <6>2. ASSUME NEW y \in Box PROVE [y EXCEPT !.rw = R] \in Box
            BY <5>1, <6>2, SMT
          <6> QED BY <6>1, <6>2
        <5>2. \A c \in CtlIds : box[c] \in Box
          BY DEF StateTypes
        <5> DEFINE S == Has(th[t].vol)
        <5> HIDE DEF Box, S
        <5>4. ASSUME NEW c \in CtlIds PROVE box'[c] \in Box
          <6>1. S \in SUBSET Reps /\ box[c] \in Box
            BY <4>1, <5>2 DEF S
          <6>2. [box[c] EXCEPT !.st = "running", !.rw = S] \in Box
            BY <5>1, <6>1
          <6>3. box'[c] = [box[c] EXCEPT !.st = "running", !.rw = S] \/ box'[c] = box[c]
            BY <4>2 DEF S
          <6> QED BY <6>1, <6>2, <6>3
        <5> QED BY <5>4 DEF Box
      <4> QED
        BY <4>3, <4>4
    <3> QED
      BY <1>6, <3>1, <3>2 DEF StartContainer
  <2> QED
    BY <1>6, <2>1, <2>2, MovePreserves DEF StartContainer, StateTypes, kv, mgr, luck
<1>7. CASE WaitForEngine(t)
  <2>1. Moved(t)
    BY <1>0, <1>7, GotoMoves, FailMoves DEF WaitForEngine, Labels, MonitorLabels
  <2>2. StateTypes'
    BY <1>7, SMTT(30) DEF WaitForEngine, CleanUp, StateTypes, kv, mgr, luck
  <2> QED
    BY <1>7, <2>1, <2>2, MovePreserves DEF WaitForEngine, mgr
<1>8. CASE ControllerCheck(t)
  <2>1. Moved(t)
    BY <1>0, <1>8, GotoMoves, FailMoves DEF ControllerCheck, Labels, MonitorLabels
  <2>2. StateTypes'
    BY <1>8, SMT DEF ControllerCheck, CleanUp, StateTypes, kv, mgr, luck
  <2> QED
    BY <1>8, <2>1, <2>2, MovePreserves DEF ControllerCheck, mgr
<1>9. CASE ControllerSet(t)
  <2>1. Moved(t)
    BY <1>0, <1>9, GotoMoves DEF ControllerSet, Labels, MonitorLabels
  <2>2. ctl' \in Controller
    BY <1>0, <1>9 DEF ControllerSet, Thread, Controller
  <2> QED
    BY <1>9, <2>1, <2>2, MovePreserves DEF ControllerSet, StateTypes, boxes, mgr, luck
<1>10. CASE StartMonitoring(t)
  BY <1>10, StartMonitoringPreserves
<1> QED
  BY <1>1, <1>2, <1>3, <1>4, <1>5, <1>6, <1>7, <1>8, <1>9, <1>10 DEF AttachStep

\* Every step of Create, Delete and Start preserves the invariant.
LEMMA VolumePreserves ==
  ASSUME MonitorInv, NEW t \in Threads, VolumeStep(t)
  PROVE  MonitorInv'
<1> USE TypesNow
<1>0. /\ th[t] \in Thread /\ ThreadOK(t, th[t])
      /\ t \in Mons => th[t].pc \in MonitorLabels /\ th[t].kind \in {"none", "monitor", "nogood"}
  BY DEF MonitorInv, TypeOK, ThreadOK
<1>1. CASE CreateGet(t)
  <2>1. Moved(t)
    BY <1>1, <1>0, GotoMoves, ReturnMoves DEF CreateGet, Labels, MonitorLabels
  <2> QED
    BY <1>1, <2>1, MovePreserves DEF CreateGet, StateTypes, kv, boxes, mgr, luck
<1>8. CASE CreateCheck(t)
  <2>1. Moved(t)
    BY <1>8, <1>0, GotoMoves, ReturnMoves DEF CreateCheck, Labels, MonitorLabels
  <2> QED
    BY <1>8, <2>1, MovePreserves DEF CreateCheck, StateTypes, kv, boxes, mgr, luck
<1>2. CASE CreateVolume(t)
  <2>1. Moved(t)
    BY <1>0, <1>2, FanOutMoves DEF CreateVolume, Labels, MonitorLabels
  <2>2. StateTypes'
    BY <1>2 DEF CreateVolume, StateTypes, boxes, mgr, luck
  <2> QED
    BY <1>2, <2>1, <2>2, MovePreserves DEF CreateVolume, boxes, mgr
<1>3. CASE Created(t)
  <2>1. Moved(t)
    BY <1>3, ReturnMoves, BeginAttachMoves DEF Created, Joined
  <2> QED
    BY <1>3, <2>1, MovePreserves DEF Created, StateTypes, kv, boxes, mgr, luck
<1>7. CASE Restore(t)
  <2> DEFINE v == [ctl |-> [id |-> th[t].made, running |-> TRUE], rep |-> th[t].vol.rep]
             x == [th[t] EXCEPT !.kind = "restored", !.pc = "unmonitor", !.det = v]
  <2>1. t \notin Mons /\ th[t].pc # "idle"
    BY <1>0, <1>7 DEF Restore, MonitorLabels
  <2>2. v \in Volume
    BY <1>0 DEF Thread, Volume, Controller
  <2>3. Fail(t) \/ th' = [th EXCEPT ![t] = x]
    BY <1>7 DEF Restore
  <2> HIDE DEF v
  <2>4. x \in Thread /\ x.pc = "unmonitor" /\ x.host = th[t].host /\ x.left = th[t].left
    BY <1>0, <2>2 DEF Thread, Labels
  <2> HIDE DEF x
  <2>5. Moved(t)
    BY <2>1, <2>3, <2>4, FailMoves, UpdateMoves
  <2> QED
    BY <1>7, <2>5, MovePreserves DEF Restore, StateTypes, kv, boxes, mgr, luck
<1>4. CASE DeleteGet(t)
  <2> DEFINE v == [ctl |-> ctl, rep |-> rep]
             x == [th[t] EXCEPT !.det = v, !.pc = "unmonitor"]
  <2>1. t \notin Mons /\ th[t].pc # "idle"
    BY <1>0, <1>4 DEF DeleteGet
  <2>2. v \in Volume
    BY DEF StateTypes, Volume
  <2>3. Return(t) \/ th' = [th EXCEPT ![t] = x]
    BY <1>4 DEF DeleteGet
  <2> HIDE DEF v
  <2>4. x \in Thread /\ x.pc = "unmonitor" /\ x.host = th[t].host /\ x.left = th[t].left
    BY <1>0, <2>2 DEF Thread, Labels
  <2> HIDE DEF x
  <2>5. Moved(t)
    BY <2>1, <2>3, <2>4, ReturnMoves, UpdateMoves
  <2> QED
    BY <1>4, <2>5, MovePreserves DEF DeleteGet, StateTypes, kv, boxes, mgr, luck
<1>5. CASE DeleteVolume(t)
  <2>1. Moved(t)
    BY <1>5, ReturnMoves DEF DeleteVolume, Joined
  <2>2. ctl' \in Controller
    BY <1>5, ManagerAssumption, SMT DEF DeleteVolume, NoCtl, Controller
  <2>3. rep' \in Replicas /\ base' \in BOOLEAN
    BY <1>5 DEF DeleteVolume, Replicas
  <2> QED
    BY <1>5, <2>1, <2>2, <2>3, MovePreserves DEF DeleteVolume, StateTypes, boxes, mgr, luck
<1>6. CASE StartList(t)
  <2> DEFINE x == [th[t] EXCEPT !.made = ctl.id, !.pc = "monitor"]
  <2>1. t \notin Mons /\ th[t].pc # "idle"
    BY <1>0, <1>6 DEF StartList
  <2>2. Return(t) \/ th' = [th EXCEPT ![t] = x]
    BY <1>6 DEF StartList
  <2>3. ctl.id \in 0..MaxCtl
    BY DEF StateTypes, Controller
  <2>4. x \in Thread /\ x.pc = "monitor" /\ x.host = th[t].host /\ x.left = th[t].left
    BY <1>0, <2>3 DEF Thread, Labels
  <2> HIDE DEF x
  <2>5. Moved(t)
    BY <2>1, <2>2, <2>4, ReturnMoves, UpdateMoves
  <2>6. StateTypes'
    BY <1>6 DEF StartList, StateTypes, kv, boxes, luck
  <2> QED
    BY <1>6, <2>5, <2>6, MovePreserves DEF StartList, boxes
<1> QED
  BY <1>1, <1>2, <1>3, <1>4, <1>5, <1>6, <1>7, <1>8 DEF VolumeStep

\* Every step of a call for a replica preserves the invariant.
LEMMA ReplicaPreserves ==
  ASSUME MonitorInv, NEW t \in Threads, NEW r \in Reps,
         ReplicaContainer(t, r) \/ ReplicaCheck(t, r) \/ ReplicaSet(t, r)
  PROVE  MonitorInv'
<1> USE TypesNow
<1>0. th[t] \in Thread /\ ThreadOK(t, th[t]) /\ th[t].left[r] # "off"
  <2>1. th[t] \in Thread /\ ThreadOK(t, th[t])
    BY DEF MonitorInv, TypeOK
  <2>2. th[t].left[r] # "off"
    BY DEF ReplicaContainer, ReplicaCheck, ReplicaSet
  <2> QED BY <2>1, <2>2
<1>1. th[t].pc # "idle"
  BY <1>0, SMT DEF ThreadOK, Idle, NoCalls
\* The call for r goes on, or ends.
<1>2. ASSUME NEW l \in {"off", "box", "get", "stopped", "running", "nil"},
             th' = [th EXCEPT ![t].left[r] = l],
             l # "off" => repBox'[r] # "new"
      PROVE  Moved(t)
  <2> DEFINE x == [th[t] EXCEPT !.left[r] = l]
  <2>1. th' = [th EXCEPT ![t] = x]
    BY <1>2
  <2>2. /\ x \in Thread /\ x.host = th[t].host /\ x.pc = th[t].pc /\ x.kind = th[t].kind
        /\ \A q \in Reps : x.left[q] = IF q = r THEN l ELSE th[t].left[q]
    BY <1>0 DEF Thread
  <2>3. ThreadOK(t, x)
    BY <1>0, <1>1, <2>2 DEF ThreadOK
  <2> HIDE DEF x
  <2>4. \A q \in Reps : x.left[q] \notin {"off", "box"} =>
          x.left[q] = th[t].left[q] \/ repBox'[q] # "new"
    BY <1>2, <2>2
  <2> QED
    BY <2>1, <2>2, <2>3, <2>4 DEF Moved
<1>3. CASE ReplicaContainer(t, r)
  <2>1. ContainerAfter(Doing(t)) \in {"none", "stopped", "running"}
    BY DEF ContainerAfter
  <2>2. CASE UNCHANGED boxes
    <3>1. \/ th' = [th EXCEPT ![t].left[r] = "off"]
          \/ ReplicaFails(t, r)
          \/ /\ th' = [th EXCEPT ![t].left[r] = "get"]
             /\ repBox' = [repBox EXCEPT ![r] = ContainerAfter(Doing(t))]
      BY <1>3 DEF ReplicaContainer
    <3>2. repBox' = [repBox EXCEPT ![r] = ContainerAfter(Doing(t))] => repBox'[r] # "new"
      BY <2>1 DEF StateTypes
    <3>3. Moved(t)
      BY <1>0, <1>2, <3>1, <3>2, ReplicaFailsMoves
    <3> QED
      BY <1>3, <2>2, <3>3, MovePreserves DEF ReplicaContainer, StateTypes, kv, boxes, mgr, luck
  <2>3. CASE ~UNCHANGED boxes
    <3>1. /\ repBox' = [repBox EXCEPT ![r] = ContainerAfter(Doing(t))]
          /\ box' = [c \in CtlIds |-> [box[c] EXCEPT !.rw = @ \ {r}]] \/ box' = box
          /\ th' = [th EXCEPT ![t].left[r] = "get"]
      BY <1>3, <2>3 DEF ReplicaContainer
    <3>2. /\ repBox' \in [Reps -> {"new", "none", "stopped", "running"}]
          /\ repBox'[r] # "new"
          /\ \A q \in Reps : repBox[q] # "new" => repBox'[q] # "new"
      BY <2>1, <3>1 DEF StateTypes
    <3>3. Moved(t)
      BY <1>2, <3>1, <3>2
    <3>4. box' \in [CtlIds -> [host : Hosts \cup {None}, rw : SUBSET Reps,
                              st : {"new", "none", "stopped", "running"}]]
      <4> DEFINE B == [host : Hosts \cup {None}, rw : SUBSET Reps,
                       st : {"new", "none", "stopped", "running"}]
      <4>1. \A c \in CtlIds : box[c] \in B /\ [box[c] EXCEPT !.rw = @ \ {r}] \in B
        BY SMT DEF StateTypes
      <4> QED
        BY <3>1, <4>1 DEF StateTypes
    <3> QED
      BY <1>3, <3>2, <3>3, <3>4, MovePreserves DEF ReplicaContainer, StateTypes, kv, mgr, luck
  <2> QED
    BY <2>2, <2>3
<1>4. CASE ReplicaCheck(t, r)
  <2>1. repBox[r] # "new" /\ repBox' = repBox
    BY <1>4 DEF ReplicaCheck, MonitorInv, Touched, boxes
  <2>2. \/ ReplicaFails(t, r)
        \/ \E l \in {"stopped", "running", "nil"} : th' = [th EXCEPT ![t].left[r] = l]
    BY <1>4, <2>1 DEF ReplicaCheck, StateTypes
  <2>3. Moved(t)
    BY <1>0, <1>2, <2>1, <2>2, ReplicaFailsMoves
  <2> QED
    BY <1>4, <2>3, MovePreserves DEF ReplicaCheck, StateTypes, kv, boxes, mgr, luck
<1>5. CASE ReplicaSet(t, r)
  <2>1. Moved(t)
    BY <1>2, <1>5 DEF ReplicaSet
  <2>2. rep' \in Replicas
    BY <1>5 DEF ReplicaSet, StateTypes, Replicas
  <2> QED
    BY <1>5, <2>1, <2>2, MovePreserves DEF ReplicaSet, StateTypes, boxes, mgr, luck
<1> QED
  BY <1>3, <1>4, <1>5

\* The end of a manager process preserves the invariant: it takes the
\* registered monitor and the goroutines of its host with it.
LEMMA ExitPreserves ==
  ASSUME MonitorInv, NEW h \in Hosts, Exit(h), UNCHANGED <<kv, boxes>>,
         reqs' \in Nat, faults' \in Nat, deaths' \in Nat, crashes' \in Nat
  PROVE  MonitorInv'
<1>1. \A t \in Threads : th'[t] = IF th[t].host = h THEN Idle ELSE th[t]
  BY DEF Exit
<1>2. \A t \in Threads : Idle \in Thread /\ ThreadOK(t, Idle) /\ Idle.left = NoCalls
  BY IdleOK DEF ThreadOK, Idle
<1>3. th' \in [Threads -> Thread]
  BY <1>2 DEF Exit, MonitorInv, TypeOK
<1>4. \A t \in Threads : ThreadOK(t, th'[t])
  <2>1. \A t \in Threads : ThreadOK(t, th[t])
    BY DEF MonitorInv
  <2> QED BY <1>1, <1>2, <2>1
<1>5. Touched'
  BY <1>1, <1>2, SMTT(30) DEF MonitorInv, Touched, NoCalls, boxes
<1>6. StateTypes'
  BY TypesNow DEF StateTypes, Exit, kv, boxes
<1>7. OneLiveMonitor'
  <2> SUFFICES ASSUME NEW m \in Mons, open'[m]
               PROVE  th'[m].host \in Hosts /\ monitors'[th'[m].host] = m
    BY DEF OneLiveMonitor
  <2>1. open[m] /\ th[m].host # h
    BY DEF Exit
  <2>2. th[m].host \in Hosts /\ monitors[th[m].host] = m /\ th'[m] = th[m]
    BY <1>1, <2>1 DEF MonitorInv, OneLiveMonitor, Threads
  <2> QED
    BY <2>1, <2>2 DEF Exit, MonitorInv, TypeOK
<1> QED
  BY <1>3, <1>4, <1>5, <1>6, <1>7 DEF MonitorInv, TypeOK, StateTypes, ThreadOK

\* Every step of a monitor goroutine preserves the invariant.
LEMMA MonitorPreserves ==
  ASSUME MonitorInv, NEW m \in Mons, MonitorStep(m)
  PROVE  MonitorInv'
<1> USE TypesNow
<1>0. m \in Threads /\ th[m] \in Thread /\ ThreadOK(m, th[m])
  BY DEF MonitorInv, TypeOK, Threads
<1>1. CASE Tick(m)
  <2>1. CASE open[m]
    <3>1. Moved(m)
      BY <1>0, <1>1, <2>1, GotoMoves DEF Tick, Labels, MonitorLabels
    <3> QED
      BY <1>0, <1>1, <3>1, MovePreserves DEF Tick, StateTypes, kv, boxes, mgr, luck
  <2>2. CASE ~open[m]
    <3>1. th' = [th EXCEPT ![m] = Idle]
      BY <1>1, <2>2 DEF Tick
    <3>2. ThreadOK(m, Idle) /\ Idle.left = NoCalls
      BY <1>0, IdleOK DEF Idle
    <3>3. Moved(m)
      BY <2>2, <3>1, <3>2 DEF Moved, NoCalls
    <3> QED
      BY <1>0, <1>1, <3>3, MovePreserves DEF Tick, StateTypes, kv, boxes, mgr, luck
  <2> QED
    BY <2>1, <2>2
<1>2. CASE CheckController(m)
  <2> DEFINE x == [th[m] EXCEPT !.kind = "nogood", !.pc = "detach"]
  <2>1. th[m].pc # "idle"
    BY <1>2 DEF CheckController
  <2>2. Goto(m, "close") \/ Goto(m, "watch") \/ th' = [th EXCEPT ![m] = x]
    BY <1>2 DEF CheckController
  <2>3. /\ x \in Thread /\ x.pc = "detach" /\ x.kind = "nogood"
        /\ x.host = th[m].host /\ x.left = th[m].left
    BY <1>0 DEF Thread, Labels
  <2> HIDE DEF x
  <2>4. th' = [th EXCEPT ![m] = x] => Moved(m)
    BY <1>0, <2>1, <2>3, UpdateMoves DEF MonitorLabels
  <2>5. Moved(m)
    BY <1>0, <2>1, <2>2, <2>4, GotoMoves DEF Labels, MonitorLabels
  <2> QED
    BY <1>0, <1>2, <2>5, MovePreserves DEF CheckController, StateTypes, kv, boxes, mgr, luck
<1>3. CASE CloseChannel(m)
  <2>0. th[m].host \in Hosts /\ th[m].pc # "idle"
    BY <1>0, <1>3 DEF CloseChannel, ThreadOK
  <2>1. CASE ~open[m]
    BY <1>3, <2>0, <2>1, ExitPreserves DEF CloseChannel, StateTypes, luck
  <2>2. CASE open[m]
    <3>1. Moved(m)
      BY <1>0, <1>3, <2>0, <2>2, GotoMoves DEF CloseChannel, Labels, MonitorLabels
    <3>2. /\ open' = [open EXCEPT ![m] = FALSE]
          /\ UNCHANGED <<base, ctl, rep, box, repBox, up, monitors, died,
                         reqs, faults, deaths, crashes>>
      BY <1>3, <2>2 DEF CloseChannel, kv, boxes, luck
    <3>3. StateTypes'
      BY <3>2 DEF StateTypes
    <3>4. OneLiveMonitor'
      <4> SUFFICES ASSUME NEW n \in Mons, open'[n]
                   PROVE  th'[n].host \in Hosts /\ monitors'[th'[n].host] = n
        BY DEF OneLiveMonitor
      <4>1. open[n]
        BY <3>2, SMTT(30) DEF StateTypes
      <4>2. th'[n].host = th[n].host
        BY <3>1, <4>1 DEF Moved, MonitorInv, TypeOK, Threads
      <4> QED
        BY <3>2, <4>1, <4>2 DEF MonitorInv, OneLiveMonitor
    <3>5. /\ th' \in [Threads -> Thread]
          /\ \A s \in Threads : ThreadOK(s, th'[s])
          /\ Touched'
      BY <1>0, <3>1, <3>2, MovedThreads
    <3> QED
      BY <3>3, <3>4, <3>5 DEF MonitorInv, TypeOK, StateTypes, ThreadOK
  <2> QED
    BY <2>1, <2>2
<1> QED
  BY <1>1, <1>2, <1>3 DEF MonitorStep

\* Requests, restarts, crashes and failing calls preserve the invariant.
LEMMA EnvironmentPreserves ==
  ASSUME MonitorInv, Environment
  PROVE  MonitorInv'
<1> USE TypesNow
\* A request or a restart takes a thread that has ended.
<1>0. ASSUME NEW t \in Ops, NEW h \in Hosts, th[t].pc = "idle",
             NEW k \in {"attach", "detach", "delete", "create", "restore", "start"},
             NEW l \in {"get", "detach"},
             th' = [th EXCEPT ![t].kind = k, ![t].host = h, ![t].pc = l]
      PROVE  Moved(t)
  <2> DEFINE x == [th[t] EXCEPT !.kind = k, !.host = h, !.pc = l]
  <2>1. t \in Threads /\ t \notin Mons
    BY ManagerAssumption DEF Threads
  <2>2. th' = [th EXCEPT ![t] = x]
    BY <1>0
  <2>3. th[t] \in Thread
    BY <2>1 DEF MonitorInv, TypeOK
  <2>4. x.host = h /\ x.left = th[t].left /\ x.pc = l
    BY <2>3, SMT DEF Thread
  <2>5. x \in Thread
    <3>1. l \in Labels
      BY DEF Labels
    <3> QED BY <2>3, <3>1 DEF Thread
  <2> HIDE DEF x
  <2> QED
    BY <2>1, <2>2, <2>4, <2>5 DEF Moved, ThreadOK
<1>1. ASSUME NEW t \in Ops, NEW h \in Hosts, NEW k \in Kinds, Request(t, k, h)
      PROVE  MonitorInv'
  <2>1. k \in {"attach", "detach", "delete", "create", "restore", "start"}
    BY ManagerAssumption
  <2>2. PICK l \in {"get", "detach"} :
          th' = [th EXCEPT ![t].kind = k, ![t].host = h, ![t].pc = l]
    BY <1>1 DEF Request
  <2>3. Moved(t) /\ t \in Threads
    BY <1>0, <1>1, <2>1, <2>2 DEF Request, Threads
  <2>4. StateTypes'
    BY <1>1, SMT DEF Request, StateTypes, kv, boxes, mgr
  <2> QED
    BY <1>1, <2>3, <2>4, MovePreserves DEF Request, boxes, mgr
<1>2. ASSUME NEW t \in Ops, NEW h \in Hosts, Boot(t, h)
      PROVE  MonitorInv'
  <2>1. Moved(t) /\ t \in Threads
    BY <1>0, <1>2 DEF Boot, Threads
  <2>2. StateTypes'
    BY <1>2 DEF Boot, StateTypes, kv, boxes, luck
  <2> QED
    BY <1>2, <2>1, <2>2, MovePreserves DEF Boot, boxes
<1>3. ASSUME NEW h \in Hosts, Kill(h)
      PROVE  MonitorInv'
  BY <1>3, ExitPreserves, SMT DEF Kill, StateTypes
<1>4. ASSUME NEW c \in CtlIds, EngineDies(c)
      PROVE  MonitorInv'
  <2>1. StateTypes'
    BY <1>4, SMT DEF EngineDies, StateTypes, kv, mgr
  <2>2. UNCHANGED <<th, repBox, monitors, open>>
    BY <1>4 DEF EngineDies, mgr
  <2> QED
    BY <2>1, <2>2 DEF MonitorInv, TypeOK, StateTypes, ThreadOK, Touched, OneLiveMonitor
<1>5. ASSUME NEW t \in Threads, NEW r \in Reps, ReplicaCallFails(t, r)
      PROVE  MonitorInv'
  <2>1. Moved(t)
    BY <1>5, ReplicaFailsMoves DEF ReplicaCallFails
  <2>2. /\ faults' = faults + 1
        /\ UNCHANGED <<base, ctl, rep, box, up, monitors, open, died>>
        /\ UNCHANGED <<reqs, deaths, crashes>>
        /\ repBox' = repBox \/ repBox' = [repBox EXCEPT ![r] = "none"]
    BY <1>5 DEF ReplicaCallFails, kv, mgr
  <2>3. /\ repBox' \in [Reps -> {"new", "none", "stopped", "running"}]
        /\ \A q \in Reps : repBox[q] # "new" => repBox'[q] # "new"
    BY <2>2 DEF StateTypes
  <2>4. StateTypes'
    BY <2>2, <2>3, SMT DEF StateTypes
  <2> QED
    BY <2>1, <2>2, <2>3, <2>4, MovePreserves
<1>6. ASSUME NEW t \in Threads, CallFails(t)
      PROVE  MonitorInv'
  <2>1. /\ th[t].pc # "idle"
        /\ \/ Return(t) \/ Fail(t) \/ DetachFails(t)
           \/ th[t].pc = "setbase" /\ Goto(t, "newbase")
           \/ th[t].pc = "check" /\ Goto(t, "close")
    BY <1>6 DEF CallFails, Joined
  <2>4. t \in Mons => th[t].pc \in MonitorLabels
    BY DEF MonitorInv, ThreadOK
  <2>2. Moved(t)
    BY <2>1, <2>4, ReturnMoves, FailMoves, DetachFailsMoves, GotoMoves DEF Labels, MonitorLabels
  <2>3. StateTypes'
    BY <1>6, SMT DEF CallFails, CleanUp, StateTypes, kv
  <2> QED
    BY <1>6, <2>2, <2>3, MovePreserves DEF CallFails
<1> QED
  BY <1>1, <1>2, <1>3, <1>4, <1>5, <1>6 DEF Environment

\* Every step keeps the invariant.
LEMMA NextPreserves == MonitorInv /\ [Next]_vars => MonitorInv'
<1> SUFFICES ASSUME MonitorInv, [Next]_vars PROVE MonitorInv'
  OBVIOUS
<1>1. CASE Environment
  BY <1>1, EnvironmentPreserves
<1>2. ASSUME NEW t \in Threads, ThreadStep(t)
      PROVE  MonitorInv'
  BY <1>2, DetachPreserves, AttachPreserves, VolumePreserves, ReplicaPreserves,
     MonitorPreserves, SMTT(30) DEF ThreadStep
<1>3. CASE UNCHANGED vars
  BY <1>3 DEF vars, kv, boxes, mgr, luck, MonitorInv, TypeOK, ThreadOK, Touched,
              OneLiveMonitor
<1> QED
  BY <1>1, <1>2, <1>3 DEF Next, Rest

\* It holds of every reachable state.
LEMMA MonitorInvariant == Spec => []MonitorInv
<1> QED
  BY InitMonitorInv, NextPreserves, PTL DEF Spec

\* Types are kept by every step of the managers, their monitors and the
\* environment, failing calls and crashes included.
THEOREM ManagerTypeCorrect == Spec => []TypeOK
<1>1. MonitorInv => TypeOK
  BY DEF MonitorInv
<1> QED
  BY <1>1, MonitorInvariant, PTL

\* startMonitoring and stopMonitoring keep at most one live monitor of a volume
\* on a host, the registered one, whatever requests run at the same time and
\* whichever monitors close their own channel.
THEOREM ManagerOneLiveMonitor == Spec => []OneLiveMonitor
<1>1. MonitorInv => OneLiveMonitor
  BY DEF MonitorInv
<1> QED
  BY <1>1, MonitorInvariant, PTL

-----------------------------------------------------------------------------
(* What becomes of a thread, and of the others, in the ways in which it    *)
(* moves.                                                                  *)

\* Requests come one after the other.
OneRequest == \A s, t \in Ops : s = t

\* No controller container exists.
Gone == \A c \in CtlIds : ~Exists(c)

\* What becomes of a thread, and of the others, in the ways in which it moves.
Others(t) == \A s \in Threads \ {t} : th'[s] = th[s]

SameThread(t) ==
  /\ th'[t].kind = th[t].kind /\ th'[t].det = th[t].det /\ th'[t].vol = th[t].vol
  /\ th'[t].made = th[t].made

Ended(t) ==
  /\ th'[t].pc \in {"idle", "get", "watch", "close"}
  /\ th'[t].det = NoVolume /\ th'[t].left = NoCalls
  /\ t \in Ops => th'[t].pc \in {"idle", "get"} /\ th'[t].kind # "nogood"

There(r) == repBox[r] \in {"stopped", "running"}

\* A thread has the id of a controller container, or none.
LEMMA ThreadIds ==
  ASSUME NEW x \in Thread
  PROVE  /\ x.det.ctl.id = 0 \/ x.det.ctl.id \in CtlIds
         /\ x.made = 0 \/ x.made \in CtlIds
<1>1. x.det.ctl.id \in 0..MaxCtl /\ x.made \in 0..MaxCtl
  BY DEF Thread, Volume, Controller
<1>2. \A n \in 0..MaxCtl : n = 0 \/ n \in CtlIds
  BY ManagerAssumption, SMT DEF CtlIds
<1> QED BY <1>1, <1>2

\* A thread goes to a place with what it holds.
LEMMA GotoThen ==
  ASSUME MonitorInv, NEW t \in Threads, NEW l, Goto(t, l)
  PROVE  Others(t) /\ SameThread(t) /\ th'[t].pc = l /\ th'[t].left = th[t].left
<1>1. th \in [Threads -> Thread]
  BY DEF MonitorInv, TypeOK
<1>2. Others(t) /\ th'[t] = [th[t] EXCEPT !.pc = l]
  BY <1>1 DEF Goto, Others
<1> QED BY <1>1, <1>2, SMT DEF SameThread, Thread

\* A thread begins a call for each replica of a set.
LEMMA FanOutThen ==
  ASSUME MonitorInv, NEW t \in Threads, NEW l, NEW S, FanOut(t, l, S)
  PROVE  /\ Others(t) /\ SameThread(t) /\ th'[t].pc = l
         /\ th'[t].left = [r \in Reps |-> IF r \in S THEN "box" ELSE "off"]
<1>1. th \in [Threads -> Thread]
  BY DEF MonitorInv, TypeOK
<1> DEFINE f == [r \in Reps |-> IF r \in S THEN "box" ELSE "off"]
<1>2. Others(t) /\ th'[t] = [th[t] EXCEPT !.pc = l, !.errs = FALSE, !.left = f]
  BY <1>1 DEF FanOut, Others
<1> HIDE DEF f
<1>3. th'[t].left = f /\ th'[t].pc = l
  BY <1>1, <1>2, SMT DEF Thread
<1>4. SameThread(t)
  BY <1>1, <1>2, SMT DEF SameThread, Thread
<1> QED BY <1>2, <1>3, <1>4 DEF f

\* A monitor that begins holds nothing but the controller that it watches.
LEMMA WatchingThen ==
  ASSUME NEW h, NEW c
  PROVE  /\ Watching(h, c).pc = "watch" /\ Watching(h, c).det = NoVolume
         /\ Watching(h, c).left = NoCalls /\ Watching(h, c).made = c
         /\ [Watching(h, c) EXCEPT !.pc = "close"].pc = "close"
         /\ [Watching(h, c) EXCEPT !.pc = "close"].det = NoVolume
         /\ [Watching(h, c) EXCEPT !.pc = "close"].left = NoCalls
  BY DEF Watching, Idle

\* A thread that has ended holds nothing, nor does the delete that follows a
\* failed restore.
LEMMA IdleThen ==
  /\ Idle.pc = "idle" /\ Idle.det = NoVolume /\ Idle.left = NoCalls /\ Idle.kind = "none"
  /\ \A h : LET x == [Idle EXCEPT !.pc = "get", !.kind = "delete", !.host = h] IN
       x.pc = "get" /\ x.det = NoVolume /\ x.left = NoCalls /\ x.kind = "delete"
  BY DEF Idle

\* A thread that returns has ended.
LEMMA ReturnThen ==
  ASSUME MonitorInv, NEW t \in Threads, Return(t)
  PROVE  Others(t) /\ Ended(t)
<1>1. th \in [Threads -> Thread]
  BY DEF MonitorInv, TypeOK
<1>2. Others(t) /\ th'[t] = IF t \in Mons THEN Watching(th[t].host, th[t].made) ELSE Idle
  BY <1>1 DEF Return, Others
<1>3. t \in Ops => t \notin Mons
  BY ManagerAssumption
<1> QED BY <1>2, <1>3, WatchingThen, IdleThen, SMT DEF Ended

\* So has one that fails, or it begins to delete what it has created.
LEMMA FailThen ==
  ASSUME MonitorInv, NEW t \in Threads, Fail(t)
  PROVE  Others(t) /\ Ended(t)
<1>1. CASE Return(t)
  BY <1>1, ReturnThen
<1>2. CASE th' = [th EXCEPT ![t] = [Idle EXCEPT !.pc = "get", !.kind = "delete", !.host = th[t].host]]
  <2> DEFINE x == [Idle EXCEPT !.pc = "get", !.kind = "delete", !.host = th[t].host]
  <2>1. x.pc = "get" /\ x.det = NoVolume /\ x.left = NoCalls /\ x.kind = "delete"
    BY IdleThen
  <2>2. th \in [Threads -> Thread]
    BY DEF MonitorInv, TypeOK
  <2> HIDE DEF x
  <2>3. Others(t) /\ th'[t] = x
    BY <1>2, <2>2 DEF Others, x
  <2> QED BY <2>1, <2>3 DEF Ended
<1> QED BY <1>1, <1>2 DEF Fail

\* After a detach a thread ends, stops old replicas to attach, or removes
\* replicas to delete.
LEMMA AfterDetachThen ==
  ASSUME MonitorInv, NEW t \in Threads, AfterDetach(t)
  PROVE  /\ Others(t)
         /\ \/ Ended(t) /\ th[t].kind \notin {"attach", "restore", "delete"}
            \/ /\ t \in Ops /\ SameThread(t) /\ th'[t].pc = "stopold"
               /\ th[t].kind \in {"attach", "restore"}
            \/ /\ t \in Ops /\ SameThread(t) /\ th'[t].pc = "rmreps" /\ th[t].kind = "delete"
               /\ th'[t].left = [r \in Reps |-> IF r \in Has(th[t].det) THEN "box" ELSE "off"]
<1>1. ThreadOK(t, th[t])
  BY DEF MonitorInv
<1>2. th[t].kind \in {"attach", "restore", "delete"} => t \in Ops
  BY <1>1 DEF ThreadOK, Threads
<1>3. CASE th[t].kind \in {"attach", "restore"}
  BY <1>2, <1>3, FanOutThen DEF AfterDetach, StopOld
<1>4. CASE th[t].kind = "delete"
  BY <1>2, <1>4, FanOutThen, SMT DEF AfterDetach
<1>5. CASE th[t].kind \notin {"attach", "restore", "delete"}
  BY <1>5, ReturnThen DEF AfterDetach
<1> QED BY <1>3, <1>4, <1>5

\* A manager process that has ended has ended for ever.
LEMMA DiedStays == MonitorInv /\ died /\ [Next]_vars => died'
<1> SUFFICES ASSUME MonitorInv, died, [Next]_vars PROVE died'
  OBVIOUS
<1>1. CASE UNCHANGED vars
  BY <1>1 DEF vars, mgr
<1>2. CASE Environment
  <2>1. CASE \E h \in Hosts : Kill(h)
    BY <2>1 DEF Kill, Exit
  <2>2. ASSUME NEW t \in Ops, NEW h \in Hosts, (\E k \in Kinds : Request(t, k, h)) \/ Boot(t, h)
        PROVE  died'
    BY <2>2 DEF Request, Boot, mgr
  <2>3. ASSUME NEW c \in CtlIds, EngineDies(c) PROVE died'
    BY <2>3 DEF EngineDies, mgr
  <2>4. ASSUME NEW t \in Threads, CallFails(t) \/ \E r \in Reps : ReplicaCallFails(t, r) PROVE died'
    BY <2>4 DEF CallFails, ReplicaCallFails, mgr
  <2> QED BY <1>2, <2>1, <2>2, <2>3, <2>4 DEF Environment
<1>3. ASSUME NEW t \in Threads, ThreadStep(t) PROVE died'
  <2>1. CASE DetachStep(t)
    BY <2>1 DEF DetachStep, DetachGet, StopMonitoring, StopController, StopControllerCheck,
       StopControllerSet, ReplicasStopped, RemoveController, RemoveControllerCheck,
       RemoveControllerDelete, mgr
  <2>2. CASE AttachStep(t)
    BY <2>2 DEF AttachStep, AttachGet, OldStopped, ReplicasStarted, PrepareCreateController,
       CreateContainer, StartContainer, WaitForEngine, ControllerCheck, ControllerSet, StartMonitoring, mgr
  <2>3. CASE VolumeStep(t)
    BY <2>3 DEF VolumeStep, CreateGet, CreateCheck, CreateVolume, Created, Restore, DeleteGet,
       DeleteVolume, StartList, mgr
  <2>4. CASE \E r \in Reps : ReplicaContainer(t, r) \/ ReplicaCheck(t, r) \/ ReplicaSet(t, r)
    BY <2>4 DEF ReplicaContainer, ReplicaCheck, ReplicaSet, mgr
  <2>5. CASE MonitorStep(t)
    BY <2>5 DEF MonitorStep, Tick, CheckController, CloseChannel, Exit, mgr
  <2> QED BY <1>3, <2>1, <2>2, <2>3, <2>4, <2>5 DEF ThreadStep
<1> QED BY <1>1, <1>2, <1>3 DEF Next, Rest
=============================================================================
