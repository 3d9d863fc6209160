---------------------------- MODULE EngineProofs ----------------------------
(***************************************************************************)
(* With one request at a time and no failing call, for any number of       *)
(* hosts, replicas, monitors and steps: at most one controller container   *)
(* exists, although monitors detach the volume beside the requests, and a  *)
(* volume that Delete has removed leaves no container.                     *)
(***************************************************************************)
EXTENDS VolumeManagerProofs

\* Most leaves are first-order and Zenon takes them; SMT takes those that cite
\* it.
USE Zenon

-----------------------------------------------------------------------------
(* The inductive invariant.                                                *)

\* A thread has removed the controller, and is about to delete its key.
Removing(t) == th[t].pc \in {"rmctl.get", "rmctl.del"}

\* A thread has created a controller that is not stored yet.
Making(t) == th[t].pc \in {"start", "wait", "meta.get", "meta.set"}

\* A request has seen to it that there is no controller.
Clear(t) ==
  \/ th[t].pc \in {"stopold", "startreps", "prepare", "create", "rmreps"}
  \/ th[t].pc \in {"unmonitor", "stopreps"} /\ th[t].det.ctl.id = 0

\* A stored controller, or one that was read, has been created.
Known(x) == (x.running => x.id # 0) /\ (x.id # 0 => box[x.id].st # "new")

\* Where doDetach stops and removes the controller.
StopLabels == {"stopctl", "stopctl.get", "stopctl.set", "rmctl", "rmctl.get", "rmctl.del"}

\* A thread that stops or removes a controller, or monitors one, has one.
KnownThread(t) ==
  /\ Known(th[t].det.ctl)
  /\ th[t].pc \in StopLabels => th[t].det.ctl.id # 0
  /\ th[t].pc \in {"monitor", "restore"} => th[t].made # 0 /\ box[th[t].made].st # "new"
  /\ t \in Ops => th[t].kind # "nogood"

\* At most one controller container exists.
OneBox == \A c, d \in CtlIds : Exists(c) /\ Exists(d) => c = d

\* A controller that exists is stored, or it is being made; a key may also be
\* left of one that is gone, and then every detach fails.
ZeroInv == ctl.id = 0 => Gone \/ \E o \in Ops : Making(o)

\* What is removed is still stored, and one thread removes it.
RemovingInv == \A t \in Threads : Removing(t) =>
  Gone /\ ctl.id # 0 /\ \A s \in Threads \ {t} : ~Removing(s)

ClearInv == \A o \in Ops : Clear(o) => Gone /\ \A s \in Threads : ~Removing(s)

\* Nobody else knows the controller that a request has created.
MakingInv == \A o \in Ops : Making(o) =>
  /\ th[o].made # 0 /\ Exists(th[o].made) /\ ctl.id # th[o].made
  /\ \A s \in Threads : th[s].det.ctl.id # th[o].made

\* The volume that a request works on is not deleted: only requests do that.
NoBase(o) ==
  th[o].pc \in {"idle", "get", "setbase", "newbase"} \/ (th[o].pc = "detach" /\ th[o].kind = "detach")

EngineInv ==
  /\ Known(ctl) /\ \A t \in Threads : KnownThread(t)
  /\ OneBox /\ ZeroInv /\ RemovingInv /\ ClearInv /\ MakingInv
  /\ \A o \in Ops : NoBase(o) \/ base

\* At first there is no controller and no thread.
LEMMA InitEngine == Init => EngineInv
<1> SUFFICES ASSUME Init PROVE EngineInv
  OBVIOUS
<1>1. Gone /\ ctl.id = 0 /\ ~ctl.running
  BY DEF Init, Gone, Exists, NoCtl
<1>2. \A t \in Threads : th[t].pc = "idle" /\ th[t].kind = "none" /\ th[t].det.ctl.id = 0 /\ ~th[t].det.ctl.running
  BY DEF Init, Idle, NoVolume, NoCtl
<1>3. Ops \subseteq Threads
  BY DEF Threads
<1>4. Known(ctl) /\ \A t \in Threads : KnownThread(t)
  BY <1>1, <1>2 DEF Known, KnownThread, StopLabels
<1>5. OneBox /\ ZeroInv
  BY <1>1 DEF OneBox, ZeroInv, Gone
<1>6. RemovingInv /\ ClearInv /\ MakingInv /\ \A o \in Ops : NoBase(o)
  BY <1>2, <1>3 DEF RemovingInv, ClearInv, MakingInv, NoBase, Removing, Clear, Making
<1> QED BY <1>4, <1>5, <1>6 DEF EngineInv

\* What a step that neither makes nor removes a controller does to a thread.
Quiet(t) ==
  /\ Known(th'[t].det.ctl)
  /\ th'[t].pc \in StopLabels => th'[t].det.ctl.id # 0
  /\ th'[t].pc \in {"monitor", "restore"} => th'[t].made # 0 /\ box[th'[t].made].st # "new"
  /\ Removing(t)' => Removing(t)
  /\ t \in Ops /\ Clear(t)' => Gone /\ \A s \in Threads : ~Removing(s)
  /\ Making(t)' => Making(t) /\ th'[t].made = th[t].made /\ th'[t].det = th[t].det
  /\ Making(t) => Making(t)' \/ ctl.id # 0
  /\ t \in Mons => th'[t].det.ctl.id \in {th[t].det.ctl.id, ctl.id, 0}
  /\ t \in Ops => th'[t].kind # "nogood" /\ (NoBase(t)' \/ base')

\* A step that neither makes nor removes a controller, and in which threads only
\* move between places that claim nothing new, keeps the invariant.
LEMMA QuietStep ==
  ASSUME MonitorInv, MonitorInv', EngineInv, OneRequest, UNCHANGED ctl, base => base',
         \A c \in CtlIds : (Exists(c)' <=> Exists(c)) /\ (box[c].st # "new" => box'[c].st # "new"),
         \A t \in Threads : th'[t] = th[t] \/ Quiet(t)
  PROVE  EngineInv'
<1>0. /\ Ops \subseteq Threads /\ (Gone' <=> Gone)
      /\ ctl \in Controller /\ th \in [Threads -> Thread] /\ th' \in [Threads -> Thread]
  BY DEF Threads, Gone, MonitorInv, TypeOK
<1>1. ASSUME NEW x \in Controller, Known(x) PROVE (x.running => x.id # 0) /\ (x.id # 0 => box'[x.id].st # "new")
  BY <1>1, SMT DEF Known, Controller, CtlIds
<1>2. Known(ctl)'
  BY <1>0, <1>1 DEF EngineInv, Known
<1>3. ASSUME NEW t \in Threads PROVE KnownThread(t)'
  <2>1. th'[t].det.ctl \in Controller /\ th'[t].made \in 0..MaxCtl
    BY <1>0 DEF Thread, Volume
  <2>2. /\ Known(th'[t].det.ctl)
        /\ th'[t].pc \in StopLabels => th'[t].det.ctl.id # 0
        /\ th'[t].pc \in {"monitor", "restore"} => th'[t].made # 0 /\ box[th'[t].made].st # "new"
        /\ t \in Ops => th'[t].kind # "nogood"
    BY DEF Quiet, EngineInv, KnownThread
  <2>3. Known(th[t].det.ctl)'
    BY <1>1, <2>1, <2>2 DEF Known
  <2>4. th'[t].made # 0 /\ box[th'[t].made].st # "new" => box'[th'[t].made].st # "new"
    BY <2>1, SMT DEF CtlIds
  <2> QED BY <2>2, <2>3, <2>4 DEF KnownThread
<1>4. OneBox'
  BY DEF EngineInv, OneBox, CtlIds
<1>5. ZeroInv'
  BY <1>0 DEF EngineInv, ZeroInv, Quiet, Making
<1>6. \A t \in Threads : Removing(t)' => Removing(t)
  BY DEF Quiet, Removing
<1>7. RemovingInv'
  BY <1>0, <1>6 DEF EngineInv, RemovingInv
<1>8. ClearInv'
  BY <1>0, <1>6 DEF EngineInv, ClearInv, Quiet, Clear
<1>9. MakingInv'
  <2> SUFFICES ASSUME NEW o \in Ops, Making(o)'
               PROVE  /\ th'[o].made # 0 /\ Exists(th[o].made)' /\ ctl'.id # th'[o].made
                      /\ \A s \in Threads : th'[s].det.ctl.id # th'[o].made
    BY DEF MakingInv
  <2>1. Making(o) /\ th'[o].made = th[o].made /\ th'[o].det = th[o].det
    BY <1>0 DEF Quiet, Making
  <2>2. /\ th[o].made # 0 /\ Exists(th[o].made) /\ ctl.id # th[o].made
        /\ \A s \in Threads : th[s].det.ctl.id # th[o].made
    BY <2>1 DEF EngineInv, MakingInv
  <2>3. th[o].made \in CtlIds
    BY <1>0, <2>2, SMT DEF Thread, CtlIds
  <2>4. Exists(th[o].made)'
    <3>1. ASSUME NEW c \in CtlIds, c = th[o].made PROVE Exists(c)'
      BY <2>2, <3>1
    <3> QED BY <2>1, <2>3, <3>1 DEF Exists
  <2>5. ASSUME NEW s \in Threads PROVE th'[s].det.ctl.id # th'[o].made
    <3>1. CASE s = o
      BY <2>1, <2>2, <3>1
    <3>2. CASE s # o
      <4>1. s \in Mons
        BY <3>2 DEF OneRequest, Threads
      <4>2. th'[s].det.ctl.id \in {th[s].det.ctl.id, ctl.id, 0}
        BY <4>1 DEF Quiet
      <4> QED BY <2>1, <2>2, <4>2
    <3> QED BY <3>1, <3>2
  <2> QED BY <2>1, <2>2, <2>4, <2>5
<1>10. \A o \in Ops : NoBase(o)' \/ base'
  BY <1>0 DEF EngineInv, Quiet, NoBase
<1> QED BY <1>2, <1>3, <1>4, <1>5, <1>7, <1>8, <1>9, <1>10 DEF EngineInv, NoBase

\* A detach that fails ends its request, or its monitor goes to close the channel.
LEMMA DetachFailsThen ==
  ASSUME MonitorInv, EngineInv, NEW t \in Threads, DetachFails(t)
  PROVE  Others(t) /\ Ended(t)
<1>1. CASE Fail(t)
  BY <1>1, FailThen
<1>2. CASE /\ th[t].kind = "nogood"
           /\ th' = [th EXCEPT ![t] = [Watching(th[t].host, th[t].made) EXCEPT !.pc = "close"]]
  <2>1. th \in [Threads -> Thread]
    BY DEF MonitorInv, TypeOK
  <2>2. Others(t) /\ th'[t] = [Watching(th[t].host, th[t].made) EXCEPT !.pc = "close"]
    BY <1>2, <2>1 DEF Others
  <2>3. t \notin Ops
    BY <1>2 DEF EngineInv, KnownThread
  <2> QED BY <2>2, <2>3, WatchingThen, SMT DEF Ended
<1> QED BY <1>1, <1>2 DEF DetachFails

\* A thread that has ended is quiet, when it was not making a controller.
LEMMA EndedIsQuiet ==
  ASSUME NEW t \in Threads, Ended(t), Making(t) => ctl.id # 0
  PROVE  Quiet(t)
<1>1. NoVolume.ctl.id = 0 /\ ~NoVolume.ctl.running
  BY DEF NoVolume, NoCtl
<1>2. th'[t].det.ctl.id = 0 /\ ~th'[t].det.ctl.running
  BY <1>1 DEF Ended
<1>3. th'[t].pc \in {"idle", "get", "watch", "close"}
  BY DEF Ended
<1>4. /\ ~Removing(t)' /\ ~Clear(t)' /\ ~Making(t)'
      /\ th'[t].pc \notin StopLabels /\ th'[t].pc \notin {"monitor", "restore"}
  BY <1>3 DEF Removing, Clear, Making, StopLabels
<1>5. t \in Ops => th'[t].kind # "nogood" /\ NoBase(t)'
  BY DEF Ended, NoBase
<1> QED BY <1>2, <1>4, <1>5 DEF Quiet, Known

\* A thread that only goes on, with what it knows, is quiet.
LEMMA MovedIsQuiet ==
  ASSUME EngineInv, NEW t \in Threads, SameThread(t),
         th'[t].pc \in StopLabels => th[t].det.ctl.id # 0,
         th'[t].pc \notin {"monitor", "restore"} \/ th'[t].pc = th[t].pc,
         Removing(t)' => Removing(t),
         t \in Ops /\ Clear(t)' => Clear(t),
         Making(t)' <=> Making(t),
         t \in Ops => NoBase(t)' \/ base'
  PROVE  Quiet(t)
<1>1. KnownThread(t)
  BY DEF EngineInv
<1>2. th'[t].det = th[t].det /\ th'[t].made = th[t].made /\ th'[t].kind = th[t].kind
  BY DEF SameThread
<1>3. t \in Ops /\ Clear(t)' => Gone /\ \A s \in Threads : ~Removing(s)
  BY DEF EngineInv, ClearInv
<1> QED BY <1>1, <1>2, <1>3 DEF Quiet, KnownThread

\* A step of one thread.
LEMMA QuietThread ==
  ASSUME MonitorInv, MonitorInv', EngineInv, OneRequest, UNCHANGED ctl, base => base',
         \A c \in CtlIds : (Exists(c)' <=> Exists(c)) /\ (box[c].st # "new" => box'[c].st # "new"),
         NEW t \in Threads, Others(t), Quiet(t)
  PROVE  EngineInv'
<1>1. \A s \in Threads : th'[s] = th[s] \/ Quiet(s)
  BY DEF Others
<1> QED BY <1>1, QuietStep

\* Containers that stay as they are.
LEMMA SameBoxes ==
  ASSUME UNCHANGED box
  PROVE  \A c \in CtlIds : (Exists(c)' <=> Exists(c)) /\ (box[c].st # "new" => box'[c].st # "new")
  BY DEF Exists

\* A container that exists changes its state.
LEMMA ExistingBox ==
  ASSUME MonitorInv, NEW c \in CtlIds, Exists(c), NEW s \in {"stopped", "running"}, NEW S,
         box' = [box EXCEPT ![c].st = s] \/ box' = [box EXCEPT ![c].st = s, ![c].rw = S]
  PROVE  \A d \in CtlIds : (Exists(d)' <=> Exists(d)) /\ (box[d].st # "new" => box'[d].st # "new")
<1>1. box \in [CtlIds -> [host : Hosts \cup {None}, rw : SUBSET Reps,
                          st : {"new", "none", "stopped", "running"}]]
  BY DEF MonitorInv, TypeOK
<1>2. \A d \in CtlIds : box'[d].st = IF d = c THEN s ELSE box[d].st
  BY <1>1
<1> QED BY <1>2 DEF Exists

\* A container is removed.
LEMMA RemovedBox ==
  ASSUME MonitorInv, NEW c \in CtlIds, box' = [box EXCEPT ![c].st = "none"]
  PROVE  \A d \in CtlIds : box'[d].st = IF d = c THEN "none" ELSE box[d].st
<1>1. box \in [CtlIds -> [host : Hosts \cup {None}, rw : SUBSET Reps,
                          st : {"new", "none", "stopped", "running"}]]
  BY DEF MonitorInv, TypeOK
<1> QED BY <1>1

\* A step of one thread that removes a controller or changes what is stored.
LEMMA EngineStep ==
  ASSUME MonitorInv, MonitorInv', EngineInv, NEW t \in Threads, Others(t),
         \A c \in CtlIds : (Exists(c)' => Exists(c)) /\ (box[c].st # "new" => box'[c].st # "new"),
         Known(ctl)', KnownThread(t)', ZeroInv', MakingInv',
         Removing(t)' => /\ Removing(t) \/ ~Gone
                         /\ Gone' /\ \A s \in Threads \ {t} : ~Removing(s),
         ctl'.id # 0 \/ \A s \in Threads : ~Removing(s)',
         t \in Ops /\ Clear(t)' => Gone' /\ \A s \in Threads \ {t} : ~Removing(s),
         t \in Ops \/ base' = base, t \in Ops => NoBase(t)' \/ base', OneRequest
  PROVE  EngineInv'
<1>0. Ops \subseteq Threads /\ (Gone => Gone') /\ th' \in [Threads -> Thread]
  BY DEF Threads, Gone, MonitorInv, TypeOK
<1>1. ASSUME NEW s \in Threads PROVE KnownThread(s)'
  <2>1. CASE s = t
    BY <2>1
  <2>2. CASE s # t
    <3>1. th'[s] = th[s] /\ KnownThread(s)
      BY <2>2 DEF Others, EngineInv
    <3>2. /\ th'[s].det.ctl.id = 0 \/ th'[s].det.ctl.id \in CtlIds
          /\ th'[s].made = 0 \/ th'[s].made \in CtlIds
      BY <1>0, ThreadIds
    <3> QED BY <3>1, <3>2 DEF KnownThread, Known
  <2> QED BY <2>1, <2>2
<1>2. OneBox'
  BY DEF EngineInv, OneBox, CtlIds
<1>3. \A s \in Threads \ {t} : Removing(s)' <=> Removing(s)
  BY DEF Others, Removing
<1>4. RemovingInv'
  BY <1>0, <1>3 DEF EngineInv, RemovingInv
<1>5. ClearInv'
  <2> SUFFICES ASSUME NEW o \in Ops, Clear(o)' PROVE Gone' /\ \A s \in Threads : ~Removing(s)'
    BY DEF ClearInv
  <2>1. CASE o = t
    <3>1. ~Removing(t)'
      BY <2>1 DEF Clear, Removing
    <3> QED BY <1>3, <2>1, <3>1
  <2>2. CASE o # t
    <3>1. Clear(o)
      BY <1>0, <2>2 DEF Others, Clear
    <3>2. Gone /\ \A s \in Threads : ~Removing(s)
      BY <3>1 DEF EngineInv, ClearInv
    <3> QED BY <1>0, <1>3, <3>2
  <2> QED BY <2>1, <2>2
<1>6. ASSUME NEW o \in Ops PROVE NoBase(o)' \/ base'
  <2>1. CASE o = t
    BY <2>1
  <2>2. CASE o # t
    <3>1. th'[o] = th[o] /\ base' = base
      BY <1>0, <2>2 DEF Others, OneRequest
    <3> QED BY <3>1 DEF EngineInv, NoBase
  <2> QED BY <2>1, <2>2
<1> QED BY <1>1, <1>2, <1>4, <1>5, <1>6 DEF EngineInv, NoBase

\* A thread that makes no controller keeps those that others make.
LEMMA MakingKept ==
  ASSUME MonitorInv, MonitorInv', EngineInv, NEW t \in Threads, Others(t), ~Making(t)',
         \A c \in CtlIds : Exists(c) => Exists(c)' \/ c = th[t].det.ctl.id \/ t \in Ops,
         ctl'.id \in {ctl.id, th[t].det.ctl.id, 0} \/ t \in Ops,
         th'[t].det.ctl.id \in {th[t].det.ctl.id, ctl.id, 0} \/ t \in Ops, OneRequest
  PROVE  MakingInv'
<1> SUFFICES ASSUME NEW o \in Ops, Making(o)'
             PROVE  /\ th'[o].made # 0 /\ Exists(th[o].made)' /\ ctl'.id # th'[o].made
                    /\ \A s \in Threads : th'[s].det.ctl.id # th'[o].made
  BY DEF MakingInv
<1>1. o # t /\ o \in Threads /\ t \notin Ops
  BY DEF OneRequest, Threads
<1>2. th'[o] = th[o] /\ Making(o)
  BY <1>1 DEF Others, Making
<1>3. /\ th[o].made # 0 /\ Exists(th[o].made) /\ ctl.id # th[o].made
      /\ \A s \in Threads : th[s].det.ctl.id # th[o].made
  BY <1>2 DEF EngineInv, MakingInv
<1>4. th[o].made \in CtlIds
  BY <1>1, <1>3, ThreadIds DEF MonitorInv, TypeOK
<1>5. Exists(th[o].made)'
  <2>1. ASSUME NEW c \in CtlIds, c = th[o].made PROVE Exists(c)'
    BY <1>1, <1>3, <2>1
  <2> QED BY <1>2, <1>4, <2>1 DEF Exists
<1>6. ASSUME NEW s \in Threads PROVE th'[s].det.ctl.id # th[o].made
  BY <1>1, <1>3 DEF Others
<1> QED BY <1>1, <1>2, <1>3, <1>5, <1>6

\* When no controller is stored, and the request itself makes none, there is
\* none.
LEMMA NothingStored ==
  ASSUME EngineInv, OneRequest, NEW t \in Ops, ~Making(t), ctl.id = 0
  PROVE  Gone /\ \A s \in Threads : ~Removing(s)
  BY DEF EngineInv, ZeroInv, RemovingInv, OneRequest

\* The volume is read, and its controller is to be stopped.
LEMMA ReadForDetach ==
  ASSUME MonitorInv, MonitorInv', EngineInv, OneRequest, NEW t \in Threads, Others(t), base, ~Making(t),
         th'[t].pc = "unmonitor", th'[t].det.ctl = ctl, th'[t].kind = th[t].kind, UNCHANGED <<kv, boxes>>
  PROVE  EngineInv'
<1>1. UNCHANGED <<ctl, box, base>>
  BY DEF kv, boxes
<1>2. t \in Ops /\ Clear(t)' => Gone /\ \A s \in Threads : ~Removing(s)
  BY NothingStored DEF Clear
<1>3. KnownThread(t) /\ Known(ctl)
  BY DEF EngineInv
<1>4. ~Removing(t)' /\ ~Making(t)' /\ th'[t].pc \notin StopLabels
  BY DEF Removing, Making, StopLabels
<1>5. Quiet(t)
  BY <1>1, <1>2, <1>3, <1>4 DEF Quiet, KnownThread
<1> QED BY <1>1, <1>5, SameBoxes, QuietThread

\* doDetach, by a request or by a monitor beside one.
LEMMA DetachEngine ==
  ASSUME MonitorInv, MonitorInv', EngineInv, OneRequest, NEW t \in Threads, DetachStep(t)
  PROVE  EngineInv'
<1>0. /\ th[t] \in Thread /\ KnownThread(t) /\ Known(ctl)
      /\ t \in Ops => NoBase(t) \/ base
  BY DEF MonitorInv, TypeOK, EngineInv
<1>1. ASSUME UNCHANGED <<base, ctl, box>>, Others(t), Quiet(t) PROVE EngineInv'
  BY <1>1, SameBoxes, QuietThread
<1>2. CASE DetachGet(t)
  <2>1. th[t].pc = "detach" /\ UNCHANGED <<kv, boxes>> /\ ~Making(t)
    BY <1>2 DEF DetachGet, Making
  <2>2. CASE base
    <3>1. th' = [th EXCEPT ![t].det = [ctl |-> ctl, rep |-> rep], ![t].pc = "unmonitor"]
      BY <1>2, <2>2 DEF DetachGet
    <3>2. Others(t) /\ th'[t] = [th[t] EXCEPT !.det = [ctl |-> ctl, rep |-> rep], !.pc = "unmonitor"]
      BY <3>1 DEF Others, MonitorInv, TypeOK
    <3>3. th'[t].pc = "unmonitor" /\ th'[t].det.ctl = ctl /\ th'[t].kind = th[t].kind
      BY <1>0, <3>2, SMT DEF Thread
    <3> QED BY <2>1, <2>2, <3>2, <3>3, ReadForDetach
  <2>3. CASE ~base
    <3>1. t \in Ops => th[t].kind = "detach"
      BY <1>0, <2>1, <2>3 DEF NoBase
    <3>2. Others(t) /\ Ended(t)
      BY <1>2, <2>3, <3>1, AfterDetachThen DEF DetachGet
    <3> QED BY <1>1, <2>1, <3>2, EndedIsQuiet DEF kv, boxes
  <2> QED BY <2>2, <2>3
<1>3. CASE StopMonitoring(t)
  <2>1. th[t].pc = "unmonitor" /\ UNCHANGED <<base, ctl, box>>
    BY <1>3 DEF StopMonitoring, kv, boxes
  <2>2. /\ Others(t) /\ SameThread(t)
        /\ th'[t].pc = "stopreps" \/ (th'[t].pc = "stopctl" /\ th[t].det.ctl.running)
    BY <1>3, GotoThen, FanOutThen DEF StopMonitoring, StopReplicas
  <2>3. th'[t].pc \in StopLabels => th[t].det.ctl.id # 0
    BY <1>0, <2>2 DEF KnownThread, Known, StopLabels
  <2>4. /\ ~Removing(t)' /\ ~Making(t)' /\ ~Making(t) /\ (Clear(t)' => Clear(t))
        /\ th'[t].pc \notin {"monitor", "restore"} /\ ~NoBase(t)
    BY <2>1, <2>2 DEF Removing, Making, Clear, SameThread, NoBase
  <2>5. Quiet(t)
    BY <1>0, <2>1, <2>2, <2>3, <2>4, MovedIsQuiet
  <2> QED BY <1>1, <2>1, <2>2, <2>5
<1>4. CASE StopController(t)
  <2> DEFINE c == th[t].det.ctl.id
  <2>1. th[t].pc = "stopctl" /\ UNCHANGED <<base, ctl>> /\ c \in CtlIds
    BY <1>0, <1>4, ThreadIds DEF StopController, kv, KnownThread, StopLabels
  <2>2. CASE DetachFails(t) /\ UNCHANGED box
    BY <1>1, <2>1, <2>2, DetachFailsThen, EndedIsQuiet DEF Making
  <2>3. CASE Exists(c) /\ box' = [box EXCEPT ![c].st = "stopped"] /\ Goto(t, "stopctl.get")
    <3>1. Others(t) /\ SameThread(t) /\ th'[t].pc = "stopctl.get"
      BY <2>3, GotoThen
    <3>2. ~Removing(t)' /\ ~Making(t)' /\ ~Making(t) /\ ~Clear(t)' /\ ~NoBase(t)
      BY <2>1, <3>1 DEF Removing, Making, Clear, NoBase
    <3>3. c # 0
      BY <2>1, SMT DEF CtlIds
    <3>4. Quiet(t)
      BY <1>0, <2>1, <3>1, <3>2, <3>3, MovedIsQuiet
    <3>5. \A d \in CtlIds : (Exists(d)' <=> Exists(d)) /\ (box[d].st # "new" => box'[d].st # "new")
      BY <2>1, <2>3, ExistingBox
    <3> QED BY <2>1, <3>1, <3>4, <3>5, QuietThread
  <2> QED BY <1>4, <2>2, <2>3 DEF StopController, ContainerAllows, Exists
<1>5. CASE StopControllerCheck(t)
  <2>1. th[t].pc = "stopctl.get" /\ UNCHANGED <<base, ctl, box>>
    BY <1>5 DEF StopControllerCheck, kv, boxes
  <2>2. CASE DetachFails(t)
    BY <1>1, <2>1, <2>2, DetachFailsThen, EndedIsQuiet DEF Making
  <2>3. CASE Goto(t, "stopctl.set")
    <3>1. Others(t) /\ SameThread(t) /\ th'[t].pc = "stopctl.set"
      BY <2>3, GotoThen
    <3>2. /\ ~Removing(t)' /\ ~Making(t)' /\ ~Making(t) /\ ~Clear(t)' /\ ~NoBase(t)
          /\ th[t].det.ctl.id # 0
      BY <1>0, <2>1, <3>1 DEF Removing, Making, Clear, NoBase, KnownThread, StopLabels
    <3> QED BY <1>0, <1>1, <2>1, <3>1, <3>2, MovedIsQuiet
  <2> QED BY <1>5, <2>2, <2>3 DEF StopControllerCheck
<1>6. CASE StopControllerSet(t)
  <2>1. /\ th[t].pc = "stopctl.set" /\ UNCHANGED <<base, box>>
        /\ ctl' = [id |-> th[t].det.ctl.id, running |-> FALSE]
    BY <1>6 DEF StopControllerSet, boxes
  <2>2. Others(t) /\ SameThread(t) /\ th'[t].pc = "stopreps"
    BY <1>6, FanOutThen DEF StopControllerSet, StopReplicas
  <2>3. th[t].det.ctl.id # 0 /\ Known(th[t].det.ctl)
    BY <1>0, <2>1 DEF KnownThread, StopLabels
  <2>4. ctl'.id # 0 /\ ctl'.id = th[t].det.ctl.id /\ Known(ctl)'
    BY <2>1, <2>3 DEF Known
  <2>5. ~Removing(t)' /\ ~Making(t)' /\ ~Clear(t)' /\ ~NoBase(t)
    BY <2>1, <2>2, <2>3 DEF Removing, Making, Clear, NoBase, SameThread
  <2>6. KnownThread(t)'
    BY <1>0, <2>1, <2>2, <2>3 DEF KnownThread, Known, SameThread, StopLabels
  <2>7. MakingInv'
    BY <2>1, <2>2, <2>4, <2>5, SameBoxes, MakingKept DEF SameThread
  <2>8. ZeroInv'
    BY <2>4 DEF ZeroInv
  <2> QED BY <1>0, <2>1, <2>2, <2>4, <2>5, <2>6, <2>7, <2>8, SameBoxes, EngineStep
<1>7. CASE ReplicasStopped(t)
  <2>1. th[t].pc = "stopreps" /\ UNCHANGED <<base, ctl, box>> /\ ~Making(t)
    BY <1>7 DEF ReplicasStopped, Joined, kv, boxes, Making
  <2>2. CASE Fail(t)
    BY <1>1, <2>1, <2>2, FailThen, EndedIsQuiet
  <2>3. CASE th[t].det.ctl.id # 0 /\ Goto(t, "rmctl")
    <3>1. Others(t) /\ SameThread(t) /\ th'[t].pc = "rmctl"
      BY <2>3, GotoThen
    <3>2. ~Removing(t)' /\ ~Making(t)' /\ ~Clear(t)' /\ ~NoBase(t)
      BY <2>1, <3>1 DEF Removing, Making, Clear, NoBase
    <3> QED BY <1>0, <1>1, <2>1, <2>3, <3>1, <3>2, MovedIsQuiet
  <2>4. CASE th[t].det.ctl.id = 0 /\ AfterDetach(t)
    <3>1. CASE Ended(t)
      BY <1>1, <2>1, <2>4, <3>1, AfterDetachThen, EndedIsQuiet
    <3>2. CASE SameThread(t) /\ th'[t].pc \in {"stopold", "rmreps"}
      <4>1. ~Removing(t)' /\ ~Making(t)' /\ Clear(t) /\ ~NoBase(t) /\ th'[t].pc \notin StopLabels
        BY <2>1, <2>4, <3>2 DEF Removing, Making, Clear, NoBase, StopLabels
      <4>2. Quiet(t)
        BY <1>0, <2>1, <3>2, <4>1, MovedIsQuiet
      <4> QED BY <1>1, <2>1, <2>4, <4>2, AfterDetachThen
    <3> QED BY <2>4, <3>1, <3>2, AfterDetachThen
  <2> QED BY <1>7, <2>2, <2>3, <2>4 DEF ReplicasStopped
<1>8. CASE RemoveController(t)
  <2> DEFINE c == th[t].det.ctl.id
  <2>1. th[t].pc = "rmctl" /\ UNCHANGED <<base, ctl>> /\ c \in CtlIds /\ ~Making(t)
    BY <1>0, <1>8, ThreadIds DEF RemoveController, kv, KnownThread, StopLabels, Making
  <2>2. CASE DetachFails(t) /\ UNCHANGED box
    BY <1>1, <2>1, <2>2, DetachFailsThen, EndedIsQuiet
  <2>3. CASE box[c].st = "stopped" /\ box' = [box EXCEPT ![c].st = "none"] /\ Goto(t, "rmctl.get")
    <3>1. Others(t) /\ SameThread(t) /\ th'[t].pc = "rmctl.get"
      BY <2>3, GotoThen
    <3>2. /\ Exists(c) /\ ~Gone /\ \A d \in CtlIds \ {c} : ~Exists(d)
      BY <2>1, <2>3 DEF Exists, Gone, EngineInv, OneBox
    <3>3. \A d \in CtlIds : box'[d].st = IF d = c THEN "none" ELSE box[d].st
      BY <2>1, <2>3, RemovedBox
    <3>4. Gone' /\ \A d \in CtlIds : (Exists(d)' => Exists(d)) /\ (box[d].st # "new" => box'[d].st # "new")
      BY <3>2, <3>3 DEF Exists, Gone
    <3>5. \A s \in Threads : ~Removing(s)
      BY <3>2 DEF EngineInv, RemovingInv
    <3>6. ASSUME NEW o \in Ops PROVE ~Making(o)
      <4> SUFFICES ASSUME Making(o) PROVE FALSE
        OBVIOUS
      <4>1. o \in Threads /\ th[o].made # 0 /\ Exists(th[o].made) /\ c # th[o].made
        BY DEF EngineInv, MakingInv, Threads
      <4>2. th[o].made \in CtlIds
        BY <4>1, SMT DEF MonitorInv, TypeOK, Thread, CtlIds
      <4> QED BY <3>2, <4>1, <4>2
    <3>7. ctl.id # 0
      BY <3>2, <3>6 DEF EngineInv, ZeroInv
    <3>8. ~Making(t)' /\ ~Clear(t)' /\ ~NoBase(t)
      BY <2>1, <3>1 DEF Making, Clear, NoBase
    <3>9. KnownThread(t)'
      BY <1>0, <2>1, <3>1, <3>3 DEF KnownThread, Known, SameThread, StopLabels, CtlIds
    <3>10. MakingInv'
      BY <2>1, <3>1, <3>3, <3>8, MakingKept DEF SameThread, Exists
    <3>11. Known(ctl)' /\ ZeroInv'
      <4>1. ctl.id \in 0..MaxCtl
        BY DEF MonitorInv, TypeOK, Controller
      <4> QED BY <1>0, <2>1, <3>3, <3>7, <4>1, SMT DEF Known, ZeroInv, CtlIds
    <3> QED BY <1>0, <2>1, <3>1, <3>2, <3>4, <3>5, <3>7, <3>8, <3>9, <3>10, <3>11, EngineStep
  <2> QED BY <1>8, <2>2, <2>3 DEF RemoveController, ContainerAllows
<1>9. CASE RemoveControllerCheck(t)
  <2>1. th[t].pc = "rmctl.get" /\ UNCHANGED <<base, ctl, box>>
    BY <1>9 DEF RemoveControllerCheck, kv, boxes
  <2>2. CASE DetachFails(t)
    BY <1>1, <2>1, <2>2, DetachFailsThen, EndedIsQuiet DEF Making
  <2>3. CASE Goto(t, "rmctl.del")
    <3>1. Others(t) /\ SameThread(t) /\ th'[t].pc = "rmctl.del"
      BY <2>3, GotoThen
    <3>2. /\ Removing(t) /\ ~Making(t)' /\ ~Making(t) /\ ~Clear(t)' /\ ~NoBase(t)
          /\ th[t].det.ctl.id # 0
      BY <1>0, <2>1, <3>1 DEF Removing, Making, Clear, NoBase, KnownThread, StopLabels
    <3> QED BY <1>0, <1>1, <2>1, <3>1, <3>2, MovedIsQuiet
  <2> QED BY <1>9, <2>2, <2>3 DEF RemoveControllerCheck
<1>10. CASE RemoveControllerDelete(t)
  <2>1. th[t].pc = "rmctl.del" /\ ctl' = NoCtl /\ UNCHANGED <<base, box>> /\ AfterDetach(t)
    BY <1>10 DEF RemoveControllerDelete, boxes
  <2>2. Gone /\ \A s \in Threads \ {t} : ~Removing(s)
    BY <2>1 DEF Removing, EngineInv, RemovingInv
  <2>3. /\ Others(t)
        /\ \/ Ended(t)
           \/ t \in Ops /\ SameThread(t) /\ th'[t].pc \in {"stopold", "rmreps"}
    BY <2>1, AfterDetachThen
  <2>4. /\ ~Removing(t)' /\ ~Making(t)' /\ th'[t].pc \notin StopLabels
        /\ th'[t].pc \notin {"monitor", "restore"}
    BY <2>3 DEF Ended, Removing, Making, StopLabels
  <2>5. NoVolume.ctl = NoCtl /\ NoCtl.id = 0 /\ ~NoCtl.running
    BY DEF NoVolume, NoCtl
  <2>6. th'[t].det.ctl \in {th[t].det.ctl, NoCtl} /\ (t \in Ops => th'[t].kind # "nogood")
    BY <1>0, <2>3, <2>5 DEF Ended, SameThread, KnownThread
  <2>7. KnownThread(t)' /\ Known(ctl)'
    BY <1>0, <2>1, <2>4, <2>5, <2>6 DEF KnownThread, Known
  <2>8. Gone' /\ ctl'.id = 0 /\ ZeroInv'
    BY <2>1, <2>2, <2>5 DEF Gone, Exists, ZeroInv
  <2>9. \A s \in Threads : ~Removing(s)'
    BY <2>2, <2>3, <2>4 DEF Others, Removing
  <2>10. MakingInv'
    BY <2>1, <2>3, <2>4, <2>5, <2>6, <2>8, SameBoxes, MakingKept
  <2>11. t \in Ops => base
    BY <1>0, <2>1 DEF NoBase
  <2> QED BY <2>1, <2>2, <2>3, <2>4, <2>7, <2>8, <2>9, <2>10, <2>11, SameBoxes, EngineStep
<1> QED
  BY <1>2, <1>3, <1>4, <1>5, <1>6, <1>7, <1>8, <1>9, <1>10 DEF DetachStep

\* Attach and createFromBackup begin: the volume is read.
LEMMA BeginAttachEngine ==
  ASSUME MonitorInv, MonitorInv', EngineInv, OneRequest, NEW t \in Ops, ~Making(t),
         BeginAttach(t), UNCHANGED <<kv, boxes>>
  PROVE  EngineInv'
<1>0. /\ t \in Threads /\ th \in [Threads -> Thread] /\ th[t] \in Thread /\ KnownThread(t) /\ Known(ctl)
      /\ UNCHANGED <<base, ctl, box>>
  BY DEF MonitorInv, TypeOK, EngineInv, Threads, kv, boxes
<1> DEFINE v == [ctl |-> ctl, rep |-> rep]
           f == [r \in Reps |-> IF rep[r] = "running" THEN "box" ELSE "off"]
<1> HIDE DEF v, f
<1>1. CASE ~base
  BY <1>0, <1>1, ReturnThen, EndedIsQuiet, SameBoxes, QuietThread DEF BeginAttach
<1>2. CASE base /\ ctl.running /\ HostOf(ctl.id) = th[t].host
  <2>1. th' = [th EXCEPT ![t].vol = v, ![t].made = ctl.id, ![t].pc = "monitor"]
    BY <1>2 DEF BeginAttach, v
  <2>2. Others(t) /\ th'[t] = [th[t] EXCEPT !.vol = v, !.made = ctl.id, !.pc = "monitor"]
    BY <1>0, <2>1 DEF Others
  <2>3. /\ th'[t].pc = "monitor" /\ th'[t].det = th[t].det /\ th'[t].made = ctl.id
        /\ th'[t].kind = th[t].kind
    BY <1>0, <2>2 DEF Thread
  <2>4. ctl.id # 0 /\ box[ctl.id].st # "new"
    BY <1>0, <1>2 DEF Known
  <2>5. ~Removing(t)' /\ ~Clear(t)' /\ ~Making(t)' /\ th'[t].pc \notin StopLabels
    BY <2>3 DEF Removing, Clear, Making, StopLabels
  <2>6. Quiet(t)
    BY <1>0, <1>2, <2>3, <2>4, <2>5 DEF Quiet, KnownThread
  <2> QED BY <1>0, <2>2, <2>6, SameBoxes, QuietThread
<1>3. CASE base /\ ~(ctl.running /\ HostOf(ctl.id) = th[t].host) /\ DetachFirst
  <2>1. th' = [th EXCEPT ![t].vol = v, ![t].pc = "detach"]
    BY <1>3 DEF BeginAttach, v
  <2>2. Others(t) /\ th'[t] = [th[t] EXCEPT !.vol = v, !.pc = "detach"]
    BY <1>0, <2>1 DEF Others
  <2>3. /\ th'[t].pc = "detach" /\ th'[t].det = th[t].det /\ th'[t].kind = th[t].kind
    BY <1>0, <2>2 DEF Thread
  <2>4. /\ ~Removing(t)' /\ ~Clear(t)' /\ ~Making(t)' /\ th'[t].pc \notin StopLabels
        /\ th'[t].pc \notin {"monitor", "restore"}
    BY <2>3 DEF Removing, Clear, Making, StopLabels
  <2>5. Quiet(t)
    BY <1>0, <1>3, <2>3, <2>4 DEF Quiet, KnownThread
  <2> QED BY <1>0, <2>2, <2>5, SameBoxes, QuietThread
<1>4. CASE base /\ ~(ctl.running /\ HostOf(ctl.id) = th[t].host) /\ ~DetachFirst
  <2>1. th' = [th EXCEPT ![t].vol = v, ![t].pc = "stopold", ![t].left = f]
    BY <1>4 DEF BeginAttach, v, f
  <2>2. Others(t) /\ th'[t] = [th[t] EXCEPT !.vol = v, !.pc = "stopold", !.left = f]
    BY <1>0, <2>1 DEF Others
  <2>3. /\ th'[t].pc = "stopold" /\ th'[t].det = th[t].det /\ th'[t].kind = th[t].kind
    BY <1>0, <2>2 DEF Thread
  <2>4. /\ ~Removing(t)' /\ ~Making(t)' /\ th'[t].pc \notin StopLabels
        /\ th'[t].pc \notin {"monitor", "restore"}
    BY <2>3 DEF Removing, Making, StopLabels
  <2>5. Gone /\ \A s \in Threads : ~Removing(s)
    BY <1>4, NothingStored DEF DetachFirst
  <2>6. Quiet(t)
    BY <1>0, <1>4, <2>3, <2>4, <2>5 DEF Quiet, KnownThread
  <2> QED BY <1>0, <2>2, <2>6, SameBoxes, QuietThread
<1> QED BY <1>1, <1>2, <1>3, <1>4

\* A request goes on with its controller gone.
LEMMA StillClear ==
  ASSUME MonitorInv, MonitorInv', EngineInv, OneRequest, NEW t \in Ops, UNCHANGED <<kv, boxes>>,
         Clear(t), th[t].pc \in {"stopold", "startreps", "prepare", "rmreps"},
         Others(t), Ended(t) \/ (SameThread(t) /\ th'[t].pc \in {"startreps", "prepare", "create"})
  PROVE  EngineInv'
<1>0. t \in Threads /\ UNCHANGED <<base, ctl, box>> /\ base /\ ~Making(t)
  BY DEF Threads, kv, boxes, EngineInv, NoBase, Making
<1>1. CASE Ended(t)
  BY <1>0, <1>1, EndedIsQuiet, SameBoxes, QuietThread
<1>2. CASE SameThread(t) /\ th'[t].pc \in {"startreps", "prepare", "create"}
  <2>1. ~Removing(t)' /\ ~Making(t)' /\ th'[t].pc \notin StopLabels /\ th'[t].pc \notin {"monitor", "restore"}
    BY <1>2 DEF Removing, Making, StopLabels
  <2>2. Quiet(t)
    BY <1>0, <1>2, <2>1, MovedIsQuiet
  <2> QED BY <1>0, <2>2, SameBoxes, QuietThread
<1> QED BY <1>1, <1>2

\* A request creates a controller container, when there is none.
LEMMA CreateContainerEngine ==
  ASSUME MonitorInv, MonitorInv', EngineInv, OneRequest, NEW t \in Ops, CreateContainer(t)
  PROVE  EngineInv'
<1>0. /\ t \in Threads /\ Ops \subseteq Threads /\ th \in [Threads -> Thread]
      /\ th[t].pc = "create" /\ UNCHANGED <<base, ctl>> /\ ~Making(t) /\ ~NoBase(t) /\ Clear(t)
  BY DEF MonitorInv, TypeOK, Threads, CreateContainer, kv, Making, NoBase, Clear
<1>1. Gone /\ base /\ \A s \in Threads : ~Removing(s)
  BY <1>0 DEF EngineInv, ClearInv
<1>2. CASE Fail(t) /\ UNCHANGED box
  BY <1>0, <1>2, FailThen, EndedIsQuiet, SameBoxes, QuietThread
<1>3. ASSUME NEW c \in CtlIds, box[c].st = "new",
             box' = [box EXCEPT ![c] = [host |-> th[t].host, st |-> "stopped", rw |-> {}]],
             th' = [th EXCEPT ![t].made = c, ![t].pc = "start"]
      PROVE  EngineInv'
  <2>1. box \in [CtlIds -> [host : Hosts \cup {None}, rw : SUBSET Reps,
                            st : {"new", "none", "stopped", "running"}]]
    BY DEF MonitorInv, TypeOK
  <2>2. \A d \in CtlIds : box'[d].st = IF d = c THEN "stopped" ELSE box[d].st
    BY <1>3, <2>1
  <2>3. Others(t) /\ th'[t] = [th[t] EXCEPT !.made = c, !.pc = "start"]
    BY <1>0, <1>3 DEF Others
  <2>4. th'[t].made = c /\ th'[t].pc = "start" /\ th'[t].det = th[t].det /\ th'[t].kind = th[t].kind
    BY <1>0, <2>3, SMT DEF Thread
  <2>5. c # 0 /\ Exists(c)' /\ \A d \in CtlIds \ {c} : ~Exists(d)'
    BY <1>1, <2>2, SMT DEF CtlIds, Gone, Exists
  <2>6. ASSUME NEW x \in Controller, Known(x)
        PROVE  x.id # c /\ (x.running => x.id # 0) /\ (x.id # 0 => box'[x.id].st # "new")
    <3>1. x.id # c
      BY <1>3, <2>5, <2>6 DEF Known
    <3>2. x.id # 0 => x.id \in CtlIds
      BY SMT DEF Controller, CtlIds
    <3> QED BY <2>2, <2>6, <3>1, <3>2 DEF Known
  <2>7. Known(ctl)' /\ ctl'.id # c
    BY <1>0, <2>6 DEF MonitorInv, TypeOK, EngineInv, Known
  <2>8. ASSUME NEW s \in Threads PROVE KnownThread(s)' /\ th'[s].det.ctl.id # c
    <3>1. th'[s].det = th[s].det /\ th'[s].kind = th[s].kind
      BY <2>3, <2>4 DEF Others
    <3>2. th[s].det.ctl \in Controller /\ th[s].made \in 0..MaxCtl
      BY <1>0 DEF Thread, Volume
    <3>3. KnownThread(s)
      BY DEF EngineInv
    <3>4. Known(th[s].det.ctl)' /\ th'[s].det.ctl.id # c
      BY <2>6, <3>1, <3>2, <3>3 DEF KnownThread, Known
    <3>5. th[s].made # 0 /\ box[th[s].made].st # "new" => box'[th[s].made].st # "new"
      BY <2>2, <3>2, SMT DEF CtlIds
    <3>6. CASE s = t
      BY <2>4, <3>1, <3>3, <3>4, <3>6 DEF KnownThread, StopLabels
    <3>7. CASE s # t
      <4>1. th'[s] = th[s]
        BY <2>3, <3>7 DEF Others
      <4> QED BY <3>3, <3>4, <3>5, <4>1 DEF KnownThread
    <3> QED BY <3>6, <3>7
  <2>9. OneBox'
    BY <2>5 DEF OneBox, CtlIds
  <2>10. Making(t)' /\ ~Removing(t)' /\ ~Clear(t)'
    BY <2>4 DEF Making, Removing, Clear
  <2>11. ZeroInv'
    BY <2>10 DEF ZeroInv
  <2>12. RemovingInv'
    <3>1. \A s \in Threads : ~Removing(s)'
      BY <1>1, <2>3, <2>10 DEF Others, Removing
    <3> QED BY <3>1 DEF RemovingInv
  <2>13. \A o \in Ops : o = t
    BY DEF OneRequest
  <2>14. ClearInv'
    BY <2>10, <2>13 DEF ClearInv
  <2>15. MakingInv'
    <3>1. Exists(th[t].made)'
      BY <2>4, <2>5 DEF Exists
    <3>2. ASSUME NEW o \in Ops, o = t
          PROVE  /\ th'[o].made # 0 /\ Exists(th[o].made)' /\ ctl'.id # th'[o].made
                 /\ \A s \in Threads : th'[s].det.ctl.id # th'[o].made
      BY <2>4, <2>5, <2>7, <2>8, <3>1, <3>2
    <3> QED BY <2>13, <3>2 DEF MakingInv
  <2> QED BY <1>0, <1>1, <2>7, <2>8, <2>9, <2>11, <2>12, <2>14, <2>15 DEF EngineInv
<1> QED BY <1>2, <1>3 DEF CreateContainer

\* The container that a request has created is removed, if it does not run.
LEMMA CleanUpEngine ==
  ASSUME MonitorInv, MonitorInv', EngineInv, OneRequest, NEW t \in Ops, Making(t), CleanUp(t),
         UNCHANGED kv, Others(t), Ended(t), ctl.id # 0 \/ box[th[t].made].st # "running"
  PROVE  EngineInv'
<1> DEFINE c == th[t].made
<1>0. t \in Threads /\ UNCHANGED <<base, ctl>>
  BY DEF Threads, kv
<1>1. c \in CtlIds /\ Exists(c)
  BY <1>0, SMT DEF EngineInv, MakingInv, MonitorInv, TypeOK, Thread, CtlIds
<1>2. ~Gone /\ \A s \in Threads : ~Removing(s)
  BY <1>1 DEF Gone, EngineInv, RemovingInv
<1>3. \/ Gone' /\ \A d \in CtlIds : box'[d].st = IF d = c THEN "none" ELSE box[d].st
      \/ ctl.id # 0 /\ UNCHANGED box
  <2>1. CASE box[c].st = "stopped"
    <3>1. \A d \in CtlIds : box'[d].st = IF d = c THEN "none" ELSE box[d].st
      BY <1>1, <2>1, RemovedBox DEF CleanUp
    <3>2. \A d \in CtlIds : Exists(d) => d = c
      BY <1>1 DEF EngineInv, OneBox
    <3> QED BY <3>1, <3>2 DEF Gone, Exists
  <2>2. CASE box[c].st # "stopped"
    BY <1>1, <2>2 DEF CleanUp, Exists
  <2> QED BY <2>1, <2>2
<1>4. \A d \in CtlIds : (Exists(d)' => Exists(d)) /\ (box[d].st # "new" => box'[d].st # "new")
  BY <1>3 DEF Exists
<1>5. ZeroInv'
  BY <1>0, <1>3 DEF ZeroInv
<1>6. Known(ctl)'
  <2>1. ctl.id \in 0..MaxCtl /\ Known(ctl)
    BY DEF MonitorInv, TypeOK, Controller, EngineInv
  <2> QED BY <1>0, <1>4, <2>1, SMT DEF Known, CtlIds
<1>7. NoVolume.ctl = NoCtl /\ NoCtl.id = 0 /\ ~NoCtl.running
  BY DEF NoVolume, NoCtl
<1>8. /\ ~Removing(t)' /\ ~Making(t)' /\ ~Clear(t)' /\ NoBase(t)'
      /\ th'[t].pc \notin StopLabels /\ th'[t].pc \notin {"monitor", "restore"}
  BY DEF Ended, Removing, Making, Clear, NoBase, StopLabels
<1>9. KnownThread(t)'
  BY <1>7, <1>8 DEF Ended, KnownThread, Known
<1>10. MakingInv'
  BY <1>0, <1>8, MakingKept
<1>11. \A s \in Threads : ~Removing(s)'
  BY <1>2, <1>8 DEF Others, Removing
<1> QED BY <1>0, <1>4, <1>5, <1>6, <1>8, <1>9, <1>10, <1>11, EngineStep

\* startMonitoring: the request ends or goes on, and a monitor may start.
LEMMA StartMonitoringEngine ==
  ASSUME MonitorInv, MonitorInv', EngineInv, OneRequest, NEW t \in Ops, StartMonitoring(t)
  PROVE  EngineInv'
<1>0. /\ t \in Threads /\ th \in [Threads -> Thread] /\ th[t] \in Thread /\ KnownThread(t)
      /\ th[t].pc = "monitor" /\ UNCHANGED <<base, ctl, box>> /\ t \notin Mons
  BY ManagerAssumption DEF MonitorInv, TypeOK, EngineInv, Threads, StartMonitoring, kv, boxes
<1>1. base /\ ~Making(t)
  BY <1>0 DEF EngineInv, NoBase, Making
<1>2. ASSUME th'[t] = Attached(t) PROVE Quiet(t)
  <2>1. CASE th[t].kind = "restore"
    <3>1. th'[t] = [th[t] EXCEPT !.pc = "restore"]
      BY <1>2, <2>1 DEF Attached
    <3>2. /\ th'[t].pc = "restore" /\ th'[t].det = th[t].det /\ th'[t].made = th[t].made
          /\ th'[t].kind = th[t].kind
      BY <1>0, <3>1 DEF Thread
    <3>3. ~Removing(t)' /\ ~Making(t)' /\ ~Clear(t)' /\ th'[t].pc \notin StopLabels
      BY <3>2 DEF Removing, Making, Clear, StopLabels
    <3> QED BY <1>0, <1>1, <3>2, <3>3 DEF Quiet, KnownThread
  <2>2. CASE th[t].kind # "restore"
    <3>1. th'[t] = Idle
      BY <1>2, <2>2 DEF Attached
    <3>2. Ended(t)
      BY <3>1, IdleThen DEF Ended
    <3> QED BY <1>0, <1>1, <3>2, EndedIsQuiet
  <2> QED BY <2>1, <2>2
<1>3. CASE th' = [th EXCEPT ![t] = Attached(t)]
  <2>1. Others(t) /\ th'[t] = Attached(t)
    BY <1>0, <1>3 DEF Others
  <2> QED BY <1>0, <1>2, <2>1, SameBoxes, QuietThread
<1>4. ASSUME NEW m \in Mons, Free(m), NEW h,
             th' = [th EXCEPT ![t] = Attached(t), ![m] = Watching(h, th[t].made)]
      PROVE  EngineInv'
  <2>1. m \in Threads /\ m # t /\ th[m].pc = "idle" /\ m \notin Ops
    BY <1>0, <1>4, ManagerAssumption DEF Threads, Free, Unused
  <2>2. /\ th'[t] = Attached(t) /\ th'[m] = Watching(h, th[t].made)
        /\ \A s \in Threads \ {t, m} : th'[s] = th[s]
    BY <1>0, <1>4, <2>1
  <2>3. Ended(m) /\ ~Making(m)
    BY <2>1, <2>2, WatchingThen, SMT DEF Ended, Making
  <2>4. Quiet(m) /\ Quiet(t)
    BY <1>2, <2>1, <2>2, <2>3, EndedIsQuiet
  <2>5. \A s \in Threads : th'[s] = th[s] \/ Quiet(s)
    BY <2>2, <2>4
  <2> QED BY <1>0, <2>5, SameBoxes, QuietStep
<1> QED BY <1>3, <1>4 DEF StartMonitoring

\* doAttach, of the only request.
LEMMA AttachEngine ==
  ASSUME MonitorInv, MonitorInv', EngineInv, OneRequest, NEW t \in Threads, AttachStep(t)
  PROVE  EngineInv'
<1>0. /\ th[t] \in Thread /\ KnownThread(t) /\ ThreadOK(t, th[t])
      /\ th[t].pc \notin MonitorLabels => t \in Ops
  BY DEF MonitorInv, TypeOK, EngineInv, ThreadOK, Threads
<1>1. CASE AttachGet(t)
  <2>1. t \in Ops /\ ~Making(t)
    BY <1>0, <1>1 DEF AttachGet, MonitorLabels, Making
  <2> QED BY <1>1, <2>1, BeginAttachEngine DEF AttachGet
<1>2. CASE OldStopped(t) \/ ReplicasStarted(t) \/ PrepareCreateController(t)
  <2>1. /\ t \in Ops /\ Clear(t) /\ th[t].pc \in {"stopold", "startreps", "prepare", "rmreps"}
        /\ UNCHANGED <<kv, boxes>>
    BY <1>0, <1>2
    DEF OldStopped, ReplicasStarted, PrepareCreateController, Joined, MonitorLabels, Clear
  <2>2. CASE Fail(t) \/ Return(t)
    <3>1. Others(t) /\ Ended(t)
      BY <2>2, FailThen, ReturnThen
    <3> QED BY <2>1, <3>1, StillClear
  <2>3. CASE FanOut(t, "startreps", Has(th[t].vol)) \/ Goto(t, "prepare") \/ Goto(t, "create")
    <3>1. Others(t) /\ SameThread(t) /\ th'[t].pc \in {"startreps", "prepare", "create"}
      BY <2>3, FanOutThen, GotoThen
    <3> QED BY <2>1, <3>1, StillClear
  <2> QED BY <1>2, <2>2, <2>3 DEF OldStopped, ReplicasStarted, PrepareCreateController
<1>3. CASE CreateContainer(t)
  <2>1. t \in Ops
    BY <1>0, <1>3 DEF CreateContainer, MonitorLabels
  <2> QED BY <1>3, <2>1, CreateContainerEngine
<1>4. CASE StartContainer(t) \/ WaitForEngine(t) \/ ControllerCheck(t) \/ ControllerSet(t)
  <2> DEFINE c == th[t].made
  <2>1. t \in Ops /\ Making(t) /\ ~NoBase(t)
    BY <1>0, <1>4
    DEF StartContainer, WaitForEngine, ControllerCheck, ControllerSet, MonitorLabels, Making, NoBase
  <2>2. c \in CtlIds /\ Exists(c) /\ base /\ c # 0
    BY <1>0, <2>1, SMT DEF EngineInv, MakingInv, Thread, CtlIds
  <2>3. ASSUME SameThread(t), th'[t].pc \in {"wait", "meta.get", "meta.set"}, base' PROVE Quiet(t)
    <3>1. Making(t)' /\ ~Removing(t)' /\ ~Clear(t)' /\ th'[t].pc \notin StopLabels /\ th'[t].pc \notin {"monitor", "restore"}
      BY <2>3 DEF Making, Removing, Clear, StopLabels
    <3> QED BY <2>1, <2>3, <3>1, MovedIsQuiet
  <2>4. CASE StartContainer(t)
    <3>1. Others(t) /\ SameThread(t) /\ th'[t].pc = "wait" /\ UNCHANGED <<base, ctl>>
      BY <2>4, GotoThen DEF StartContainer, kv
    <3>2. \A d \in CtlIds : (Exists(d)' <=> Exists(d)) /\ (box[d].st # "new" => box'[d].st # "new")
      BY <2>2, <2>4, ExistingBox, SameBoxes DEF StartContainer
    <3> QED BY <2>2, <2>3, <3>1, <3>2, QuietThread
  <2>5. CASE WaitForEngine(t) \/ ControllerCheck(t)
    <3>1. UNCHANGED <<base, ctl>> /\ UNCHANGED kv
      BY <2>5 DEF WaitForEngine, ControllerCheck, kv
    <3>2. CASE (Goto(t, "meta.get") \/ Goto(t, "meta.set")) /\ UNCHANGED box
      <4>1. Others(t) /\ SameThread(t) /\ th'[t].pc \in {"meta.get", "meta.set"}
        BY <3>2, GotoThen
      <4> QED BY <2>2, <2>3, <3>1, <3>2, <4>1, SameBoxes, QuietThread
    <3>3. CASE CleanUp(t) /\ Fail(t) /\ (ctl.id # 0 \/ box[c].st # "running")
      BY <2>1, <3>1, <3>3, FailThen, CleanUpEngine
    <3> QED BY <2>5, <3>2, <3>3 DEF WaitForEngine, ControllerCheck
  <2>6. CASE ControllerSet(t)
    <3>1. /\ Others(t) /\ SameThread(t) /\ th'[t].pc = "monitor" /\ UNCHANGED <<base, box>>
          /\ ctl' = [id |-> c, running |-> TRUE]
      BY <2>6, GotoThen DEF ControllerSet, boxes
    <3>2. ctl'.id = c /\ box'[c].st # "new"
      BY <2>2, <3>1 DEF Exists
    <3>3. ~Making(t)' /\ ~Removing(t)' /\ ~Clear(t)' /\ th'[t].pc \notin StopLabels
      BY <3>1 DEF Making, Removing, Clear, StopLabels
    <3>4. Known(ctl)' /\ ZeroInv'
      BY <2>2, <3>2 DEF Known, ZeroInv
    <3>5. KnownThread(t)'
      BY <1>0, <2>2, <3>1, <3>2, <3>3 DEF KnownThread, Known, SameThread
    <3>6. MakingInv'
      BY <2>1, <3>1, <3>3, SameBoxes, MakingKept
    <3> QED BY <2>1, <2>2, <3>1, <3>2, <3>3, <3>4, <3>5, <3>6, SameBoxes, EngineStep
  <2> QED BY <1>4, <2>4, <2>5, <2>6
<1>5. CASE StartMonitoring(t)
  <2>1. t \in Ops
    BY <1>0, <1>5 DEF StartMonitoring, MonitorLabels
  <2> QED BY <1>5, <2>1, StartMonitoringEngine
<1> QED BY <1>1, <1>2, <1>3, <1>4, <1>5 DEF AttachStep

\* Create, Restore, Delete and Start.
LEMMA VolumeEngine ==
  ASSUME MonitorInv, MonitorInv', EngineInv, OneRequest, NEW t \in Threads, VolumeStep(t)
  PROVE  EngineInv'
<1>0. /\ th \in [Threads -> Thread] /\ th[t] \in Thread /\ KnownThread(t) /\ ThreadOK(t, th[t])
      /\ th[t].pc \notin MonitorLabels => t \in Ops
      /\ t \in Ops => NoBase(t) \/ base
  BY DEF MonitorInv, TypeOK, EngineInv, ThreadOK, Threads
<1>1. /\ t \in Ops /\ ~Making(t)
      /\ th[t].pc \in {"get", "setbase", "newbase", "newreps", "restore", "rmreps"}
  BY <1>0
  DEF VolumeStep, CreateGet, CreateCheck, CreateVolume, Created, Restore, DeleteGet, DeleteVolume, StartList,
      Joined, MonitorLabels, Making
<1>2. ASSUME UNCHANGED <<base, ctl, box>>, Others(t), Ended(t) PROVE EngineInv'
  BY <1>1, <1>2, EndedIsQuiet, SameBoxes, QuietThread
<1>3. CASE CreateGet(t) \/ CreateCheck(t)
  <2>1. UNCHANGED <<base, ctl, box>>
    BY <1>3 DEF CreateGet, CreateCheck, kv, boxes
  <2>2. CASE Return(t)
    BY <1>2, <2>1, <2>2, ReturnThen
  <2>3. ASSUME NEW l \in {"setbase", "newbase"}, Goto(t, l) PROVE EngineInv'
    <3>1. Others(t) /\ SameThread(t) /\ th'[t].pc = l
      BY <2>3, GotoThen
    <3>2. /\ ~Making(t)' /\ ~Removing(t)' /\ ~Clear(t)' /\ th'[t].pc \notin StopLabels
          /\ th'[t].pc \notin {"monitor", "restore"} /\ NoBase(t)'
      BY <3>1 DEF Making, Removing, Clear, StopLabels, NoBase
    <3>3. Quiet(t)
      BY <1>1, <3>1, <3>2, MovedIsQuiet
    <3> QED BY <2>1, <3>1, <3>3, SameBoxes, QuietThread
  <2> QED BY <1>3, <2>2, <2>3 DEF CreateGet, CreateCheck
<1>4. CASE CreateVolume(t)
  <2>1. UNCHANGED <<ctl, box>>
    BY <1>4 DEF CreateVolume, boxes
  <2>3. ASSUME base' = TRUE, NEW S, FanOut(t, "newreps", S) PROVE EngineInv'
    <3>1. Others(t) /\ SameThread(t) /\ th'[t].pc = "newreps"
      BY <2>3, FanOutThen
    <3>2. /\ ~Making(t)' /\ ~Removing(t)' /\ ~Clear(t)' /\ th'[t].pc \notin StopLabels
          /\ th'[t].pc \notin {"monitor", "restore"}
      BY <3>1 DEF Making, Removing, Clear, StopLabels
    <3>3. Quiet(t)
      BY <1>1, <2>3, <3>1, <3>2, MovedIsQuiet
    <3> QED BY <2>1, <2>3, <3>1, <3>3, SameBoxes, QuietThread
  <2> QED BY <1>4, <2>3 DEF CreateVolume
<1>5. CASE Created(t)
  <2>1. UNCHANGED <<kv, boxes>> /\ UNCHANGED <<base, ctl, box>>
    BY <1>5 DEF Created, kv, boxes
  <2>2. CASE BeginAttach(t)
    BY <1>1, <2>1, <2>2, BeginAttachEngine
  <2>3. CASE Return(t)
    BY <1>2, <2>1, <2>3, ReturnThen
  <2> QED BY <1>5, <2>2, <2>3 DEF Created
<1>6. CASE Restore(t)
  <2>1. UNCHANGED <<base, ctl, box>> /\ th[t].pc = "restore"
    BY <1>6 DEF Restore, kv, boxes
  <2>2. CASE Fail(t)
    BY <1>2, <2>1, <2>2, FailThen
  <2>3. CASE th' = [th EXCEPT ![t].kind = "restored", ![t].pc = "unmonitor",
                      ![t].det = [ctl |-> [id |-> th[t].made, running |-> TRUE],
                                  rep |-> th[t].vol.rep]]
    <3> DEFINE d == [ctl |-> [id |-> th[t].made, running |-> TRUE], rep |-> th[t].vol.rep]
    <3> HIDE DEF d
    <3>1. Others(t) /\ th'[t] = [th[t] EXCEPT !.kind = "restored", !.pc = "unmonitor", !.det = d]
      BY <1>0, <2>3 DEF Others, d
    <3>2. th'[t].pc = "unmonitor" /\ th'[t].kind = "restored" /\ th'[t].det = d
      BY <1>0, <3>1 DEF Thread
    <3>3. d.ctl.id = th[t].made /\ th[t].made # 0 /\ box[th[t].made].st # "new" /\ base
      BY <1>0, <1>1, <2>1 DEF d, KnownThread, NoBase
    <3>4. /\ ~Making(t)' /\ ~Removing(t)' /\ ~Clear(t)' /\ th'[t].pc \notin StopLabels
          /\ th'[t].pc \notin {"monitor", "restore"}
      BY <3>2, <3>3 DEF Making, Removing, Clear, StopLabels
    <3>5. t \notin Mons
      BY <1>1, ManagerAssumption
    <3>6. Quiet(t)
      BY <1>1, <2>1, <3>2, <3>3, <3>4, <3>5 DEF Quiet, Known
    <3> QED BY <2>1, <3>1, <3>6, SameBoxes, QuietThread
  <2> QED BY <1>6, <2>2, <2>3 DEF Restore
<1>7. CASE DeleteGet(t)
  <2>1. UNCHANGED <<kv, boxes>> /\ UNCHANGED <<base, ctl, box>>
    BY <1>7 DEF DeleteGet, kv, boxes
  <2>2. CASE Return(t)
    BY <1>2, <2>1, <2>2, ReturnThen
  <2>3. CASE base /\ th' = [th EXCEPT ![t].det = [ctl |-> ctl, rep |-> rep], ![t].pc = "unmonitor"]
    <3>1. Others(t) /\ th'[t] = [th[t] EXCEPT !.det = [ctl |-> ctl, rep |-> rep], !.pc = "unmonitor"]
      BY <1>0, <2>3 DEF Others
    <3>2. th'[t].pc = "unmonitor" /\ th'[t].det.ctl = ctl /\ th'[t].kind = th[t].kind
      BY <1>0, <3>1, SMT DEF Thread
    <3> QED BY <1>1, <2>1, <2>3, <3>1, <3>2, ReadForDetach
  <2> QED BY <1>7, <2>2, <2>3 DEF DeleteGet
<1>8. CASE DeleteVolume(t)
  <2>1. /\ Others(t) /\ Ended(t) /\ th[t].pc = "rmreps" /\ ctl' = NoCtl /\ UNCHANGED box
    BY <1>8, ReturnThen DEF DeleteVolume, Joined, boxes
  <2>2. Gone /\ \A s \in Threads : ~Removing(s)
    BY <1>1, <2>1 DEF Clear, EngineInv, ClearInv
  <2>3. NoVolume.ctl = NoCtl /\ NoCtl.id = 0 /\ ~NoCtl.running
    BY DEF NoVolume, NoCtl
  <2>4. /\ ~Removing(t)' /\ ~Making(t)' /\ ~Clear(t)' /\ NoBase(t)'
        /\ th'[t].pc \notin StopLabels /\ th'[t].pc \notin {"monitor", "restore"}
    BY <1>1, <2>1 DEF Ended, Removing, Making, Clear, NoBase, StopLabels
  <2>5. KnownThread(t)' /\ Known(ctl)'
    BY <2>1, <2>3, <2>4 DEF Ended, KnownThread, Known
  <2>6. ZeroInv'
    BY <2>1, <2>2 DEF ZeroInv, Gone, Exists
  <2>7. MakingInv'
    BY <1>1, <2>1, <2>4, MakingKept
  <2>8. \A s \in Threads : ~Removing(s)'
    BY <2>1, <2>2, <2>4 DEF Others, Removing
  <2> QED BY <1>1, <2>1, <2>4, <2>5, <2>6, <2>7, <2>8, SameBoxes, EngineStep
<1>9. CASE StartList(t)
  <2>1. UNCHANGED <<base, ctl, box>>
    BY <1>9 DEF StartList, kv, boxes
  <2>2. CASE Return(t)
    BY <1>2, <2>1, <2>2, ReturnThen
  <2>3. CASE base /\ ctl.running /\ th' = [th EXCEPT ![t].made = ctl.id, ![t].pc = "monitor"]
    <3>1. Others(t) /\ th'[t] = [th[t] EXCEPT !.made = ctl.id, !.pc = "monitor"]
      BY <1>0, <2>3 DEF Others
    <3>2. /\ th'[t].pc = "monitor" /\ th'[t].det = th[t].det /\ th'[t].made = ctl.id
          /\ th'[t].kind = th[t].kind
      BY <1>0, <3>1 DEF Thread
    <3>3. ctl.id # 0 /\ box[ctl.id].st # "new"
      BY <2>3 DEF EngineInv, Known
    <3>4. ~Removing(t)' /\ ~Clear(t)' /\ ~Making(t)' /\ th'[t].pc \notin StopLabels
      BY <3>2 DEF Removing, Clear, Making, StopLabels
    <3>5. Quiet(t)
      BY <1>0, <1>1, <2>1, <2>3, <3>2, <3>3, <3>4 DEF Quiet, KnownThread
    <3> QED BY <2>1, <3>1, <3>5, SameBoxes, QuietThread
  <2> QED BY <1>9, <2>2, <2>3 DEF StartList
<1> QED BY <1>3, <1>4, <1>5, <1>6, <1>7, <1>8, <1>9 DEF VolumeStep

-----------------------------------------------------------------------------
\* Where replica calls are under way.
CallLabels == {"stopreps", "stopold", "startreps", "rmreps", "newreps"}

Calls(x) == x.left = NoCalls \/ x.pc \in CallLabels

CallsInv == \A t \in Threads : Calls(th[t])

\* No call is under way, or calls are about to begin.
Starts(x) == x.left = NoCalls \/ (x.pc \in CallLabels /\ \A r \in Reps : x.left[r] \in {"box", "off"})

\* Calls that are about to begin have not come to an answer.
LEMMA StartsCalls ==
  ASSUME NEW x
  PROVE  /\ Starts(x) => Calls(x)
         /\ Starts(x) => \A r \in Reps : x.left[r] \in {"box", "off"}
<1>1. \A r \in Reps : NoCalls[r] = "off"
  BY DEF NoCalls
<1> QED BY <1>1 DEF Starts, Calls

\* A thread that ends, in whatever way, has no call under way.
LEMMA CallsMove ==
  ASSUME MonitorInv, NEW t \in Threads, Return(t) \/ Fail(t) \/ DetachFails(t)
  PROVE  Others(t) /\ Starts(th'[t])
<1>1. th \in [Threads -> Thread]
  BY DEF MonitorInv, TypeOK
<1>2. CASE Return(t)
  BY <1>2, ReturnThen DEF Ended, Starts
<1>3. CASE Fail(t)
  BY <1>3, FailThen DEF Ended, Starts
<1>4. CASE DetachFails(t) /\ th[t].kind = "nogood"
  <2>1. Others(t) /\ th'[t] = [Watching(th[t].host, th[t].made) EXCEPT !.pc = "close"]
    BY <1>1, <1>4 DEF Others, DetachFails
  <2> QED BY <2>1, WatchingThen, SMT DEF Starts
<1> QED BY <1>2, <1>3, <1>4 DEF DetachFails

\* A thread that goes on without a call has none.
LEMMA CallsGoto ==
  ASSUME MonitorInv, NEW t \in Threads, NEW l, Goto(t, l), th[t].left = NoCalls
  PROVE  Others(t) /\ Starts(th'[t])
  BY GotoThen DEF Starts

\* The calls that a thread begins are about to begin.
LEMMA CallsFanOut ==
  ASSUME MonitorInv, NEW t \in Threads, NEW l \in CallLabels, NEW S, FanOut(t, l, S)
  PROVE  Others(t) /\ Starts(th'[t])
<1>1. /\ Others(t) /\ th'[t].pc = l
      /\ th'[t].left = [r \in Reps |-> IF r \in S THEN "box" ELSE "off"]
  BY FanOutThen, SMT
<1>2. \A r \in Reps : th'[t].left[r] \in {"box", "off"}
  BY <1>1
<1> QED BY <1>1, <1>2 DEF Starts

\* So are those of the attach or of the delete that the detach was for.
LEMMA CallsAfterDetach ==
  ASSUME MonitorInv, NEW t \in Threads, AfterDetach(t)
  PROVE  Others(t) /\ Starts(th'[t])
<1>1. CASE th[t].kind \in {"attach", "restore"}
  BY <1>1, CallsFanOut DEF AfterDetach, StopOld, CallLabels
<1>2. CASE th[t].kind = "delete"
  BY <1>2, CallsFanOut DEF AfterDetach, CallLabels
<1>3. CASE th[t].kind \notin {"attach", "restore", "delete"}
  BY <1>3, CallsMove DEF AfterDetach
<1> QED BY <1>1, <1>2, <1>3

\* The calls of doDetach.
LEMMA DetachCalls ==
  ASSUME MonitorInv, CallsInv, NEW t \in Threads, DetachStep(t)
  PROVE  Others(t) /\ Starts(th'[t])
<1>0. th \in [Threads -> Thread] /\ Calls(th[t])
  BY DEF MonitorInv, TypeOK, CallsInv
<1>1. CASE DetachGet(t)
  <2>1. CASE base
    <3> DEFINE d == [ctl |-> ctl, rep |-> rep]
    <3> HIDE DEF d
    <3>1. Others(t) /\ th'[t] = [th[t] EXCEPT !.det = d, !.pc = "unmonitor"]
      BY <1>0, <1>1, <2>1 DEF DetachGet, d, Others
    <3>2. th'[t].left = th[t].left
      BY <1>0, <3>1, SMT DEF Thread
    <3> QED BY <1>0, <1>1, <3>1, <3>2 DEF DetachGet, Calls, Starts, CallLabels
  <2>2. CASE ~base
    BY <1>1, <2>2, CallsAfterDetach DEF DetachGet
  <2> QED BY <2>1, <2>2
<1>2. CASE StopMonitoring(t)
  BY <1>0, <1>2, CallsGoto, CallsFanOut DEF StopMonitoring, StopReplicas, CallLabels, Calls
<1>3. CASE StopController(t)
  BY <1>0, <1>3, CallsGoto, CallsMove DEF StopController, CallLabels, Calls
<1>4. CASE StopControllerCheck(t)
  BY <1>0, <1>4, CallsGoto, CallsMove DEF StopControllerCheck, CallLabels, Calls
<1>5. CASE StopControllerSet(t)
  BY <1>5, CallsFanOut DEF StopControllerSet, StopReplicas, CallLabels
<1>6. CASE ReplicasStopped(t)
  BY <1>6, CallsGoto, CallsMove, CallsAfterDetach DEF ReplicasStopped, Joined
<1>7. CASE RemoveController(t)
  BY <1>0, <1>7, CallsGoto, CallsMove DEF RemoveController, CallLabels, Calls
<1>8. CASE RemoveControllerCheck(t)
  BY <1>0, <1>8, CallsGoto, CallsMove DEF RemoveControllerCheck, CallLabels, Calls
<1>9. CASE RemoveControllerDelete(t)
  BY <1>9, CallsAfterDetach DEF RemoveControllerDelete
<1> QED BY <1>1, <1>2, <1>3, <1>4, <1>5, <1>6, <1>7, <1>8, <1>9 DEF DetachStep

\* The calls of doAttach for the replicas that still run.
LEMMA CallsBegin ==
  ASSUME MonitorInv, NEW t \in Threads, th[t].left = NoCalls, BeginAttach(t)
  PROVE  Others(t) /\ Starts(th'[t])
<1>0. th \in [Threads -> Thread]
  BY DEF MonitorInv, TypeOK
<1> DEFINE v == [ctl |-> ctl, rep |-> rep]
           f == [r \in Reps |-> IF rep[r] = "running" THEN "box" ELSE "off"]
<1> HIDE DEF v, f
<1>1. \/ Return(t)
      \/ th' = [th EXCEPT ![t].vol = v, ![t].made = ctl.id, ![t].pc = "monitor"]
      \/ th' = [th EXCEPT ![t].vol = v, ![t].pc = "detach"]
      \/ th' = [th EXCEPT ![t].vol = v, ![t].pc = "stopold", ![t].left = f]
  BY DEF BeginAttach, v, f
<1>2. CASE Return(t)
  BY <1>2, CallsMove
<1>3. CASE th' = [th EXCEPT ![t].vol = v, ![t].made = ctl.id, ![t].pc = "monitor"]
  <2>1. Others(t) /\ th'[t] = [th[t] EXCEPT !.vol = v, !.made = ctl.id, !.pc = "monitor"]
    BY <1>0, <1>3 DEF Others
  <2> QED BY <1>0, <2>1, SMT DEF Thread, Starts
<1>4. CASE th' = [th EXCEPT ![t].vol = v, ![t].pc = "detach"]
  <2>1. Others(t) /\ th'[t] = [th[t] EXCEPT !.vol = v, !.pc = "detach"]
    BY <1>0, <1>4 DEF Others
  <2> QED BY <1>0, <2>1, SMT DEF Thread, Starts
<1>5. CASE th' = [th EXCEPT ![t].vol = v, ![t].pc = "stopold", ![t].left = f]
  <2>1. Others(t) /\ th'[t] = [th[t] EXCEPT !.vol = v, !.pc = "stopold", !.left = f]
    BY <1>0, <1>5 DEF Others
  <2>2. th'[t].left = f /\ th'[t].pc = "stopold"
    BY <1>0, <2>1, SMT DEF Thread
  <2> QED BY <2>1, <2>2 DEF Starts, CallLabels, f
<1> QED BY <1>1, <1>2, <1>3, <1>4, <1>5

\* The calls of doAttach.
LEMMA AttachCalls ==
  ASSUME MonitorInv, CallsInv, NEW t \in Threads, AttachStep(t), ~StartMonitoring(t)
  PROVE  Others(t) /\ Starts(th'[t])
<1>0. th \in [Threads -> Thread] /\ Calls(th[t])
  BY DEF MonitorInv, TypeOK, CallsInv
<1>1. CASE AttachGet(t)
  <2>1. th[t].left = NoCalls
    BY <1>0, <1>1 DEF AttachGet, Calls, CallLabels
  <2> QED BY <1>1, <2>1, CallsBegin DEF AttachGet
<1>2. CASE OldStopped(t)
  BY <1>2, CallsFanOut, CallsMove DEF OldStopped, CallLabels
<1>3. CASE ReplicasStarted(t)
  BY <1>3, CallsGoto, CallsMove DEF ReplicasStarted, Joined
<1>4. CASE PrepareCreateController(t)
  BY <1>0, <1>4, CallsGoto, CallsMove DEF PrepareCreateController, CallLabels, Calls
<1>5. CASE CreateContainer(t)
  <2>1. th[t].left = NoCalls
    BY <1>0, <1>5 DEF CreateContainer, Calls, CallLabels
  <2>2. ASSUME NEW c, th' = [th EXCEPT ![t].made = c, ![t].pc = "start"]
        PROVE  Others(t) /\ Starts(th'[t])
    <3>1. Others(t) /\ th'[t] = [th[t] EXCEPT !.made = c, !.pc = "start"]
      BY <1>0, <2>2 DEF Others
    <3> QED BY <1>0, <2>1, <3>1, SMT DEF Thread, Starts
  <2> QED BY <1>5, <2>2, CallsMove DEF CreateContainer
<1>6. CASE StartContainer(t)
  BY <1>0, <1>6, CallsGoto DEF StartContainer, CallLabels, Calls
<1>7. CASE WaitForEngine(t)
  BY <1>0, <1>7, CallsGoto, CallsMove DEF WaitForEngine, CallLabels, Calls
<1>8. CASE ControllerCheck(t)
  BY <1>0, <1>8, CallsGoto, CallsMove DEF ControllerCheck, CallLabels, Calls
<1>9. CASE ControllerSet(t)
  BY <1>0, <1>9, CallsGoto DEF ControllerSet, CallLabels, Calls
<1> QED BY <1>1, <1>2, <1>3, <1>4, <1>5, <1>6, <1>7, <1>8, <1>9 DEF AttachStep

\* The calls of Create and Delete.
LEMMA VolumeCalls ==
  ASSUME MonitorInv, CallsInv, NEW t \in Threads, VolumeStep(t)
  PROVE  Others(t) /\ Starts(th'[t])
<1>0. th \in [Threads -> Thread] /\ Calls(th[t])
  BY DEF MonitorInv, TypeOK, CallsInv
<1>1. CASE CreateGet(t)
  BY <1>0, <1>1, CallsGoto, CallsMove DEF CreateGet, CallLabels, Calls
<1>8. CASE CreateCheck(t)
  BY <1>0, <1>8, CallsGoto, CallsMove DEF CreateCheck, CallLabels, Calls
<1>2. CASE CreateVolume(t)
  BY <1>2, CallsFanOut DEF CreateVolume, CallLabels
<1>3. CASE Created(t)
  BY <1>3, CallsBegin, CallsMove DEF Created, Joined
<1>4. CASE Restore(t)
  <2>1. th[t].left = NoCalls
    BY <1>0, <1>4 DEF Restore, Calls, CallLabels
  <2> DEFINE d == [ctl |-> [id |-> th[t].made, running |-> TRUE], rep |-> th[t].vol.rep]
  <2> HIDE DEF d
  <2>2. CASE th' = [th EXCEPT ![t].kind = "restored", ![t].pc = "unmonitor", ![t].det = d]
    <3>1. Others(t) /\ th'[t] = [th[t] EXCEPT !.kind = "restored", !.pc = "unmonitor", !.det = d]
      BY <1>0, <2>2 DEF Others
    <3> QED BY <1>0, <2>1, <3>1, SMT DEF Thread, Starts
  <2> QED BY <1>4, <2>2, CallsMove DEF Restore, d
<1>5. CASE DeleteGet(t)
  <2>1. th[t].left = NoCalls
    BY <1>0, <1>5 DEF DeleteGet, Calls, CallLabels
  <2> DEFINE d == [ctl |-> ctl, rep |-> rep]
  <2> HIDE DEF d
  <2>2. CASE th' = [th EXCEPT ![t].det = d, ![t].pc = "unmonitor"]
    <3>1. Others(t) /\ th'[t] = [th[t] EXCEPT !.det = d, !.pc = "unmonitor"]
      BY <1>0, <2>2 DEF Others
    <3> QED BY <1>0, <2>1, <3>1, SMT DEF Thread, Starts
  <2> QED BY <1>5, <2>2, CallsMove DEF DeleteGet, d
<1>6. CASE DeleteVolume(t)
  BY <1>6, CallsMove DEF DeleteVolume
<1>7. CASE StartList(t)
  <2>1. th[t].left = NoCalls
    BY <1>0, <1>7 DEF StartList, Calls, CallLabels
  <2>2. CASE th' = [th EXCEPT ![t].made = ctl.id, ![t].pc = "monitor"]
    <3>1. Others(t) /\ th'[t] = [th[t] EXCEPT !.made = ctl.id, !.pc = "monitor"]
      BY <1>0, <2>2 DEF Others
    <3> QED BY <1>0, <2>1, <3>1, SMT DEF Thread, Starts
  <2> QED BY <1>7, <2>2, CallsMove DEF StartList
<1> QED BY <1>1, <1>2, <1>3, <1>4, <1>5, <1>6, <1>7, <1>8 DEF VolumeStep

\* A call for a replica goes on or ends.
GoesOn(t, r) ==
  /\ Others(t) /\ SameThread(t) /\ th'[t].pc = th[t].pc
  /\ \A q \in Reps \ {r} : th'[t].left[q] = th[t].left[q]

\* A replica is to be created on another host.
Elsewhere(t) ==
  /\ Others(t) /\ SameThread(t) /\ th'[t].pc = th[t].pc /\ Doing(t) = "create"
  /\ \A q \in Reps : th'[t].left[q] \in {"off", "box", th[t].left[q]}

\* One that fails ends the request when the replicas are served in turn, unless
\* there is another host.
Progress(t, r) == GoesOn(t, r) \/ (Others(t) /\ Ended(t) /\ InTurn(t)) \/ Elsewhere(t)

\* The next host gets the call for a replica that could not be created.
LEMMA TryNextThen ==
  ASSUME MonitorInv, NEW t \in Threads, NEW r \in Reps, Doing(t) = "create", TryNextHost(t, r)
  PROVE  Elsewhere(t)
<1>0. th \in [Threads -> Thread]
  BY DEF MonitorInv, TypeOK
<1>1. PICK q \in Reps : th' = [th EXCEPT ![t].left = [@ EXCEPT ![r] = "off", ![q] = "box"]]
  BY DEF TryNextHost, NextHosts, Fresh
<1> DEFINE f == [th[t].left EXCEPT ![r] = "off", ![q] = "box"]
<1>2. \A p \in Reps : f[p] \in {"off", "box", th[t].left[p]}
  BY <1>0 DEF Thread
<1>3. Others(t) /\ th'[t] = [th[t] EXCEPT !.left = f]
  BY <1>0, <1>1 DEF Others
<1> HIDE DEF f
<1>4. SameThread(t) /\ th'[t].pc = th[t].pc /\ th'[t].left = f
  BY <1>0, <1>3, SMT DEF SameThread, Thread
<1> QED BY <1>2, <1>3, <1>4 DEF Elsewhere

\* A call that fails is over, and its thread goes on with the others.
LEMMA ReplicaFailsThen ==
  ASSUME MonitorInv, NEW t \in Threads, NEW r \in Reps, ReplicaFails(t, r)
  PROVE  Progress(t, r)
<1>0. th \in [Threads -> Thread]
  BY DEF MonitorInv, TypeOK
<1>1. CASE InTurn(t) /\ Return(t)
  BY <1>1, ReturnThen DEF Progress
<1>3. CASE Doing(t) = "create" /\ TryNextHost(t, r)
  BY <1>3, TryNextThen DEF Progress
<1>2. CASE th' = [th EXCEPT ![t].left[r] = "off", ![t].errs = TRUE]
  <2>1. Others(t) /\ th'[t] = [th[t] EXCEPT !.left[r] = "off", !.errs = TRUE]
    BY <1>0, <1>2 DEF Others
  <2>2. SameThread(t) /\ th'[t].pc = th[t].pc
    BY <1>0, <2>1, SMT DEF SameThread, Thread
  <2>3. \A q \in Reps \ {r} : th'[t].left[q] = th[t].left[q]
    BY <1>0, <2>1, SMT DEF Thread
  <2> QED BY <2>1, <2>2, <2>3 DEF Progress, GoesOn
<1> QED BY <1>1, <1>2, <1>3 DEF ReplicaFails

\* A call goes on alone: its thread and the other calls stay where they are.
LEMMA LeftThen ==
  ASSUME MonitorInv, NEW t \in Threads, NEW r \in Reps, NEW l, th' = [th EXCEPT ![t].left[r] = l]
  PROVE  GoesOn(t, r) /\ th'[t].left[r] = l
<1>0. th \in [Threads -> Thread]
  BY DEF MonitorInv, TypeOK
<1>1. Others(t) /\ th'[t] = [th[t] EXCEPT !.left[r] = l]
  BY <1>0 DEF Others
<1>2. SameThread(t) /\ th'[t].pc = th[t].pc
  BY <1>0, <1>1, SMT DEF SameThread, Thread
<1>3. th'[t].left[r] = l /\ \A q \in Reps \ {r} : th'[t].left[q] = th[t].left[q]
  BY <1>0, <1>1 DEF Thread
<1> QED BY <1>1, <1>2, <1>3 DEF GoesOn

\* Each step of a replica call is a step of a call under way.
LEMMA ReplicaThen ==
  ASSUME MonitorInv, NEW t \in Threads, NEW r \in Reps,
         ReplicaContainer(t, r) \/ ReplicaCheck(t, r) \/ ReplicaSet(t, r)
  PROVE  th[t].left[r] # "off" /\ Progress(t, r)
<1>1. CASE ReplicaContainer(t, r)
  BY <1>1, LeftThen, ReplicaFailsThen DEF Progress, ReplicaContainer
<1>2. CASE ReplicaCheck(t, r)
  BY <1>2, LeftThen, ReplicaFailsThen DEF Progress, ReplicaCheck
<1>3. CASE ReplicaSet(t, r)
  BY <1>3, LeftThen DEF Progress, ReplicaSet
<1> QED BY <1>1, <1>2, <1>3

\* It is made at a place that makes calls, and leaves its thread there.
LEMMA ProgressCalls ==
  ASSUME MonitorInv, CallsInv, NEW t \in Threads, NEW r \in Reps, th[t].left[r] # "off", Progress(t, r)
  PROVE  th[t].pc \in CallLabels /\ Others(t) /\ Calls(th'[t])
<1>1. th[t].left # NoCalls
  BY DEF NoCalls
<1>2. th[t].pc \in CallLabels
  BY <1>1 DEF CallsInv, Calls
<1> QED BY <1>2 DEF Progress, GoesOn, Elsewhere, Ended, Calls

\* A step that is no call for a replica begins when none is under way.
LEMMA NoCallsBefore ==
  ASSUME CallsInv, NEW t \in Threads, DetachStep(t) \/ AttachStep(t) \/ VolumeStep(t)
  PROVE  th[t].left = NoCalls
<1>0. Calls(th[t])
  BY DEF CallsInv
<1>1. CASE DetachStep(t)
  BY <1>0, <1>1
  DEF DetachStep, DetachGet, StopMonitoring, StopController, StopControllerCheck, StopControllerSet,
      ReplicasStopped, RemoveController, RemoveControllerCheck, RemoveControllerDelete, Joined, Calls, CallLabels
<1>2. CASE AttachStep(t)
  BY <1>0, <1>2
  DEF AttachStep, AttachGet, OldStopped, ReplicasStarted, PrepareCreateController, CreateContainer,
      StartContainer, WaitForEngine, ControllerCheck, ControllerSet, StartMonitoring, Joined, Calls, CallLabels
<1>3. CASE VolumeStep(t)
  BY <1>0, <1>3
  DEF VolumeStep, CreateGet, CreateCheck, CreateVolume, Created, Restore, DeleteGet, DeleteVolume,
      StartList, Joined, Calls, CallLabels
<1> QED BY <1>1, <1>2, <1>3

\* Whatever is done, replica calls are under way only where they are made.
LEMMA NextCalls == MonitorInv /\ MonitorInv' /\ CallsInv /\ [Next]_vars => CallsInv'
<1> SUFFICES ASSUME MonitorInv, MonitorInv', CallsInv, [Next]_vars PROVE CallsInv'
  OBVIOUS
<1>0. /\ th \in [Threads -> Thread] /\ \A t \in Threads : Calls(th[t])
      /\ Ops \subseteq Threads /\ Mons \subseteq Threads /\ Calls(Idle)
  BY IdleThen DEF MonitorInv, TypeOK, CallsInv, Threads, Calls
<1>1. ASSUME NEW t \in Threads, Others(t), Calls(th'[t]) PROVE CallsInv'
  BY <1>0, <1>1 DEF Others, CallsInv
<1>2. ASSUME UNCHANGED th PROVE CallsInv'
  BY <1>2 DEF CallsInv, Calls
<1>3. ASSUME NEW h, Exit(h) PROVE CallsInv'
  <2>1. \A t \in Threads : th'[t] = Idle \/ th'[t] = th[t]
    BY <1>3 DEF Exit
  <2> QED BY <1>0, <2>1 DEF CallsInv
<1>4. ASSUME NEW t \in Threads, StartMonitoring(t) PROVE CallsInv'
  <2>1. th[t].pc = "monitor" /\ th[t].left = NoCalls
    BY <1>0, <1>4 DEF StartMonitoring, Calls, CallLabels
  <2>2. Calls(Attached(t))
    <3>1. CASE th[t].kind = "restore"
      <4>1. Attached(t) = [th[t] EXCEPT !.pc = "restore"]
        BY <3>1 DEF Attached
      <4> QED BY <1>0, <2>1, <4>1, SMT DEF Thread, Calls
    <3> QED BY <1>0, <3>1 DEF Attached
  <2> DEFINE w == Watching(th[t].host, th[t].made)
  <2> HIDE DEF w
  <2>3. \A s \in Threads : th'[s] \in {th[s], Attached(t), w}
    <3>1. CASE th' = [th EXCEPT ![t] = Attached(t)]
      BY <1>0, <3>1
    <3>2. ASSUME NEW m \in Mons, th' = [th EXCEPT ![t] = Attached(t), ![m] = w]
          PROVE  \A s \in Threads : th'[s] \in {th[s], Attached(t), w}
      BY <1>0, <3>2
    <3> QED BY <1>4, <3>1, <3>2 DEF StartMonitoring, w
  <2>4. Calls(w)
    BY WatchingThen, SMT DEF Calls, w
  <2> QED BY <1>0, <2>2, <2>3, <2>4 DEF CallsInv
<1>5. ASSUME NEW t \in Threads, ThreadStep(t) PROVE CallsInv'
  <2>1. CASE DetachStep(t)
    BY <1>1, <2>1, DetachCalls, StartsCalls
  <2>2. CASE AttachStep(t)
    BY <1>1, <1>4, <2>2, AttachCalls, StartsCalls
  <2>3. CASE VolumeStep(t)
    BY <1>1, <2>3, VolumeCalls, StartsCalls
  <2>4. ASSUME NEW r \in Reps, ReplicaContainer(t, r) \/ ReplicaCheck(t, r) \/ ReplicaSet(t, r)
        PROVE  CallsInv'
    BY <1>1, <2>4, ReplicaThen, ProgressCalls
  <2>5. CASE MonitorStep(t)
    <3>0. Calls(th[t])
      BY <1>0
    <3>1. CASE Tick(t)
      <4>1. CASE th' = [th EXCEPT ![t] = Idle]
        <5>1. Others(t) /\ th'[t] = Idle
          BY <1>0, <4>1 DEF Others
        <5> QED BY <1>0, <1>1, <5>1
      <4> QED BY <1>1, <3>0, <3>1, <4>1, CallsGoto, StartsCalls DEF Tick, Calls, CallLabels
    <3>2. CASE CheckController(t)
      <4>1. th[t].left = NoCalls
        BY <3>0, <3>2 DEF CheckController, Calls, CallLabels
      <4>2. CASE th' = [th EXCEPT ![t].kind = "nogood", ![t].pc = "detach"]
        <5>1. Others(t) /\ th'[t] = [th[t] EXCEPT !.kind = "nogood", !.pc = "detach"]
          BY <1>0, <4>2 DEF Others
        <5>2. Calls(th'[t])
          BY <1>0, <4>1, <5>1, SMT DEF Thread, Calls
        <5> QED BY <1>1, <5>1, <5>2
      <4> QED BY <1>1, <3>2, <4>1, <4>2, CallsGoto, StartsCalls DEF CheckController
    <3>3. CASE CloseChannel(t)
      <4>1. th[t].left = NoCalls
        BY <3>0, <3>3 DEF CloseChannel, Calls, CallLabels
      <4> QED BY <1>1, <1>3, <3>3, <4>1, CallsGoto, StartsCalls DEF CloseChannel
    <3> QED BY <2>5, <3>1, <3>2, <3>3 DEF MonitorStep
  <2> QED BY <1>5, <2>1, <2>2, <2>3, <2>4, <2>5 DEF ThreadStep
<1>6. CASE Environment
  <2>1. ASSUME NEW t \in Ops, NEW h, NEW k, Request(t, k, h) \/ Boot(t, h) PROVE CallsInv'
    <3>0. th[t].left = NoCalls /\ t \in Threads
      BY <1>0, <2>1 DEF Request, Boot, Calls, CallLabels
    <3>1. ASSUME NEW x, NEW l, th' = [th EXCEPT ![t].kind = x, ![t].host = h, ![t].pc = l]
          PROVE  CallsInv'
      <4>1. Others(t) /\ th'[t] = [th[t] EXCEPT !.kind = x, !.host = h, !.pc = l]
        BY <1>0, <3>0, <3>1 DEF Others
      <4>2. Calls(th'[t])
        BY <1>0, <3>0, <4>1, SMT DEF Thread, Calls
      <4> QED BY <1>1, <3>0, <4>1, <4>2
    <3>2. CASE Request(t, k, h)
      BY <3>1, <3>2 DEF Request
    <3>3. CASE Boot(t, h)
      BY <3>1, <3>3 DEF Boot
    <3> QED BY <2>1, <3>2, <3>3
  <2>2. ASSUME NEW h, Kill(h) PROVE CallsInv'
    BY <1>3, <2>2 DEF Kill
  <2>3. ASSUME NEW c, EngineDies(c) PROVE CallsInv'
    BY <1>2, <2>3 DEF EngineDies
  <2>4. ASSUME NEW t \in Threads, CallFails(t) PROVE CallsInv'
    <3>1. CASE Return(t) \/ Fail(t) \/ DetachFails(t)
      BY <1>1, <3>1, CallsMove, StartsCalls
    <3>2. ASSUME NEW l, Goto(t, l), th[t].pc \in {"setbase", "check"} PROVE CallsInv'
      <4>1. th[t].left = NoCalls
        BY <1>0, <3>2 DEF Calls, CallLabels
      <4> QED BY <1>1, <3>2, <4>1, CallsGoto, StartsCalls
    <3> QED BY <2>4, <3>1, <3>2 DEF CallFails
  <2>5. ASSUME NEW t \in Threads, NEW r \in Reps, ReplicaCallFails(t, r) PROVE CallsInv'
    BY <1>1, <2>5, ReplicaFailsThen, ProgressCalls DEF ReplicaCallFails
  <2> QED BY <1>6, <2>1, <2>2, <2>3, <2>4, <2>5 DEF Environment
<1>7. CASE UNCHANGED vars
  BY <1>2, <1>7 DEF vars
<1> QED BY <1>5, <1>6, <1>7 DEF Next, Rest

-----------------------------------------------------------------------------
\* A call for a replica leaves the controllers as they are.
LEMMA ReplicaBoxes ==
  ASSUME MonitorInv, NEW t \in Threads, NEW r \in Reps,
         ReplicaContainer(t, r) \/ ReplicaCheck(t, r) \/ ReplicaSet(t, r)
  PROVE  UNCHANGED base /\ \A c \in CtlIds : box'[c].st = box[c].st
<1>1. CASE UNCHANGED box
  BY <1>1 DEF ReplicaContainer, ReplicaCheck, ReplicaSet, kv
<1>2. CASE UNCHANGED base /\ box' = [c \in CtlIds |-> [box[c] EXCEPT !.rw = @ \ {r}]]
  <2>1. box \in [CtlIds -> [host : Hosts \cup {None}, rw : SUBSET Reps,
                            st : {"new", "none", "stopped", "running"}]]
    BY DEF MonitorInv, TypeOK
  <2> QED BY <1>2, <2>1
<1> QED BY <1>1, <1>2 DEF ReplicaContainer, ReplicaCheck, ReplicaSet, boxes, kv

\* A call for a replica starts or removes no controller.
LEMMA ReplicaEngine ==
  ASSUME MonitorInv, MonitorInv', CallsInv, EngineInv, OneRequest, NEW t \in Threads, NEW r \in Reps,
         ReplicaContainer(t, r) \/ ReplicaCheck(t, r) \/ ReplicaSet(t, r)
  PROVE  EngineInv'
<1>0. UNCHANGED <<base, ctl>>
  BY DEF ReplicaContainer, ReplicaCheck, ReplicaSet, kv
<1>1. Progress(t, r) /\ th[t].pc \in CallLabels
  BY ReplicaThen, ProgressCalls
<1>2. \A c \in CtlIds : box'[c].st = box[c].st
  BY ReplicaBoxes
<1>3. \A c \in CtlIds : (Exists(c)' <=> Exists(c)) /\ (box[c].st # "new" => box'[c].st # "new")
  BY <1>2 DEF Exists
<1>4. ~Making(t)
  BY <1>1 DEF CallLabels, Making
<1>5. CASE Ended(t)
  BY <1>0, <1>1, <1>3, <1>4, <1>5, EndedIsQuiet, QuietThread DEF Progress, GoesOn, Elsewhere
<1>6. CASE SameThread(t) /\ th'[t].pc = th[t].pc
  <2>1. /\ th'[t].pc \notin StopLabels /\ ~Removing(t)' /\ ~Making(t)'
        /\ (Clear(t)' => Clear(t)) /\ (NoBase(t)' <=> NoBase(t))
    BY <1>1, <1>6 DEF CallLabels, StopLabels, Removing, Making, Clear, NoBase, SameThread
  <2>2. t \in Ops => NoBase(t)' \/ base'
    BY <1>0, <2>1 DEF EngineInv
  <2>3. Quiet(t)
    BY <1>4, <1>6, <2>1, <2>2, MovedIsQuiet
  <2> QED BY <1>0, <1>1, <1>3, <2>3, QuietThread DEF Progress, GoesOn, Elsewhere
<1> QED BY <1>1, <1>5, <1>6 DEF Progress, GoesOn, Elsewhere

\* The monitor goroutine: when it panics the manager process has ended.
LEMMA MonitorEngine ==
  ASSUME MonitorInv, MonitorInv', EngineInv, OneRequest, NEW m \in Mons, MonitorStep(m)
  PROVE  EngineInv' \/ died'
<1>0. /\ m \in Threads /\ m \notin Ops /\ th \in [Threads -> Thread] /\ UNCHANGED <<base, ctl, box>>
      /\ KnownThread(m) /\ ~Making(m)
  BY ManagerAssumption
  DEF Threads, MonitorInv, TypeOK, EngineInv, MonitorStep, Tick, CheckController, CloseChannel, kv, boxes, Making
<1>1. ASSUME NEW l \in {"check", "close", "watch", "detach"}, Others(m), th'[m].pc = l,
             th'[m].det = th[m].det
      PROVE  EngineInv'
  <2>1. /\ ~Removing(m)' /\ ~Making(m)' /\ th'[m].pc \notin StopLabels
        /\ th'[m].pc \notin {"monitor", "restore"}
    BY <1>1 DEF Removing, Making, StopLabels
  <2>2. Quiet(m)
    BY <1>0, <1>1, <2>1 DEF Quiet, KnownThread
  <2> QED BY <1>0, <1>1, <2>2, SameBoxes, QuietThread
<1>2. ASSUME NEW l \in {"check", "close", "watch", "detach"}, Goto(m, l) PROVE EngineInv'
  BY <1>0, <1>1, <1>2, GotoThen DEF SameThread
<1>3. CASE Tick(m)
  <2>1. CASE th' = [th EXCEPT ![m] = Idle]
    <3>1. Others(m) /\ th'[m] = Idle
      BY <1>0, <2>1 DEF Others
    <3>2. Ended(m)
      BY <1>0, <3>1, IdleThen DEF Ended
    <3> QED BY <1>0, <3>1, <3>2, EndedIsQuiet, SameBoxes, QuietThread
  <2> QED BY <1>2, <1>3, <2>1 DEF Tick
<1>4. CASE CheckController(m)
  <2>1. CASE th' = [th EXCEPT ![m].kind = "nogood", ![m].pc = "detach"]
    <3>1. Others(m) /\ th'[m] = [th[m] EXCEPT !.kind = "nogood", !.pc = "detach"]
      BY <1>0, <2>1 DEF Others
    <3>2. th'[m].pc = "detach" /\ th'[m].det = th[m].det
      BY <1>0, <3>1, SMT DEF Thread
    <3> QED BY <1>1, <3>1, <3>2
  <2> QED BY <1>2, <1>4, <2>1 DEF CheckController
<1>5. CASE CloseChannel(m)
  BY <1>2, <1>5 DEF CloseChannel, Exit
<1> QED BY <1>3, <1>4, <1>5 DEF MonitorStep

\* The environment, when no call fails.
LEMMA EnvironmentEngine ==
  ASSUME MonitorInv, MonitorInv', EngineInv, OneRequest, MaxFaults = 0, Environment
  PROVE  EngineInv' \/ died'
<1>0. th \in [Threads -> Thread] /\ Ops \subseteq Threads
  BY DEF MonitorInv, TypeOK, Threads
<1>1. ASSUME NEW t \in Ops, NEW h, NEW k, k # "nogood", NEW l, l = "get" \/ (l = "detach" /\ k = "detach"),
             th[t].pc = "idle", UNCHANGED <<base, ctl, box>>,
             th' = [th EXCEPT ![t].kind = k, ![t].host = h, ![t].pc = l]
      PROVE  EngineInv'
  <2>1. t \in Threads /\ Others(t) /\ th'[t] = [th[t] EXCEPT !.kind = k, !.host = h, !.pc = l]
    BY <1>0, <1>1 DEF Others
  <2>2. th'[t].kind = k /\ th'[t].pc = l /\ th'[t].det = th[t].det
    BY <1>0, <2>1, SMT DEF Thread
  <2>3. /\ ~Removing(t)' /\ ~Making(t)' /\ ~Making(t) /\ ~Clear(t)' /\ th'[t].pc \notin StopLabels
        /\ th'[t].pc \notin {"monitor", "restore"} /\ NoBase(t)'
    BY <1>1, <2>2 DEF Removing, Making, Clear, StopLabels, NoBase
  <2>4. KnownThread(t)
    BY <2>1 DEF EngineInv
  <2>5. Quiet(t)
    BY <1>1, <2>2, <2>3, <2>4 DEF Quiet, KnownThread
  <2> QED BY <1>1, <2>1, <2>5, SameBoxes, QuietThread
<1>2. ASSUME NEW t \in Ops, NEW h \in Hosts, NEW k \in Kinds, Request(t, k, h) PROVE EngineInv'
  <2>1. k # "nogood"
    BY ManagerAssumption
  <2> QED BY <1>1, <1>2, <2>1 DEF Request, kv, boxes
<1>3. ASSUME NEW t \in Ops, NEW h \in Hosts, Boot(t, h) PROVE EngineInv'
  BY <1>1, <1>3 DEF Boot, kv, boxes
<1>4. ASSUME NEW h \in Hosts, Kill(h) PROVE died'
  BY <1>4 DEF Kill, Exit
<1>5. ASSUME NEW c \in CtlIds, EngineDies(c) PROVE EngineInv'
  <2>1. Exists(c) /\ box' = [box EXCEPT ![c].st = "stopped"] /\ UNCHANGED <<base, ctl, th>>
    BY <1>5 DEF EngineDies, Exists, kv
  <2>2. \A d \in CtlIds : (Exists(d)' <=> Exists(d)) /\ (box[d].st # "new" => box'[d].st # "new")
    BY <2>1, ExistingBox
  <2> QED BY <2>1, <2>2, QuietStep
<1>6. ~(faults < MaxFaults)
  BY SMT DEF MonitorInv, TypeOK
<1> QED BY <1>2, <1>3, <1>4, <1>5, <1>6 DEF Environment, CallFails, ReplicaCallFails

\* While no manager process has ended.
EngineOK == died \/ EngineInv

\* Every step keeps the invariant, until a manager process ends.
LEMMA NextEngine ==
  ASSUME OneRequest, MaxFaults = 0
  PROVE  MonitorInv /\ MonitorInv' /\ CallsInv /\ EngineOK /\ [Next]_vars => EngineOK'
<1> SUFFICES ASSUME MonitorInv, MonitorInv', CallsInv, EngineInv, ~died, [Next]_vars
             PROVE  EngineInv' \/ died'
  BY DiedStays DEF EngineOK
<1>1. CASE UNCHANGED vars
  <2>1. UNCHANGED <<base, ctl, box, th>>
    BY <1>1 DEF vars, kv, boxes
  <2> QED BY <2>1, SameBoxes, QuietStep
<1>2. CASE Environment
  BY <1>2, EnvironmentEngine
<1>3. ASSUME NEW t \in Threads, ThreadStep(t) PROVE EngineInv' \/ died'
  BY <1>3, DetachEngine, AttachEngine, VolumeEngine, ReplicaEngine, MonitorEngine DEF ThreadStep
<1> QED BY <1>1, <1>2, <1>3 DEF Next, Rest

\* OneEngine: with one request at a time and calls that do not fail, two
\* engines never serve the volume together, on whatever host an attach, a
\* restore or the detach of a monitor runs.
THEOREM ManagerOneEngine ==
  ASSUME OneRequest, MaxFaults = 0
  PROVE  Spec => []OneEngine
<1>1. Init => CallsInv
  BY IdleThen DEF Init, CallsInv, Calls
<1>2. Init => EngineOK
  BY InitEngine DEF EngineOK
<1>3. MonitorInv /\ EngineOK => OneEngine
  BY DEF EngineOK, EngineInv, OneBox, OneEngine, Exists
<1> QED BY <1>1, <1>2, <1>3, MonitorInvariant, NextCalls, NextEngine, PTL DEF Spec

-----------------------------------------------------------------------------
\* A replica that has been created and is not stored yet.
Creating(o, r) == th[o].pc = "newreps" /\ th[o].left[r] \in {"get", "stopped", "running"}

\* Delete detaches the volume that it has read.
Deleting(o) ==
  th[o].kind = "delete" /\ th[o].pc \in StopLabels \cup {"unmonitor", "stopreps"}

DeleteInv ==
  /\ ~base => Gone /\ \A r \in Reps : ~There(r)
  /\ \A r \in Reps : There(r) => rep[r] # "nil" \/ \E o \in Ops : Creating(o, r)
  /\ \A o \in Ops, r \in Reps : Deleting(o) /\ There(r) => th[o].det.rep[r] # "nil"
  /\ \A o \in Ops, r \in Reps : th[o].pc = "rmreps" /\ There(r) => th[o].left[r] = "box"
  /\ \A o \in Ops, r \in Reps : Creating(o, r) => repBox[r] # "none"
  /\ \A t \in Threads, r \in Reps : th[t].left[r] = "nil" => th[t].pc = "rmreps"

\* At first the volume has its replicas, or there is none.
LEMMA InitDelete == Init => DeleteInv
<1> SUFFICES ASSUME Init PROVE DeleteInv
  OBVIOUS
<1>1. \A t \in Threads : th[t].pc = "idle" /\ \A r \in Reps : th[t].left[r] = "off"
  BY IdleThen DEF Init, NoCalls
<1>2. Gone
  BY DEF Init, Gone, Exists
<1>3. PICK S \in SUBSET Reps :
        /\ IF base THEN Cardinality(S) = NumReps ELSE S = {}
        /\ rep = [r \in Reps |-> IF r \in S THEN "stopped" ELSE "nil"]
        /\ repBox = [r \in Reps |-> IF r \in S THEN "stopped" ELSE "new"]
  BY DEF Init
<1>4. ~base => S = {}
  BY <1>3
<1>5. \A r \in Reps : There(r) => r \in S /\ rep[r] # "nil"
  BY <1>3 DEF There
<1>6. Ops \subseteq Threads
  BY DEF Threads
<1> QED BY <1>1, <1>2, <1>4, <1>5, <1>6 DEF DeleteInv, Creating, Deleting, StopLabels

\* A step that is no call for a replica, or one that fails: what it does to a
\* thread.
Sound(t) ==
  /\ \A r \in Reps : th[t].left[r] \in {"box", "off"} /\ th'[t].left[r] \in {"box", "off"}
  /\ Deleting(t)' => (Deleting(t) /\ th'[t].det = th[t].det) \/ th'[t].det.rep = rep
  /\ th'[t].pc = "rmreps" => \A r \in Reps : There(r) => th'[t].left[r] = "box"

\* A step that leaves the replicas alone, and in which threads only move between
\* places that claim nothing new about them, keeps the invariant.
LEMMA SoundStep ==
  ASSUME MonitorInv, MonitorInv', DeleteInv, OneRequest, UNCHANGED <<rep, repBox>>, base => base',
         ~base' => Gone', \A t \in Threads : th'[t] = th[t] \/ Sound(t)
  PROVE  DeleteInv'
<1>0. Ops \subseteq Threads /\ \A r \in Reps : There(r)' <=> There(r)
  BY DEF Threads, There
<1>1. \A o \in Ops, r \in Reps : Creating(o, r)' <=> Creating(o, r)
  BY <1>0 DEF Creating, Sound
<1>2. \A r \in Reps : There(r)' => rep'[r] # "nil" \/ \E o \in Ops : Creating(o, r)'
  BY <1>0, <1>1 DEF DeleteInv
<1>3. ASSUME NEW o \in Ops, NEW r \in Reps, Deleting(o)', There(r)' PROVE th'[o].det.rep[r] # "nil"
  <2>1. There(r) /\ \A p \in Ops : p = o
    BY <1>0, <1>3 DEF OneRequest
  <2>2. CASE Deleting(o) /\ th'[o].det = th[o].det
    BY <2>1, <2>2 DEF DeleteInv
  <2>3. CASE Sound(o) /\ th'[o].det.rep = rep
    <3>1. ~Creating(o, r)
      BY <2>3 DEF Sound, Creating
    <3> QED BY <2>1, <2>3, <3>1 DEF DeleteInv
  <2> QED BY <1>0, <1>3, <2>2, <2>3 DEF Sound, Deleting
<1>4. \A o \in Ops, r \in Reps : th'[o].pc = "rmreps" /\ There(r)' => th'[o].left[r] = "box"
  BY <1>0, SMT DEF DeleteInv, Sound
<1>5. \A t \in Threads, r \in Reps : th'[t].left[r] = "nil" => th'[t].pc = "rmreps"
  BY SMT DEF DeleteInv, Sound
<1>6. \A o \in Ops, r \in Reps : Creating(o, r)' => repBox'[r] # "none"
  BY <1>1 DEF DeleteInv
<1>7. ~base' => Gone' /\ \A r \in Reps : ~There(r)'
  BY <1>0 DEF DeleteInv
<1> QED BY <1>2, <1>3, <1>4, <1>5, <1>6, <1>7 DEF DeleteInv

\* The same for a step of one thread.
LEMMA SoundThread ==
  ASSUME MonitorInv, MonitorInv', DeleteInv, OneRequest, UNCHANGED <<rep, repBox>>, base => base',
         ~base' => Gone', NEW t \in Threads, Others(t), Sound(t)
  PROVE  DeleteInv'
<1>1. \A s \in Threads : th'[s] = th[s] \/ Sound(s)
  BY DEF Others
<1> QED BY <1>1, SoundStep

\* A step that neither reads the volume for Delete nor is done with it.
LEMMA SoundMove ==
  ASSUME NEW t \in Threads, th[t].left = NoCalls, Starts(th'[t]), th'[t].pc # "rmreps",
         \/ th'[t].pc \notin StopLabels \cup {"unmonitor", "stopreps"} \/ th'[t].kind # "delete"
         \/ th[t].pc \in StopLabels \cup {"unmonitor", "stopreps"} /\ SameThread(t)
  PROVE  Sound(t)
<1>1. \A r \in Reps : th[t].left[r] = "off" /\ th'[t].left[r] \in {"box", "off"}
  BY StartsCalls DEF NoCalls
<1>2. Deleting(t)' => Deleting(t) /\ th'[t].det = th[t].det
  BY DEF Deleting, SameThread
<1> QED BY <1>1, <1>2 DEF Sound

\* A thread that ends claims nothing.
LEMMA EndedSound ==
  ASSUME NEW t \in Threads, th[t].left = NoCalls, Ended(t)
  PROVE  Sound(t)
<1>1. Starts(th'[t]) /\ th'[t].pc # "rmreps" /\ th'[t].pc \notin StopLabels \cup {"unmonitor", "stopreps"}
  BY DEF Ended, Starts, StopLabels
<1> QED BY <1>1, SoundMove

\* When the volume is detached, Delete goes on to remove the replicas it has
\* read, and those are all.
LEMMA AfterDetachSound ==
  ASSUME MonitorInv, DeleteInv, NEW t \in Threads, th[t].left = NoCalls, AfterDetach(t),
         \/ ~base
         \/ th[t].pc \in StopLabels \cup {"unmonitor", "stopreps"}
  PROVE  Others(t) /\ Sound(t)
<1>1. Others(t) /\ Starts(th'[t])
  BY CallsAfterDetach
<1>2. CASE Ended(t)
  BY <1>1, <1>2, EndedSound
<1>3. CASE th'[t].pc = "stopold"
  BY <1>1, <1>3, SoundMove DEF StopLabels
<1>4. CASE /\ t \in Ops /\ th'[t].pc = "rmreps" /\ th[t].kind = "delete"
           /\ th'[t].left = [r \in Reps |-> IF r \in Has(th[t].det) THEN "box" ELSE "off"]
  <2>1. ASSUME NEW r \in Reps, There(r) PROVE th'[t].left[r] = "box"
    <3>1. base
      BY <2>1 DEF DeleteInv
    <3>2. Deleting(t)
      BY <1>4, <3>1 DEF Deleting
    <3>3. r \in Has(th[t].det)
      BY <1>4, <2>1, <3>2 DEF DeleteInv, Has
    <3> QED BY <1>4, <3>3
  <2>2. \A r \in Reps : th[t].left[r] = "off" /\ th'[t].left[r] \in {"box", "off"}
    BY <1>1, StartsCalls DEF NoCalls
  <2>3. ~Deleting(t)'
    BY <1>4 DEF Deleting, StopLabels
  <2> QED BY <1>1, <2>1, <2>2, <2>3 DEF Sound
<1> QED BY <1>2, <1>3, <1>4, AfterDetachThen

\* A volume that is not there has no controller made for it.
LEMMA GoneStays ==
  ASSUME DeleteInv, UNCHANGED base, base \/ \A c \in CtlIds : Exists(c)' => Exists(c)
  PROVE  (base => base') /\ (~base' => Gone')
  BY DEF DeleteInv, Gone

\* doDetach: the delete that begins it has read all the replicas there are.
LEMMA DetachDelete ==
  ASSUME MonitorInv, MonitorInv', CallsInv, EngineInv, DeleteInv, OneRequest, NEW t \in Threads,
         DetachStep(t)
  PROVE  DeleteInv'
<1>0. th \in [Threads -> Thread] /\ th[t].left = NoCalls /\ Others(t) /\ Starts(th'[t])
  BY NoCallsBefore, DetachCalls DEF MonitorInv, TypeOK
<1> DEFINE Labs == StopLabels \cup {"unmonitor", "stopreps"}
<1>1. UNCHANGED <<base, rep, repBox>>
  BY DEF DetachStep, DetachGet, StopMonitoring, StopController, StopControllerCheck, StopControllerSet,
         ReplicasStopped, RemoveController, RemoveControllerCheck, RemoveControllerDelete, kv, boxes
<1>2. \A c \in CtlIds : Exists(c)' => Exists(c)
  <2>1. CASE UNCHANGED box
    BY <2>1 DEF Exists
  <2>2. ASSUME NEW c, NEW st \in {"stopped", "none"}, Exists(c), box' = [box EXCEPT ![c].st = st]
        PROVE  \A d \in CtlIds : Exists(d)' => Exists(d)
    <3>1. box \in [CtlIds -> [host : Hosts \cup {None}, rw : SUBSET Reps,
                              st : {"new", "none", "stopped", "running"}]]
      BY DEF MonitorInv, TypeOK
    <3>2. \A d \in CtlIds : d # c => box'[d] = box[d]
      BY <2>2, <3>1
    <3> QED BY <2>2, <3>2 DEF Exists
  <2>3. CASE StopController(t)
    BY <2>1, <2>2, <2>3 DEF StopController, ContainerAllows, Exists
  <2>4. CASE RemoveController(t)
    BY <2>1, <2>2, <2>4 DEF RemoveController, ContainerAllows, Exists
  <2>5. CASE ~StopController(t) /\ ~RemoveController(t)
    BY <2>1, <2>5
    DEF DetachStep, DetachGet, StopMonitoring, StopControllerCheck, StopControllerSet,
        ReplicasStopped, RemoveControllerCheck, RemoveControllerDelete, boxes
  <2> QED BY <2>3, <2>4, <2>5
<1>3. (base => base') /\ (~base' => Gone')
  BY <1>1, <1>2, GoneStays
<1> SUFFICES Sound(t)
  BY <1>0, <1>1, <1>3, SoundThread
<1>4. ASSUME NEW l \in Labs, SameThread(t), th'[t].pc = l, th[t].pc \in Labs PROVE Sound(t)
  <2>1. th'[t].pc # "rmreps"
    BY <1>4 DEF StopLabels
  <2> QED BY <1>0, <1>4, <2>1, SoundMove
<1>5. ASSUME Fail(t) \/ DetachFails(t) PROVE Sound(t)
  <2>1. Ended(t)
    BY <1>5, FailThen, DetachFailsThen
  <2> QED BY <1>0, <2>1, EndedSound
<1>6. CASE DetachGet(t)
  <2>1. CASE base
    <3> DEFINE d == [ctl |-> ctl, rep |-> rep]
    <3>1. d.rep = rep
      OBVIOUS
    <3> HIDE DEF d
    <3>2. th'[t] = [th[t] EXCEPT !.det = d, !.pc = "unmonitor"]
      BY <1>0, <1>6, <2>1 DEF DetachGet, d
    <3>3. th'[t].det.rep = rep /\ th'[t].pc = "unmonitor"
      BY <1>0, <3>1, <3>2, SMT DEF Thread
    <3>4. \A r \in Reps : th[t].left[r] = "off" /\ th'[t].left[r] \in {"box", "off"}
      BY <1>0, StartsCalls DEF NoCalls
    <3> QED BY <3>3, <3>4 DEF Sound
  <2>2. CASE ~base
    BY <1>0, <1>6, <2>2, AfterDetachSound DEF DetachGet
  <2> QED BY <2>1, <2>2
<1>7. CASE StopMonitoring(t)
  <2>1. SameThread(t) /\ th'[t].pc \in {"stopctl", "stopreps"} /\ th[t].pc = "unmonitor"
    BY <1>7, GotoThen, FanOutThen DEF StopMonitoring, StopReplicas
  <2> QED BY <1>4, <2>1 DEF StopLabels
<1>8. CASE StopController(t) \/ StopControllerCheck(t) \/ RemoveController(t) \/ RemoveControllerCheck(t)
  <2>1. th[t].pc \in Labs
    BY <1>8 DEF StopController, StopControllerCheck, RemoveController, RemoveControllerCheck, StopLabels
  <2>2. ASSUME NEW l \in StopLabels, Goto(t, l) PROVE Sound(t)
    BY <1>4, <2>1, <2>2, GotoThen
  <2>3. CASE StopController(t)
    BY <1>5, <2>2, <2>3 DEF StopController, StopLabels
  <2>4. CASE StopControllerCheck(t)
    BY <1>5, <2>2, <2>4 DEF StopControllerCheck, StopLabels
  <2>5. CASE RemoveController(t)
    BY <1>5, <2>2, <2>5 DEF RemoveController, StopLabels
  <2>6. CASE RemoveControllerCheck(t)
    BY <1>5, <2>2, <2>6 DEF RemoveControllerCheck, StopLabels
  <2> QED BY <1>8, <2>3, <2>4, <2>5, <2>6
<1>9. CASE StopControllerSet(t)
  <2>1. SameThread(t) /\ th'[t].pc = "stopreps" /\ th[t].pc = "stopctl.set"
    BY <1>9, FanOutThen DEF StopControllerSet, StopReplicas
  <2> QED BY <1>4, <2>1 DEF StopLabels
<1>10. CASE ReplicasStopped(t)
  <2>1. th[t].pc = "stopreps"
    BY <1>10 DEF ReplicasStopped, Joined
  <2>2. CASE Goto(t, "rmctl")
    BY <1>4, <2>1, <2>2, GotoThen DEF StopLabels
  <2>3. CASE AfterDetach(t)
    BY <1>0, <2>1, <2>3, AfterDetachSound
  <2> QED BY <1>5, <1>10, <2>2, <2>3 DEF ReplicasStopped
<1>11. CASE RemoveControllerDelete(t)
  <2>1. th[t].pc \in Labs /\ AfterDetach(t)
    BY <1>11 DEF RemoveControllerDelete, StopLabels
  <2> QED BY <1>0, <2>1, AfterDetachSound
<1> QED BY <1>6, <1>7, <1>8, <1>9, <1>10, <1>11 DEF DetachStep

\* Where a request goes that attaches or creates.
NotDetaching == {"monitor", "detach", "stopold", "startreps", "prepare", "create", "start", "wait",
  "meta.get", "meta.set", "setbase", "newbase", "newreps"}

\* An attach that begins fails at once, or has no detach under way.
LEMMA BeginAttachGoes ==
  ASSUME MonitorInv, NEW t \in Threads, BeginAttach(t)
  PROVE  Ended(t) \/ th'[t].pc \in NotDetaching
<1>0. th \in [Threads -> Thread]
  BY DEF MonitorInv, TypeOK
<1> DEFINE v == [ctl |-> ctl, rep |-> rep]
           f == [r \in Reps |-> IF rep[r] = "running" THEN "box" ELSE "off"]
<1> HIDE DEF v, f
<1>1. \/ Return(t)
      \/ th' = [th EXCEPT ![t].vol = v, ![t].made = ctl.id, ![t].pc = "monitor"]
      \/ th' = [th EXCEPT ![t].vol = v, ![t].pc = "detach"]
      \/ th' = [th EXCEPT ![t].vol = v, ![t].pc = "stopold", ![t].left = f]
  BY DEF BeginAttach, v, f
<1>2. Return(t) \/ th'[t].pc \in {"monitor", "detach", "stopold"}
  BY <1>0, <1>1, SMT DEF Thread
<1> QED BY <1>2, ReturnThen DEF NotDetaching

\* The same holds after every other step of doAttach.
LEMMA AttachGoes ==
  ASSUME MonitorInv, NEW t \in Threads, AttachStep(t), ~StartMonitoring(t)
  PROVE  Ended(t) \/ th'[t].pc \in NotDetaching
<1>0. th \in [Threads -> Thread]
  BY DEF MonitorInv, TypeOK
<1>1. ASSUME NEW l \in NotDetaching, Goto(t, l) PROVE th'[t].pc \in NotDetaching
  BY <1>1, GotoThen
<1>2. CASE AttachGet(t)
  BY <1>2, BeginAttachGoes DEF AttachGet
<1>3. CASE OldStopped(t)
  BY <1>3, FailThen, FanOutThen DEF OldStopped, NotDetaching
<1>4. CASE ReplicasStarted(t)
  BY <1>1, <1>4, FailThen DEF ReplicasStarted, NotDetaching
<1>5. CASE PrepareCreateController(t)
  BY <1>1, <1>5, FailThen, ReturnThen DEF PrepareCreateController, NotDetaching
<1>6. CASE CreateContainer(t)
  <2>1. ASSUME NEW c, th' = [th EXCEPT ![t].made = c, ![t].pc = "start"] PROVE th'[t].pc = "start"
    BY <1>0, <2>1 DEF Thread
  <2> QED BY <1>6, <2>1, FailThen DEF CreateContainer, NotDetaching
<1>7. CASE StartContainer(t)
  BY <1>1, <1>7 DEF StartContainer, NotDetaching
<1>8. CASE WaitForEngine(t)
  BY <1>1, <1>8, FailThen DEF WaitForEngine, NotDetaching
<1>9. CASE ControllerCheck(t)
  BY <1>1, <1>9, FailThen DEF ControllerCheck, NotDetaching
<1>10. CASE ControllerSet(t)
  BY <1>1, <1>10 DEF ControllerSet, NotDetaching
<1> QED
  BY <1>2, <1>3, <1>4, <1>5, <1>6, <1>7, <1>8, <1>9, <1>10 DEF AttachStep

\* Where no detach is under way, a thread without calls claims nothing.
LEMMA NotDetachingSound ==
  ASSUME NEW t \in Threads, th[t].left = NoCalls, Starts(th'[t]), Ended(t) \/ th'[t].pc \in NotDetaching
  PROVE  Sound(t)
<1>1. CASE Ended(t)
  BY <1>1, EndedSound
<1>2. CASE th'[t].pc \in NotDetaching
  <2>1. th'[t].pc # "rmreps" /\ th'[t].pc \notin StopLabels \cup {"unmonitor", "stopreps"}
    BY <1>2 DEF NotDetaching, StopLabels
  <2> QED BY <2>1, SoundMove
<1> QED BY <1>1, <1>2

\* doAttach leaves the replicas to their calls.
LEMMA AttachDelete ==
  ASSUME MonitorInv, MonitorInv', CallsInv, EngineInv, DeleteInv, OneRequest, NEW t \in Threads,
         AttachStep(t)
  PROVE  DeleteInv'
<1>0. th \in [Threads -> Thread] /\ th[t].left = NoCalls
  BY NoCallsBefore DEF MonitorInv, TypeOK
<1>1. UNCHANGED <<base, rep, repBox>>
  BY DEF AttachStep, AttachGet, OldStopped, ReplicasStarted, PrepareCreateController, CreateContainer,
         StartContainer, WaitForEngine, ControllerCheck, ControllerSet, StartMonitoring, kv, boxes
<1>2. base \/ \A c \in CtlIds : Exists(c)' => Exists(c)
  <2>1. CASE UNCHANGED box
    BY <2>1 DEF Exists
  <2>2. CASE CreateContainer(t) \/ StartContainer(t) \/ WaitForEngine(t) \/ ControllerCheck(t)
    <3>1. ThreadOK(t, th[t])
      BY DEF MonitorInv
    <3>2. t \in Ops /\ ~NoBase(t)
      BY <2>2, <3>1
      DEF ThreadOK, MonitorLabels, Threads, CreateContainer, StartContainer, WaitForEngine, ControllerCheck, NoBase
    <3> QED BY <3>2 DEF EngineInv
  <2>3. CASE ~(CreateContainer(t) \/ StartContainer(t) \/ WaitForEngine(t) \/ ControllerCheck(t))
    BY <2>1, <2>3
    DEF AttachStep, AttachGet, OldStopped, ReplicasStarted, PrepareCreateController, ControllerSet,
        StartMonitoring, boxes
  <2> QED BY <2>2, <2>3
<1>3. (base => base') /\ (~base' => Gone')
  BY <1>1, <1>2, GoneStays
<1>4. CASE ~StartMonitoring(t)
  <2>1. Others(t) /\ Starts(th'[t]) /\ (Ended(t) \/ th'[t].pc \in NotDetaching)
    BY <1>4, AttachCalls, AttachGoes
  <2>2. Sound(t)
    BY <1>0, <2>1, NotDetachingSound
  <2> QED BY <1>1, <1>3, <2>1, <2>2, SoundThread
<1>5. CASE StartMonitoring(t)
  <2>1. ASSUME NEW s \in Threads, th[s].left = NoCalls, th'[s].left = NoCalls,
               th'[s].pc \in {"idle", "restore", "watch"}
        PROVE  Sound(s)
    BY <2>1, SoundMove DEF Starts, StopLabels
  <2>2. ASSUME th'[t] = Attached(t) PROVE Sound(t)
    <3>1. CASE th[t].kind = "restore"
      <4>1. th'[t] = [th[t] EXCEPT !.pc = "restore"]
        BY <2>2, <3>1 DEF Attached
      <4>2. th'[t].left = NoCalls /\ th'[t].pc = "restore"
        BY <1>0, <4>1 DEF Thread
      <4> QED BY <1>0, <2>1, <4>2
    <3>2. CASE th[t].kind # "restore"
      BY <1>0, <2>1, <2>2, <3>2, IdleThen DEF Attached
    <3> QED BY <3>1, <3>2
  <2>3. CASE th' = [th EXCEPT ![t] = Attached(t)]
    <3>1. Others(t) /\ th'[t] = Attached(t)
      BY <1>0, <2>3 DEF Others
    <3> QED BY <1>1, <1>3, <2>2, <3>1, SoundThread
  <2>4. ASSUME NEW m \in Mons, Free(m), NEW h,
               th' = [th EXCEPT ![t] = Attached(t), ![m] = Watching(h, th[t].made)]
        PROVE  DeleteInv'
    <3>1. m \in Threads /\ m # t /\ th[m].pc = "idle"
      BY <1>5, <2>4 DEF Threads, Free, Unused, StartMonitoring
    <3>2. th[m].left = NoCalls
      BY <3>1, IdleThen DEF MonitorInv, ThreadOK
    <3>3. /\ th'[t] = Attached(t) /\ th'[m] = Watching(h, th[t].made)
          /\ \A s \in Threads \ {t, m} : th'[s] = th[s]
      BY <1>0, <2>4, <3>1
    <3>4. th'[m].left = NoCalls /\ th'[m].pc = "watch"
      BY <3>3, WatchingThen, SMT
    <3>5. Sound(m) /\ Sound(t)
      BY <2>1, <2>2, <3>1, <3>2, <3>3, <3>4
    <3>6. \A s \in Threads : th'[s] = th[s] \/ Sound(s)
      BY <3>3, <3>5
    <3> QED BY <1>1, <1>3, <3>6, SoundStep
  <2> QED BY <1>5, <2>3, <2>4 DEF StartMonitoring
<1> QED BY <1>4, <1>5

\* Create, Restore, Delete and Start: Delete removes the keys after the last
\* replica call.
LEMMA VolumeDelete ==
  ASSUME MonitorInv, MonitorInv', CallsInv, EngineInv, DeleteInv, OneRequest, NEW t \in Threads,
         VolumeStep(t)
  PROVE  DeleteInv'
<1>0. th \in [Threads -> Thread] /\ th[t].left = NoCalls /\ Others(t) /\ Starts(th'[t])
  BY NoCallsBefore, VolumeCalls DEF MonitorInv, TypeOK
<1>1. CASE DeleteVolume(t)
  <2>1. /\ Ended(t) /\ th[t].pc = "rmreps" /\ base' = FALSE /\ UNCHANGED <<box, repBox>>
    BY <1>1, ReturnThen DEF DeleteVolume, Joined, boxes
  <2>2. ThreadOK(t, th[t])
    BY DEF MonitorInv
  <2>3. t \in Ops /\ Clear(t)
    BY <2>1, <2>2 DEF ThreadOK, MonitorLabels, Threads, Clear
  <2>4. Gone'
    BY <2>1, <2>3 DEF EngineInv, ClearInv, Gone, Exists
  <2>5. \A r \in Reps : ~There(r)'
    BY <1>0, <2>1, <2>3 DEF DeleteInv, There, NoCalls
  <2>6. \A o \in Ops, r \in Reps : ~Creating(o, r)'
    BY <2>1, <2>3 DEF OneRequest, Creating, Ended
  <2>7. \A s \in Threads, r \in Reps : th'[s].left[r] = "nil" => th'[s].pc = "rmreps"
    BY <1>0, <2>1, SMT DEF DeleteInv, Others, Ended, NoCalls
  <2> QED BY <2>4, <2>5, <2>6, <2>7 DEF DeleteInv
<1>2. CASE ~DeleteVolume(t)
  <2>1. UNCHANGED <<box, rep, repBox>> /\ (base' \/ UNCHANGED base)
    BY <1>2 DEF VolumeStep, CreateGet, CreateCheck, CreateVolume, Created, Restore, DeleteGet,
       StartList, kv, boxes
  <2>2. (base => base') /\ (~base' => Gone')
    BY <2>1, SMT DEF DeleteInv, Gone, Exists
  <2> SUFFICES Sound(t)
    BY <1>0, <2>1, <2>2, SoundThread
  <2>3. ASSUME Ended(t) \/ th'[t].pc \in NotDetaching PROVE Sound(t)
    BY <1>0, <2>3, NotDetachingSound
  <2>4. CASE CreateGet(t) \/ CreateCheck(t)
    BY <2>3, <2>4, ReturnThen, GotoThen DEF CreateGet, CreateCheck, NotDetaching
  <2>5. CASE CreateVolume(t)
    BY <2>3, <2>5, FanOutThen DEF CreateVolume, NotDetaching
  <2>6. CASE Created(t)
    BY <2>3, <2>6, ReturnThen, BeginAttachGoes DEF Created
  <2>7. CASE Restore(t)
    <3>1. CASE Fail(t)
      BY <2>3, <3>1, FailThen
    <3> DEFINE d == [ctl |-> [id |-> th[t].made, running |-> TRUE], rep |-> th[t].vol.rep]
    <3> HIDE DEF d
    <3>2. CASE th' = [th EXCEPT ![t].kind = "restored", ![t].pc = "unmonitor", ![t].det = d]
      <4>1. th'[t] = [th[t] EXCEPT !.kind = "restored", !.pc = "unmonitor", !.det = d]
        BY <1>0, <3>2
      <4>2. th'[t].kind = "restored" /\ th'[t].pc = "unmonitor"
        BY <1>0, <4>1, SMT DEF Thread
      <4> QED BY <1>0, <4>2, SoundMove
    <3> QED BY <2>7, <3>1, <3>2 DEF Restore, d
  <2>8. CASE DeleteGet(t)
    <3> DEFINE d == [ctl |-> ctl, rep |-> rep]
    <3>1. d.rep = rep
      OBVIOUS
    <3> HIDE DEF d
    <3>2. CASE th' = [th EXCEPT ![t].det = d, ![t].pc = "unmonitor"]
      <4>1. th'[t] = [th[t] EXCEPT !.det = d, !.pc = "unmonitor"]
        BY <1>0, <3>2
      <4>2. th'[t].det.rep = rep /\ th'[t].pc = "unmonitor"
        BY <1>0, <3>1, <4>1, SMT DEF Thread
      <4>3. \A r \in Reps : th[t].left[r] = "off" /\ th'[t].left[r] \in {"box", "off"}
        BY <1>0, StartsCalls DEF NoCalls
      <4> QED BY <4>2, <4>3 DEF Sound
    <3> QED BY <2>3, <2>8, <3>2, ReturnThen DEF DeleteGet, d
  <2>9. CASE StartList(t)
    <3>1. CASE th' = [th EXCEPT ![t].made = ctl.id, ![t].pc = "monitor"]
      <4>1. th'[t].pc = "monitor"
        BY <1>0, <3>1 DEF Thread
      <4> QED BY <2>3, <4>1 DEF NotDetaching
    <3> QED BY <2>3, <2>9, <3>1, ReturnThen DEF StartList
  <2> QED BY <1>2, <2>4, <2>5, <2>6, <2>7, <2>8, <2>9 DEF VolumeStep
<1> QED BY <1>1, <1>2

-----------------------------------------------------------------------------
\* A call for replica r goes on.
LEMMA ReplicaStep ==
  ASSUME MonitorInv, MonitorInv', DeleteInv, OneRequest, NEW t \in Threads, NEW r \in Reps,
         UNCHANGED base, ~base' => Gone', GoesOn(t, r),
         \A q \in Reps \ {r} : repBox'[q] = repBox[q] /\ rep'[q] = rep[q],
         There(r)' => There(r) \/ (Creating(t, r)' /\ base /\ t \in Ops),
         There(r)' => rep'[r] # "nil" \/ \E o \in Ops : Creating(o, r)',
         th[t].pc = "rmreps" /\ There(r)' => th'[t].left[r] = "box",
         \A o \in Ops : Creating(o, r)' => repBox'[r] # "none",
         th'[t].left[r] = "nil" => th[t].pc = "rmreps"
  PROVE  DeleteInv'
<1> USE DEF GoesOn
<1>0. /\ Ops \subseteq Threads /\ \A o \in Ops : o = t \/ th'[o] = th[o]
      /\ \A q \in Reps \ {r} : There(q)' <=> There(q)
  BY DEF Threads, Others, There
<1>1. \A o \in Ops, q \in Reps \ {r} : Creating(o, q)' <=> Creating(o, q)
  BY <1>0 DEF Creating
<1>2. \A o \in Ops : (Deleting(o)' <=> Deleting(o)) /\ th'[o].det = th[o].det /\ th'[o].pc = th[o].pc
  BY <1>0 DEF Deleting, SameThread
<1>3. ~base' => \A q \in Reps : ~There(q)'
  BY <1>0 DEF DeleteInv
<1>4. ASSUME NEW q \in Reps, There(q)' PROVE rep'[q] # "nil" \/ \E o \in Ops : Creating(o, q)'
  <2>1. CASE q = r
    BY <1>4, <2>1
  <2>2. CASE q # r
    <3>1. There(q) /\ rep'[q] = rep[q]
      BY <1>0, <1>4, <2>2
    <3>2. CASE rep[q] # "nil"
      BY <3>1, <3>2
    <3>3. CASE \E o \in Ops : Creating(o, q)
      BY <1>1, <2>2, <3>3
    <3> QED BY <3>1, <3>2, <3>3 DEF DeleteInv
  <2> QED BY <2>1, <2>2
<1>5. ASSUME NEW o \in Ops, NEW q \in Reps, Deleting(o)', There(q)' PROVE th'[o].det.rep[q] # "nil"
  <2>1. CASE There(q)
    <3>1. Deleting(o) /\ th'[o].det = th[o].det
      BY <1>2, <1>5
    <3>2. th[o].det.rep[q] # "nil"
      BY <2>1, <3>1 DEF DeleteInv
    <3> QED BY <3>1, <3>2
  <2>2. CASE ~There(q)
    <3>1. o = t /\ th[o].pc = "newreps"
      BY <1>0, <1>5, <2>2 DEF Creating, OneRequest
    <3>2. ~Deleting(o)
      BY <3>1 DEF Deleting, StopLabels
    <3> QED BY <1>2, <1>5, <3>2
  <2> QED BY <2>1, <2>2
<1>6. ASSUME NEW o \in Ops, NEW q \in Reps, th'[o].pc = "rmreps", There(q)' PROVE th'[o].left[q] = "box"
  <2>1. CASE o = t
    <3>1. CASE q = r
      BY <1>2, <1>6, <2>1, <3>1
    <3>2. CASE q # r
      BY <1>0, <1>2, <1>6, <2>1, <3>2, SMT DEF DeleteInv
    <3> QED BY <3>1, <3>2
  <2>2. CASE o # t
    <3>1. There(q)
      BY <1>0, <1>6, <2>2 DEF OneRequest
    <3> QED BY <1>0, <1>6, <2>2, <3>1, SMT DEF DeleteInv
  <2> QED BY <2>1, <2>2
<1>7. \A o \in Ops, q \in Reps : Creating(o, q)' => repBox'[q] # "none"
  BY <1>1, SMT DEF DeleteInv
<1>8. \A s \in Threads, q \in Reps : th'[s].left[q] = "nil" => th'[s].pc = "rmreps"
  BY SMT DEF DeleteInv, Others
<1> QED BY <1>3, <1>4, <1>5, <1>6, <1>7, <1>8, SMT DEF DeleteInv

\* A call for a replica that fails.
LEMMA ReplicaFailsDelete ==
  ASSUME MonitorInv, MonitorInv', CallsInv, DeleteInv, OneRequest, NEW t \in Threads, NEW r \in Reps,
         UNCHANGED <<kv, boxes>>, ReplicaFails(t, r), th[t].left[r] # "off",
         \A q \in Reps : ~Creating(t, q)
  PROVE  DeleteInv'
<1>0. th \in [Threads -> Thread] /\ UNCHANGED <<base, rep, box, repBox>>
  BY DEF MonitorInv, TypeOK, kv, boxes
<1>1. ~base' => Gone'
  BY <1>0 DEF DeleteInv, Gone, Exists
<1>4. CASE Doing(t) = "create" /\ TryNextHost(t, r)
  <2>1. Elsewhere(t)
    BY <1>4, TryNextThen
  <2>2. th[t].pc = "newreps"
    <3>1. th[t].left # NoCalls
      BY DEF NoCalls
    <3> QED BY <1>4, <3>1 DEF CallsInv, Calls, CallLabels, Doing
  <2>3. th[t].left \in [Reps -> {"off", "box", "get", "stopped", "running", "nil"}]
    BY <1>0 DEF Thread
  <2>4. \A q \in Reps : th[t].left[q] \in {"box", "off"}
    BY <2>2, <2>3, SMT DEF DeleteInv, Creating
  <2>5. ~Deleting(t)' /\ th'[t].pc # "rmreps"
    BY <2>1, <2>2 DEF Elsewhere, Deleting, StopLabels
  <2>6. Sound(t)
    BY <2>1, <2>4, <2>5 DEF Elsewhere, Sound
  <2> QED BY <1>0, <1>1, <2>1, <2>6, SoundThread DEF Elsewhere
<1>2. CASE InTurn(t) /\ Return(t)
  <2>1. Others(t) /\ Ended(t)
    BY <1>2, ReturnThen
  <2>2. \A q \in Reps : th'[t].left[q] = "off"
    BY <2>1 DEF Ended, NoCalls
  <2>3. \A q \in Reps : There(q)' <=> There(q)
    BY <1>0 DEF There
  <2>4. Ops \subseteq Threads /\ \A o \in Ops : o = t \/ th'[o] = th[o]
    BY <2>1 DEF Threads, Others
  <2>5. \A o \in Ops, q \in Reps : Creating(o, q)' <=> Creating(o, q)
    BY <2>2, <2>4 DEF Creating
  <2>6. th'[t].pc # "rmreps" /\ ~Deleting(t)'
    BY <2>1 DEF Ended, Deleting, StopLabels
  <2>7. \A o \in Ops : th'[o] = th[o] \/ (th'[o].pc # "rmreps" /\ ~Deleting(o)')
    BY <2>4, <2>6
  <2>8. \A o \in Ops, q \in Reps : Deleting(o)' /\ There(q)' => th'[o].det.rep[q] # "nil"
    BY <2>3, <2>7, SMT DEF DeleteInv, Deleting
  <2>9. \A o \in Ops, q \in Reps : th'[o].pc = "rmreps" /\ There(q)' => th'[o].left[q] = "box"
    BY <2>3, <2>7, SMT DEF DeleteInv
  <2>10. \A s \in Threads, q \in Reps : th'[s].left[q] = "nil" => th'[s].pc = "rmreps"
    BY <2>1, <2>2, SMT DEF DeleteInv, Others
  <2>11. \A q \in Reps : There(q)' => rep'[q] # "nil" \/ \E o \in Ops : Creating(o, q)'
    BY <1>0, <2>3, <2>5 DEF DeleteInv
  <2>12. (\A o \in Ops, q \in Reps : Creating(o, q)' => repBox'[q] # "none") /\ (~base' => \A q \in Reps : ~There(q)')
    BY <1>0, <2>3, <2>5 DEF DeleteInv
  <2> QED BY <1>1, <2>8, <2>9, <2>10, <2>11, <2>12 DEF DeleteInv
<1>3. CASE ~InTurn(t) /\ th' = [th EXCEPT ![t].left[r] = "off", ![t].errs = TRUE]
  <2>1. Progress(t, r) /\ th'[t] = [th[t] EXCEPT !.left[r] = "off", !.errs = TRUE]
    BY <1>0, <1>3, ReplicaFailsThen
  <2>2. th'[t].left[r] = "off"
    BY <1>0, <2>1, SMT DEF Thread
  <2>3. GoesOn(t, r)
    BY <1>3, <2>1 DEF Progress, Elsewhere, InTurn
  <2>4. th[t].pc \notin {"rmreps", "newreps"}
    BY <1>3 DEF InTurn, Doing
  <2>5. There(r)' <=> There(r)
    BY <1>0 DEF There
  <2>6. \A o \in Ops : Creating(o, r)' <=> Creating(o, r)
    BY <2>2, <2>3 DEF Creating, GoesOn, Others, Threads
  <2>7. \A o \in Ops : Creating(o, r)' => repBox'[r] # "none"
    BY <1>0, <2>6 DEF DeleteInv
  <2>8. There(r)' => rep'[r] # "nil" \/ \E o \in Ops : Creating(o, r)'
    BY <1>0, <2>5, <2>6 DEF DeleteInv
  <2> QED BY <1>0, <1>1, <2>2, <2>3, <2>4, <2>5, <2>7, <2>8, ReplicaStep
<1> QED BY <1>2, <1>3, <1>4 DEF ReplicaFails

\* A replica's container is created, started, stopped or removed.
LEMMA ReplicaContainerDelete ==
  ASSUME MonitorInv, MonitorInv', CallsInv, DeleteInv, OneRequest, NEW t \in Threads, NEW r \in Reps,
         ReplicaContainer(t, r)
  PROVE  DeleteInv'
<1>0. /\ th \in [Threads -> Thread] /\ UNCHANGED <<base, rep>> /\ th[t].left[r] = "box"
      /\ repBox \in [Reps -> {"new", "none", "stopped", "running"}]
  BY DEF MonitorInv, TypeOK, ReplicaContainer, kv
<1>1. th[t].pc \in CallLabels /\ ThreadOK(t, th[t])
  BY <1>0, ReplicaThen, ProgressCalls DEF MonitorInv
<1>2. th[t].pc \in {"newreps", "rmreps", "stopold", "startreps"} => t \in Ops
  BY <1>1 DEF ThreadOK, MonitorLabels, Threads
<1>3. ~base' => Gone'
  BY <1>0, ReplicaBoxes DEF DeleteInv, Gone, Exists
<1>4. ASSUME GoesOn(t, r)
      PROVE  (\A o \in Ops \ {t} : Creating(o, r)' <=> Creating(o, r)) /\ ~Creating(t, r)
  BY <1>0, <1>4 DEF GoesOn, Creating, Others, Threads
<1>5. CASE ReplicaFails(t, r) /\ UNCHANGED boxes
  <2>1. ASSUME NEW q \in Reps PROVE ~Creating(t, q)
    <3>1. CASE th[t].pc = "newreps"
      <4>1. InTurn(t)
        BY <3>1 DEF InTurn, Doing
      <4> QED BY <4>1 DEF ReplicaContainer, Creating
    <3> QED BY <3>1 DEF Creating
  <2> QED BY <1>0, <1>5, <2>1, ReplicaFailsDelete DEF ReplicaContainer
<1>6. CASE Doing(t) = "create" /\ ~base /\ th' = [th EXCEPT ![t].left[r] = "off"] /\ UNCHANGED boxes
  <2>1. GoesOn(t, r) /\ th'[t].left[r] = "off" /\ UNCHANGED repBox
    BY <1>6, LeftThen DEF boxes
  <2>2. \A q \in Reps : ~There(q)' /\ ~There(q)
    BY <1>6, <2>1 DEF DeleteInv, There
  <2>3. /\ \A o \in Ops \ {t} : Creating(o, r)' <=> Creating(o, r)
    BY <1>4, <2>1
  <2>4. \A o \in Ops : Creating(o, r)' => repBox'[r] # "none"
    BY <2>1, <2>3, SMT DEF DeleteInv, Creating
  <2> QED BY <1>0, <1>3, <2>1, <2>2, <2>3, <2>4, ReplicaStep
<1>7. CASE /\ ~(Doing(t) = "create" /\ ~base)
           /\ ContainerAllows(Doing(t), repBox[r])
           /\ repBox' = [repBox EXCEPT ![r] = ContainerAfter(Doing(t))]
           /\ th' = [th EXCEPT ![t].left[r] = "get"]
  <2>1. GoesOn(t, r) /\ th'[t].left[r] = "get"
    BY <1>7, LeftThen
  <2>2. repBox'[r] = ContainerAfter(Doing(t)) /\ \A q \in Reps \ {r} : repBox'[q] = repBox[q]
    BY <1>0, <1>7
  <2>3. /\ \A o \in Ops \ {t} : Creating(o, r)' <=> Creating(o, r)
        /\ ~Creating(t, r)
    BY <1>4, <2>1
  <2>4. CASE th[t].pc \in {"stopreps", "stopold", "startreps"}
    <3>1. Doing(t) \in {"stop", "start"}
      BY <2>4 DEF Doing
    <3>2. There(r) /\ There(r)' /\ repBox'[r] # "none"
      BY <1>7, <2>2, <3>1, SMT DEF There, ContainerAllows, ContainerAfter
    <3>3. ~Creating(t, r)'
      BY <2>1, <2>4 DEF Creating, GoesOn
    <3>4. There(r)' => rep'[r] # "nil" \/ \E o \in Ops : Creating(o, r)'
      BY <1>0, <2>3, <3>2, <3>3 DEF DeleteInv
    <3> QED BY <1>0, <1>3, <2>1, <2>2, <2>3, <2>4, <3>2, <3>4, ReplicaStep
  <2>5. CASE th[t].pc = "rmreps"
    <3>1. Doing(t) = "remove" /\ t \in Ops
      BY <1>2, <2>5 DEF Doing
    <3>2. ~There(r)'
      BY <2>2, <3>1 DEF There, ContainerAfter
    <3>3. \A o \in Ops : ~Creating(o, r)'
      BY <2>1, <2>5, <3>1 DEF Creating, GoesOn, OneRequest
    <3> QED BY <1>0, <1>3, <2>1, <2>2, <2>3, <3>2, <3>3, ReplicaStep
  <2>6. CASE th[t].pc = "newreps"
    <3>1. Doing(t) = "create" /\ t \in Ops
      BY <1>2, <2>6 DEF Doing
    <3>2. repBox'[r] = "stopped" /\ base
      BY <1>7, <2>2, <3>1 DEF ContainerAfter
    <3>3. Creating(t, r)'
      BY <2>1, <2>6 DEF Creating, GoesOn
    <3> QED BY <1>0, <1>3, <2>1, <2>2, <2>3, <2>6, <3>1, <3>2, <3>3, ReplicaStep
  <2> QED BY <1>1, <2>4, <2>5, <2>6 DEF CallLabels
<1> QED BY <1>5, <1>6, <1>7 DEF ReplicaContainer

\* Its metadata is checked.
LEMMA ReplicaCheckDelete ==
  ASSUME MonitorInv, MonitorInv', CallsInv, DeleteInv, OneRequest, NEW t \in Threads, NEW r \in Reps,
         ReplicaCheck(t, r)
  PROVE  DeleteInv'
<1>0. /\ UNCHANGED <<base, rep, box, repBox>> /\ th[t].left[r] = "get"
      /\ repBox \in [Reps -> {"new", "none", "stopped", "running"}]
  BY DEF MonitorInv, TypeOK, ReplicaCheck, kv, boxes
<1>1. th[t].pc \in CallLabels /\ repBox[r] # "new"
  BY <1>0, ReplicaThen, ProgressCalls DEF MonitorInv, Touched
<1>2. ~base' => Gone'
  BY <1>0 DEF DeleteInv, Gone, Exists
<1>3. CASE ReplicaFails(t, r) /\ th[t].pc # "newreps"
  BY <1>0, <1>3, ReplicaFailsDelete DEF ReplicaCheck, Creating
<1>4. ASSUME NEW l \in {"nil", "stopped", "running"}, th' = [th EXCEPT ![t].left[r] = l],
             l = "nil" <=> th[t].pc = "rmreps"
      PROVE  DeleteInv'
  <2>1. GoesOn(t, r) /\ th'[t].left[r] = l
    BY <1>4, LeftThen
  <2>3. There(r)' <=> There(r)
    BY <1>0 DEF There
  <2>4. \A o \in Ops : Creating(o, r)' <=> Creating(o, r)
    BY <1>0, <1>4, <2>1 DEF Creating, GoesOn, Others, Threads
  <2>5. th[t].pc = "rmreps" => ~There(r)
    BY <1>0 DEF DeleteInv, MonitorInv, ThreadOK, MonitorLabels, Threads
  <2>6. There(r)' => rep'[r] # "nil" \/ \E o \in Ops : Creating(o, r)'
    BY <1>0, <2>3, <2>4 DEF DeleteInv
  <2>7. \A o \in Ops : Creating(o, r)' => repBox'[r] # "none"
    BY <1>0, <2>4 DEF DeleteInv
  <2> QED BY <1>0, <1>2, <1>4, <2>1, <2>3, <2>5, <2>6, <2>7, ReplicaStep
<1>5. CASE th[t].pc = "rmreps"
  <2>1. Doing(t) = "remove"
    BY <1>5 DEF Doing
  <2> QED BY <1>3, <1>4, <1>5, <2>1 DEF ReplicaCheck
<1>6. CASE th[t].pc # "rmreps"
  <2>1. Doing(t) # "remove"
    BY <1>6 DEF Doing
  <2>2. CASE repBox[r] # "none"
    <3>1. repBox[r] \in {"stopped", "running"}
      BY <1>0, <1>1, <2>2
    <3>2. th' = [th EXCEPT ![t].left[r] = repBox[r]]
      BY <2>1, <2>2 DEF ReplicaCheck
    <3> QED BY <1>4, <1>6, <3>1, <3>2
  <2>3. CASE repBox[r] = "none"
    <3>1. th[t].pc = "newreps" => t \in Ops /\ Creating(t, r)
      BY <1>0 DEF Creating, MonitorInv, ThreadOK, MonitorLabels, Threads
    <3>2. th[t].pc # "newreps"
      BY <2>3, <3>1 DEF DeleteInv
    <3> QED BY <1>3, <2>1, <2>3, <3>2 DEF ReplicaCheck
  <2> QED BY <2>2, <2>3
<1> QED BY <1>5, <1>6

\* It is stored, or its key is deleted.
LEMMA ReplicaSetDelete ==
  ASSUME MonitorInv, MonitorInv', CallsInv, DeleteInv, OneRequest, NEW t \in Threads, NEW r \in Reps,
         ReplicaSet(t, r)
  PROVE  DeleteInv'
<1>0. /\ UNCHANGED <<base, box, repBox>> /\ th[t].left[r] \in {"stopped", "running", "nil"}
      /\ rep' = [rep EXCEPT ![r] = th[t].left[r]] /\ rep \in Replicas
  BY DEF MonitorInv, TypeOK, ReplicaSet, boxes
<1>1. ~base' => Gone'
  BY <1>0 DEF DeleteInv, Gone, Exists
<1>2. rep'[r] = th[t].left[r] /\ \A q \in Reps \ {r} : rep'[q] = rep[q]
  BY <1>0 DEF Replicas
<1>3. GoesOn(t, r) /\ th'[t].left[r] = "off"
  BY LeftThen DEF ReplicaSet
<1>5. There(r)' <=> There(r)
  BY <1>0 DEF There
<1>6. \A o \in Ops : Creating(o, r)' => Creating(o, r)
  BY <1>3 DEF Creating, GoesOn, Others, Threads
<1>7. th[t].pc = "rmreps" => ~There(r)
  BY <1>0 DEF DeleteInv, MonitorInv, ThreadOK, MonitorLabels, Threads
<1>8. There(r)' => rep'[r] # "nil"
  BY <1>0, <1>2, <1>5, <1>7 DEF DeleteInv
<1>9. \A o \in Ops : Creating(o, r)' => repBox'[r] # "none"
  BY <1>0, <1>6 DEF DeleteInv
<1> QED BY <1>0, <1>1, <1>2, <1>3, <1>5, <1>7, <1>8, <1>9, ReplicaStep

-----------------------------------------------------------------------------
\* A monitor by itself touches no replica.
LEMMA MonitorDelete ==
  ASSUME MonitorInv, MonitorInv', CallsInv, DeleteInv, OneRequest, NEW m \in Mons, MonitorStep(m)
  PROVE  DeleteInv' \/ died'
<1>0. /\ m \in Threads /\ th \in [Threads -> Thread] /\ UNCHANGED <<base, box, rep, repBox>> /\ Calls(th[m])
  BY DEF Threads, MonitorInv, TypeOK, MonitorStep, Tick, CheckController, CloseChannel, kv, boxes, CallsInv
<1>1. th[m].left = NoCalls
  BY <1>0 DEF MonitorStep, Tick, CheckController, CloseChannel, Calls, CallLabels
<1>2. ASSUME Others(m), th'[m].left = NoCalls, th'[m].pc \in {"idle", "check", "close", "watch", "detach"}
      PROVE  DeleteInv'
  <2>1. Sound(m)
    BY <1>0, <1>1, <1>2, SoundMove DEF Starts, StopLabels
  <2>2. (base => base') /\ (~base' => Gone')
    BY <1>0, GoneStays DEF Exists
  <2> QED BY <1>0, <1>2, <2>1, <2>2, SoundThread
<1>3. ASSUME NEW l \in {"check", "close", "watch", "detach"}, Goto(m, l) PROVE DeleteInv'
  BY <1>0, <1>1, <1>2, <1>3, GotoThen
<1>4. CASE Tick(m)
  <2>1. CASE th' = [th EXCEPT ![m] = Idle]
    <3>1. Others(m) /\ th'[m] = Idle
      BY <1>0, <2>1 DEF Others
    <3> QED BY <1>2, <3>1, IdleThen
  <2> QED BY <1>3, <1>4, <2>1 DEF Tick
<1>5. CASE CheckController(m)
  <2>1. CASE th' = [th EXCEPT ![m].kind = "nogood", ![m].pc = "detach"]
    <3>1. Others(m) /\ th'[m] = [th[m] EXCEPT !.kind = "nogood", !.pc = "detach"]
      BY <1>0, <2>1 DEF Others
    <3>2. th'[m].pc = "detach" /\ th'[m].left = NoCalls
      BY <1>0, <1>1, <3>1, SMT DEF Thread
    <3> QED BY <1>2, <3>1, <3>2
  <2> QED BY <1>3, <1>5, <2>1 DEF CheckController
<1>6. CASE CloseChannel(m)
  BY <1>3, <1>6 DEF CloseChannel, Exit
<1> QED BY <1>4, <1>5, <1>6 DEF MonitorStep

\* Requests, restarts, ends of managers and deaths of engines.
LEMMA EnvironmentDelete ==
  ASSUME MonitorInv, MonitorInv', CallsInv, DeleteInv, OneRequest, MaxFaults = 0, Environment
  PROVE  DeleteInv' \/ died'
<1>0. th \in [Threads -> Thread] /\ Ops \subseteq Threads
  BY DEF MonitorInv, TypeOK, Threads
<1>1. ASSUME NEW t \in Ops, NEW h, NEW k, NEW l \in {"get", "detach"},
             th[t].pc = "idle", UNCHANGED <<base, box, rep, repBox>>,
             th' = [th EXCEPT ![t].kind = k, ![t].host = h, ![t].pc = l]
      PROVE  DeleteInv'
  <2>1. t \in Threads /\ Others(t) /\ th'[t] = [th[t] EXCEPT !.kind = k, !.host = h, !.pc = l]
    BY <1>0, <1>1 DEF Others
  <2>2. th[t].left = NoCalls
    BY <1>1, <2>1 DEF CallsInv, Calls, CallLabels
  <2>3. th'[t].pc = l /\ th'[t].left = NoCalls
    BY <1>0, <2>1, <2>2, SMT DEF Thread
  <2>4. Sound(t)
    BY <1>1, <2>1, <2>2, <2>3, SoundMove DEF Starts, StopLabels
  <2>5. (base => base') /\ (~base' => Gone')
    BY <1>1, GoneStays DEF Exists
  <2> QED BY <1>1, <2>1, <2>4, <2>5, SoundThread
<1>2. ASSUME NEW t \in Ops, NEW h \in Hosts, NEW k \in Kinds, Request(t, k, h) PROVE DeleteInv'
  BY <1>1, <1>2 DEF Request, kv, boxes
<1>3. ASSUME NEW t \in Ops, NEW h \in Hosts, Boot(t, h) PROVE DeleteInv'
  BY <1>1, <1>3 DEF Boot, kv, boxes
<1>4. ASSUME NEW h \in Hosts, Kill(h) PROVE died'
  BY <1>4 DEF Kill, Exit
<1>5. ASSUME NEW c \in CtlIds, EngineDies(c) PROVE DeleteInv'
  <2>1. Exists(c) /\ box' = [box EXCEPT ![c].st = "stopped"] /\ UNCHANGED <<base, rep, repBox, th>>
    BY <1>5 DEF EngineDies, Exists, kv
  <2>2. \A d \in CtlIds : (Exists(d)' <=> Exists(d)) /\ (box[d].st # "new" => box'[d].st # "new")
    BY <2>1, ExistingBox
  <2>3. (base => base') /\ (~base' => Gone')
    BY <2>1, <2>2, GoneStays
  <2> QED BY <2>1, <2>3, SoundStep
<1>6. ~(faults < MaxFaults)
  BY SMT DEF MonitorInv, TypeOK
<1> QED BY <1>2, <1>3, <1>4, <1>5, <1>6 DEF Environment, CallFails, ReplicaCallFails

DeleteOK == died \/ DeleteInv

\* Every step keeps the invariant, until a manager process ends.
LEMMA NextDelete ==
  ASSUME OneRequest, MaxFaults = 0
  PROVE  MonitorInv /\ MonitorInv' /\ CallsInv /\ EngineOK /\ DeleteOK /\ [Next]_vars => DeleteOK'
<1> SUFFICES ASSUME MonitorInv, MonitorInv', CallsInv, EngineInv, DeleteInv, ~died, [Next]_vars
             PROVE  DeleteInv' \/ died'
  BY DiedStays DEF EngineOK, DeleteOK
<1>1. CASE UNCHANGED vars
  <2>1. UNCHANGED <<base, box, rep, repBox, th>>
    BY <1>1 DEF vars, kv, boxes
  <2>2. (base => base') /\ (~base' => Gone')
    BY <2>1, GoneStays DEF Exists
  <2> QED BY <2>1, <2>2, SoundStep
<1>2. CASE Environment
  BY <1>2, EnvironmentDelete
<1>3. ASSUME NEW t \in Threads, ThreadStep(t) PROVE DeleteInv' \/ died'
  BY <1>3, DetachDelete, AttachDelete, VolumeDelete, ReplicaContainerDelete, ReplicaCheckDelete,
     ReplicaSetDelete, MonitorDelete DEF ThreadStep
<1> QED BY <1>1, <1>2, <1>3 DEF Next, Rest

\* DeleteLeavesNothing: with one request at a time and calls that do not fail,
\* the keys of a volume are deleted only when all its containers are gone,
\* whatever monitors detach meanwhile.
THEOREM ManagerDeleteLeavesNothing ==
  ASSUME OneRequest, MaxFaults = 0
  PROVE  Spec => []DeleteLeavesNothing
<1>1. Init => CallsInv
  BY IdleThen DEF Init, CallsInv, Calls
<1>2. Init => EngineOK /\ DeleteOK
  BY InitEngine, InitDelete DEF EngineOK, DeleteOK
<1>3. MonitorInv /\ DeleteOK => DeleteLeavesNothing
  BY DEF MonitorInv, TypeOK, DeleteOK, DeleteInv, DeleteLeavesNothing, Gone, There
<1> QED BY <1>1, <1>2, <1>3, MonitorInvariant, NextCalls, NextEngine, NextDelete, PTL DEF Spec
====
