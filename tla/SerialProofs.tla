---------------------------- MODULE SerialProofs ----------------------------
(***************************************************************************)
(* One manager that serves one request at a time, with no failing call,    *)
(* for any number of replicas, monitors and steps: once the request is     *)
(* answered, the store matches the containers, and an attached volume is   *)
(* monitored.                                                              *)
(***************************************************************************)
EXTENDS VolumeManagerProofs

\* Most leaves are first-order and Zenon takes them; SMT takes those that cite
\* it.
USE Zenon

-----------------------------------------------------------------------------
(* One manager that serves one request at a time, with no failing call:    *)
(* where its request is says what the store and the containers hold.       *)

\* There is one manager.
OneHost == \A g, h \in Hosts : g = h

\* The key of a replica says what its container is.
RepOK(r) == rep[r] = IF There(r) THEN repBox[r] ELSE "nil"
AllOK == \A r \in Reps : RepOK(r)
AllDown == \A r \in Reps : RepOK(r) /\ repBox[r] # "running"
AllUp == \A r \in Reps : RepOK(r) /\ repBox[r] # "stopped"

\* The controller: the only one that exists, none at all, or the stored one.
Only(c) == c \in CtlIds /\ \A d \in CtlIds : Exists(d) => d = c
NoEngine == ctl = NoCtl /\ Gone
EngineRuns == ctl.running /\ Only(ctl.id) /\ box[ctl.id].st = "running"
EngineHalted == Only(ctl.id) /\ box[ctl.id].st = "stopped"

Watched == \E m \in Mons : open[m]
Unwatched == \A m \in Mons : ~open[m]
Detached == NoEngine /\ Unwatched
Settled == Detached \/ (EngineRuns /\ Watched)

\* The volume as it was read has the replicas, and the controller, of now.
VolRead(o) == \A r \in Reps : th[o].vol.rep[r] = "nil" <=> rep[r] = "nil"
DetRead(o) ==
  /\ base /\ th[o].det.ctl.id = ctl.id
  /\ \A r \in Reps : th[o].det.rep[r] = "nil" <=> rep[r] = "nil"
  /\ th[o].kind \in {"attach", "restore"} => VolRead(o)

\* What a replica is like whose call, to stop, start, remove or create it, has
\* got to l.
Stopping(r, l) ==
  /\ l = "box" => RepOK(r) /\ There(r)
  /\ l \in {"get", "stopped"} => repBox[r] = "stopped" /\ rep[r] # "nil"
  /\ l = "off" => RepOK(r) /\ repBox[r] # "running"
  /\ l \notin {"running", "nil"}

Starting(r, l) ==
  /\ l = "box" => RepOK(r) /\ There(r)
  /\ l \in {"get", "running"} => repBox[r] = "running" /\ rep[r] # "nil"
  /\ l = "off" => RepOK(r) /\ repBox[r] # "stopped"
  /\ l \notin {"stopped", "nil"}

Vanishing(r, l) ==
  /\ l = "box" => repBox[r] = "stopped" /\ rep[r] # "nil"
  /\ l = "get" => ~There(r) /\ rep[r] # "nil"
  /\ l = "nil" => ~There(r)
  /\ l = "off" => ~There(r) /\ rep[r] = "nil"
  /\ l \notin {"stopped", "running"}

Emerging(r, l) ==
  /\ l = "box" => repBox[r] = "new" /\ rep[r] = "nil"
  /\ l \in {"get", "stopped"} => repBox[r] = "stopped"
  /\ l = "off" => RepOK(r)
  /\ l \notin {"running", "nil"}

\* The phases of a request.
Begins(o) ==
  /\ th[o].pc \in {"idle", "get", "setbase", "newbase", "detach"}
  /\ Settled /\ AllOK
  /\ th[o].pc = "newbase" => ~base
  /\ th[o].pc = "detach" => th[o].kind # "delete"
  /\ th[o].pc = "detach" /\ th[o].kind \in {"attach", "restore"} => base /\ VolRead(o)

Unmonitors(o) ==
  th[o].pc = "unmonitor" /\ Settled /\ AllOK /\ DetRead(o) /\ th[o].det.ctl = ctl

StopsEngine(o) ==
  /\ th[o].pc \in {"stopctl", "stopctl.get", "stopctl.set"}
  /\ IF th[o].pc = "stopctl" THEN EngineRuns ELSE EngineHalted
  /\ Unwatched /\ AllOK /\ DetRead(o)

StopsReplicas(o) ==
  /\ th[o].pc = "stopreps"
  /\ NoEngine \/ (EngineHalted /\ ~ctl.running)
  /\ Unwatched /\ DetRead(o)
  /\ \A r \in Reps : Stopping(r, th[o].left[r])

RemovesEngine(o) ==
  /\ th[o].pc \in {"rmctl", "rmctl.get", "rmctl.del"}
  /\ IF th[o].pc = "rmctl" THEN EngineHalted /\ ~ctl.running ELSE Gone /\ ctl.id # 0
  /\ Unwatched /\ AllDown /\ DetRead(o)

StopsOld(o) ==
  /\ th[o].pc = "stopold" /\ base /\ Detached /\ VolRead(o)
  /\ \A r \in Reps : Stopping(r, th[o].left[r])

StartsReplicas(o) ==
  /\ th[o].pc = "startreps" /\ base /\ Detached /\ VolRead(o) /\ Has(th[o].vol) # {}
  /\ \A r \in Reps : Starting(r, th[o].left[r])

Prepares(o) ==
  /\ th[o].pc \in {"prepare", "create"} /\ base /\ Detached /\ VolRead(o)
  /\ Has(th[o].vol) # {} /\ AllUp

MakesEngine(o) ==
  /\ th[o].pc \in {"start", "wait", "meta.get", "meta.set"} /\ base /\ VolRead(o)
  /\ ctl = NoCtl /\ Only(th[o].made) /\ Unwatched
  /\ box[th[o].made].st = IF th[o].pc = "start" THEN "stopped" ELSE "running"
  /\ Has(th[o].vol) # {} /\ AllUp

HasEngine(o) ==
  /\ th[o].pc \in {"monitor", "restore"} /\ base /\ VolRead(o)
  /\ EngineRuns /\ th[o].made = ctl.id /\ AllOK
  /\ th[o].pc = "restore" => Watched

RemovesReplicas(o) ==
  /\ th[o].pc = "rmreps" /\ base /\ Detached
  /\ \A r \in Reps : Vanishing(r, th[o].left[r])

CreatesReplicas(o) ==
  /\ th[o].pc = "newreps" /\ base /\ Detached
  /\ \A r \in Reps : Emerging(r, th[o].left[r])

Phase(o) ==
  \/ Begins(o) \/ Unmonitors(o) \/ StopsEngine(o) \/ StopsReplicas(o) \/ RemovesEngine(o)
  \/ StopsOld(o) \/ StartsReplicas(o) \/ Prepares(o) \/ MakesEngine(o) \/ HasEngine(o)
  \/ RemovesReplicas(o) \/ CreatesReplicas(o)

FanOutLabels == {"stopreps", "stopold", "startreps", "rmreps", "newreps"}

\* No call of a request has failed, and it makes calls for replicas only while
\* it waits for them.
Plain(o) ==
  /\ ~th[o].errs /\ th[o].kind \notin {"start", "monitor", "nogood"}
  /\ th[o].pc \in FanOutLabels \/ th[o].left = NoCalls

\* A monitor whose channel is open watches the engine that runs.
Watch ==
  /\ \A m \in Mons :
       /\ th[m].pc \in {"idle", "watch", "check", "close"} /\ th[m].left = NoCalls
       /\ th[m].pc # "idle" => th[m].made \in CtlIds
       /\ th[m].pc = "close" => ~open[m]
       /\ open[m] => EngineRuns /\ th[m].made = ctl.id
  /\ \A h \in Hosts : up[h] = "up" /\ (monitors[h] # None => open[monitors[h]])

\* An engine that runs has a replica, and what exists is on a host.
Engines == \A c \in CtlIds : /\ box[c].st = "running" => box[c].rw # {}
                             /\ Exists(c) => box[c].host \in Hosts

NoVol == ~base => ctl = NoCtl /\ \A r \in Reps : rep[r] = "nil" /\ ~There(r)

Calm == Watch /\ Engines /\ NoVol /\ \A o \in Ops : Phase(o) /\ Plain(o)

SerialInv == died \/ deaths # 0 \/ Calm

\* The phase of a request is told by where it is.
LEMMA PhaseOf ==
  ASSUME NEW o, Phase(o)
  PROVE  /\ th[o].pc \in {"idle", "get", "setbase", "newbase", "detach"} => Begins(o)
         /\ th[o].pc = "unmonitor" => Unmonitors(o)
         /\ th[o].pc \in {"stopctl", "stopctl.get", "stopctl.set"} => StopsEngine(o)
         /\ th[o].pc = "stopreps" => StopsReplicas(o)
         /\ th[o].pc \in {"rmctl", "rmctl.get", "rmctl.del"} => RemovesEngine(o)
         /\ th[o].pc = "stopold" => StopsOld(o)
         /\ th[o].pc = "startreps" => StartsReplicas(o)
         /\ th[o].pc \in {"prepare", "create"} => Prepares(o)
         /\ th[o].pc \in {"start", "wait", "meta.get", "meta.set"} => MakesEngine(o)
         /\ th[o].pc \in {"monitor", "restore"} => HasEngine(o)
         /\ th[o].pc = "rmreps" => RemovesReplicas(o)
         /\ th[o].pc = "newreps" => CreatesReplicas(o)
  BY SMT DEF Phase, Begins, Unmonitors, StopsEngine, StopsReplicas, RemovesEngine, StopsOld,
             StartsReplicas, Prepares, MakesEngine, HasEngine, RemovesReplicas, CreatesReplicas

\* At first the volume, if there is one, is detached.
LEMMA InitCalm == Init => Calm
<1> SUFFICES ASSUME Init PROVE Calm
  OBVIOUS
<1>1. \A t \in Threads : th[t].pc = "idle" /\ th[t].left = NoCalls /\ ~th[t].errs /\ th[t].kind = "none"
  BY DEF Init, Idle
<1>2. Ops \subseteq Threads /\ Mons \subseteq Threads
  BY DEF Threads
<1>3. Detached
  BY DEF Init, Detached, NoEngine, Gone, Exists, Unwatched
<1>4. AllOK
  <2>1. PICK S \in SUBSET Reps : /\ rep = [r \in Reps |-> IF r \in S THEN "stopped" ELSE "nil"]
                                 /\ repBox = [r \in Reps |-> IF r \in S THEN "stopped" ELSE "new"]
    BY DEF Init
  <2> QED BY <2>1, SMT DEF AllOK, RepOK, There
<1>5. Watch
  BY <1>1, <1>2 DEF Init, Watch
<1>6. Engines
  BY DEF Init, Engines, Exists
<1>7. NoVol
  BY SMT DEF Init, NoVol, There
<1>8. ASSUME NEW o \in Ops PROVE Phase(o) /\ Plain(o)
  BY <1>1, <1>2, <1>3, <1>4 DEF Phase, Begins, Settled, Plain
<1> QED BY <1>5, <1>6, <1>7, <1>8 DEF Calm

\* A step of the request, of which the monitors see nothing.
LEMMA CalmStep ==
  ASSUME Calm, OneRequest, NEW o \in Ops, Watch', Engines', NoVol', Phase(o)', Plain(o)'
  PROVE  Calm'
  BY DEF Calm, OneRequest

\* The monitors stay while the manager's map does, and the controller that is
\* watched.
LEMMA WatchKept ==
  ASSUME Calm, NEW o \in Ops, Others(o), UNCHANGED mgr, Unwatched \/ UNCHANGED <<ctl, box>>
  PROVE  Watch'
<1>1. \A m \in Mons : th'[m] = th[m]
  BY ManagerAssumption DEF Others, Threads
<1>2. UNCHANGED <<up, monitors, open>>
  BY DEF mgr
<1>3. ASSUME NEW m \in Mons, open[m] PROVE EngineRuns' /\ th[m].made = ctl'.id
  <2>1. UNCHANGED <<ctl, box>> /\ EngineRuns /\ th[m].made = ctl.id
    BY <1>3 DEF Unwatched, Calm, Watch
  <2> QED BY <2>1, SMT DEF EngineRuns, Only, Exists
<1>4. ASSUME NEW m \in Mons
      PROVE  /\ th'[m].pc \in {"idle", "watch", "check", "close"} /\ th'[m].left = NoCalls
             /\ th'[m].pc # "idle" => th'[m].made \in CtlIds
             /\ th'[m].pc = "close" => ~open'[m]
             /\ open'[m] => EngineRuns' /\ th'[m].made = ctl'.id
  <2>1. /\ th[m].pc \in {"idle", "watch", "check", "close"} /\ th[m].left = NoCalls
        /\ th[m].pc # "idle" => th[m].made \in CtlIds
        /\ th[m].pc = "close" => ~open[m]
    BY DEF Calm, Watch
  <2>2. th'[m] = th[m] /\ open'[m] = open[m]
    BY <1>1, <1>2
  <2>3. open[m] => EngineRuns' /\ th[m].made = ctl'.id
    BY <1>3
  <2> QED BY <2>1, <2>2, <2>3
<1>5. \A h \in Hosts : up'[h] = "up" /\ (monitors'[h] # None => open'[monitors'[h]])
  BY <1>2 DEF Calm, Watch
<1> QED BY <1>4, <1>5 DEF Watch

\* What the store, the containers and the monitors are like stays the same.
LEMMA Same ==
  ASSUME UNCHANGED <<ctl, box, open>>
  PROVE  /\ NoEngine' <=> NoEngine
         /\ EngineRuns' <=> EngineRuns
         /\ EngineHalted' <=> EngineHalted
         /\ Watched' <=> Watched
         /\ Unwatched' <=> Unwatched
         /\ Gone' <=> Gone
         /\ Detached' <=> Detached
         /\ Settled' <=> Settled
  BY SMT DEF NoEngine, Gone, EngineRuns, EngineHalted, Only, Exists, Watched, Unwatched, Detached, Settled

\* What is said of all replicas depends on their keys and containers.
LEMMA SameReps ==
  ASSUME UNCHANGED <<rep, repBox>>
  PROVE  (AllOK' <=> AllOK) /\ (AllDown' <=> AllDown) /\ (AllUp' <=> AllUp)
  BY SMT DEF AllOK, AllDown, AllUp, RepOK, There

\* What was read stays true while the keys stay.
LEMMA SameRead ==
  ASSUME NEW o, UNCHANGED rep, SameThread(o)
  PROVE  /\ VolRead(o)' <=> VolRead(o)
         /\ UNCHANGED <<base, ctl>> /\ DetRead(o) => DetRead(o)'
         /\ Has(th[o].vol)' = Has(th[o].vol)
  BY DEF VolRead, DetRead, SameThread, Has

\* A step of the request that changes nothing else has only to be in its phase.
LEMMA OnlyMoves ==
  ASSUME Calm, OneRequest, NEW o \in Ops, Others(o), UNCHANGED <<kv, boxes, mgr>>,
         Phase(o)', Plain(o)'
  PROVE  Calm'
<1>1. UNCHANGED <<base, ctl, rep, box, repBox>>
  BY DEF kv, boxes
<1>2. Engines' /\ NoVol'
  BY <1>1, SMT DEF Calm, Engines, NoVol, Exists, There
<1> QED BY <1>1, <1>2, WatchKept, CalmStep

\* A request that is answered, or whose volume is to be cleaned up, has ended.
LEMMA EndsPlain ==
  ASSUME MonitorInv, NEW o \in Ops, Return(o) \/ Fail(o)
  PROVE  Others(o) /\ Plain(o)' /\ th'[o].pc \in {"idle", "get"}
<1>1. o \in Threads /\ o \notin Mons /\ th \in [Threads -> Thread]
  BY ManagerAssumption DEF Threads, MonitorInv, TypeOK
<1> DEFINE x == [Idle EXCEPT !.pc = "get", !.kind = "delete", !.host = th[o].host]
<1>2. x.pc = "get" /\ x.left = NoCalls /\ ~x.errs /\ x.kind = "delete"
  BY DEF Idle
<1>3. Idle.pc = "idle" /\ Idle.left = NoCalls /\ ~Idle.errs /\ Idle.kind = "none"
  BY DEF Idle
<1> HIDE DEF x
<1>4. Others(o) /\ (th'[o] = Idle \/ th'[o] = x)
  BY <1>1 DEF Return, Fail, Others, x
<1> QED BY <1>2, <1>3, <1>4 DEF Plain

\* A request that ends leaves everything settled.
LEMMA EndsCalm ==
  ASSUME MonitorInv, Calm, OneRequest, NEW o \in Ops, Return(o) \/ Fail(o),
         UNCHANGED <<kv, boxes, mgr>>, Settled, AllOK
  PROVE  Calm'
<1>1. Others(o) /\ Plain(o)' /\ th'[o].pc \in {"idle", "get"}
  BY EndsPlain
<1>2. Settled' /\ AllOK'
  BY Same, SameReps DEF kv, boxes, mgr
<1>3. Phase(o)'
  BY <1>1, <1>2 DEF Phase, Begins
<1> QED BY <1>1, <1>3, OnlyMoves

\* The request goes to a place without calls.
LEMMA GotoPlain ==
  ASSUME MonitorInv, NEW o \in Ops, NEW l, Goto(o, l), Plain(o), th[o].left = NoCalls
  PROVE  Others(o) /\ Plain(o)' /\ SameThread(o) /\ th'[o].pc = l
<1>1. o \in Threads /\ th \in [Threads -> Thread]
  BY DEF Threads, MonitorInv, TypeOK
<1>2. th'[o].errs = th[o].errs
  BY <1>1, SMT DEF Goto, Thread
<1> QED BY <1>1, <1>2, GotoThen DEF Plain, SameThread

\* The request begins a call for each replica of a set.
LEMMA FanOutPlain ==
  ASSUME MonitorInv, NEW o \in Ops, NEW l \in FanOutLabels, NEW S, FanOut(o, l, S), Plain(o)
  PROVE  /\ Others(o) /\ Plain(o)' /\ SameThread(o) /\ th'[o].pc = l
         /\ \A r \in Reps : th'[o].left[r] = IF r \in S THEN "box" ELSE "off"
<1>1. o \in Threads /\ th \in [Threads -> Thread]
  BY DEF Threads, MonitorInv, TypeOK
<1>2. ~th'[o].errs
  BY <1>1, SMT DEF FanOut, Thread
<1>3. /\ Others(o) /\ SameThread(o) /\ th'[o].pc = l
      /\ th'[o].left = [r \in Reps |-> IF r \in S THEN "box" ELSE "off"]
  BY <1>1, FanOutThen, SMT
<1>4. \A r \in Reps : th'[o].left[r] = IF r \in S THEN "box" ELSE "off"
  BY <1>3
<1>5. Plain(o)'
  BY <1>2, <1>3 DEF Plain, SameThread
<1> QED BY <1>3, <1>4, <1>5

\* Which replicas a volume that was read has.
LEMMA ReadHas ==
  ASSUME NEW v, \A r \in Reps : v.rep[r] = "nil" <=> rep[r] = "nil", AllOK
  PROVE  \A r \in Reps : r \in Has(v) <=> There(r)
  BY SMT DEF Has, AllOK, RepOK, There

\* What doDetach is followed by, once the controller is gone.
LEMMA AfterDetachPhase ==
  ASSUME MonitorInv, NEW o \in Ops, Plain(o), AfterDetach(o), DetRead(o), base', UNCHANGED rep,
         Detached', AllDown'
  PROVE  Others(o) /\ Phase(o)' /\ Plain(o)'
<1>1. AllOK'
  BY DEF AllDown, AllOK
<1>2. CASE th[o].kind \in {"attach", "restore"}
  <2> DEFINE S == {r \in Reps : th[o].vol.rep[r] = "running"}
  <2>1. FanOut(o, "stopold", S)
    BY <1>2 DEF AfterDetach, StopOld
  <2>2. /\ Others(o) /\ Plain(o)' /\ SameThread(o) /\ th'[o].pc = "stopold"
        /\ \A r \in Reps : th'[o].left[r] = IF r \in S THEN "box" ELSE "off"
    BY <2>1, FanOutPlain DEF FanOutLabels
  <2>3. VolRead(o)'
    BY <1>2, <2>2, SameRead DEF DetRead
  <2>4. ASSUME NEW r \in Reps PROVE Stopping(r, th[o].left[r])'
    <3>1. r \in S => rep[r] # "nil"
      BY <1>2, SMT DEF DetRead, VolRead
    <3>2. RepOK(r)' /\ repBox'[r] # "running" /\ (r \in S => There(r)')
      BY <3>1, SMT DEF AllDown, RepOK
    <3> HIDE DEF S
    <3>3. th'[o].left[r] = IF r \in S THEN "box" ELSE "off"
      BY <2>2
    <3> QED BY <3>2, <3>3, SMT DEF Stopping
  <2> QED BY <2>2, <2>3, <2>4 DEF Phase, StopsOld
<1>3. CASE th[o].kind = "delete"
  <2>1. FanOut(o, "rmreps", Has(th[o].det))
    BY <1>3, SMT DEF AfterDetach
  <2>2. /\ Others(o) /\ Plain(o)' /\ SameThread(o) /\ th'[o].pc = "rmreps"
        /\ \A r \in Reps : th'[o].left[r] = IF r \in Has(th[o].det) THEN "box" ELSE "off"
    BY <2>1, FanOutPlain DEF FanOutLabels
  <2>3. ASSUME NEW r \in Reps PROVE Vanishing(r, th[o].left[r])'
    <3>1. r \in Has(th[o].det) <=> rep[r] # "nil"
      BY DEF DetRead, Has
    <3>2. IF rep'[r] # "nil" THEN repBox'[r] = "stopped" ELSE ~There(r)'
      BY SMT DEF AllDown, RepOK, There
    <3>3. th'[o].left[r] = IF rep'[r] # "nil" THEN "box" ELSE "off"
      BY <2>2, <3>1
    <3> QED BY <3>2, <3>3, SMT DEF Vanishing
  <2> QED BY <2>2, <2>3 DEF Phase, RemovesReplicas
<1>4. CASE th[o].kind \notin {"attach", "restore", "delete"}
  <2>1. Others(o) /\ Plain(o)' /\ th'[o].pc \in {"idle", "get"}
    BY <1>4, EndsPlain DEF AfterDetach
  <2> QED BY <1>1, <2>1 DEF Phase, Begins, Settled
<1> QED BY <1>2, <1>3, <1>4

\* doDetach goes on to stop the replicas.
LEMMA StopReplicasPhase ==
  ASSUME MonitorInv, NEW o \in Ops, Plain(o), StopReplicas(o), DetRead(o), AllOK,
         UNCHANGED <<base, rep, repBox>>, ctl'.id = ctl.id,
         (NoEngine \/ (EngineHalted /\ ~ctl.running))', Unwatched'
  PROVE  Others(o) /\ Phase(o)' /\ Plain(o)'
<1>1. /\ Others(o) /\ Plain(o)' /\ SameThread(o) /\ th'[o].pc = "stopreps"
      /\ \A r \in Reps : th'[o].left[r] = IF r \in Has(th[o].det) THEN "box" ELSE "off"
  BY FanOutPlain DEF FanOutLabels, StopReplicas
<1>2. DetRead(o)'
  <2>1. VolRead(o)' <=> VolRead(o)
    BY <1>1, SameRead
  <2> QED BY <1>1, <2>1 DEF DetRead, SameThread
<1>3. ASSUME NEW r \in Reps PROVE Stopping(r, th[o].left[r])'
  <2>1. r \in Has(th[o].det) <=> There(r)
    BY ReadHas DEF DetRead
  <2>2. RepOK(r)' /\ (There(r)' <=> There(r))
    BY SMT DEF AllOK, RepOK, There
  <2>3. th'[o].left[r] = IF There(r) THEN "box" ELSE "off"
    BY <1>1, <2>1
  <2>4. ~There(r)' => repBox'[r] # "running"
    BY DEF There
  <2> QED BY <2>2, <2>3, <2>4, SMT DEF Stopping
<1> QED BY <1>1, <1>2, <1>3 DEF Phase, StopsReplicas

\* A controller container changes its state.
LEMMA BoxThen ==
  ASSUME MonitorInv, NEW c \in CtlIds, NEW s, box' = [box EXCEPT ![c].st = s]
  PROVE  \A d \in CtlIds : /\ box'[d].st = IF d = c THEN s ELSE box[d].st
                           /\ box'[d].host = box[d].host /\ box'[d].rw = box[d].rw
<1>1. box \in [CtlIds -> [host : Hosts \cup {None}, rw : SUBSET Reps,
                          st : {"new", "none", "stopped", "running"}]]
  BY DEF MonitorInv, TypeOK
<1> QED BY <1>1, SMT

\* Every step of Detach and doDetach by a request.
LEMMA DetachCalm ==
  ASSUME MonitorInv, MonitorInv', Calm, OneRequest, OneHost, NEW o \in Ops, DetachStep(o)
  PROVE  Calm'
<1>0. /\ o \in Threads /\ o \notin Mons /\ th \in [Threads -> Thread] /\ ctl \in Controller
      /\ Phase(o) /\ Plain(o) /\ Watch /\ Engines /\ NoVol
  BY ManagerAssumption DEF Threads, MonitorInv, TypeOK, Calm
<1>a. Gone => ~EngineRuns /\ ~EngineHalted
  BY DEF Gone, EngineRuns, EngineHalted, Only, Exists
<1>b. NoCtl.id = 0 /\ ~NoCtl.running /\ 0 \notin CtlIds
  BY SMT DEF NoCtl, CtlIds
<1>c. \A c \in CtlIds : Exists(c) => Reachable(o, HostOf(c))
  BY <1>0 DEF Engines, Watch, Reachable, HostOf
<1>1. CASE DetachGet(o)
  <2>1. Begins(o) /\ UNCHANGED <<kv, boxes, mgr>> /\ th[o].left = NoCalls
    BY <1>0, <1>1, PhaseOf DEF DetachGet, Plain, FanOutLabels
  <2>2. CASE base
    <3> DEFINE v == [ctl |-> ctl, rep |-> rep]
    <3>1. th' = [th EXCEPT ![o].det = v, ![o].pc = "unmonitor"]
      BY <1>1, <2>2 DEF DetachGet
    <3> HIDE DEF v
    <3>2. Others(o) /\ th'[o] = [th[o] EXCEPT !.det = v, !.pc = "unmonitor"]
      BY <1>0, <3>1 DEF Others
    <3>3. /\ th'[o].det = v /\ th'[o].pc = "unmonitor" /\ th'[o].vol = th[o].vol
          /\ th'[o].kind = th[o].kind /\ th'[o].left = th[o].left /\ th'[o].errs = th[o].errs
      BY <1>0, <3>2, SMT DEF Thread
    <3>4. v.ctl = ctl /\ v.rep = rep
      BY DEF v
    <3>5. Settled' /\ AllOK'
      BY <2>1, Same, SameReps DEF Begins, kv, boxes, mgr
    <3>6. th[o].kind \in {"attach", "restore"} => VolRead(o)'
      BY <1>1, <2>1, <3>3 DEF Begins, DetachGet, VolRead, kv
    <3>7. DetRead(o)' /\ th'[o].det.ctl = ctl'
      BY <2>1, <2>2, <3>3, <3>4, <3>6 DEF DetRead, kv
    <3>8. Phase(o)' /\ Plain(o)'
      BY <1>0, <2>1, <3>3, <3>5, <3>7 DEF Phase, Unmonitors, Plain
    <3> QED BY <2>1, <3>2, <3>8, OnlyMoves
  <2>3. CASE ~base
    <3>1. th[o].kind \notin {"attach", "restore", "delete"}
      BY <1>1, <2>1, <2>3 DEF Begins, DetachGet
    <3>2. Return(o)
      BY <1>1, <2>3, <3>1 DEF DetachGet, AfterDetach
    <3> QED BY <2>1, <3>2, EndsCalm DEF Begins
  <2> QED BY <2>2, <2>3
<1>2. CASE StopMonitoring(o)
  <2>1. Unmonitors(o) /\ UNCHANGED <<base, ctl, rep, box, repBox, up>> /\ th[o].left = NoCalls
    BY <1>0, <1>2, PhaseOf DEF StopMonitoring, Plain, FanOutLabels, kv, boxes
  <2>2. th[o].host \in Hosts /\ CloseMonitor(th[o].host)
    BY <1>0, <1>2 DEF StopMonitoring, MonitorInv, ThreadOK
  <2>3. Unwatched'
    <3> SUFFICES ASSUME NEW m \in Mons, open[m] PROVE m = monitors[th[o].host]
      BY <2>2 DEF CloseMonitor, Unwatched
    <3>1. th[m].host \in Hosts /\ monitors[th[m].host] = m
      BY DEF MonitorInv, OneLiveMonitor
    <3> QED BY <2>2, <3>1 DEF OneHost
  <2>4. \A h \in Hosts : monitors'[h] = None
    <3>1. monitors \in [Hosts -> Mons \cup {None}]
      BY DEF MonitorInv, TypeOK
    <3> QED BY <2>2, <3>1 DEF CloseMonitor, OneHost
  <2>5. EngineRuns \/ (NoEngine /\ ~ctl.running)
    BY <1>b, <2>1 DEF Unmonitors, Settled, Detached, NoEngine
  <2>6. /\ NoEngine' <=> NoEngine
        /\ EngineRuns' <=> EngineRuns
    BY <2>1, SMT DEF NoEngine, Gone, EngineRuns, Only, Exists
  <2>7. AllOK' /\ Engines' /\ NoVol'
    BY <1>0, <2>1, SMT DEF Unmonitors, AllOK, RepOK, There, Engines, NoVol, Exists
  <2>8. Others(o) /\ Phase(o)' /\ Plain(o)'
    <3>1. CASE th[o].det.ctl.running
      <4>1. Others(o) /\ Plain(o)' /\ SameThread(o) /\ th'[o].pc = "stopctl"
        BY <1>0, <1>2, <2>1, <3>1, GotoPlain DEF StopMonitoring
      <4>2. EngineRuns' /\ DetRead(o)'
        BY <2>1, <2>5, <2>6, <3>1, <4>1, SameRead DEF Unmonitors
      <4> QED BY <2>3, <2>7, <4>1, <4>2 DEF Phase, StopsEngine
    <3>2. CASE ~th[o].det.ctl.running
      <4>1. StopReplicas(o) /\ NoEngine' /\ DetRead(o) /\ AllOK
        BY <1>2, <2>1, <2>5, <2>6, <3>2 DEF StopMonitoring, Unmonitors, EngineRuns
      <4> QED BY <1>0, <2>1, <2>3, <4>1, StopReplicasPhase
    <3> QED BY <3>1, <3>2
  <2>9. Watch'
    <3>1. \A m \in Mons : th'[m] = th[m]
      BY <1>0, <2>8 DEF Others, Threads
    <3>2. ASSUME NEW m \in Mons PROVE ~open'[m] /\ th'[m] = th[m]
      BY <2>3, <3>1 DEF Unwatched
    <3>3. \A h \in Hosts : up'[h] = "up"
      BY <1>0, <2>1 DEF Watch
    <3>4. ASSUME NEW m \in Mons
          PROVE  /\ th[m].pc \in {"idle", "watch", "check", "close"} /\ th[m].left = NoCalls
                 /\ th[m].pc # "idle" => th[m].made \in CtlIds
      BY <1>0 DEF Watch
    <3>5. ASSUME NEW m \in Mons
          PROVE  /\ th'[m].pc \in {"idle", "watch", "check", "close"} /\ th'[m].left = NoCalls
                 /\ th'[m].pc # "idle" => th'[m].made \in CtlIds
      BY <3>1, <3>4
    <3> QED BY <2>4, <3>2, <3>3, <3>5 DEF Watch
  <2> QED BY <2>7, <2>8, <2>9, CalmStep
<1>3. CASE StopController(o)
  <2>1. StopsEngine(o) /\ UNCHANGED <<base, ctl, rep, repBox>> /\ UNCHANGED mgr /\ th[o].left = NoCalls
    BY <1>0, <1>3, PhaseOf DEF StopController, Plain, FanOutLabels, kv
  <2>2. EngineRuns /\ Unwatched /\ AllOK /\ DetRead(o) /\ th[o].det.ctl.id = ctl.id
    BY <1>3, <2>1 DEF StopController, StopsEngine, DetRead
  <2>3. ctl.id \in CtlIds /\ box[ctl.id].st = "running" /\ Reachable(o, HostOf(ctl.id))
    BY <1>c, <2>2 DEF EngineRuns, Only, Exists
  <2>4. box' = [box EXCEPT ![ctl.id].st = "stopped"] /\ Goto(o, "stopctl.get")
    BY <1>3, <2>2, <2>3 DEF StopController, ContainerAllows
  <2>5. Others(o) /\ Plain(o)' /\ SameThread(o) /\ th'[o].pc = "stopctl.get"
    BY <1>0, <2>1, <2>4, GotoPlain
  <2>6. \A d \in CtlIds : /\ box'[d].st = IF d = ctl.id THEN "stopped" ELSE box[d].st
                          /\ box'[d].host = box[d].host /\ box'[d].rw = box[d].rw
    BY <2>3, <2>4, BoxThen
  <2>7. \A d \in CtlIds : Exists(d)' <=> Exists(d)
    BY <2>3, <2>6 DEF Exists
  <2>8. EngineHalted'
    BY <2>1, <2>2, <2>3, <2>6, <2>7 DEF EngineHalted, EngineRuns, Only
  <2>9. Engines' /\ NoVol'
    <3>1. Engines'
      BY <1>0, <2>6, <2>7 DEF Engines
    <3> QED BY <1>0, <2>1, <3>1, SMT DEF NoVol, There
  <2>10. AllOK' /\ DetRead(o)' /\ Unwatched'
    BY <2>1, <2>2, <2>5, SameReps, SameRead DEF Unwatched, mgr
  <2>11. Phase(o)'
    BY <2>5, <2>8, <2>10 DEF Phase, StopsEngine
  <2>12. Watch'
    BY <2>1, <2>2, <2>5, WatchKept
  <2> QED BY <2>5, <2>9, <2>11, <2>12, CalmStep
<1>4. CASE StopControllerCheck(o)
  <2>1. StopsEngine(o) /\ UNCHANGED <<kv, boxes, mgr>> /\ th[o].left = NoCalls
    BY <1>0, <1>4, PhaseOf DEF StopControllerCheck, Plain, FanOutLabels
  <2>2. EngineHalted /\ Unwatched /\ AllOK /\ DetRead(o) /\ th[o].det.ctl.id = ctl.id
    BY <1>4, <2>1 DEF StopControllerCheck, StopsEngine, DetRead
  <2>3. Goto(o, "stopctl.set")
    BY <1>4, <2>2 DEF StopControllerCheck, EngineHalted
  <2>4. Others(o) /\ Plain(o)' /\ SameThread(o) /\ th'[o].pc = "stopctl.set"
    BY <1>0, <2>1, <2>3, GotoPlain
  <2>5. EngineHalted' /\ AllOK' /\ DetRead(o)' /\ Unwatched'
    BY <2>1, <2>2, <2>4, Same, SameReps, SameRead DEF kv, boxes, mgr
  <2>6. Phase(o)'
    BY <2>4, <2>5 DEF Phase, StopsEngine
  <2> QED BY <2>1, <2>4, <2>6, OnlyMoves
<1>5. CASE StopControllerSet(o)
  <2>1. StopsEngine(o) /\ UNCHANGED <<base, rep, box, repBox, mgr>> /\ StopReplicas(o)
    BY <1>0, <1>5, PhaseOf DEF StopControllerSet, boxes
  <2>2. EngineHalted /\ Unwatched /\ AllOK /\ DetRead(o) /\ th[o].det.ctl.id = ctl.id
    BY <1>5, <2>1 DEF StopControllerSet, StopsEngine, DetRead
  <2>3. ctl'.id = ctl.id /\ ~ctl'.running
    BY <1>5, <2>2 DEF StopControllerSet
  <2>4. EngineHalted' /\ Unwatched'
    BY <2>1, <2>2, <2>3, SMT DEF EngineHalted, Only, Exists, Unwatched, mgr
  <2>5. Others(o) /\ Phase(o)' /\ Plain(o)'
    BY <1>0, <2>1, <2>2, <2>3, <2>4, StopReplicasPhase
  <2>6. Watch'
    BY <2>1, <2>2, <2>5, WatchKept
  <2>7. Engines' /\ NoVol'
    BY <1>0, <2>1, <2>2, SMT DEF Engines, Exists, NoVol, DetRead
  <2> QED BY <2>5, <2>6, <2>7, CalmStep
<1>6. CASE ReplicasStopped(o)
  <2>1. StopsReplicas(o) /\ UNCHANGED <<kv, boxes, mgr>> /\ th[o].left = NoCalls /\ ~th[o].errs
    BY <1>0, <1>6, PhaseOf DEF ReplicasStopped, Joined, Plain
  <2>2. AllDown /\ DetRead(o) /\ th[o].det.ctl.id = ctl.id /\ Unwatched
    BY <2>1 DEF StopsReplicas, AllDown, Stopping, NoCalls, DetRead
  <2>3. AllDown' /\ Unwatched' /\ (NoEngine' <=> NoEngine) /\ (EngineHalted' <=> EngineHalted)
    BY <2>1, <2>2, Same, SameReps DEF kv, boxes, mgr
  <2>4. CASE ctl.id # 0
    <3>1. EngineHalted /\ ~ctl.running
      BY <1>b, <2>1, <2>4 DEF StopsReplicas, NoEngine
    <3>2. Goto(o, "rmctl")
      BY <1>6, <2>1, <2>2, <2>4 DEF ReplicasStopped
    <3>3. Others(o) /\ Plain(o)' /\ SameThread(o) /\ th'[o].pc = "rmctl"
      BY <1>0, <2>1, <3>2, GotoPlain
    <3>4. DetRead(o)' /\ ~ctl'.running
      BY <2>1, <2>2, <3>1, <3>3, SameRead DEF kv
    <3>5. Phase(o)'
      BY <2>3, <3>1, <3>3, <3>4 DEF Phase, RemovesEngine
    <3> QED BY <2>1, <3>3, <3>5, OnlyMoves
  <2>5. CASE ctl.id = 0
    <3>1. NoEngine
      BY <1>b, <2>1, <2>5 DEF StopsReplicas, EngineHalted, Only
    <3>2. AfterDetach(o)
      BY <1>6, <2>1, <2>2, <2>5 DEF ReplicasStopped
    <3>3. base' /\ Detached' /\ UNCHANGED rep
      BY <2>1, <2>2, <2>3, <3>1 DEF DetRead, Detached, kv
    <3>4. Others(o) /\ Phase(o)' /\ Plain(o)'
      BY <1>0, <2>2, <2>3, <3>2, <3>3, AfterDetachPhase
    <3> QED BY <2>1, <3>4, OnlyMoves
  <2> QED BY <2>4, <2>5
<1>7. CASE RemoveController(o)
  <2>1. RemovesEngine(o) /\ UNCHANGED <<base, ctl, rep, repBox>> /\ UNCHANGED mgr /\ th[o].left = NoCalls
    BY <1>0, <1>7, PhaseOf DEF RemoveController, Plain, FanOutLabels, kv
  <2>2. EngineHalted /\ Unwatched /\ AllDown /\ DetRead(o) /\ th[o].det.ctl.id = ctl.id
    BY <1>7, <2>1 DEF RemoveController, RemovesEngine, DetRead
  <2>3. ctl.id \in CtlIds /\ box[ctl.id].st = "stopped" /\ Reachable(o, HostOf(ctl.id))
    BY <1>c, <2>2 DEF EngineHalted, Only, Exists
  <2>4. box' = [box EXCEPT ![ctl.id].st = "none"] /\ Goto(o, "rmctl.get")
    BY <1>7, <2>2, <2>3 DEF RemoveController, ContainerAllows
  <2>5. Others(o) /\ Plain(o)' /\ SameThread(o) /\ th'[o].pc = "rmctl.get"
    BY <1>0, <2>1, <2>4, GotoPlain
  <2>6. \A d \in CtlIds : /\ box'[d].st = IF d = ctl.id THEN "none" ELSE box[d].st
                          /\ box'[d].host = box[d].host /\ box'[d].rw = box[d].rw
    BY <2>3, <2>4, BoxThen
  <2>7. Gone' /\ ctl'.id # 0
    BY <1>b, <2>1, <2>2, <2>3, <2>6 DEF Gone, EngineHalted, Only, Exists
  <2>8. Engines' /\ NoVol'
    <3>1. Engines'
      BY <1>0, <2>6 DEF Engines, Exists
    <3> QED BY <1>0, <2>1, <3>1, SMT DEF NoVol, There
  <2>9. AllDown' /\ DetRead(o)' /\ Unwatched'
    BY <2>1, <2>2, <2>5, SameReps, SameRead DEF Unwatched, mgr
  <2>10. Phase(o)'
    BY <2>5, <2>7, <2>9 DEF Phase, RemovesEngine
  <2>11. Watch'
    BY <2>1, <2>2, <2>5, WatchKept
  <2> QED BY <2>5, <2>8, <2>10, <2>11, CalmStep
<1>8. CASE RemoveControllerCheck(o)
  <2>1. RemovesEngine(o) /\ UNCHANGED <<kv, boxes, mgr>> /\ th[o].left = NoCalls
    BY <1>0, <1>8, PhaseOf DEF RemoveControllerCheck, Plain, FanOutLabels
  <2>2. Gone /\ ctl.id # 0 /\ Unwatched /\ AllDown /\ DetRead(o) /\ th[o].det.ctl.id = ctl.id
    BY <1>8, <2>1 DEF RemoveControllerCheck, RemovesEngine, DetRead
  <2>3. Goto(o, "rmctl.del")
    BY <1>8, <2>2 DEF RemoveControllerCheck
  <2>4. Others(o) /\ Plain(o)' /\ SameThread(o) /\ th'[o].pc = "rmctl.del"
    BY <1>0, <2>1, <2>3, GotoPlain
  <2>5. Gone' /\ ctl'.id # 0 /\ AllDown' /\ DetRead(o)' /\ Unwatched'
    BY <2>1, <2>2, <2>4, Same, SameReps, SameRead DEF kv, boxes, mgr
  <2>6. Phase(o)'
    BY <2>4, <2>5 DEF Phase, RemovesEngine
  <2> QED BY <2>1, <2>4, <2>6, OnlyMoves
<1>9. CASE RemoveControllerDelete(o)
  <2>1. RemovesEngine(o) /\ UNCHANGED <<base, rep, box, repBox, mgr>> /\ AfterDetach(o) /\ ctl' = NoCtl
    BY <1>0, <1>9, PhaseOf DEF RemoveControllerDelete, boxes
  <2>2. Gone /\ Unwatched /\ AllDown /\ DetRead(o) /\ base
    BY <1>9, <2>1 DEF RemoveControllerDelete, RemovesEngine, DetRead
  <2>3. Detached' /\ AllDown' /\ base'
    BY <2>1, <2>2, SameReps, SMT DEF Detached, NoEngine, Gone, Exists, Unwatched, mgr
  <2>4. Others(o) /\ Phase(o)' /\ Plain(o)'
    BY <1>0, <2>1, <2>2, <2>3, AfterDetachPhase
  <2>5. Watch'
    BY <2>1, <2>2, <2>4, WatchKept
  <2>6. Engines' /\ NoVol'
    BY <1>0, <2>1, <2>2, SMT DEF Engines, Exists, NoVol
  <2> QED BY <2>4, <2>5, <2>6, CalmStep
<1> QED BY <1>1, <1>2, <1>3, <1>4, <1>5, <1>6, <1>7, <1>8, <1>9 DEF DetachStep

\* doAttach of the volume just read, at rest.
LEMMA BeginAttachCalm ==
  ASSUME MonitorInv, Calm, OneRequest, NEW o \in Ops, BeginAttach(o), th[o].left = NoCalls,
         th[o].kind \in {"attach", "restore"}, Settled, AllOK, UNCHANGED <<kv, boxes, mgr>>
  PROVE  Calm'
<1> DEFINE v == [ctl |-> ctl, rep |-> rep]
           f == [r \in Reps |-> IF rep[r] = "running" THEN "box" ELSE "off"]
           x1 == [th[o] EXCEPT !.vol = v, !.made = ctl.id, !.pc = "monitor"]
           x2 == [th[o] EXCEPT !.vol = v, !.pc = "detach"]
           x3 == [th[o] EXCEPT !.vol = v, !.pc = "stopold", !.left = f]
<1>0. o \in Threads /\ th \in [Threads -> Thread] /\ th[o] \in Thread /\ Plain(o)
  BY DEF Threads, MonitorInv, TypeOK, Calm
<1>1. \/ ~base /\ Return(o)
      \/ base /\ ctl.running /\ th' = [th EXCEPT ![o] = x1]
      \/ base /\ ctl.id # 0 /\ th' = [th EXCEPT ![o] = x2]
      \/ base /\ ctl.id = 0 /\ th' = [th EXCEPT ![o] = x3]
  BY DEF BeginAttach, DetachFirst
<1> HIDE DEF f
<1>2. v.rep = rep
  OBVIOUS
<1> HIDE DEF v
<1>3. /\ x1.vol = v /\ x1.made = ctl.id /\ x1.pc = "monitor"
      /\ x1.kind = th[o].kind /\ x1.errs = th[o].errs /\ x1.left = th[o].left
  BY <1>0, SMT DEF Thread
<1>4. /\ x2.vol = v /\ x2.pc = "detach"
      /\ x2.kind = th[o].kind /\ x2.errs = th[o].errs /\ x2.left = th[o].left
  BY <1>0, SMT DEF Thread
<1>5. /\ x3.vol = v /\ x3.pc = "stopold" /\ x3.left = f
      /\ x3.kind = th[o].kind /\ x3.errs = th[o].errs
  BY <1>0, SMT DEF Thread
<1> HIDE DEF x1, x2, x3
<1>6. ASSUME NEW x, th' = [th EXCEPT ![o] = x], x.vol = v
      PROVE  Others(o) /\ th'[o] = x /\ VolRead(o)'
  <2>1. Others(o) /\ th'[o] = x /\ rep' = rep
    BY <1>0, <1>6 DEF Others, kv
  <2> QED BY <1>2, <1>6, <2>1 DEF VolRead
<1>7. /\ Settled' /\ AllOK' /\ (EngineRuns' <=> EngineRuns) /\ (Detached' <=> Detached)
      /\ UNCHANGED <<base, ctl, rep, repBox>>
  BY Same, SameReps DEF kv, boxes, mgr
<1>8. NoCtl.id = 0 /\ ~NoCtl.running /\ 0 \notin CtlIds
  BY SMT DEF NoCtl, CtlIds
<1>9. CASE Return(o)
  BY <1>9, EndsCalm
<1>10. CASE base /\ ctl.running /\ th' = [th EXCEPT ![o] = x1]
  <2>1. EngineRuns' /\ base'
    BY <1>7, <1>8, <1>10 DEF Settled, Detached, NoEngine
  <2>2. Others(o) /\ th'[o] = x1 /\ VolRead(o)'
    BY <1>3, <1>6, <1>10
  <2>3. Phase(o)'
    BY <1>3, <1>7, <2>1, <2>2 DEF Phase, HasEngine
  <2>4. Plain(o)'
    BY <1>0, <1>3, <2>2 DEF Plain
  <2> QED BY <2>2, <2>3, <2>4, OnlyMoves
<1>11. CASE base /\ ctl.id # 0 /\ th' = [th EXCEPT ![o] = x2]
  <2>2. Others(o) /\ th'[o] = x2 /\ VolRead(o)'
    BY <1>4, <1>6, <1>11
  <2>3. Phase(o)'
    BY <1>4, <1>7, <1>11, <2>2 DEF Phase, Begins
  <2>4. Plain(o)'
    BY <1>0, <1>4, <2>2 DEF Plain
  <2> QED BY <2>2, <2>3, <2>4, OnlyMoves
<1>12. CASE base /\ ctl.id = 0 /\ th' = [th EXCEPT ![o] = x3]
  <2>1. Detached' /\ base'
    BY <1>7, <1>8, <1>12 DEF Settled, EngineRuns, Only
  <2>2. Others(o) /\ th'[o] = x3 /\ VolRead(o)'
    BY <1>5, <1>6, <1>12
  <2>3. ASSUME NEW r \in Reps PROVE Stopping(r, th[o].left[r])'
    <3>1. th'[o].left[r] = IF rep[r] = "running" THEN "box" ELSE "off"
      BY <1>5, <2>2 DEF f
    <3>2. RepOK(r)' /\ (rep[r] = "running" => There(r)') /\ (rep[r] # "running" => repBox'[r] # "running")
      BY <1>7, SMT DEF AllOK, RepOK, There
    <3> QED BY <3>1, <3>2, SMT DEF Stopping
  <2>4. Phase(o)'
    BY <1>5, <2>1, <2>2, <2>3 DEF Phase, StopsOld
  <2>5. Plain(o)'
    BY <1>0, <1>5, <2>2 DEF Plain, FanOutLabels
  <2> QED BY <2>2, <2>4, <2>5, OnlyMoves
<1> QED BY <1>1, <1>9, <1>10, <1>11, <1>12

\* The controller container is created.
LEMMA CreateContainerCalm ==
  ASSUME MonitorInv, MonitorInv', Calm, OneRequest, NEW o \in Ops, CreateContainer(o)
  PROVE  Calm'
<1>0. /\ o \in Threads /\ th \in [Threads -> Thread] /\ th[o].pc = "create" /\ th[o].host \in Hosts
      /\ Plain(o) /\ Engines /\ NoVol /\ th[o].left = NoCalls
  BY DEF Threads, MonitorInv, TypeOK, ThreadOK, Calm, CreateContainer, Plain, FanOutLabels
<1>1. Prepares(o) /\ UNCHANGED <<base, ctl, rep, repBox>> /\ UNCHANGED mgr
  BY <1>0, PhaseOf DEF CreateContainer, kv, Calm
<1>2. Detached /\ NoEngine /\ Gone /\ Unwatched /\ VolRead(o) /\ AllUp /\ base /\ Has(th[o].vol) # {}
  BY <1>1 DEF Prepares, Detached, NoEngine
<1> DEFINE b == [host |-> th[o].host, st |-> "stopped", rw |-> {}]
<1>3. PICK c \in CtlIds : /\ box' = [box EXCEPT ![c] = b]
                          /\ th' = [th EXCEPT ![o].made = c, ![o].pc = "start"]
  BY <1>2 DEF CreateContainer, Gone
<1>4. \A d \in CtlIds : box'[d] = IF d = c THEN b ELSE box[d]
  BY <1>3 DEF MonitorInv, TypeOK
<1>5. b.st = "stopped" /\ b.host = th[o].host
  OBVIOUS
<1> HIDE DEF b
<1>6. Only(c)' /\ box'[c].st = "stopped"
  BY <1>2, <1>4, <1>5 DEF Only, Gone, Exists
<1>7. Engines'
  BY <1>0, <1>4, <1>5 DEF Engines, Exists
<1>8. NoVol' /\ AllUp' /\ Unwatched' /\ ctl' = NoCtl /\ base'
  BY <1>1, <1>2, SameReps DEF NoVol, Unwatched, mgr, NoEngine
<1>9. Others(o) /\ th'[o] = [th[o] EXCEPT !.made = c, !.pc = "start"]
  BY <1>0, <1>3 DEF Others
<1>10. /\ th'[o].made = c /\ th'[o].pc = "start" /\ th'[o].vol = th[o].vol /\ th'[o].kind = th[o].kind
       /\ th'[o].left = th[o].left /\ th'[o].errs = th[o].errs
  BY <1>0, <1>9, SMT DEF Thread
<1>11. VolRead(o)' /\ Has(th[o].vol)' # {}
  BY <1>1, <1>2, <1>10 DEF VolRead, Has
<1>12. Phase(o)'
  <2>1. Only(th[o].made)' /\ box'[th'[o].made].st = "stopped"
    BY <1>6, <1>10 DEF Only, Exists
  <2> QED BY <1>8, <1>10, <1>11, <2>1 DEF Phase, MakesEngine
<1>13. Plain(o)'
  BY <1>0, <1>10 DEF Plain
<1>14. Watch'
  BY <1>1, <1>2, <1>9, WatchKept
<1> QED BY <1>7, <1>8, <1>12, <1>13, <1>14, CalmStep

\* The replicas of the volume have all been started.
LEMMA RepsRun ==
  ASSUME NEW o, VolRead(o), AllUp
  PROVE  \A r \in Has(th[o].vol) : r \in Reps /\ rep[r] = "running" /\ repBox[r] = "running"
  BY SMT DEF VolRead, AllUp, RepOK, There, Has

\* The engine is started and finds its replicas.
LEMMA StartContainerCalm ==
  ASSUME MonitorInv, MonitorInv', Calm, OneRequest, NEW o \in Ops, StartContainer(o)
  PROVE  Calm'
<1>0. /\ o \in Threads /\ th[o].pc = "start" /\ Plain(o) /\ Engines /\ NoVol /\ th[o].left = NoCalls
      /\ Phase(o)
  BY DEF Threads, Calm, StartContainer, Plain, FanOutLabels
<1>1. MakesEngine(o) /\ UNCHANGED <<base, ctl, rep, repBox>> /\ UNCHANGED mgr /\ Goto(o, "wait")
  BY <1>0, PhaseOf DEF StartContainer, kv
<1>2. /\ Only(th[o].made) /\ Unwatched /\ VolRead(o) /\ AllUp /\ base /\ Has(th[o].vol) # {}
      /\ ctl = NoCtl
  BY <1>1 DEF MakesEngine
<1> DEFINE c == th[o].made
           S == Has(th[o].vol)
<1>3. box' = [box EXCEPT ![c].st = "running", ![c].rw = S]
  BY <1>2, RepsRun DEF StartContainer
<1>4. c \in CtlIds /\ S # {}
  BY <1>2 DEF Only
<1> HIDE DEF c, S
<1>5. \A d \in CtlIds : /\ box'[d].st = IF d = c THEN "running" ELSE box[d].st
                        /\ box'[d].host = box[d].host
                        /\ box'[d].rw = IF d = c THEN S ELSE box[d].rw
  <2>1. box \in [CtlIds -> [host : Hosts \cup {None}, rw : SUBSET Reps,
                            st : {"new", "none", "stopped", "running"}]]
    BY DEF MonitorInv, TypeOK
  <2> QED BY <1>3, <2>1, SMT
<1>6. Exists(c)
  BY <1>0, <1>1 DEF MakesEngine, Exists, c
<1>7. \A d \in CtlIds : Exists(d)' <=> Exists(d)
  BY <1>4, <1>5, <1>6 DEF Exists
<1>8. Others(o) /\ Plain(o)' /\ SameThread(o) /\ th'[o].pc = "wait"
  BY <1>0, <1>1, GotoPlain
<1>9. Only(th[o].made)' /\ box'[th'[o].made].st = "running"
  <2>1. th'[o].made = c /\ Only(c)
    BY <1>2, <1>8 DEF SameThread, c
  <2> QED BY <1>5, <1>7, <2>1 DEF Only
<1>10. Engines'
  BY <1>0, <1>4, <1>5, <1>7 DEF Engines
<1>11. NoVol' /\ AllUp' /\ Unwatched' /\ ctl' = NoCtl /\ base'
  BY <1>1, <1>2, SameReps DEF NoVol, Unwatched, mgr
<1>12. VolRead(o)' /\ Has(th[o].vol)' # {}
  BY <1>1, <1>2, <1>8, SameRead
<1>13. Phase(o)'
  BY <1>8, <1>9, <1>11, <1>12 DEF Phase, MakesEngine
<1>14. Watch'
  BY <1>1, <1>2, <1>8, WatchKept
<1> QED BY <1>8, <1>10, <1>11, <1>13, <1>14, CalmStep

\* A monitor is started for the engine that runs, unless there is one.
LEMMA StartMonitoringCalm ==
  ASSUME MonitorInv, MonitorInv', Calm, OneRequest, NEW o \in Ops, StartMonitoring(o)
  PROVE  Calm'
<1>0. /\ o \in Threads /\ o \notin Mons /\ th \in [Threads -> Thread] /\ th[o].pc = "monitor"
      /\ th[o].host \in Hosts /\ Plain(o) /\ Watch /\ Engines /\ NoVol /\ th[o].left = NoCalls
      /\ Phase(o)
  BY ManagerAssumption DEF Threads, MonitorInv, TypeOK, ThreadOK, Calm, StartMonitoring, Plain, FanOutLabels
<1>1. HasEngine(o) /\ UNCHANGED <<base, ctl, rep, box, repBox, died>>
  BY <1>0, PhaseOf DEF StartMonitoring, kv, boxes
<1>2. EngineRuns /\ th[o].made = ctl.id /\ AllOK /\ VolRead(o) /\ base /\ ctl.id \in CtlIds
  BY <1>1 DEF HasEngine, EngineRuns, Only
<1>3. EngineRuns' /\ AllOK' /\ Engines' /\ NoVol' /\ base'
  BY <1>0, <1>1, <1>2, SMT DEF EngineRuns, Only, Exists, AllOK, RepOK, There, Engines, NoVol
<1> DEFINE h == th[o].host
           x == Attached(o)
<1>4. \A g \in Hosts : up'[g] = "up"
  <2>1. up \in [Hosts -> {"down", "starting", "up"}] /\ up' = [up EXCEPT ![th[o].host] = "up"]
    BY DEF StartMonitoring, MonitorInv, TypeOK
  <2>2. \A g \in Hosts : up[g] = "up"
    BY <1>0 DEF Watch
  <2> QED BY <2>1, <2>2
<1>5. IF Monitored(h)
      THEN th' = [th EXCEPT ![o] = x] /\ UNCHANGED <<monitors, open>>
      ELSE \E m \in Mons : /\ monitors' = [monitors EXCEPT ![h] = m]
                           /\ open' = [open EXCEPT ![m] = TRUE]
                           /\ th' = [th EXCEPT ![o] = x, ![m] = Watching(h, th[o].made)]
  BY DEF StartMonitoring
<1>6. x = Idle \/ (x = [th[o] EXCEPT !.pc = "restore"] /\ th[o].kind = "restore")
  BY DEF Attached
<1> HIDE DEF h, x
<1>7. h \in Hosts
  BY <1>0 DEF h
<1>8. ASSUME th'[o] = x, Watched' PROVE Phase(o)' /\ Plain(o)'
  <2>1. CASE x = Idle
    <3>1. th'[o].pc = "idle" /\ th'[o].left = NoCalls /\ ~th'[o].errs /\ th'[o].kind = "none"
      <4>1. Idle.pc = "idle" /\ Idle.left = NoCalls /\ ~Idle.errs /\ Idle.kind = "none"
        BY DEF Idle
      <4> QED BY <1>8, <2>1, <4>1
    <3> QED BY <1>3, <1>8, <3>1 DEF Phase, Begins, Settled, Plain
  <2>2. CASE x = [th[o] EXCEPT !.pc = "restore"]
    <3>1. /\ th'[o].pc = "restore" /\ th'[o].left = th[o].left /\ th'[o].errs = th[o].errs
          /\ th'[o].kind = th[o].kind /\ th'[o].made = th[o].made /\ th'[o].vol = th[o].vol
      BY <1>0, <1>8, <2>2, SMT DEF Thread
    <3>2. VolRead(o)' /\ th'[o].made = ctl'.id
      BY <1>1, <1>2, <3>1 DEF VolRead
    <3>3. Plain(o)'
      BY <1>0, <3>1 DEF Plain
    <3> QED BY <1>3, <1>8, <3>1, <3>2, <3>3 DEF Phase, HasEngine
  <2> QED BY <1>6, <2>1, <2>2
<1>9. CASE Monitored(h)
  <2>1. th' = [th EXCEPT ![o] = x] /\ UNCHANGED <<monitors, open>>
    BY <1>5, <1>9
  <2>2. th'[o] = x /\ Others(o)
    BY <1>0, <2>1 DEF Others
  <2>3. Watched'
    <3>1. monitors[h] \in Mons /\ open[monitors[h]]
      <4>1. monitors[h] \in Mons \cup {None} /\ monitors[h] # None
        BY <1>7, <1>9 DEF Monitored, MonitorInv, TypeOK
      <4> QED BY <1>0, <1>7, <4>1 DEF Watch
    <3> QED BY <2>1, <3>1 DEF Watched
  <2>4. UNCHANGED mgr
    <3>1. UNCHANGED up
      <4>1. up \in [Hosts -> {"down", "starting", "up"}] /\ up' \in [Hosts -> {"down", "starting", "up"}]
        BY DEF MonitorInv, TypeOK
      <4>2. \A g \in Hosts : up[g] = up'[g]
        BY <1>0, <1>4 DEF Watch
      <4> QED BY <4>1, <4>2, SMT
    <3> QED BY <1>1, <2>1, <3>1 DEF mgr
  <2> QED BY <1>1, <1>8, <2>2, <2>3, <2>4, OnlyMoves DEF kv, boxes
<1>10. CASE ~Monitored(h)
  <2>1. PICK m \in Mons : /\ monitors' = [monitors EXCEPT ![h] = m]
                          /\ open' = [open EXCEPT ![m] = TRUE]
                          /\ th' = [th EXCEPT ![o] = x, ![m] = Watching(h, th[o].made)]
    BY <1>5, <1>10
  <2>2. m # o /\ m \in Threads
    BY <1>0 DEF Threads
  <2> DEFINE w == Watching(h, th[o].made)
  <2>3. w.pc = "watch" /\ w.left = NoCalls /\ w.made = th[o].made
    BY WatchingThen, SMT
  <2> HIDE DEF w
  <2>4. th'[o] = x /\ th'[m] = w /\ \A n \in Mons \ {m} : th'[n] = th[n]
    BY <1>0, <2>1, <2>2 DEF w, Threads
  <2>5. open'[m] /\ \A n \in Mons \ {m} : open'[n] = open[n]
    BY <2>1 DEF MonitorInv, TypeOK
  <2>6. Watched'
    BY <2>5 DEF Watched
  <2>7. ASSUME NEW n \in Mons
        PROVE  /\ th'[n].pc \in {"idle", "watch", "check", "close"} /\ th'[n].left = NoCalls
               /\ th'[n].pc # "idle" => th'[n].made \in CtlIds
               /\ th'[n].pc = "close" => ~open'[n]
               /\ open'[n] => th'[n].made = ctl'.id
    <3>1. CASE n = m
      BY <1>1, <1>2, <2>3, <2>4, <3>1
    <3>2. CASE n # m
      <4>1. th'[n] = th[n] /\ open'[n] = open[n] /\ ctl' = ctl
        BY <1>1, <2>4, <2>5, <3>2
      <4>2. /\ th[n].pc \in {"idle", "watch", "check", "close"} /\ th[n].left = NoCalls
            /\ th[n].pc # "idle" => th[n].made \in CtlIds
            /\ th[n].pc = "close" => ~open[n]
            /\ open[n] => th[n].made = ctl.id
        BY <1>0 DEF Watch
      <4> QED BY <4>1, <4>2
    <3> QED BY <3>1, <3>2
  <2>8. ASSUME NEW g \in Hosts, monitors'[g] # None PROVE open'[monitors'[g]]
    <3>1. monitors'[g] = IF g = h THEN m ELSE monitors[g]
      BY <2>1 DEF MonitorInv, TypeOK
    <3>2. monitors[g] \in Mons \cup {None} /\ (monitors[g] # None => open[monitors[g]])
      BY <1>0 DEF Watch, MonitorInv, TypeOK
    <3> QED BY <2>5, <2>8, <3>1, <3>2
  <2>9. Watch'
    BY <1>3, <1>4, <2>7, <2>8 DEF Watch
  <2> QED BY <1>3, <1>8, <2>4, <2>6, <2>9, CalmStep
<1> QED BY <1>9, <1>10

\* Every step of Attach and doAttach by a request.
LEMMA AttachCalm ==
  ASSUME MonitorInv, MonitorInv', Calm, OneRequest, NEW o \in Ops, AttachStep(o)
  PROVE  Calm'
<1>0. o \in Threads /\ Phase(o) /\ Plain(o) /\ Watch /\ Engines /\ NoVol
  BY DEF Threads, Calm
<1>1. CASE AttachGet(o)
  <2>1. Begins(o) /\ UNCHANGED <<kv, boxes, mgr>> /\ th[o].left = NoCalls
    BY <1>0, <1>1, PhaseOf DEF AttachGet, Plain, FanOutLabels
  <2> QED BY <1>1, <2>1, BeginAttachCalm DEF AttachGet, Begins
<1>2. CASE OldStopped(o)
  <2>1. StopsOld(o) /\ UNCHANGED <<kv, boxes, mgr>> /\ th[o].left = NoCalls /\ ~th[o].errs
    BY <1>0, <1>2, PhaseOf DEF OldStopped, Joined, Plain
  <2>2. AllDown /\ AllOK /\ Detached /\ VolRead(o) /\ base
    BY <2>1 DEF StopsOld, AllDown, AllOK, Stopping, NoCalls
  <2>3. CASE Has(th[o].vol) = {}
    BY <1>2, <2>1, <2>2, <2>3, EndsCalm DEF OldStopped, Settled
  <2>4. CASE Has(th[o].vol) # {}
    <3>1. FanOut(o, "startreps", Has(th[o].vol))
      BY <1>2, <2>1, <2>4 DEF OldStopped
    <3>2. /\ Others(o) /\ Plain(o)' /\ SameThread(o) /\ th'[o].pc = "startreps"
          /\ \A r \in Reps : th'[o].left[r] = IF r \in Has(th[o].vol) THEN "box" ELSE "off"
      BY <1>0, <3>1, FanOutPlain DEF FanOutLabels
    <3>3. UNCHANGED <<base, ctl, rep, box, repBox, open>>
      BY <2>1 DEF kv, boxes, mgr
    <3>4. ASSUME NEW r \in Reps PROVE Starting(r, th[o].left[r])'
      <4>1. r \in Has(th[o].vol) <=> There(r)
        BY <2>2, ReadHas DEF VolRead
      <4>2. RepOK(r)' /\ (There(r)' <=> There(r)) /\ (~There(r)' => repBox'[r] # "stopped")
        BY <2>2, <3>3, SMT DEF AllOK, RepOK, There
      <4>3. th'[o].left[r] = IF There(r) THEN "box" ELSE "off"
        BY <3>2, <4>1
      <4> QED BY <4>2, <4>3, SMT DEF Starting
    <3>5. Detached' /\ base' /\ VolRead(o)' /\ Has(th[o].vol)' # {}
      BY <2>2, <2>4, <3>2, <3>3, Same, SameRead
    <3>6. Phase(o)'
      BY <3>2, <3>4, <3>5 DEF Phase, StartsReplicas
    <3> QED BY <2>1, <3>2, <3>6, OnlyMoves
  <2> QED BY <2>3, <2>4
<1>3. CASE ReplicasStarted(o)
  <2>1. StartsReplicas(o) /\ UNCHANGED <<kv, boxes, mgr>> /\ th[o].left = NoCalls /\ ~th[o].errs
    BY <1>0, <1>3, PhaseOf DEF ReplicasStarted, Joined, Plain
  <2>2. AllUp /\ Detached /\ VolRead(o) /\ base /\ Has(th[o].vol) # {}
    BY <2>1 DEF StartsReplicas, AllUp, Starting, NoCalls
  <2>3. Others(o) /\ Plain(o)' /\ SameThread(o) /\ th'[o].pc = "prepare"
    BY <1>0, <1>3, <2>1, GotoPlain DEF ReplicasStarted
  <2>4. AllUp' /\ Detached' /\ base' /\ VolRead(o)' /\ Has(th[o].vol)' # {}
    BY <2>1, <2>2, <2>3, Same, SameReps, SameRead DEF kv, boxes, mgr
  <2>5. Phase(o)'
    BY <2>3, <2>4 DEF Phase, Prepares
  <2> QED BY <2>1, <2>3, <2>5, OnlyMoves
<1>4. CASE PrepareCreateController(o)
  <2>1. Prepares(o) /\ UNCHANGED <<kv, boxes, mgr>> /\ th[o].left = NoCalls
    BY <1>0, <1>4, PhaseOf DEF PrepareCreateController, Plain, FanOutLabels
  <2>2. AllUp /\ Detached /\ VolRead(o) /\ base /\ Has(th[o].vol) # {}
    BY <2>1 DEF Prepares
  <2>3. Goto(o, "create")
    BY <1>4, <2>2, RepsRun DEF PrepareCreateController
  <2>4. Others(o) /\ Plain(o)' /\ SameThread(o) /\ th'[o].pc = "create"
    BY <1>0, <2>1, <2>3, GotoPlain
  <2>5. AllUp' /\ Detached' /\ base' /\ VolRead(o)' /\ Has(th[o].vol)' # {}
    BY <2>1, <2>2, <2>4, Same, SameReps, SameRead DEF kv, boxes, mgr
  <2>6. Phase(o)'
    BY <2>4, <2>5 DEF Phase, Prepares
  <2> QED BY <2>1, <2>4, <2>6, OnlyMoves
<1>5. CASE CreateContainer(o)
  BY <1>5, CreateContainerCalm
<1>6. CASE StartContainer(o)
  BY <1>6, StartContainerCalm
<1>7. ASSUME MakesEngine(o), UNCHANGED <<kv, boxes, mgr>>, th[o].pc # "start",
             NEW l \in {"meta.get", "meta.set"}, Goto(o, l)
      PROVE  Calm'
  <2>1. th[o].left = NoCalls
    BY <1>0, <1>7 DEF MakesEngine, Plain, FanOutLabels
  <2>2. Others(o) /\ Plain(o)' /\ SameThread(o) /\ th'[o].pc = l
    BY <1>0, <1>7, <2>1, GotoPlain
  <2>3. UNCHANGED <<base, ctl, rep, box, repBox, open>>
    BY <1>7 DEF kv, boxes, mgr
  <2>4. AllUp' /\ Unwatched' /\ base' /\ VolRead(o)' /\ Has(th[o].vol)' # {} /\ ctl' = NoCtl
    BY <1>7, <2>2, <2>3, Same, SameReps, SameRead DEF MakesEngine
  <2>5. Only(th[o].made)' /\ box'[th'[o].made].st = "running"
    <3>1. th'[o].made = th[o].made /\ Only(th[o].made) /\ box[th[o].made].st = "running"
      BY <1>7, <2>2 DEF MakesEngine, SameThread
    <3> QED BY <2>3, <3>1 DEF Only, Exists
  <2>6. Phase(o)'
    BY <1>7, <2>2, <2>4, <2>5 DEF Phase, MakesEngine
  <2> QED BY <1>7, <2>2, <2>6, OnlyMoves
<1>8. CASE WaitForEngine(o)
  <2>1. MakesEngine(o) /\ th[o].pc = "wait"
    BY <1>0, <1>8, PhaseOf DEF WaitForEngine
  <2>2. Goto(o, "meta.get") /\ UNCHANGED <<kv, boxes, mgr>>
    BY <1>8, <2>1 DEF WaitForEngine, MakesEngine, boxes
  <2> QED BY <1>7, <2>1, <2>2
<1>9. CASE ControllerCheck(o)
  <2>1. MakesEngine(o) /\ th[o].pc = "meta.get"
    BY <1>0, <1>9, PhaseOf DEF ControllerCheck
  <2>2. ctl.id = 0
    BY <2>1 DEF MakesEngine, NoCtl
  <2>3. Goto(o, "meta.set") /\ UNCHANGED <<kv, boxes, mgr>>
    BY <1>9, <2>2 DEF ControllerCheck, boxes
  <2> QED BY <1>7, <2>1, <2>3
<1>10. CASE ControllerSet(o)
  <2>1. MakesEngine(o) /\ th[o].pc = "meta.set" /\ UNCHANGED <<base, rep, box, repBox, mgr>>
    BY <1>0, <1>10, PhaseOf DEF ControllerSet, boxes
  <2>2. /\ Only(th[o].made) /\ box[th[o].made].st = "running" /\ AllUp /\ VolRead(o) /\ base
        /\ Unwatched /\ th[o].left = NoCalls
    BY <1>0, <2>1 DEF MakesEngine, Plain, FanOutLabels
  <2>3. ctl'.id = th[o].made /\ ctl'.running /\ Goto(o, "monitor")
    BY <1>10 DEF ControllerSet
  <2>4. Others(o) /\ Plain(o)' /\ SameThread(o) /\ th'[o].pc = "monitor"
    BY <1>0, <2>2, <2>3, GotoPlain
  <2>5. EngineRuns'
    BY <2>1, <2>2, <2>3 DEF EngineRuns, Only, Exists
  <2>6. AllOK' /\ base' /\ VolRead(o)'
    <3>1. AllOK
      BY <2>2 DEF AllUp, AllOK
    <3> QED BY <2>1, <2>2, <2>4, <3>1, SameReps, SameRead
  <2>7. Phase(o)'
    BY <2>3, <2>4, <2>5, <2>6 DEF Phase, HasEngine, SameThread
  <2>8. Watch'
    BY <2>1, <2>2, <2>4, WatchKept
  <2>9. Engines' /\ NoVol'
    BY <1>0, <2>1, <2>2, SMT DEF Engines, Exists, NoVol
  <2> QED BY <2>4, <2>7, <2>8, <2>9, CalmStep
<1>11. CASE StartMonitoring(o)
  BY <1>11, StartMonitoringCalm
<1> QED BY <1>1, <1>2, <1>3, <1>4, <1>5, <1>6, <1>8, <1>9, <1>10, <1>11 DEF AttachStep

\* Every step of Create, Delete and createFromBackup by a request.
LEMMA VolumeCalm ==
  ASSUME MonitorInv, MonitorInv', Calm, OneRequest, NEW o \in Ops, VolumeStep(o)
  PROVE  Calm'
<1>0. /\ o \in Threads /\ th \in [Threads -> Thread] /\ ctl \in Controller
      /\ Phase(o) /\ Plain(o) /\ Watch /\ Engines /\ NoVol
  BY DEF Threads, MonitorInv, TypeOK, Calm
<1>1. CASE CreateGet(o) \/ CreateCheck(o)
  <2>1. Begins(o) /\ UNCHANGED <<kv, boxes, mgr>> /\ th[o].left = NoCalls
    BY <1>0, <1>1, PhaseOf DEF CreateGet, CreateCheck, Plain, FanOutLabels
  <2>2. CASE Return(o)
    BY <2>1, <2>2, EndsCalm DEF Begins
  <2>3. ASSUME NEW l \in {"setbase", "newbase"}, Goto(o, l), ~base PROVE Calm'
    <3>1. Others(o) /\ Plain(o)' /\ th'[o].pc = l /\ ~base'
      BY <1>0, <2>1, <2>3, GotoPlain DEF kv
    <3>2. Settled' /\ AllOK'
      BY <2>1, Same, SameReps DEF Begins, kv, boxes, mgr
    <3>3. Phase(o)'
      BY <3>1, <3>2 DEF Phase, Begins
    <3> QED BY <2>1, <3>1, <3>3, OnlyMoves
  <2> QED BY <1>1, <2>2, <2>3 DEF CreateGet, CreateCheck
<1>2. CASE CreateVolume(o)
  <2>1. Begins(o) /\ UNCHANGED <<ctl, rep, boxes, mgr>>
    BY <1>0, <1>2, PhaseOf DEF CreateVolume
  <2>2. ~base
    BY <1>2, <2>1 DEF CreateVolume, Begins
  <2>3. CASE ~base
    <3>1. PICK S \in SUBSET Fresh : FanOut(o, "newreps", S) /\ base'
      BY <1>2, <2>3 DEF CreateVolume
    <3>2. /\ Others(o) /\ Plain(o)' /\ th'[o].pc = "newreps"
          /\ \A r \in Reps : th'[o].left[r] = IF r \in S THEN "box" ELSE "off"
      BY <1>0, <3>1, FanOutPlain DEF FanOutLabels
    <3>3. UNCHANGED <<ctl, rep, box, repBox, open>>
      BY <2>1 DEF boxes, mgr
    <3>4. Detached'
      <4>1. ~ctl.running
        <5>1. ctl = NoCtl
          BY <1>0, <2>3 DEF NoVol
        <5>2. ~NoCtl.running
          BY DEF NoCtl
        <5> QED BY <5>1, <5>2
      <4>2. Detached
        BY <2>1, <4>1 DEF Begins, Settled, EngineRuns
      <4> QED BY <3>3, <4>2, Same
    <3>5. ASSUME NEW r \in Reps PROVE Emerging(r, th[o].left[r])'
      <4>1. r \in S => repBox[r] = "new"
        BY DEF Fresh
      <4>2. rep[r] = "nil" /\ RepOK(r)'
        BY <1>0, <2>3, <3>3, SMT DEF NoVol, RepOK, There
      <4>3. th'[o].left[r] = IF r \in S THEN "box" ELSE "off"
        BY <3>2
      <4> QED BY <3>3, <4>1, <4>2, <4>3, SMT DEF Emerging
    <3>6. Phase(o)'
      BY <3>1, <3>2, <3>4, <3>5 DEF Phase, CreatesReplicas
    <3>7. Watch'
      BY <2>1, <3>2, <3>3, WatchKept
    <3>8. Engines' /\ NoVol'
      BY <1>0, <3>1, <3>3, SMT DEF Engines, Exists, NoVol
    <3> QED BY <3>2, <3>6, <3>7, <3>8, CalmStep
  <2> QED BY <2>2, <2>3
<1>3. CASE Created(o)
  <2>1. CreatesReplicas(o) /\ UNCHANGED <<kv, boxes, mgr>> /\ th[o].left = NoCalls
    BY <1>0, <1>3, PhaseOf DEF Created, Joined
  <2>2. AllOK /\ Settled
    BY <2>1 DEF CreatesReplicas, AllOK, Emerging, NoCalls, Settled
  <2>3. CASE th[o].kind = "restore"
    BY <1>3, <2>1, <2>2, <2>3, BeginAttachCalm DEF Created
  <2>4. CASE th[o].kind # "restore"
    BY <1>3, <2>1, <2>2, <2>4, EndsCalm DEF Created
  <2> QED BY <2>3, <2>4
<1>4. CASE Restore(o)
  <2>1. HasEngine(o) /\ UNCHANGED <<kv, boxes, mgr>> /\ th[o].left = NoCalls /\ th[o].pc = "restore"
    BY <1>0, <1>4, PhaseOf DEF Restore, Plain, FanOutLabels
  <2>2. EngineRuns /\ th[o].made = ctl.id /\ Watched /\ AllOK /\ VolRead(o) /\ base
    BY <2>1 DEF HasEngine
  <2> DEFINE c == [id |-> th[o].made, running |-> TRUE]
             v == [ctl |-> c, rep |-> th[o].vol.rep]
  <2>3. th' = [th EXCEPT ![o].kind = "restored", ![o].pc = "unmonitor", ![o].det = v]
    BY <1>4, <2>2 DEF Restore, EngineRuns
  <2>4. c = ctl
    BY <1>0, <2>2, SMT DEF Controller, EngineRuns
  <2>5. v.ctl = c /\ v.rep = th[o].vol.rep
    OBVIOUS
  <2> HIDE DEF v, c
  <2>6. Others(o) /\ th'[o] = [th[o] EXCEPT !.kind = "restored", !.pc = "unmonitor", !.det = v]
    BY <1>0, <2>3 DEF Others
  <2>7. /\ th'[o].det = v /\ th'[o].pc = "unmonitor" /\ th'[o].kind = "restored"
        /\ th'[o].left = th[o].left /\ th'[o].errs = th[o].errs
    BY <1>0, <2>6, SMT DEF Thread
  <2>8. Settled' /\ AllOK' /\ UNCHANGED <<base, ctl, rep>>
    BY <2>1, <2>2, Same, SameReps DEF Settled, kv, boxes, mgr
  <2>9. DetRead(o)' /\ th'[o].det.ctl = ctl'
    BY <2>2, <2>4, <2>5, <2>7, <2>8 DEF DetRead, VolRead
  <2>10. Phase(o)'
    BY <2>7, <2>8, <2>9 DEF Phase, Unmonitors
  <2>11. Plain(o)'
    BY <1>0, <2>1, <2>7 DEF Plain
  <2> QED BY <2>1, <2>6, <2>10, <2>11, OnlyMoves
<1>5. CASE DeleteGet(o)
  <2>1. Begins(o) /\ UNCHANGED <<kv, boxes, mgr>> /\ th[o].left = NoCalls
    BY <1>0, <1>5, PhaseOf DEF DeleteGet, Plain, FanOutLabels
  <2>2. CASE base
    <3> DEFINE v == [ctl |-> ctl, rep |-> rep]
    <3>1. th' = [th EXCEPT ![o].det = v, ![o].pc = "unmonitor"]
      BY <1>5, <2>2 DEF DeleteGet
    <3>2. v.ctl = ctl /\ v.rep = rep
      OBVIOUS
    <3> HIDE DEF v
    <3>3. Others(o) /\ th'[o] = [th[o] EXCEPT !.det = v, !.pc = "unmonitor"]
      BY <1>0, <3>1 DEF Others
    <3>4. /\ th'[o].det = v /\ th'[o].pc = "unmonitor" /\ th'[o].kind = th[o].kind
          /\ th'[o].left = th[o].left /\ th'[o].errs = th[o].errs
      BY <1>0, <3>3, SMT DEF Thread
    <3>5. Settled' /\ AllOK' /\ UNCHANGED <<base, ctl, rep>>
      BY <2>1, Same, SameReps DEF Begins, kv, boxes, mgr
    <3>6. th'[o].kind = "delete"
      BY <1>5, <3>4 DEF DeleteGet
    <3>7. DetRead(o)' /\ th'[o].det.ctl = ctl'
      BY <2>2, <3>2, <3>4, <3>5, <3>6 DEF DetRead
    <3>8. Phase(o)' /\ Plain(o)'
      BY <1>0, <2>1, <3>4, <3>5, <3>7 DEF Phase, Unmonitors, Plain
    <3> QED BY <2>1, <3>3, <3>8, OnlyMoves
  <2>3. CASE ~base
    BY <1>5, <2>1, <2>3, EndsCalm DEF DeleteGet, Begins
  <2> QED BY <2>2, <2>3
<1>6. CASE DeleteVolume(o)
  <2>1. /\ RemovesReplicas(o) /\ UNCHANGED <<box, repBox, mgr>> /\ th[o].left = NoCalls
        /\ ~base' /\ ctl' = NoCtl /\ rep' = [r \in Reps |-> "nil"] /\ Return(o)
    BY <1>0, <1>6, PhaseOf DEF DeleteVolume, Joined, boxes
  <2>2. Detached /\ Gone /\ Unwatched /\ \A r \in Reps : ~There(r)
    BY <2>1 DEF RemovesReplicas, Vanishing, NoCalls, Detached, NoEngine
  <2>3. Others(o) /\ Plain(o)' /\ th'[o].pc \in {"idle", "get"}
    BY <2>1, EndsPlain
  <2>4. ASSUME NEW r \in Reps PROVE rep'[r] = "nil" /\ ~There(r)'
    BY <2>1, <2>2 DEF There
  <2>5. AllOK' /\ NoVol'
    BY <2>1, <2>4 DEF AllOK, RepOK, NoVol
  <2>6. Settled'
    BY <2>1, <2>2, SMT DEF Settled, Detached, NoEngine, Gone, Exists, Unwatched, mgr
  <2>7. Phase(o)'
    BY <2>3, <2>5, <2>6 DEF Phase, Begins
  <2>8. Watch'
    BY <2>1, <2>2, <2>3, WatchKept
  <2>9. Engines'
    BY <1>0, <2>1, SMT DEF Engines, Exists
  <2> QED BY <2>3, <2>5, <2>7, <2>8, <2>9, CalmStep
<1>7. CASE StartList(o)
  BY <1>0, <1>7 DEF StartList, Plain
<1> QED BY <1>1, <1>2, <1>3, <1>4, <1>5, <1>6, <1>7 DEF VolumeStep

\* A call for a replica gets on.
CallGets(o, r, l) == th' = [th EXCEPT ![o].left[r] = l]

\* One call of the request goes on alone.
LEMMA LeftStep ==
  ASSUME MonitorInv, NEW o \in Ops, NEW r \in Reps, NEW l, CallGets(o, r, l),
         Plain(o), th[o].pc \in FanOutLabels
  PROVE  /\ Others(o) /\ SameThread(o) /\ th'[o].pc = th[o].pc /\ Plain(o)'
         /\ \A q \in Reps : th'[o].left[q] = IF q = r THEN l ELSE th[o].left[q]
<1>1. o \in Threads /\ th \in [Threads -> Thread]
  BY DEF Threads, MonitorInv, TypeOK
<1>2. Others(o) /\ th'[o] = [th[o] EXCEPT !.left[r] = l]
  BY <1>1 DEF Others, CallGets
<1>3. SameThread(o) /\ th'[o].pc = th[o].pc /\ th'[o].errs = th[o].errs
  BY <1>1, <1>2, SMT DEF SameThread, Thread
<1>4. \A q \in Reps : th'[o].left[q] = IF q = r THEN l ELSE th[o].left[q]
  BY <1>1, <1>2, SMT DEF Thread
<1> QED BY <1>2, <1>3, <1>4 DEF Plain, SameThread

\* What the controller is like does not depend on the modes of its replicas.
LEMMA SameState ==
  ASSUME UNCHANGED <<ctl, open>>, \A c \in CtlIds : box'[c].st = box[c].st
  PROVE  /\ NoEngine' <=> NoEngine
         /\ EngineHalted' <=> EngineHalted
         /\ Unwatched' <=> Unwatched
         /\ Detached' <=> Detached
<1>1. \A c \in CtlIds : Exists(c)' <=> Exists(c)
  BY DEF Exists
<1>2. Unwatched' <=> Unwatched
  BY DEF Unwatched
<1>3. NoEngine' <=> NoEngine
  BY <1>1 DEF NoEngine, Gone
<1>4. EngineHalted' <=> EngineHalted
  BY <1>1 DEF EngineHalted, Only
<1> QED BY <1>2, <1>3, <1>4 DEF Detached

\* The request stays in its phase while it waits for the replicas, when the
\* replica that a call is for becomes what the call makes of it.
LEMMA CallPhase ==
  ASSUME NEW o, NEW r \in Reps, Phase(o), th[o].pc \in FanOutLabels,
         SameThread(o), th'[o].pc = th[o].pc, UNCHANGED <<base, ctl, open>>,
         \A c \in CtlIds : box'[c].st = box[c].st,
         \A q \in Reps \ {r} : th'[o].left[q] = th[o].left[q] /\ rep'[q] = rep[q] /\ repBox'[q] = repBox[q],
         th[o].pc \in {"stopreps", "stopold"} => Stopping(r, th[o].left[r])',
         th[o].pc = "startreps" => Starting(r, th[o].left[r])',
         th[o].pc = "rmreps" => Vanishing(r, th[o].left[r])',
         th[o].pc = "newreps" => Emerging(r, th[o].left[r])',
         th[o].pc \in {"stopreps", "stopold", "startreps"} => (rep'[r] = "nil" <=> rep[r] = "nil")
  PROVE  Phase(o)'
<1>1. /\ NoEngine' <=> NoEngine
      /\ EngineHalted' <=> EngineHalted
      /\ Unwatched' <=> Unwatched
      /\ Detached' <=> Detached
  BY SameState
<1>2. ASSUME NEW q \in Reps, q # r
      PROVE  /\ Stopping(q, th[o].left[q]) => Stopping(q, th[o].left[q])'
             /\ Starting(q, th[o].left[q]) => Starting(q, th[o].left[q])'
             /\ Vanishing(q, th[o].left[q]) => Vanishing(q, th[o].left[q])'
             /\ Emerging(q, th[o].left[q]) => Emerging(q, th[o].left[q])'
  <2>1. th'[o].left[q] = th[o].left[q] /\ rep'[q] = rep[q] /\ repBox'[q] = repBox[q]
    BY <1>2
  <2>2. (RepOK(q)' <=> RepOK(q)) /\ (There(q)' <=> There(q))
    BY <2>1 DEF RepOK, There
  <2> QED BY <2>1, <2>2 DEF Stopping, Starting, Vanishing, Emerging
<1>3. ASSUME th[o].pc \in {"stopreps", "stopold", "startreps"}
      PROVE  /\ \A q \in Reps : rep'[q] = "nil" <=> rep[q] = "nil"
             /\ VolRead(o) => VolRead(o)'
             /\ DetRead(o) => DetRead(o)'
             /\ Has(th[o].vol)' = Has(th[o].vol)
  <2>1. \A q \in Reps : rep'[q] = "nil" <=> rep[q] = "nil"
    BY <1>3
  <2>2. th'[o].vol = th[o].vol /\ th'[o].det = th[o].det /\ th'[o].kind = th[o].kind
    BY DEF SameThread
  <2>3. VolRead(o) => VolRead(o)'
    BY <2>1, <2>2 DEF VolRead
  <2>4. DetRead(o) => DetRead(o)'
    BY <2>1, <2>2, <2>3 DEF DetRead
  <2> QED BY <2>1, <2>2, <2>3, <2>4 DEF Has
<1>4. CASE th[o].pc = "stopreps"
  <2>1. StopsReplicas(o)
    BY <1>4, PhaseOf
  <2>2. \A q \in Reps : Stopping(q, th[o].left[q])'
    BY <1>2, <1>4, <2>1 DEF StopsReplicas
  <2> QED BY <1>1, <1>3, <1>4, <2>1, <2>2 DEF StopsReplicas, Phase
<1>5. CASE th[o].pc = "stopold"
  <2>1. StopsOld(o)
    BY <1>5, PhaseOf
  <2>2. \A q \in Reps : Stopping(q, th[o].left[q])'
    BY <1>2, <1>5, <2>1 DEF StopsOld
  <2> QED BY <1>1, <1>3, <1>5, <2>1, <2>2 DEF StopsOld, Phase
<1>6. CASE th[o].pc = "startreps"
  <2>1. StartsReplicas(o)
    BY <1>6, PhaseOf
  <2>2. \A q \in Reps : Starting(q, th[o].left[q])'
    BY <1>2, <1>6, <2>1 DEF StartsReplicas
  <2> QED BY <1>1, <1>3, <1>6, <2>1, <2>2 DEF StartsReplicas, Phase
<1>7. CASE th[o].pc = "rmreps"
  <2>1. RemovesReplicas(o)
    BY <1>7, PhaseOf
  <2>2. \A q \in Reps : Vanishing(q, th[o].left[q])'
    BY <1>2, <1>7, <2>1 DEF RemovesReplicas
  <2> QED BY <1>1, <1>7, <2>1, <2>2 DEF RemovesReplicas, Phase
<1>8. CASE th[o].pc = "newreps"
  <2>1. CreatesReplicas(o)
    BY <1>8, PhaseOf
  <2>2. \A q \in Reps : Emerging(q, th[o].left[q])'
    BY <1>2, <1>8, <2>1 DEF CreatesReplicas
  <2> QED BY <1>1, <1>8, <2>1, <2>2 DEF CreatesReplicas, Phase
<1> QED BY <1>4, <1>5, <1>6, <1>7, <1>8 DEF FanOutLabels

\* What a request does for a replica while it waits, and how.
LEMMA CallFacts ==
  ASSUME Calm, NEW o \in Ops, NEW r \in Reps, th[o].left[r] # "off"
  PROVE  /\ Phase(o) /\ Plain(o) /\ th[o].pc \in FanOutLabels /\ base /\ Unwatched
         /\ \A c \in CtlIds : box[c].st # "running"
         /\ th[o].pc \in {"stopreps", "stopold"} => Doing(o) = "stop" /\ Stopping(r, th[o].left[r])
         /\ th[o].pc = "startreps" => Doing(o) = "start" /\ Starting(r, th[o].left[r])
         /\ th[o].pc = "rmreps" => Doing(o) = "remove" /\ Vanishing(r, th[o].left[r])
         /\ th[o].pc = "newreps" => Doing(o) = "create" /\ Emerging(r, th[o].left[r])
<1>1. Phase(o) /\ Plain(o)
  BY DEF Calm
<1>2. th[o].pc \in FanOutLabels
  BY <1>1 DEF Plain, NoCalls
<1>3. NoEngine \/ EngineHalted => \A c \in CtlIds : box[c].st # "running"
  BY DEF NoEngine, Gone, EngineHalted, Only, Exists
<1>4. CASE th[o].pc = "stopreps"
  <2>1. StopsReplicas(o)
    BY <1>1, <1>4, PhaseOf
  <2> QED BY <1>1, <1>2, <1>3, <1>4, <2>1 DEF StopsReplicas, DetRead, Doing
<1>5. CASE th[o].pc = "stopold"
  <2>1. StopsOld(o)
    BY <1>1, <1>5, PhaseOf
  <2> QED BY <1>1, <1>2, <1>3, <1>5, <2>1 DEF StopsOld, Detached, Doing
<1>6. CASE th[o].pc = "startreps"
  <2>1. StartsReplicas(o)
    BY <1>1, <1>6, PhaseOf
  <2>2. Doing(o) = "start"
    BY <1>6, SMT DEF Doing
  <2> QED BY <1>1, <1>2, <1>3, <1>6, <2>1, <2>2 DEF StartsReplicas, Detached
<1>7. CASE th[o].pc = "rmreps"
  <2>1. RemovesReplicas(o)
    BY <1>1, <1>7, PhaseOf
  <2>2. Doing(o) = "remove"
    BY <1>7, SMT DEF Doing
  <2> QED BY <1>1, <1>2, <1>3, <1>7, <2>1, <2>2 DEF RemovesReplicas, Detached
<1>8. CASE th[o].pc = "newreps"
  <2>1. CreatesReplicas(o)
    BY <1>1, <1>8, PhaseOf
  <2>2. Doing(o) = "create"
    BY <1>8, SMT DEF Doing
  <2> QED BY <1>1, <1>2, <1>3, <1>8, <2>1, <2>2 DEF CreatesReplicas, Detached
<1> QED BY <1>2, <1>4, <1>5, <1>6, <1>7, <1>8 DEF FanOutLabels

\* The container of a replica is stopped, started, removed or created.
LEMMA ReplicaContainerCalm ==
  ASSUME MonitorInv, MonitorInv', Calm, OneRequest, NEW o \in Ops, NEW r \in Reps, ReplicaContainer(o, r)
  PROVE  Calm'
<1>0. /\ th[o].left[r] = "box" /\ UNCHANGED <<base, ctl, rep>> /\ UNCHANGED mgr
      /\ repBox \in [Reps -> {"new", "none", "stopped", "running"}]
      /\ box \in [CtlIds -> [host : Hosts \cup {None}, rw : SUBSET Reps,
                             st : {"new", "none", "stopped", "running"}]]
      /\ Engines /\ NoVol
  BY DEF ReplicaContainer, kv, MonitorInv, TypeOK, Calm
<1>1. /\ Phase(o) /\ Plain(o) /\ th[o].pc \in FanOutLabels /\ base /\ Unwatched
      /\ \A c \in CtlIds : box[c].st # "running"
      /\ th[o].pc \in {"stopreps", "stopold"} => Doing(o) = "stop" /\ Stopping(r, th[o].left[r])
      /\ th[o].pc = "startreps" => Doing(o) = "start" /\ Starting(r, th[o].left[r])
      /\ th[o].pc = "rmreps" => Doing(o) = "remove" /\ Vanishing(r, th[o].left[r])
      /\ th[o].pc = "newreps" => Doing(o) = "create" /\ Emerging(r, th[o].left[r])
  BY <1>0, CallFacts
<1>2. Reachable(o, RepHost[r])
  BY ManagerAssumption DEF Reachable, Calm, Watch
<1>3. There(r) <=> repBox[r] \in {"stopped", "running"}
  BY DEF There
<1>4. ContainerAllows(Doing(o), repBox[r])
  <2>1. CASE th[o].pc \in {"stopreps", "stopold", "startreps"}
    BY <1>0, <1>1, <1>3, <2>1 DEF Stopping, Starting, ContainerAllows
  <2>2. CASE th[o].pc = "rmreps"
    BY <1>0, <1>1, <2>2, SMT DEF Vanishing, ContainerAllows
  <2>3. CASE th[o].pc = "newreps"
    BY <1>0, <1>1, <2>3, SMT DEF Emerging, ContainerAllows
  <2> QED BY <1>1, <2>1, <2>2, <2>3 DEF FanOutLabels
<1>5. /\ repBox' = [repBox EXCEPT ![r] = ContainerAfter(Doing(o))]
      /\ box' = IF Doing(o) = "stop" THEN [c \in CtlIds |-> [box[c] EXCEPT !.rw = @ \ {r}]] ELSE box
      /\ th' = [th EXCEPT ![o].left[r] = "get"]
  BY <1>1, <1>2, <1>4 DEF ReplicaContainer
<1>6. \A q \in Reps : repBox'[q] = IF q = r THEN ContainerAfter(Doing(o)) ELSE repBox[q]
  BY <1>0, <1>5
<1>7. \A c \in CtlIds : box'[c].st = box[c].st /\ box'[c].host = box[c].host
  BY <1>0, <1>5, SMTT(30)
<1>8. /\ Others(o) /\ SameThread(o) /\ th'[o].pc = th[o].pc /\ Plain(o)'
      /\ \A q \in Reps : th'[o].left[q] = IF q = r THEN "get" ELSE th[o].left[q]
  <2>1. CallGets(o, r, "get")
    BY <1>5 DEF CallGets
  <2> QED BY <1>1, <2>1, LeftStep, SMT
<1>9. Engines'
  BY <1>0, <1>1, <1>7 DEF Engines, Exists
<1>10. Watch' /\ NoVol' /\ UNCHANGED open
  BY <1>0, <1>1, <1>8, WatchKept DEF NoVol, mgr
<1>11. th'[o].left[r] = "get" /\ repBox'[r] = ContainerAfter(Doing(o))
  BY <1>6, <1>8
<1>12. th[o].pc \in {"stopreps", "stopold"} => Stopping(r, th[o].left[r])'
  <2> SUFFICES ASSUME th[o].pc \in {"stopreps", "stopold"} PROVE Stopping(r, th[o].left[r])'
    OBVIOUS
  <2>1. repBox'[r] = "stopped" /\ RepOK(r) /\ There(r)
    BY <1>0, <1>1, <1>11 DEF ContainerAfter, Stopping
  <2>2. rep'[r] # "nil"
    BY <1>0, <2>1, SMTT(30) DEF RepOK, There
  <2> QED BY <1>11, <2>1, <2>2, SMT DEF Stopping
<1>13. th[o].pc = "startreps" => Starting(r, th[o].left[r])'
  <2> SUFFICES ASSUME th[o].pc = "startreps" PROVE Starting(r, th[o].left[r])'
    OBVIOUS
  <2>1. repBox'[r] = "running" /\ RepOK(r) /\ There(r)
    BY <1>0, <1>1, <1>11 DEF ContainerAfter, Starting
  <2>2. rep'[r] # "nil"
    BY <1>0, <2>1, SMT DEF RepOK, There
  <2> QED BY <1>11, <2>1, <2>2, SMT DEF Starting
<1>14. th[o].pc = "rmreps" => Vanishing(r, th[o].left[r])'
  <2> SUFFICES ASSUME th[o].pc = "rmreps" PROVE Vanishing(r, th[o].left[r])'
    OBVIOUS
  <2>1. repBox'[r] = "none" /\ rep'[r] # "nil"
    BY <1>0, <1>1, <1>11, SMT DEF ContainerAfter, Vanishing
  <2> QED BY <1>11, <2>1, SMT DEF Vanishing, There
<1>15. th[o].pc = "newreps" => Emerging(r, th[o].left[r])'
  <2> SUFFICES ASSUME th[o].pc = "newreps" PROVE Emerging(r, th[o].left[r])'
    OBVIOUS
  <2>1. repBox'[r] = "stopped"
    BY <1>1, <1>11, SMT DEF ContainerAfter
  <2> QED BY <1>11, <2>1, SMT DEF Emerging
<1>16. \A q \in Reps \ {r} : th'[o].left[q] = th[o].left[q] /\ rep'[q] = rep[q] /\ repBox'[q] = repBox[q]
  BY <1>0, <1>6, <1>8
<1>17. Phase(o)'
  BY <1>0, <1>1, <1>7, <1>8, <1>10, <1>12, <1>13, <1>14, <1>15, <1>16, CallPhase
<1> QED BY <1>8, <1>9, <1>10, <1>17, CalmStep

\* The container of a replica is inspected.
LEMMA ReplicaCheckCalm ==
  ASSUME MonitorInv, MonitorInv', Calm, OneRequest, NEW o \in Ops, NEW r \in Reps, ReplicaCheck(o, r)
  PROVE  Calm'
<1>0. th[o].left[r] = "get" /\ UNCHANGED <<kv, boxes, mgr>> /\ UNCHANGED <<base, ctl, rep, box, repBox, open>>
  BY DEF ReplicaCheck, kv, boxes, mgr
<1>1. /\ Phase(o) /\ Plain(o) /\ th[o].pc \in FanOutLabels
      /\ th[o].pc \in {"stopreps", "stopold"} => Doing(o) = "stop" /\ Stopping(r, th[o].left[r])
      /\ th[o].pc = "startreps" => Doing(o) = "start" /\ Starting(r, th[o].left[r])
      /\ th[o].pc = "rmreps" => Doing(o) = "remove" /\ Vanishing(r, th[o].left[r])
      /\ th[o].pc = "newreps" => Doing(o) = "create" /\ Emerging(r, th[o].left[r])
  BY <1>0, CallFacts
<1> DEFINE l == IF Doing(o) = "remove" THEN "nil" ELSE repBox[r]
<1>2. th' = [th EXCEPT ![o].left[r] = l]
  <2>1. CASE th[o].pc = "rmreps"
    BY <1>0, <1>1, <2>1 DEF Vanishing, ReplicaCheck
  <2>2. CASE th[o].pc # "rmreps"
    <3>1. Doing(o) # "remove" /\ repBox[r] \in {"stopped", "running"}
      BY <1>0, <1>1, <2>2 DEF FanOutLabels, Stopping, Starting, Emerging
    <3> QED BY <3>1 DEF ReplicaCheck
  <2> QED BY <2>1, <2>2
<1>3. /\ th[o].pc \in {"stopreps", "stopold", "newreps"} => l = "stopped" /\ repBox[r] = "stopped"
      /\ th[o].pc = "startreps" => l = "running" /\ repBox[r] = "running"
      /\ th[o].pc = "rmreps" => l = "nil" /\ ~There(r)
      /\ th[o].pc \in {"stopreps", "stopold", "startreps"} => rep[r] # "nil"
  BY <1>0, <1>1, SMTT(30) DEF Stopping, Starting, Emerging, Vanishing
<1> HIDE DEF l
<1>4. /\ Others(o) /\ SameThread(o) /\ th'[o].pc = th[o].pc /\ Plain(o)'
      /\ \A q \in Reps : th'[o].left[q] = IF q = r THEN l ELSE th[o].left[q]
  <2>1. CallGets(o, r, l)
    BY <1>2 DEF CallGets
  <2> QED BY <1>1, <2>1, LeftStep, SMTT(30)
<1>5. th'[o].left[r] = l /\ rep'[r] = rep[r] /\ repBox'[r] = repBox[r] /\ (There(r)' <=> There(r))
  BY <1>0, <1>4 DEF There
<1>6. /\ th[o].pc \in {"stopreps", "stopold"} => Stopping(r, th[o].left[r])'
      /\ th[o].pc = "startreps" => Starting(r, th[o].left[r])'
      /\ th[o].pc = "rmreps" => Vanishing(r, th[o].left[r])'
      /\ th[o].pc = "newreps" => Emerging(r, th[o].left[r])'
  BY <1>3, <1>5, SMTT(30) DEF Stopping, Starting, Emerging, Vanishing
<1>7. \A q \in Reps \ {r} : th'[o].left[q] = th[o].left[q] /\ rep'[q] = rep[q] /\ repBox'[q] = repBox[q]
  BY <1>0, <1>4
<1>8. \A c \in CtlIds : box'[c].st = box[c].st
  BY <1>0
<1>9. Phase(o)'
  BY <1>0, <1>1, <1>4, <1>5, <1>6, <1>7, <1>8, CallPhase
<1> QED BY <1>0, <1>4, <1>9, OnlyMoves

\* The state of a replica is stored.
LEMMA ReplicaSetCalm ==
  ASSUME MonitorInv, MonitorInv', Calm, OneRequest, NEW o \in Ops, NEW r \in Reps, ReplicaSet(o, r)
  PROVE  Calm'
<1>0. /\ th[o].left[r] \in {"stopped", "running", "nil"} /\ UNCHANGED <<base, ctl, box, repBox, open>>
      /\ UNCHANGED mgr /\ rep \in [Reps -> {"nil", "stopped", "running"}] /\ Engines
  BY DEF ReplicaSet, boxes, mgr, MonitorInv, TypeOK, Replicas, Calm
<1>1. /\ Phase(o) /\ Plain(o) /\ th[o].pc \in FanOutLabels /\ base
      /\ th[o].pc \in {"stopreps", "stopold"} => Doing(o) = "stop" /\ Stopping(r, th[o].left[r])
      /\ th[o].pc = "startreps" => Doing(o) = "start" /\ Starting(r, th[o].left[r])
      /\ th[o].pc = "rmreps" => Doing(o) = "remove" /\ Vanishing(r, th[o].left[r])
      /\ th[o].pc = "newreps" => Doing(o) = "create" /\ Emerging(r, th[o].left[r])
  BY <1>0, CallFacts
<1>2. \A q \in Reps : rep'[q] = IF q = r THEN th[o].left[r] ELSE rep[q]
  BY <1>0 DEF ReplicaSet
<1>3. /\ th[o].pc \in {"stopreps", "stopold", "newreps"} => th[o].left[r] = "stopped" /\ repBox[r] = "stopped"
      /\ th[o].pc = "startreps" => th[o].left[r] = "running" /\ repBox[r] = "running"
      /\ th[o].pc = "rmreps" => th[o].left[r] = "nil" /\ ~There(r)
      /\ th[o].pc \in {"stopreps", "stopold", "startreps"} => rep[r] # "nil"
  BY <1>0, <1>1, SMTT(30) DEF Stopping, Starting, Emerging, Vanishing
<1>4. /\ Others(o) /\ SameThread(o) /\ th'[o].pc = th[o].pc /\ Plain(o)'
      /\ \A q \in Reps : th'[o].left[q] = IF q = r THEN "off" ELSE th[o].left[q]
  <2>1. CallGets(o, r, "off")
    BY DEF ReplicaSet, CallGets
  <2> QED BY <1>1, <2>1, LeftStep, SMTT(30)
<1>5. /\ th'[o].left[r] = "off" /\ rep'[r] = th[o].left[r] /\ repBox'[r] = repBox[r]
      /\ There(r)' <=> There(r)
  BY <1>0, <1>2, <1>4 DEF There
<1>6. /\ th[o].pc \in {"stopreps", "stopold"} => Stopping(r, th[o].left[r])'
      /\ th[o].pc = "startreps" => Starting(r, th[o].left[r])'
      /\ th[o].pc = "rmreps" => Vanishing(r, th[o].left[r])'
      /\ th[o].pc = "newreps" => Emerging(r, th[o].left[r])'
  BY <1>3, <1>5, SMT DEF Stopping, Starting, Emerging, Vanishing, RepOK, There
<1>7. \A q \in Reps \ {r} : th'[o].left[q] = th[o].left[q] /\ rep'[q] = rep[q] /\ repBox'[q] = repBox[q]
  BY <1>0, <1>2, <1>4
<1>8. \A c \in CtlIds : box'[c].st = box[c].st
  BY <1>0
<1>9. th[o].pc \in {"stopreps", "stopold", "startreps"} => (rep'[r] = "nil" <=> rep[r] = "nil")
  BY <1>3, <1>5
<1>10. Phase(o)'
  BY <1>0, <1>1, <1>4, <1>6, <1>7, <1>8, <1>9, CallPhase
<1>11. Watch'
  BY <1>0, <1>4, WatchKept
<1>12. Engines' /\ NoVol'
  BY <1>0, <1>1, SMTT(30) DEF Engines, Exists, NoVol
<1> QED BY <1>4, <1>10, <1>11, <1>12, CalmStep

\* A request is not moved by the steps of monitors.
LEMMA PhaseStays ==
  ASSUME NEW o, th'[o] = th[o], UNCHANGED <<base, ctl, rep, box, repBox, open>>, Phase(o)
  PROVE  Phase(o)'
<1>1. /\ NoEngine' <=> NoEngine
      /\ EngineRuns' <=> EngineRuns
      /\ EngineHalted' <=> EngineHalted
      /\ Watched' <=> Watched
      /\ Unwatched' <=> Unwatched
      /\ Gone' <=> Gone
      /\ Detached' <=> Detached
      /\ Settled' <=> Settled
  BY Same
<1>2. (AllOK' <=> AllOK) /\ (AllDown' <=> AllDown) /\ (AllUp' <=> AllUp)
  BY SameReps
<1>3. (VolRead(o)' <=> VolRead(o)) /\ (DetRead(o) => DetRead(o)') /\ Has(th[o].vol)' = Has(th[o].vol)
  BY SameRead DEF SameThread
<1>4. ASSUME NEW q \in Reps
      PROVE  /\ Stopping(q, th[o].left[q]) => Stopping(q, th[o].left[q])'
             /\ Starting(q, th[o].left[q]) => Starting(q, th[o].left[q])'
             /\ Vanishing(q, th[o].left[q]) => Vanishing(q, th[o].left[q])'
             /\ Emerging(q, th[o].left[q]) => Emerging(q, th[o].left[q])'
  <2>1. th'[o].left[q] = th[o].left[q] /\ rep'[q] = rep[q] /\ repBox'[q] = repBox[q]
    OBVIOUS
  <2>2. (RepOK(q)' <=> RepOK(q)) /\ (There(q)' <=> There(q))
    BY <2>1 DEF RepOK, There
  <2> QED BY <2>1, <2>2 DEF Stopping, Starting, Vanishing, Emerging
<1>5. Begins(o) \/ Unmonitors(o) => Phase(o)'
  <2>0. th'[o].pc = th[o].pc /\ th'[o].kind = th[o].kind /\ (base' <=> base)
    OBVIOUS
  <2>3. th[o].pc = "newbase" /\ Begins(o) => ~base'
    BY <2>0 DEF Begins
  <2>4. /\ th[o].pc = "detach" /\ Begins(o) => th'[o].kind # "delete"
        /\ th[o].pc = "detach" /\ Begins(o) /\ th[o].kind \in {"attach", "restore"} => base' /\ VolRead(o)'
    BY <1>3, <2>0 DEF Begins
  <2>5. Begins(o) => Settled' /\ AllOK' /\ th'[o].pc \in {"idle", "get", "setbase", "newbase", "detach"}
    BY <1>1, <1>2, <2>0 DEF Begins
  <2>1. Begins(o) => Begins(o)'
    BY <2>0, <2>3, <2>4, <2>5 DEF Begins
  <2>2. Unmonitors(o) => Unmonitors(o)'
    BY <1>1, <1>2, <1>3 DEF Unmonitors, SameThread
  <2> QED BY <2>1, <2>2 DEF Phase
<1>6. StopsEngine(o) \/ RemovesEngine(o) => Phase(o)'
  BY <1>1, <1>2, <1>3 DEF Phase, StopsEngine, RemovesEngine
<1>7. StopsReplicas(o) \/ StopsOld(o) => Phase(o)'
  BY <1>1, <1>3, <1>4 DEF Phase, StopsReplicas, StopsOld
<1>8. StartsReplicas(o) \/ Prepares(o) => Phase(o)'
  BY <1>1, <1>2, <1>3, <1>4 DEF Phase, StartsReplicas, Prepares
<1>9. MakesEngine(o) => Phase(o)'
  <2>1. Only(th[o].made) => Only(th[o].made)'
    BY DEF Only, Exists
  <2> QED BY <1>1, <1>2, <1>3, <2>1 DEF Phase, MakesEngine
<1>10. HasEngine(o) => Phase(o)'
  BY <1>1, <1>2, <1>3 DEF Phase, HasEngine
<1>11. RemovesReplicas(o) \/ CreatesReplicas(o) => Phase(o)'
  BY <1>1, <1>4 DEF Phase, RemovesReplicas, CreatesReplicas
<1> QED BY <1>5, <1>6, <1>7, <1>8, <1>9, <1>10, <1>11 DEF Phase

\* Monitors watch: none finds its engine failed while its channel is open, and
\* one that closes a closed channel ends the process.
LEMMA MonitorCalm ==
  ASSUME MonitorInv, MonitorInv', Calm, NEW m \in Mons, ThreadStep(m), ~died'
  PROVE  Calm'
<1>0. /\ m \in Threads /\ m \notin Ops /\ th \in [Threads -> Thread] /\ Watch
      /\ th[m].pc \in {"idle", "watch", "check", "close"} /\ th[m].left = NoCalls
      /\ th[m].pc # "idle" => th[m].made \in CtlIds
      /\ th[m].pc = "close" => ~open[m]
      /\ open[m] => EngineRuns /\ th[m].made = ctl.id
  BY ManagerAssumption DEF Threads, MonitorInv, TypeOK, Calm, Watch
<1>1. ~DetachStep(m)
  BY <1>0 DEF DetachStep, DetachGet, StopMonitoring, StopController, StopControllerCheck, StopControllerSet,
              ReplicasStopped, RemoveController, RemoveControllerCheck, RemoveControllerDelete, Joined
<1>2. ~AttachStep(m)
  BY <1>0 DEF AttachStep, AttachGet, OldStopped, ReplicasStarted, PrepareCreateController, CreateContainer,
              StartContainer, WaitForEngine, ControllerCheck, ControllerSet, StartMonitoring, Joined
<1>3. ~VolumeStep(m)
  BY <1>0 DEF VolumeStep, CreateGet, CreateCheck, CreateVolume, Created, Restore, DeleteGet, DeleteVolume,
              StartList, Joined
<1>4. \A r \in Reps : ~ReplicaContainer(m, r) /\ ~ReplicaCheck(m, r) /\ ~ReplicaSet(m, r)
  <2>1. \A r \in Reps : th[m].left[r] = "off"
    BY <1>0 DEF NoCalls
  <2> QED BY <2>1 DEF ReplicaContainer, ReplicaCheck, ReplicaSet
<1>5. MonitorStep(m)
  BY <1>1, <1>2, <1>3, <1>4 DEF ThreadStep
<1>6. ~CloseChannel(m)
  BY <1>0 DEF CloseChannel, Exit
<1>7. /\ UNCHANGED <<kv, boxes, mgr>> /\ Others(m)
      /\ th'[m].pc \in {"idle", "watch", "check", "close"} /\ th'[m].left = NoCalls
      /\ th'[m].pc # "idle" => th'[m].made = th[m].made /\ th[m].pc # "idle"
      /\ th'[m].pc = "close" => ~open[m]
      /\ open[m] => th'[m].pc # "idle"
  <2>1. CASE Tick(m)
    <3>1. CASE open[m]
      <4>1. Goto(m, "check") /\ UNCHANGED <<kv, boxes, mgr>> /\ th[m].pc = "watch"
        BY <2>1, <3>1 DEF Tick
      <4>2. Others(m) /\ SameThread(m) /\ th'[m].pc = "check" /\ th'[m].left = th[m].left
        BY <1>0, <4>1, GotoThen
      <4> QED BY <1>0, <4>1, <4>2 DEF SameThread
    <3>2. CASE ~open[m]
      <4>1. th' = [th EXCEPT ![m] = Idle] /\ UNCHANGED <<kv, boxes, mgr>>
        BY <2>1, <3>2 DEF Tick
      <4>2. Others(m) /\ th'[m] = Idle
        BY <1>0, <4>1 DEF Others
      <4>3. Idle.pc = "idle" /\ Idle.left = NoCalls
        BY IdleThen
      <4> QED BY <3>2, <4>1, <4>2, <4>3
    <3> QED BY <3>1, <3>2
  <2>2. CASE CheckController(m)
    <3>1. th[m].pc = "check" /\ th[m].made \in CtlIds /\ UNCHANGED <<kv, boxes, mgr>>
      BY <1>0, <2>2 DEF CheckController
    <3>2. box[th[m].made].rw = {} => NoAnswer(th[m].made)
      BY <3>1 DEF Calm, Engines, NoAnswer
    <3>3. NoAnswer(th[m].made) => ~open[m]
      BY <1>0, SMT DEF NoAnswer, EngineRuns
    <3>4. PICK l \in {"close", "watch"} : Goto(m, l) /\ (l = "close" => ~open[m])
      BY <2>2, <3>2, <3>3 DEF CheckController
    <3>5. Others(m) /\ SameThread(m) /\ th'[m].pc = l /\ th'[m].left = th[m].left
      BY <1>0, <3>4, GotoThen
    <3> QED BY <1>0, <3>1, <3>4, <3>5 DEF SameThread
  <2> QED BY <1>5, <1>6, <2>1, <2>2 DEF MonitorStep
<1>8. UNCHANGED <<base, ctl, rep, box, repBox, up, monitors, open>>
  BY <1>7 DEF kv, boxes, mgr
<1>9. EngineRuns' <=> EngineRuns
  BY <1>8, Same
<1>10. ASSUME NEW n \in Mons
       PROVE  /\ th'[n].pc \in {"idle", "watch", "check", "close"} /\ th'[n].left = NoCalls
              /\ th'[n].pc # "idle" => th'[n].made \in CtlIds
              /\ th'[n].pc = "close" => ~open'[n]
              /\ open'[n] => EngineRuns' /\ th'[n].made = ctl'.id
  <2>1. CASE n = m
    BY <1>0, <1>7, <1>8, <1>9, <2>1
  <2>2. CASE n # m
    <3>1. /\ th[n].pc \in {"idle", "watch", "check", "close"} /\ th[n].left = NoCalls
          /\ th[n].pc # "idle" => th[n].made \in CtlIds
          /\ th[n].pc = "close" => ~open[n]
          /\ open[n] => EngineRuns /\ th[n].made = ctl.id
      BY <1>0 DEF Watch
    <3>2. th'[n] = th[n] /\ open'[n] = open[n] /\ ctl' = ctl
      BY <1>7, <1>8, <2>2 DEF Others, Threads
    <3> QED BY <1>9, <3>1, <3>2
  <2> QED BY <2>1, <2>2
<1>11. Watch'
  <2>1. \A h \in Hosts : up'[h] = "up" /\ (monitors'[h] # None => open'[monitors'[h]])
    BY <1>0, <1>8 DEF Watch
  <2> QED BY <1>10, <2>1 DEF Watch
<1>12. Engines' /\ NoVol'
  BY <1>8, SMTT(30) DEF Calm, Engines, NoVol, Exists, There
<1>13. ASSUME NEW o \in Ops PROVE Phase(o)' /\ Plain(o)'
  <2>1. th'[o] = th[o]
    BY <1>0, <1>7 DEF Others, Threads
  <2>2. Phase(o) /\ Plain(o)
    BY DEF Calm
  <2>3. Phase(o)'
    BY <1>8, <2>1, <2>2, PhaseStays
  <2> QED BY <2>1, <2>2, <2>3 DEF Plain
<1> QED BY <1>11, <1>12, <1>13 DEF Calm

\* Requests are the only thing the environment does while no manager ends, no
\* engine dies and no call fails.
LEMMA EnvironmentCalm ==
  ASSUME MonitorInv, MonitorInv', Calm, OneRequest, MaxFaults = 0, Environment, ~died',
         deaths = 0, deaths' = 0
  PROVE  Calm'
<1>1. ASSUME NEW o \in Ops, NEW h \in Hosts, NEW k \in Kinds, Request(o, k, h) PROVE Calm'
  <2>0. /\ o \in Threads /\ th \in [Threads -> Thread] /\ th[o].pc = "idle"
        /\ UNCHANGED <<kv, boxes, mgr>> /\ Phase(o) /\ Plain(o)
        /\ k \in {"attach", "detach", "delete", "create", "restore"}
    BY <1>1, ManagerAssumption DEF Threads, MonitorInv, TypeOK, Request, Calm
  <2>1. Begins(o) /\ th[o].left = NoCalls
    BY <2>0, PhaseOf DEF Plain, FanOutLabels
  <2> DEFINE l == IF k = "detach" THEN "detach" ELSE "get"
  <2>2. th' = [th EXCEPT ![o].kind = k, ![o].host = h, ![o].pc = l]
    BY <1>1 DEF Request
  <2>3. l \in {"detach", "get"} /\ (l = "detach" => k = "detach")
    OBVIOUS
  <2> HIDE DEF l
  <2>4. Others(o) /\ th'[o] = [th[o] EXCEPT !.kind = k, !.host = h, !.pc = l]
    BY <2>0, <2>2 DEF Others
  <2>5. /\ th'[o].kind = k /\ th'[o].pc = l /\ th'[o].left = th[o].left
        /\ th'[o].errs = th[o].errs
    BY <2>0, <2>4, SMT DEF Thread
  <2>6. Settled' /\ AllOK'
    BY <2>0, <2>1, Same, SameReps DEF Begins, kv, boxes, mgr
  <2>7. Phase(o)'
    BY <2>3, <2>5, <2>6 DEF Phase, Begins
  <2>8. Plain(o)'
    BY <2>0, <2>1, <2>5 DEF Plain
  <2> QED BY <2>0, <2>4, <2>7, <2>8, OnlyMoves
<1>2. ASSUME NEW o \in Ops, NEW h \in Hosts, Boot(o, h) PROVE FALSE
  <2>1. up[h] = "up" /\ up[h] = "down"
    BY <1>2 DEF Boot, Calm, Watch
  <2> QED BY <2>1
<1>3. ASSUME NEW h \in Hosts, Kill(h) PROVE FALSE
  BY <1>3 DEF Kill, Exit
<1>4. ASSUME NEW c \in CtlIds, EngineDies(c) PROVE FALSE
  BY <1>4, SMT DEF EngineDies
<1>5. ~(faults < MaxFaults)
  BY SMT DEF MonitorInv, TypeOK
<1>6. ASSUME NEW t \in Threads, CallFails(t) \/ \E r \in Reps : ReplicaCallFails(t, r) PROVE FALSE
  BY <1>5, <1>6 DEF CallFails, ReplicaCallFails
<1> QED BY <1>1, <1>2, <1>3, <1>4, <1>6 DEF Environment

\* A step of a thread, of a request or of a monitor.
LEMMA ThreadCalm ==
  ASSUME MonitorInv, MonitorInv', Calm, OneRequest, OneHost, NEW t \in Threads, ThreadStep(t), ~died'
  PROVE  Calm'
<1>1. CASE t \in Mons
  BY <1>1, MonitorCalm
<1>2. CASE t \in Ops /\ t \notin Mons
  <2>1. CASE DetachStep(t)
    BY <1>2, <2>1, DetachCalm
  <2>2. CASE AttachStep(t)
    BY <1>2, <2>2, AttachCalm
  <2>3. CASE VolumeStep(t)
    BY <1>2, <2>3, VolumeCalm
  <2>4. ASSUME NEW r \in Reps, ReplicaContainer(t, r) \/ ReplicaCheck(t, r) \/ ReplicaSet(t, r)
        PROVE  Calm'
    BY <1>2, <2>4, ReplicaContainerCalm, ReplicaCheckCalm, ReplicaSetCalm
  <2> QED BY <1>2, <2>1, <2>2, <2>3, <2>4 DEF ThreadStep
<1> QED BY <1>1, <1>2 DEF Threads

\* Engines that have died are counted for ever.
LEMMA DeathsStay == MonitorInv /\ deaths # 0 /\ [Next]_vars => deaths' # 0
<1> SUFFICES ASSUME MonitorInv, deaths # 0, [Next]_vars PROVE deaths' # 0
  OBVIOUS
<1>1. CASE UNCHANGED vars
  BY <1>1 DEF vars, luck
<1>2. CASE Environment
  <2>1. CASE \E h \in Hosts : Kill(h)
    BY <2>1 DEF Kill
  <2>2. ASSUME NEW t \in Ops, NEW h \in Hosts, (\E k \in Kinds : Request(t, k, h)) \/ Boot(t, h)
        PROVE  deaths' # 0
    BY <2>2 DEF Request, Boot, luck
  <2>3. ASSUME NEW c \in CtlIds, EngineDies(c) PROVE deaths' # 0
    BY <2>3, SMT DEF EngineDies, MonitorInv, TypeOK
  <2>4. ASSUME NEW t \in Threads, CallFails(t) \/ \E r \in Reps : ReplicaCallFails(t, r)
        PROVE  deaths' # 0
    BY <2>4 DEF CallFails, ReplicaCallFails
  <2> QED BY <1>2, <2>1, <2>2, <2>3, <2>4 DEF Environment
<1>3. ASSUME NEW t \in Threads, ThreadStep(t) PROVE deaths' # 0
  <2>1. CASE DetachStep(t)
    BY <2>1 DEF DetachStep, DetachGet, StopMonitoring, StopController, StopControllerCheck,
       StopControllerSet, ReplicasStopped, RemoveController, RemoveControllerCheck,
       RemoveControllerDelete, luck
  <2>2. CASE AttachStep(t)
    BY <2>2 DEF AttachStep, AttachGet, OldStopped, ReplicasStarted, PrepareCreateController,
       CreateContainer, StartContainer, WaitForEngine, ControllerCheck, ControllerSet, StartMonitoring, luck
  <2>3. CASE VolumeStep(t)
    BY <2>3 DEF VolumeStep, CreateGet, CreateCheck, CreateVolume, Created, Restore, DeleteGet,
       DeleteVolume, StartList, luck
  <2>4. CASE \E r \in Reps : ReplicaContainer(t, r) \/ ReplicaCheck(t, r) \/ ReplicaSet(t, r)
    BY <2>4 DEF ReplicaContainer, ReplicaCheck, ReplicaSet, luck
  <2>5. CASE MonitorStep(t)
    BY <2>5 DEF MonitorStep, Tick, CheckController, CloseChannel, luck
  <2> QED BY <1>3, <2>1, <2>2, <2>3, <2>4, <2>5 DEF ThreadStep
<1> QED BY <1>1, <1>2, <1>3 DEF Next, Rest

\* Every step preserves the serial invariant.
LEMMA NextSerial ==
  ASSUME OneRequest, OneHost, MaxFaults = 0
  PROVE  MonitorInv /\ MonitorInv' /\ SerialInv /\ [Next]_vars => SerialInv'
<1> SUFFICES ASSUME MonitorInv, MonitorInv', SerialInv, [Next]_vars, ~died', deaths' = 0 PROVE Calm'
  BY DEF SerialInv
<1>1. Calm /\ deaths = 0
  BY DiedStays, DeathsStay DEF SerialInv
<1>2. CASE UNCHANGED vars
  <2>1. UNCHANGED <<base, ctl, rep, box, repBox, up, monitors, open, th>>
    BY <1>2 DEF vars, kv, boxes, mgr
  <2>2. Watch' /\ Engines' /\ NoVol'
    <3>1. EngineRuns' <=> EngineRuns
      BY <2>1, Same
    <3>2. Watch'
      BY <1>1, <2>1, <3>1, SMTT(30) DEF Calm, Watch
    <3>3. Engines' /\ NoVol'
      BY <1>1, <2>1, SMT DEF Calm, Engines, NoVol, Exists, There
    <3> QED BY <3>2, <3>3
  <2>3. ASSUME NEW o \in Ops PROVE Phase(o)' /\ Plain(o)'
    <3>1. th'[o] = th[o] /\ Phase(o) /\ Plain(o)
      BY <1>1, <2>1 DEF Calm
    <3>2. Phase(o)'
      BY <2>1, <3>1, PhaseStays
    <3> QED BY <3>1, <3>2 DEF Plain
  <2> QED BY <2>2, <2>3 DEF Calm
<1>3. CASE Environment
  BY <1>1, <1>3, EnvironmentCalm
<1>4. ASSUME NEW t \in Threads, ThreadStep(t) PROVE Calm'
  BY <1>1, <1>4, ThreadCalm
<1> QED BY <1>2, <1>3, <1>4 DEF Next, Rest

\* With one manager, one request at a time and no failing call, the invariant
\* holds of every reachable state.
LEMMA SerialInvariant ==
  ASSUME OneRequest, OneHost, MaxFaults = 0
  PROVE  Spec => []SerialInv
<1>1. Init => SerialInv
  BY InitCalm DEF SerialInv
<1> QED BY <1>1, NextSerial, MonitorInvariant, PTL DEF Spec

\* Once the requests are answered, the controller and the replicas that are
\* stored are the containers that exist, in the state they are in: the
\* updateInstanceMetadata and removeInstanceMetadata that follow every call
\* leave nothing out.  For one manager that serves one request at a time, as
\* long as no call fails; any replicas and any sequence of requests.
THEOREM ManagerStoreMatches ==
  ASSUME NEW o, Ops = {o}, OneHost, MaxFaults = 0
  PROVE  Spec => []StoreMatchesContainers
<1>1. OneRequest
  BY DEF OneRequest
<1>2. MonitorInv /\ SerialInv => StoreMatchesContainers
  <2> SUFFICES ASSUME MonitorInv, SerialInv, AtRest, ~died, deaths = 0
               PROVE  /\ \A c \in CtlIds : /\ Exists(c) <=> ctl.id = c
                                           /\ ctl.id = c => (ctl.running <=> box[c].st = "running")
                      /\ \A r \in Reps :
                           rep[r] = IF repBox[r] \in {"stopped", "running"} THEN repBox[r] ELSE "nil"
    BY DEF StoreMatchesContainers
  <2>1. Phase(o) /\ th[o].pc \in {"idle", "watch"}
    BY DEF SerialInv, Calm, AtRest, Threads
  <2>2. Settled /\ AllOK
    BY <2>1, SMTT(30) DEF Phase, Begins, Unmonitors, StopsEngine, StopsReplicas, RemovesEngine, StopsOld,
             StartsReplicas, Prepares, MakesEngine, HasEngine, RemovesReplicas, CreatesReplicas
  <2>3. \A r \in Reps : rep[r] = IF repBox[r] \in {"stopped", "running"} THEN repBox[r] ELSE "nil"
    BY <2>2 DEF AllOK, RepOK, There
  <2>4. CASE EngineRuns
    BY <2>3, <2>4, SMT DEF EngineRuns, Only, Exists
  <2>5. CASE NoEngine
    BY <2>3, <2>5, SMT DEF NoEngine, Gone, NoCtl, CtlIds
  <2> QED BY <2>2, <2>4, <2>5 DEF Settled, Detached
<1> QED BY <1>1, <1>2, MonitorInvariant, SerialInvariant, PTL

\* Once an attach has been answered, the controller that is stored as running
\* has a monitor whose channel is open: startMonitoring is not lost, and the
\* stopMonitoring of an earlier detach does not end the monitor of a later
\* attach.  Under the same conditions; with a second manager, the monitor of
\* the host that the volume was attached to before detaches it.
THEOREM ManagerAttachedIsMonitored ==
  ASSUME NEW o, Ops = {o}, OneHost, MaxFaults = 0
  PROVE  Spec => []AttachedIsMonitored
<1>1. OneRequest
  BY DEF OneRequest
<1>2. SerialInv => AttachedIsMonitored
  <2> SUFFICES ASSUME SerialInv, AtRest, ~died, deaths = 0, ctl.running
               PROVE  \E m \in Mons : open[m] /\ th[m].made = ctl.id
    BY DEF AttachedIsMonitored
  <2>1. Phase(o) /\ th[o].pc \in {"idle", "watch"} /\ Watch
    BY DEF SerialInv, Calm, AtRest, Threads
  <2>2. Settled
    BY <2>1, SMTT(30) DEF Phase, Begins, Unmonitors, StopsEngine, StopsReplicas, RemovesEngine, StopsOld,
             StartsReplicas, Prepares, MakesEngine, HasEngine, RemovesReplicas, CreatesReplicas
  <2>3. ~NoCtl.running
    BY DEF NoCtl
  <2>4. Watched
    BY <2>2, <2>3 DEF Settled, Detached, NoEngine
  <2> QED BY <2>1, <2>4 DEF Watched, Watch
<1> QED BY <1>1, <1>2, SerialInvariant, PTL
=============================================================================
