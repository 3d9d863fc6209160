-------------------------- MODULE ControllerProofs --------------------------
(***************************************************************************)
(* What watches the controllers.  The goroutines of a monitor, for any     *)
(* number of requests and failures: a loop that waits for a tick has one   *)
(* on its way, and the jobs that run are those of an update once there was *)
(* one.  The registry of controllers, for any number of volumes, requests  *)
(* and attachments.                                                        *)
(***************************************************************************)
EXTENDS Monitor, Registry, SequenceTheorems, TLAPS

\* The types of what the ticker and its loop share.
Types ==
  /\ armed \in [Loops -> BOOLEAN] /\ fired \in [Loops -> BOOLEAN]
  /\ tick \in [Loops -> {"off", "wait", "send", "reset"}]
  /\ loop \in [Loops -> {"none", "begin", "first", "range", "stop", "check", "start",
                         "giveup", "close", "detach", "exit"}]
  /\ req \in [MonitorRequests -> {"idle", "lock", "send", "received", "unlock", "done", "told"}]

\* Nothing has been started before the attach is done.
NotStarted ==
  req[Attacher] # "done" => open = {} /\ \A l \in Loops : loop[l] = "none"

\* The goroutine tick ends only after the channel is closed, and a loop that
\* detaches the volume has closed its own.
TickRuns ==
  \A l \in Loops : l \in open =>
    /\ loop[l] # "detach"
    /\ loop[l] \notin {"none", "begin"} => tick[l] # "off"

TickInv == Types /\ NotStarted /\ TickRuns /\ TickOnItsWay

\* The invariant holds at the start.
LEMMA InitInv == MonitorInit => TickInv
  BY MonitorAssumption DEF MonitorInit, TickInv, Types, NotStarted, TickRuns, TickOnItsWay, MonitorRequests

\* The ticker preserves it.
LEMMA TickerInv ==
  ASSUME TickInv, NEW l \in Loops, Expire(l) \/ TickStep(l)
  PROVE  TickInv'
<1> USE DEF TickInv, Types, NotStarted, TickRuns, TickOnItsWay, At, loops, jobs, requests
<1>1. CASE Expire(l) BY <1>1 DEF Expire
<1>2. CASE TickWakes(l) BY <1>2 DEF TickWakes
<1>3. CASE Deliver(l) BY <1>3 DEF Deliver
<1>4. CASE SendFails(l) BY <1>4 DEF SendFails
<1>5. CASE TickAgain(l) BY <1>5 DEF TickAgain
<1> QED BY <1>1, <1>2, <1>3, <1>4, <1>5 DEF TickStep

\* The loop preserves it: it starts the timer whenever it goes back to waiting.
LEMMA LoopInv ==
  ASSUME TickInv, NEW l \in Loops, LoopStep(l)
  PROVE  TickInv'
<1> USE DEF TickInv, Types, NotStarted, TickRuns, TickOnItsWay, At, ticker, jobs, requests
<1>1. CASE BeginLoop(l) BY <1>1 DEF BeginLoop
<1>2. CASE LoopClosed(l)
  <2>1. CASE loop[l] = "first" BY <1>2, <2>1 DEF LoopClosed
  <2>2. CASE loop[l] = "range" BY <1>2, <2>2, ZenonT(30) DEF LoopClosed
  <2> QED BY <1>2, <2>1, <2>2 DEF LoopClosed
<1>3. CASE StopTicker(l) BY <1>3 DEF StopTicker
<1>4. CASE Check(l) BY <1>4 DEF Check
<1>5. CASE StartTicker(l) BY <1>5 DEF StartTicker
<1>6. CASE CloseOwn(l) BY <1>6 DEF CloseOwn
<1>7. CASE DetachOwn(l) BY <1>7 DEF DetachOwn, CloseChannels
<1> QED BY <1>1, <1>2, <1>3, <1>4, <1>5, <1>6, <1>7 DEF LoopStep

\* RunJobs and the requests preserve it: channels are opened once.
LEMMA MonitorRequestInv ==
  ASSUME TickInv, CronStep \/ RequestStep \/ Arrival
  PROVE  TickInv'
<1> USE MonitorAssumption
    DEF TickInv, Types, NotStarted, TickRuns, TickOnItsWay, ticker, loops, jobs, requests, MonitorRequests
<1>1. CASE CronStep BY <1>1 DEF CronStep, SetJobs, JobsClosed, ReceiveUpdate
<1>2. CASE StartMonitoring BY <1>2 DEF StartMonitoring
<1>3. ASSUME NEW u \in Updaters, UpdateCron(u) \/ UpdateDone(u) PROVE TickInv'
  BY <1>3 DEF UpdateCron, UpdateDone
<1>4. ASSUME NEW x \in Closers, StopMonitoring(x) PROVE TickInv'
  BY <1>4 DEF StopMonitoring, CloseChannels
<1>5. CASE ReadVolume BY <1>5 DEF ReadVolume
<1>6. ASSUME NEW u \in Updaters, NEW j \in Jobs, UpdateRecurring(u, j) PROVE TickInv'
  BY <1>6 DEF UpdateRecurring
<1>7. ASSUME NEW x \in Closers, RequestDetach(x) PROVE TickInv'
  BY <1>7 DEF RequestDetach
<1> QED BY <1>1, <1>2, <1>3, <1>4, <1>5, <1>6, <1>7 DEF RequestStep, Arrival

\* While a loop waits for a tick, one is on its way (event.go:40-57 against
\* monitor.go:53-58 and 83-87).
THEOREM MonitorTickOnItsWay == MonitorSpec => []TickOnItsWay
<1>1. TickInv /\ [MonitorNext]_monitorVars => TickInv'
  <2> SUFFICES ASSUME TickInv, [MonitorNext]_monitorVars PROVE TickInv'
    OBVIOUS
  <2>1. CASE UNCHANGED monitorVars
    BY <2>1 DEF monitorVars, ticker, loops, requests, TickInv, Types, NotStarted, TickRuns, TickOnItsWay
  <2> QED BY <2>1, TickerInv, LoopInv, MonitorRequestInv DEF MonitorNext, Rest
<1>2. TickInv => TickOnItsWay
  BY DEF TickInv
<1> QED BY <1>1, <1>2, InitInv, PTL DEF MonitorSpec
-----------------------------------------------------------------------------
(* The recurring jobs.                                                     *)

\* The updates that RunJobs has received.
Reached == {u \in Updaters : req[u] \in {"received", "told"}}

\* RunJobs is started once, by the attach, and none is told before.
OneRunJobs == req[Attacher] # "done" => cron = "none" /\ Reached = {}

\* RunJobs runs the jobs it was given last, and those are of an update that it
\* has received, if there is one.
JobsInv ==
  /\ req \in [MonitorRequests -> {"idle", "lock", "send", "received", "unlock", "done", "told"}]
  /\ sent \in [Updaters -> Jobs]
  /\ OneRunJobs
  /\ cron = "range" => sched = given
  /\ Reached # {} => \E u \in Reached : given = sent[u]

\* The attach is not an update.
LEMMA AttacherApart ==
  /\ Attacher \in MonitorRequests /\ Updaters \subseteq MonitorRequests /\ Closers \subseteq MonitorRequests
  /\ Attacher \notin Updaters /\ Attacher \notin Closers
  /\ \A u \in Updaters : u \notin Closers
  BY MonitorAssumption DEF MonitorRequests

\* The invariant holds at the start.
LEMMA InitJobs == MonitorInit => JobsInv
  BY AttacherApart DEF MonitorInit, JobsInv, OneRunJobs, Reached

\* A step that moves only requests that have not reached RunJobs, and that do
\* not reach it, and that leaves the jobs alone preserves the invariant.
LEMMA OthersJobs ==
  ASSUME JobsInv, UNCHANGED <<cron, sched, given>>,
         req' \in [MonitorRequests -> {"idle", "lock", "send", "received", "unlock", "done", "told"}],
         sent' \in [Updaters -> Jobs],
         Reached' = Reached, \A u \in Reached : sent'[u] = sent[u],
         req[Attacher] = "done" => req'[Attacher] = "done"
  PROVE  JobsInv'
  BY DEF JobsInv, OneRunJobs

\* Every step preserves it.
LEMMA StepJobs == JobsInv /\ [MonitorNext]_monitorVars => JobsInv'
<1> SUFFICES ASSUME JobsInv, [MonitorNext]_monitorVars PROVE JobsInv'
  OBVIOUS
<1> USE AttacherApart
<1>1. ASSUME UNCHANGED <<jobs, requests>> PROVE JobsInv'
  BY <1>1, OthersJobs DEF jobs, requests, JobsInv, Reached
<1>2. ASSUME NEW l \in Loops, Expire(l) \/ TickStep(l) \/ LoopStep(l) PROVE UNCHANGED <<jobs, requests>>
  <2>1. CASE Expire(l) \/ TickStep(l)
    BY <2>1 DEF Expire, TickStep, TickWakes, Deliver, SendFails, TickAgain
  <2>2. CASE LoopStep(l)
    BY <2>2 DEF LoopStep, BeginLoop, LoopClosed, StopTicker, Check, StartTicker, CloseOwn, DetachOwn
  <2> QED BY <1>2, <2>1, <2>2
<1>3. CASE SetJobs
  BY <1>3 DEF SetJobs, requests, JobsInv, OneRunJobs, Reached
<1>4. CASE JobsClosed
  BY <1>4 DEF JobsClosed, requests, JobsInv, OneRunJobs, Reached
<1>5. ASSUME NEW u \in Updaters, ReceiveUpdate(u) PROVE JobsInv'
  <2>1. req[Attacher] = "done" /\ req'[Attacher] = "done" /\ u \in Reached'
    BY <1>5 DEF ReceiveUpdate, JobsInv, OneRunJobs, Reached
  <2>2. given' = sent'[u] /\ cron' = "update" /\ UNCHANGED sent
    BY <1>5 DEF ReceiveUpdate
  <2>3. req' \in [MonitorRequests -> {"idle", "lock", "send", "received", "unlock", "done", "told"}]
    BY <1>5 DEF ReceiveUpdate, JobsInv
  <2> QED BY <2>1, <2>2, <2>3 DEF JobsInv, OneRunJobs
<1>6. CASE ReadVolume
  <2>1. req[Attacher] = "idle" /\ req' = [req EXCEPT ![Attacher] = "lock"]
        /\ UNCHANGED <<cron, sched, sent>>
    BY <1>6 DEF ReadVolume, jobs
  <2>2. cron = "none" /\ Reached = {} /\ Reached' = {}
    BY <2>1 DEF JobsInv, OneRunJobs, Reached
  <2> QED BY <2>1, <2>2 DEF JobsInv, OneRunJobs
<1>7. CASE StartMonitoring
  <2>1. req[Attacher] = "lock" /\ req' = [req EXCEPT ![Attacher] = "done"]
        /\ cron' = "begin" /\ UNCHANGED <<given, sent>>
    BY <1>7 DEF StartMonitoring
  <2>2. Reached = {} /\ Reached' = {}
    BY <2>1 DEF JobsInv, OneRunJobs, Reached
  <2> QED BY <2>1, <2>2 DEF JobsInv, OneRunJobs
<1>8. ASSUME NEW u \in Updaters, NEW j \in Jobs, UpdateRecurring(u, j) PROVE JobsInv'
  <2>1. req[u] = "idle" /\ sent' = [sent EXCEPT ![u] = j] /\ UNCHANGED <<cron, sched, given>>
        /\ req' = [req EXCEPT ![u] = IF j \in Invalid THEN "done" ELSE "lock"]
    BY <1>8 DEF UpdateRecurring, jobs
  <2>2. Reached' = Reached /\ u \notin Reached
    BY <2>1 DEF JobsInv, Reached
  <2> QED BY <2>1, <2>2, OthersJobs DEF JobsInv, Reached
<1>9. ASSUME NEW u \in Updaters, UpdateCron(u) \/ UpdateDone(u) PROVE JobsInv'
  <2>1. UNCHANGED <<cron, sched, given, sent>> /\ \E p \in {"send", "unlock", "told", "done"} :
          /\ req' = [req EXCEPT ![u] = p]
          /\ req[u] = "received" <=> p = "told"
          /\ req[u] # "told"
    BY <1>9 DEF UpdateCron, UpdateDone, jobs
  <2>2. Reached' = Reached
    BY <2>1 DEF JobsInv, Reached
  <2> QED BY <2>1, <2>2, OthersJobs DEF JobsInv
<1>10. ASSUME NEW x \in Closers, StopMonitoring(x) \/ RequestDetach(x) PROVE JobsInv'
  <2>1. UNCHANGED <<cron, sched, given, sent>> /\ \E p \in {"lock", "done"} : req' = [req EXCEPT ![x] = p]
    BY <1>10 DEF StopMonitoring, RequestDetach, jobs
  <2>2. Reached' = Reached
    BY <2>1 DEF JobsInv, Reached
  <2> QED BY <2>1, <2>2, OthersJobs DEF JobsInv
<1>11. UNCHANGED monitorVars => UNCHANGED <<jobs, requests>>
  BY DEF monitorVars
<1> QED
  BY <1>1, <1>2, <1>3, <1>4, <1>5, <1>6, <1>7, <1>8, <1>9, <1>10, <1>11
  DEF MonitorNext, Rest, CronStep, RequestStep, Arrival

\* Once an update has reached RunJobs, the jobs that run are the ones of an
\* update and never again those that the attach has read (cron.go:58-66), for
\* any number of updates and however they interleave with the attach.
THEOREM MonitorJobsOfAnUpdate == MonitorSpec => []JobsOfAnUpdate
<1>1. JobsInv => JobsOfAnUpdate
  BY DEF JobsInv, JobsOfAnUpdate, Reached
<1> QED BY <1>1, InitJobs, StepJobs, PTL DEF MonitorSpec

-----------------------------------------------------------------------------
Volume == [name : Volumes, address : Addrs \cup {None}]
Controllers == [name : Volumes, url : Addrs, open : BOOLEAN]

\* The part of the types the argument needs.
RegTypes ==
  /\ addr \in [Volumes -> Addrs \cup {None}]
  /\ ctrls \in Seq(Controllers)
  /\ cs \in [Volumes -> 0..Len(ctrls)]
  /\ pc \in [Requests -> Places] /\ kind \in [Requests -> Kinds \cup {"reattach"}]
  /\ vol \in [Requests -> Volume]

\* An entry of the map is a controller of the volume it is filed under, with
\* an open queue (controller.go:58-60): so deleting an entry closes the one
\* queue it stands for.
Filed ==
  \A v \in Volumes : cs[v] # 0 => ctrls[cs[v]].name = v /\ ctrls[cs[v]].open

\* An open queue is registered or was pushed out by another address.
Accounted ==
  \A c \in 1..Len(ctrls) : ctrls[c].open => cs[ctrls[c].name] = c \/ c \in replaced

\* holdControllers serves one request at a time, and while it is blocked on the
\* answer the entry stays as it was made (controller.go:62).
Serving ==
  \A r \in Requests : pc[r] = "served" =>
    /\ serving = r
    /\ cs[vol[r].name] # 0 /\ ctrls[cs[vol[r].name]].url = vol[r].address

RegInv == RegTypes /\ Filed /\ Accounted /\ Serving

----------------------------------------------------------------------------
LEMMA ControllerType ==
  ASSUME RegInv, NEW c \in 1..Len(ctrls)
  PROVE  /\ ctrls[c] \in Controllers /\ ctrls[c].name \in Volumes
         /\ ctrls[c].url \in Addrs /\ ctrls[c].open \in BOOLEAN
<1>1. ctrls[c] \in Controllers
  BY ElementOfSeq DEF RegInv, RegTypes
<1> QED BY <1>1 DEF Controllers

LEMMA RegInit == Init => RegInv
<1> SUFFICES ASSUME Init PROVE RegInv
  OBVIOUS
<1>1. ctrls \in Seq(Controllers) /\ Len(ctrls) = 0
  BY DEF Init
<1>2. RegTypes
  BY <1>1 DEF Init, RegTypes, Places, Kinds, Volume
<1>3. Filed /\ Accounted /\ Serving
  BY <1>1 DEF Init, Filed, Accounted, Serving
<1> QED BY <1>2, <1>3 DEF RegInv

\* A step that leaves the registry alone and moves one request, which is not
\* being served after it.
LEMMA MoveInv ==
  ASSUME RegInv, NEW r \in Requests, NEW p \in Places \ {"served"},
         UNCHANGED holder, pc' = [pc EXCEPT ![r] = p],
         addr' \in [Volumes -> Addrs \cup {None}],
         kind' \in [Requests -> Kinds \cup {"reattach"}],
         vol' \in [Requests -> Volume],
         \A q \in Requests \ {r} : vol'[q] = vol[q]
  PROVE  RegInv'
<1>1. RegTypes'
  BY DEF RegInv, RegTypes, holder, Volume
<1>2. Filed' /\ Accounted'
  BY DEF RegInv, Filed, Accounted, holder
<1>3. Serving'
  <2> SUFFICES ASSUME NEW q \in Requests, pc'[q] = "served"
               PROVE  /\ serving' = q /\ cs'[vol'[q].name] # 0
                      /\ ctrls'[cs'[vol'[q].name]].url = vol'[q].address
    BY DEF Serving
  <2>1. q # r /\ pc[q] = "served"
    BY DEF RegInv, RegTypes
  <2> QED BY <2>1 DEF RegInv, Serving, holder
<1> QED BY <1>1, <1>2, <1>3 DEF RegInv

\* A request learns or forgets the address of its volume.
LEMMA AddressTypes ==
  ASSUME RegInv, NEW r \in Requests, NEW a \in Addrs \cup {None},
         vol' = [vol EXCEPT ![r].address = a]
  PROVE  /\ vol' \in [Requests -> Volume]
         /\ \A q \in Requests \ {r} : vol'[q] = vol[q]
BY DEF RegInv, RegTypes, Volume

LEMMA ReturnInv ==
  ASSUME RegInv, NEW r \in Requests, Return(r), UNCHANGED holder,
         addr' \in [Volumes -> Addrs \cup {None}]
  PROVE  RegInv'
<1>1. kind' \in [Requests -> Kinds \cup {"reattach"}]
  BY DEF Return, RegInv, RegTypes, Kinds
<1> QED BY <1>1, MoveInv, AddressTypes DEF Return, Places

LEMMA GotoInv ==
  ASSUME RegInv, NEW r \in Requests, NEW p \in Places \ {"served"}, Goto(r, p),
         UNCHANGED holder, addr' \in [Volumes -> Addrs \cup {None}]
  PROVE  RegInv'
BY MoveInv DEF Goto, RegInv, RegTypes, Volume

LEMMA ManGetInv ==
  ASSUME RegInv, NEW r \in Requests, NEW k \in Kinds \cup {"reattach"},
         NEW v \in Volumes, ManGet(r, k, v), UNCHANGED <<holder, addr>>
  PROVE  RegInv'
<1>1. kind' \in [Requests -> Kinds \cup {"reattach"}]
  BY DEF ManGet, RegInv, RegTypes
<1>2. vol' \in [Requests -> Volume] /\ \A q \in Requests \ {r} : vol'[q] = vol[q]
  BY DEF ManGet, RegInv, RegTypes, Volume
<1>3. PICK p \in {"get", "read"} : pc' = [pc EXCEPT ![r] = p]
  BY DEF ManGet
<1> QED BY <1>1, <1>2, <1>3, MoveInv DEF Places, RegInv, RegTypes
----------------------------------------------------------------------------
\* The steps of a request outside the registry.
LEMMA RequestInv ==
  ASSUME RegInv, NEW r \in Requests,
         \/ \E k \in Kinds, v \in Volumes : Begin(r, k, v)
         \/ Proceed(r) \/ StopMonitoringLocks(r) \/ StopController(r)
         \/ CreateController(r) \/ StartMonitoringLocks(r)
  PROVE  RegInv'
<1>0. /\ addr \in [Volumes -> Addrs \cup {None}] /\ vol[r].name \in Volumes
      /\ kind \in [Requests -> Kinds \cup {"reattach"}]
  BY DEF RegInv, RegTypes, Volume
<1>1. CASE \E k \in Kinds, v \in Volumes : Begin(r, k, v)
  BY <1>1, ManGetInv DEF Begin, store
<1>2. CASE Proceed(r)
  <2>1. UNCHANGED <<holder, addr>>
    BY <1>2 DEF Proceed, store
  <2>2. \/ Return(r) \/ (\E p \in {"start", "create", "stop"} : Goto(r, p))
        \/ ManGet(r, "reattach", vol[r].name)
    <3>1. kind[r] \in {"get", "attach", "detach", "reattach"}
      BY <1>0 DEF Kinds
    <3> QED BY <1>2, <3>1 DEF Proceed
  <2> QED BY <1>0, <2>1, <2>2, ReturnInv, GotoInv, ManGetInv DEF Places
<1>3. CASE StopMonitoringLocks(r)
  BY <1>0, <1>3, GotoInv DEF StopMonitoringLocks, store, Places
<1>4. CASE StopController(r)
  <2>1. /\ UNCHANGED holder
        /\ addr' = addr \/ addr' = [addr EXCEPT ![vol[r].name] = None]
        /\ Return(r) \/ Goto(r, "create")
    BY <1>4 DEF StopController
  <2> QED BY <1>0, <2>1, ReturnInv, GotoInv DEF Places
<1>5. CASE CreateController(r)
  <2>1. CASE Return(r) /\ UNCHANGED <<holder, addr>>
    BY <1>0, <2>1, ReturnInv
  <2>2. ASSUME NEW a \in Local, UNCHANGED <<holder, kind>>,
               addr' = [addr EXCEPT ![vol[r].name] = a],
               vol' = [vol EXCEPT ![r].address = a],
               pc' = [pc EXCEPT ![r] = "start"]
        PROVE  RegInv'
    <3>1. a \in Addrs \cup {None} /\ addr' \in [Volumes -> Addrs \cup {None}]
      BY <1>0, <2>2, RegistryAssumption
    <3> QED BY <1>0, <2>2, <3>1, MoveInv, AddressTypes DEF Places
  <2> QED BY <1>5, <2>1, <2>2 DEF CreateController, store
<1>6. CASE StartMonitoringLocks(r)
  <2>1. CASE Return(r)
    BY <1>0, <1>6, <2>1, ReturnInv DEF StartMonitoringLocks, store
  <2>2. CASE pc' = [pc EXCEPT ![r] = "get"] /\ UNCHANGED <<kind, vol>>
    BY <1>0, <1>6, <2>2, MoveInv DEF StartMonitoringLocks, store, Places, RegInv, RegTypes, Volume
  <2> QED BY <1>6, <2>1, <2>2 DEF StartMonitoringLocks
<1> QED BY <1>1, <1>2, <1>3, <1>4, <1>5, <1>6

\* A request without a running controller: while it is received no other is
\* served, and the entry that goes is the one whose queue is closed.
LEMMA HoldReleaseInv ==
  ASSUME RegInv, NEW r \in Requests, HoldRelease(r)
  PROVE  RegInv'
<1> DEFINE v == vol[r].name
<1>0. v \in Volumes /\ serving = None /\ ctrls \in Seq(Controllers) /\ cs \in [Volumes -> 0..Len(ctrls)]
  BY DEF RegInv, RegTypes, HoldRelease, Receive, Volume
<1>1. PICK p \in {"halt", "wait"} : Goto(r, p)
  BY DEF HoldRelease
<1>2. /\ ctrls' = IF cs[v] = 0 THEN ctrls ELSE [ctrls EXCEPT ![cs[v]].open = FALSE]
      /\ cs' = [cs EXCEPT ![v] = 0] /\ UNCHANGED <<serving, replaced, addr>>
  BY DEF HoldRelease, Release, store
<1>3. /\ ctrls' \in Seq(Controllers) /\ Len(ctrls') = Len(ctrls)
      /\ \A c \in 1..Len(ctrls) :
           /\ ctrls'[c].name = ctrls[c].name /\ ctrls'[c].url = ctrls[c].url
           /\ ctrls'[c].open = IF c = cs[v] THEN FALSE ELSE ctrls[c].open
  <2>1. CASE cs[v] = 0
    <3>1. ctrls' = ctrls /\ \A c \in 1..Len(ctrls) : c # cs[v]
      BY <1>0, <1>2, <2>1
    <3> QED BY <1>0, <3>1
  <2>2. CASE cs[v] # 0
    <3> DEFINE e == [ctrls[cs[v]] EXCEPT !.open = FALSE]
    <3>1. cs[v] \in 1..Len(ctrls)
      BY <1>0, <2>2
    <3>2. /\ e \in Controllers /\ e.open = FALSE
          /\ e.name = ctrls[cs[v]].name /\ e.url = ctrls[cs[v]].url
      BY <3>1, ControllerType DEF Controllers
    <3>3. ctrls' = [ctrls EXCEPT ![cs[v]] = e]
      BY <1>2, <2>2
    <3> HIDE DEF e
    <3>4. /\ ctrls' \in Seq(Controllers) /\ Len(ctrls') = Len(ctrls)
          /\ \A c \in 1..Len(ctrls) : ctrls'[c] = IF c = cs[v] THEN e ELSE ctrls[c]
      <4>1. [ctrls EXCEPT ![cs[v]] = e] \in Seq(Controllers)
        BY <1>0, <3>1, <3>2, ExceptSeq
      <4>2. /\ Len([ctrls EXCEPT ![cs[v]] = e]) = Len(ctrls)
            /\ \A c \in 1..Len(ctrls) :
                 [ctrls EXCEPT ![cs[v]] = e][c] = IF c = cs[v] THEN e ELSE ctrls[c]
        BY <1>0, <3>1, <3>2, ExceptSeq
      <4> QED BY <3>3, <4>1, <4>2
    <3> QED BY <3>2, <3>4
  <2> QED BY <2>1, <2>2
<1>4. RegTypes'
  BY <1>0, <1>1, <1>2, <1>3, SMTT(30) DEF RegInv, RegTypes, Goto, Places
<1>5. Filed'
  <2> SUFFICES ASSUME NEW w \in Volumes, cs'[w] # 0
               PROVE  ctrls'[cs'[w]].name = w /\ ctrls'[cs'[w]].open
    BY DEF Filed
  <2>1. w # v /\ cs'[w] = cs[w] /\ cs[w] \in 1..Len(ctrls)
    BY <1>0, <1>2
  <2>2. ctrls[cs[w]].name = w /\ ctrls[cs[w]].open
    BY <2>1 DEF RegInv, Filed
  <2>3. cs[w] # cs[v]
    BY <1>0, <2>1, <2>2 DEF RegInv, Filed
  <2> QED BY <1>3, <2>1, <2>2, <2>3, ZenonT(30)
<1>6. Accounted'
  <2> SUFFICES ASSUME NEW c \in 1..Len(ctrls), ctrls'[c].open
               PROVE  cs'[ctrls'[c].name] = c \/ c \in replaced'
    BY <1>3 DEF Accounted
  <2>1. ctrls[c].open /\ c # cs[v] /\ ctrls[c].name \in Volumes
    BY <1>3, ControllerType
  <2>2. cs[ctrls[c].name] = c \/ c \in replaced
    BY <2>1 DEF RegInv, Accounted
  <2> QED BY <1>0, <1>2, <1>3, <2>1, <2>2
<1>7. Serving'
  <2>1. \A q \in Requests : pc'[q] # "served"
    BY <1>0, <1>1, RegistryAssumption DEF RegInv, RegTypes, Serving, Goto
  <2> QED BY <2>1 DEF Serving
<1> QED BY <1>4, <1>5, <1>6, <1>7 DEF RegInv

\* Get: the entry of the address in the request, or a new one in the place of
\* what was there.
LEMMA HoldGetInv ==
  ASSUME RegInv, NEW r \in Requests, HoldGet(r)
  PROVE  RegInv'
<1> DEFINE v == vol[r].name
           new == [name |-> v, url |-> vol[r].address, open |-> TRUE]
<1>0. /\ v \in Volumes /\ vol[r].address \in Addrs
      /\ ctrls \in Seq(Controllers) /\ cs \in [Volumes -> 0..Len(ctrls)]
  BY DEF RegInv, RegTypes, HoldGet, Receive, Sent, Volume
<1>1. /\ serving = None /\ serving' = r /\ pc' = [pc EXCEPT ![r] = "served"]
      /\ UNCHANGED <<addr, kind, vol>>
  BY DEF HoldGet, Receive, Goto, store
<1>2. \A q \in Requests : pc'[q] = "served" => q = r
  BY <1>1, RegistryAssumption DEF RegInv, RegTypes, Serving
<1>3. CASE Known(r)
  <2>1. UNCHANGED <<ctrls, cs, replaced>>
    BY <1>3 DEF HoldGet
  <2>2. RegTypes' /\ Filed' /\ Accounted'
    BY <1>1, <2>1 DEF RegInv, RegTypes, Filed, Accounted, Places
  <2>3. Serving'
    BY <1>1, <1>2, <1>3, <2>1 DEF Serving, Known
  <2> QED BY <2>2, <2>3 DEF RegInv
<1>4. CASE ~Known(r)
  <2>1. /\ ctrls' = Append(ctrls, new) /\ cs' = [cs EXCEPT ![v] = Len(ctrls) + 1]
        /\ replaced' = IF cs[v] = 0 THEN replaced ELSE replaced \cup {cs[v]}
    BY <1>4 DEF HoldGet
  <2>2. /\ ctrls' \in Seq(Controllers) /\ Len(ctrls') = Len(ctrls) + 1
        /\ ctrls'[Len(ctrls) + 1] = new
        /\ \A c \in 1..Len(ctrls) : ctrls'[c] = ctrls[c]
    <3>1. new \in Controllers
      BY <1>0 DEF Controllers
    <3> HIDE DEF new
    <3> QED BY <1>0, <2>1, <3>1, AppendProperties
  <2>a. new.name = v /\ new.open /\ new.url = vol[r].address /\ v = vol[r].name
    OBVIOUS
  <2>b. Len(ctrls) \in Nat
    BY <1>0
  <2> HIDE DEF v, new
  <2>3. /\ cs' \in [Volumes -> 0..Len(ctrls')] /\ cs'[v] = Len(ctrls) + 1
        /\ \A w \in Volumes \ {v} : cs'[w] = cs[w]
    BY <1>0, <2>1, <2>2, <2>b
  <2>4. RegTypes'
    BY <1>1, <2>2, <2>3 DEF RegInv, RegTypes, Places
  <2>5. Filed'
    <3> SUFFICES ASSUME NEW w \in Volumes, cs'[w] # 0
                 PROVE  ctrls'[cs'[w]].name = w /\ ctrls'[cs'[w]].open
      BY DEF Filed
    <3>1. CASE w = v
      BY <2>2, <2>3, <2>a, <3>1
    <3>2. CASE w # v
      <4>1. cs'[w] = cs[w] /\ cs[w] \in 1..Len(ctrls)
        BY <1>0, <2>3, <3>2
      <4> QED BY <2>2, <4>1 DEF RegInv, Filed
    <3> QED BY <3>1, <3>2
  <2>6. Accounted'
    <3> SUFFICES ASSUME NEW c \in 1..Len(ctrls'), ctrls'[c].open
                 PROVE  cs'[ctrls'[c].name] = c \/ c \in replaced'
      BY DEF Accounted
    <3>1. CASE c = Len(ctrls) + 1
      BY <2>2, <2>3, <2>a, <3>1
    <3>2. CASE c \in 1..Len(ctrls)
      <4>1. ctrls'[c] = ctrls[c] /\ ctrls[c].name \in Volumes
        BY <2>2, <3>2, ControllerType
      <4>2. cs[ctrls[c].name] = c \/ c \in replaced
        BY <3>2, <4>1 DEF RegInv, Accounted
      <4>3. CASE c \in replaced
        BY <2>1, <4>3
      <4>4. CASE cs[ctrls[c].name] = c /\ ctrls[c].name = v
        <5>1. cs[v] = c /\ c # 0
          BY <3>2, <4>4
        <5> QED BY <2>1, <5>1
      <4>5. CASE cs[ctrls[c].name] = c /\ ctrls[c].name # v
        BY <2>3, <4>1, <4>5
      <4> QED BY <4>2, <4>3, <4>4, <4>5
    <3> QED BY <2>2, <1>0, <3>1, <3>2
  <2>7. Serving'
    <3>1. cs'[v] = Len(ctrls) + 1 /\ Len(ctrls) + 1 # 0 /\ ctrls'[Len(ctrls) + 1].url = vol[r].address
      BY <2>2, <2>3, <2>a, <2>b
    <3>2. vol'[r].name = v /\ vol'[r].address = vol[r].address
      BY <1>1, <2>a
    <3> QED BY <1>1, <1>2, <3>1, <3>2 DEF Serving
  <2> QED BY <2>4, <2>5, <2>6, <2>7 DEF RegInv
<1> QED BY <1>3, <1>4

LEMMA AnswerInv ==
  ASSUME RegInv, NEW r \in Requests, Answer(r)
  PROVE  RegInv'
<1>1. /\ pc[r] = "served" /\ UNCHANGED <<ctrls, cs, replaced, addr>>
      /\ \/ \E p \in {"get", "read"} : pc' = [pc EXCEPT ![r] = p] /\ UNCHANGED <<kind, vol>>
         \/ Return(r)
  BY DEF Answer, store, Goto
<1>2. RegTypes'
  <2>1. CASE Return(r)
    <3>1. vol' \in [Requests -> Volume]
      BY <2>1, AddressTypes DEF Return
    <3> QED BY <1>1, <2>1, <3>1 DEF Return, RegInv, RegTypes, Places, Kinds
  <2>2. CASE \E p \in {"get", "read"} : pc' = [pc EXCEPT ![r] = p] /\ UNCHANGED <<kind, vol>>
    BY <1>1, <2>2 DEF RegInv, RegTypes, Places
  <2> QED BY <1>1, <2>1, <2>2
<1>3. Filed' /\ Accounted'
  BY <1>1 DEF RegInv, Filed, Accounted
<1>4. Serving'
  <2>1. pc'[r] # "served" /\ \A q \in Requests \ {r} : pc'[q] = pc[q]
    BY <1>1 DEF Return, RegInv, RegTypes
  <2>2. \A q \in Requests : pc[q] = "served" => q = r
    BY <1>1 DEF RegInv, Serving
  <2> QED BY <2>1, <2>2 DEF Serving
<1> QED BY <1>2, <1>3, <1>4 DEF RegInv
----------------------------------------------------------------------------
LEMMA RegNext == RegInv /\ [Next]_vars => RegInv'
<1> SUFFICES ASSUME RegInv, [Next]_vars PROVE RegInv'
  OBVIOUS
<1>1. CASE UNCHANGED vars
  BY <1>1 DEF vars, holder, client, store, RegInv, RegTypes, Filed, Accounted, Serving
<1>2. ASSUME NEW v \in Volumes, AttachElsewhere(v) \/ DetachElsewhere(v)
      PROVE  RegInv'
  <2>1. addr' \in [Volumes -> Addrs \cup {None}]
    BY <1>2 DEF AttachElsewhere, DetachElsewhere, RegInv, RegTypes
  <2>2. UNCHANGED <<holder, client>>
    BY <1>2 DEF AttachElsewhere, DetachElsewhere
  <2> QED BY <2>1, <2>2 DEF holder, client, RegInv, RegTypes, Filed, Accounted, Serving
<1> QED
  BY <1>1, <1>2, RequestInv, HoldReleaseInv, HoldGetInv, AnswerInv DEF Next, Step

\* A controller whose queue is open, field by field.
LEMMA OpenRecord ==
  ASSUME NEW c \in Controllers, c.open
  PROVE  c = [name |-> c.name, url |-> c.url, open |-> TRUE]
BY DEF Controllers

LEMMA RegInvariant == Spec => []RegInv
BY RegInit, RegNext, PTL DEF Spec

\* Get returns a controller of the volume and the address it was asked for,
\* whose queue is open, however requests, detaches and attachments on other
\* hosts interleave (controller.go:55-62).
THEOREM RegistryGetMatches == Spec => []GetMatches
<1>1. RegInv => GetMatches
  <2> SUFFICES ASSUME RegInv, NEW r \in Requests, pc[r] = "served"
               PROVE  /\ cs[vol[r].name] # 0
                      /\ ctrls[cs[vol[r].name]] =
                           [name |-> vol[r].name, url |-> vol[r].address, open |-> TRUE]
    BY DEF GetMatches
  <2> DEFINE c == cs[vol[r].name]
  <2>1. /\ vol[r].name \in Volumes /\ c # 0 /\ c \in 0..Len(ctrls)
        /\ ctrls[c].url = vol[r].address
    BY DEF RegInv, RegTypes, Serving, Volume
  <2>2. ctrls[c].name = vol[r].name /\ ctrls[c].open
    BY <2>1 DEF RegInv, Filed
  <2>3. ctrls[c] \in Controllers
    BY <2>1, ControllerType
  <2>4. ctrls[c] = [name |-> ctrls[c].name, url |-> ctrls[c].url, open |-> TRUE]
    BY <2>2, <2>3, OpenRecord, Zenon
  <2> QED BY <2>1, <2>2, <2>4, Zenon
<1> QED BY <1>1, RegInvariant, PTL

\* Every queue whose goroutines still run is registered or was pushed out by
\* another address of its volume (controller.go:48-52, 57-60).
THEOREM RegistryOpenIsRegistered == Spec => []OpenIsRegistered
<1>1. RegInv => OpenIsRegistered
  BY DEF RegInv, RegTypes, Filed, Accounted, OpenIsRegistered
<1> QED BY <1>1, RegInvariant, PTL
=============================================================================
