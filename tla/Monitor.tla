------------------------------ MODULE Monitor ------------------------------
(***************************************************************************)
(* The goroutines behind an attached volume (manager/monitor.go, event.go, *)
(* cron.go): the loops that check the controller and clean up replicas,    *)
(* each driven by a ticker, the goroutine RunJobs with the recurring jobs, *)
(* and the requests that start, update and close them under the manager's  *)
(* lock (manager.go).                                                      *)
(*                                                                         *)
(* One life of a monitor: an attach starts it, a detach (a request, or the *)
(* loop that has given up) closes it.  The channels are unbuffered.        *)
(***************************************************************************)
EXTENDS Naturals, FiniteSets

CONSTANTS
  Loops,        \* the loops: "monitor" and "cleanup"
  Updaters,     \* the requests UpdateRecurring
  Closers,      \* the requests that detach
  Attacher,     \* the request that attaches
  Jobs,         \* lists of recurring jobs
  Invalid,      \* those that ValidateJobs refuses
  Nobody,
  MaxRetries,   \* MonitoringMaxRetries
  MaxFaults     \* bound on failures to read the settings

MonitorRequests == Updaters \cup Closers \cup {Attacher}

ASSUME MonitorAssumption ==
  /\ Loops \subseteq {"monitor", "cleanup"}
  /\ Attacher \notin Updaters \cup Closers /\ Updaters \cap Closers = {}
  /\ Nobody \notin Jobs \cup MonitorRequests \cup Loops
  /\ Invalid \subseteq Jobs /\ Jobs # Invalid
  /\ MaxRetries \in Nat /\ MaxFaults \in Nat

VARIABLES
  open,      \* the channels that are open
  armed,     \* whether the timer of a loop's ticker runs
  fired,     \* whether its channel C holds a value
  tick,      \* where the goroutine tick of the ticker is
  loop,      \* where the loop is
  attempts,  \* failedAttempts
  cron,      \* where RunJobs is
  sched,     \* the jobs it has scheduled
  stored,    \* the volume's jobs in the store
  given,     \* the jobs that RunJobs is given to set
  reg,       \* whether the monitor is in man.monitors
  mutex,     \* who holds the manager's lock
  req,       \* where the requests are
  sent,      \* the jobs a request is about to send
  crashed,   \* the manager has ended in a panic
  faults

ticker == <<armed, fired, tick>>
loops == <<loop, attempts>>
jobs == <<cron, sched>>
requests == <<stored, given, mutex, req, sent>>
monitorVars == <<open, ticker, loops, jobs, requests, reg, crashed, faults>>

MonitorTypeOK ==
  /\ open \subseteq Loops \cup {"cron"}
  /\ armed \in [Loops -> BOOLEAN] /\ fired \in [Loops -> BOOLEAN]
  /\ tick \in [Loops -> {"off", "wait", "send", "reset"}]
  /\ loop \in [Loops -> {"none", "begin", "first", "range", "stop", "check", "start",
                         "giveup", "close", "detach", "exit"}]
  /\ attempts \in 0..MaxRetries
  /\ cron \in {"none", "begin", "range", "update", "exit"}
  /\ sched \in Jobs \cup {Nobody} /\ stored \in Jobs /\ given \in Jobs
  /\ reg \in BOOLEAN /\ crashed \in BOOLEAN /\ faults \in Nat
  /\ mutex \in Updaters \cup {Nobody}
  /\ req \in [MonitorRequests -> {"idle", "lock", "send", "received", "unlock", "done", "told"}]
  /\ sent \in [Updaters -> Jobs]

\* A volume that is being attached.
MonitorInit ==
  /\ open = {} /\ reg = FALSE /\ crashed = FALSE /\ faults = 0
  /\ armed = [l \in Loops |-> FALSE] /\ fired = [l \in Loops |-> FALSE]
  /\ tick = [l \in Loops |-> "off"] /\ loop = [l \in Loops |-> "none"]
  /\ attempts = 0 /\ cron = "none" /\ sched = Nobody
  /\ stored \in Jobs \ Invalid /\ given = stored
  /\ mutex = Nobody /\ req = [x \in MonitorRequests |-> "idle"]
  /\ sent = [u \in Updaters |-> stored]

At(l, p) == loop' = [loop EXCEPT ![l] = p]
----------------------------------------------------------------------------
(* The ticker (event.go).                                                  *)

Expire(l) ==
  /\ armed[l] /\ armed' = [armed EXCEPT ![l] = FALSE]
  /\ fired' = [fired EXCEPT ![l] = TRUE]
  /\ UNCHANGED <<open, tick, loops, jobs, requests, reg, crashed, faults>>

\* tick: <-t.timer.C
TickWakes(l) ==
  /\ tick[l] = "wait" /\ fired[l]
  /\ fired' = [fired EXCEPT ![l] = FALSE] /\ tick' = [tick EXCEPT ![l] = "send"]
  /\ UNCHANGED <<open, armed, loops, jobs, requests, reg, crashed, faults>>

\* Send: the loop receives the tick.
Deliver(l) ==
  /\ tick[l] = "send" /\ l \in open /\ loop[l] \in {"first", "range"}
  /\ tick' = [tick EXCEPT ![l] = "reset"]
  /\ At(l, IF loop[l] = "first" THEN "range" ELSE "stop")
  /\ UNCHANGED <<open, armed, fired, attempts, jobs, requests, reg, crashed, faults>>

\* Send: the panic of a send on a closed channel is recovered.
SendFails(l) ==
  /\ tick[l] = "send" /\ l \notin open /\ tick' = [tick EXCEPT ![l] = "off"]
  /\ UNCHANGED <<open, armed, fired, loops, jobs, requests, reg, crashed, faults>>

\* Mutant: the goroutine ends after one tick.
TickAgainNot(l) ==
  /\ tick[l] = "reset" /\ tick' = [tick EXCEPT ![l] = "off"]
  /\ armed' = [armed EXCEPT ![l] = TRUE]
  /\ UNCHANGED <<open, fired, loops, jobs, requests, reg, crashed, faults>>

\* tick: the timer is reset and the next tick awaited.
TickAgain(l) ==
  /\ tick[l] = "reset" /\ tick' = [tick EXCEPT ![l] = "wait"]
  /\ armed' = [armed EXCEPT ![l] = TRUE]
  /\ UNCHANGED <<open, fired, loops, jobs, requests, reg, crashed, faults>>

TickStep(l) == TickWakes(l) \/ Deliver(l) \/ SendFails(l) \/ TickAgain(l)
----------------------------------------------------------------------------
(* The loops (monitor.go).                                                 *)

BeginLoop(l) ==
  /\ loop[l] = "begin" /\ At(l, "first")
  /\ armed' = [armed EXCEPT ![l] = TRUE] /\ tick' = [tick EXCEPT ![l] = "wait"]
  /\ UNCHANGED <<open, fired, attempts, jobs, requests, reg, crashed, faults>>

\* A closed channel ends the first receive, and then the loop, which stops its
\* timer.
LoopClosed(l) ==
  /\ loop[l] \in {"first", "range"} /\ l \notin open
  /\ IF loop[l] = "first"
     THEN At(l, "range") /\ UNCHANGED armed
     ELSE At(l, "exit") /\ armed' = [armed EXCEPT ![l] = FALSE]
  /\ UNCHANGED <<open, fired, tick, attempts, jobs, requests, reg, crashed, faults>>

StopTicker(l) ==
  /\ loop[l] = "stop" /\ At(l, "check")
  /\ armed' = [armed EXCEPT ![l] = FALSE]
  /\ UNCHANGED <<open, fired, tick, attempts, jobs, requests, reg, crashed, faults>>

\* CheckController returns nil, an error to retry, or a controller failure;
\* Cleanup's errors are logged only.
Check(l) ==
  /\ loop[l] = "check"
  /\ \/ /\ attempts' = IF l = "monitor" THEN 0 ELSE attempts
        /\ At(l, "start")
     \/ /\ l = "monitor" /\ attempts < MaxRetries
        /\ attempts' = attempts + 1 /\ At(l, "start")
     \/ l = "monitor" /\ At(l, "giveup") /\ UNCHANGED attempts
  /\ UNCHANGED <<open, ticker, jobs, requests, reg, crashed, faults>>

\* Mutant: the ticker is started again only after a check that succeeded.
StartTickerOnce(l) ==
  /\ loop[l] \in {"start", "giveup"}
  /\ At(l, IF loop[l] = "start" THEN "range" ELSE "close")
  /\ armed' = [armed EXCEPT ![l] = attempts = 0]
  /\ UNCHANGED <<open, fired, tick, attempts, jobs, requests, reg, crashed, faults>>

StartTicker(l) ==
  /\ loop[l] \in {"start", "giveup"}
  /\ At(l, IF loop[l] = "start" THEN "range" ELSE "close")
  /\ armed' = [armed EXCEPT ![l] = TRUE]
  /\ UNCHANGED <<open, fired, tick, attempts, jobs, requests, reg, crashed, faults>>

\* The monitor gives up: close(ch) panics when a detach has closed it.
CloseOwn(l) ==
  /\ loop[l] = "close"
  /\ IF l \in open
     THEN open' = open \ {l} /\ At(l, "detach") /\ UNCHANGED crashed
     ELSE crashed' = TRUE /\ UNCHANGED <<open, loop>>
  /\ UNCHANGED <<ticker, attempts, jobs, requests, reg, faults>>

\* Mutant: the channels are closed one after the other up to the one that is
\* closed already, and the rest stay open.
CloseChannelsInTurn ==
  /\ reg' = FALSE
  /\ open' = IF reg THEN IF "monitor" \in open THEN {} ELSE open \ {"cleanup"} ELSE open

\* stopMonitoring under the lock: the deferred closes are all made, also when
\* one of them panics because the monitor has closed its channel.
CloseChannels ==
  /\ reg' = FALSE
  /\ open' = IF reg THEN {} ELSE open

\* man.Detach, which does not come to stopMonitoring when the volume cannot be
\* read or is gone.
DetachOwn(l) ==
  /\ loop[l] = "detach" /\ At(l, "range")
  /\ \/ mutex = Nobody /\ CloseChannels
     \/ UNCHANGED <<open, reg>>
  /\ UNCHANGED <<ticker, attempts, jobs, requests, crashed, faults>>

LoopStep(l) ==
  \/ BeginLoop(l) \/ LoopClosed(l) \/ StopTicker(l) \/ Check(l) \/ StartTicker(l)
  \/ CloseOwn(l) \/ DetachOwn(l)
----------------------------------------------------------------------------
(* RunJobs (cron.go).                                                      *)

SettingsFail == faults < MaxFaults /\ faults' = faults + 1

\* setJobs reads the settings.  Without them RunJobs returns: at once when it
\* begins, and after an update through the deferred c.Stop() with c == nil, a
\* panic that ends the manager.
SetJobs ==
  /\ cron \in {"begin", "update"}
  /\ \/ cron' = "range" /\ sched' = given /\ UNCHANGED <<crashed, faults>>
     \/ /\ SettingsFail /\ cron' = "exit" /\ UNCHANGED sched
        /\ crashed' = (cron = "update")
  /\ UNCHANGED <<open, ticker, loops, requests, reg>>

\* Mutant: the jobs are set again as the volume had them at the attach.
ReceiveUpdateStale(u) ==
  /\ req[u] = "send" /\ cron = "range" /\ "cron" \in open
  /\ cron' = "update" /\ sched' = Nobody
  /\ req' = [req EXCEPT ![u] = "received"]
  /\ UNCHANGED <<open, ticker, loops, stored, given, mutex, sent, reg, crashed, faults>>

\* RunJobs receives what updateCron sends, and stops the jobs; the sender goes
\* on.
ReceiveUpdate(u) ==
  /\ req[u] = "send" /\ cron = "range" /\ "cron" \in open
  /\ cron' = "update" /\ sched' = Nobody /\ given' = sent[u]
  /\ req' = [req EXCEPT ![u] = "received"]
  /\ UNCHANGED <<open, ticker, loops, stored, mutex, sent, reg, crashed, faults>>

JobsClosed ==
  /\ cron = "range" /\ "cron" \notin open /\ cron' = "exit" /\ sched' = Nobody
  /\ UNCHANGED <<open, ticker, loops, requests, reg, crashed, faults>>

CronStep == SetJobs \/ JobsClosed \/ \E u \in Updaters : ReceiveUpdate(u)
----------------------------------------------------------------------------
(* The requests (manager.go).                                              *)

\* doAttach has read the volume, and startMonitoring comes later.
ReadVolume ==
  /\ req[Attacher] = "idle" /\ req' = [req EXCEPT ![Attacher] = "lock"]
  /\ given' = stored
  /\ UNCHANGED <<open, ticker, loops, jobs, stored, mutex, sent, reg, crashed, faults>>

StartMonitoring ==
  /\ req[Attacher] = "lock" /\ mutex = Nobody
  /\ req' = [req EXCEPT ![Attacher] = "done"]
  /\ reg' = TRUE /\ open' = Loops \cup {"cron"}
  /\ loop' = [l \in Loops |-> "begin"] /\ cron' = "begin"
  /\ UNCHANGED <<ticker, attempts, sched, stored, given, mutex, sent, crashed, faults>>

\* The jobs are stored before they are validated.
UpdateRecurring(u, j) ==
  /\ req[u] = "idle" /\ stored' = j
  /\ req' = [req EXCEPT ![u] = IF j \in Invalid THEN "done" ELSE "lock"]
  /\ sent' = [sent EXCEPT ![u] = j]
  /\ UNCHANGED <<open, ticker, loops, jobs, given, mutex, reg, crashed, faults>>

\* Mutant: the lock is kept when there is no monitor.
UpdateCronKeeps(u) ==
  /\ req[u] = "lock" /\ mutex = Nobody /\ mutex' = u
  /\ req' = [req EXCEPT ![u] = IF reg THEN "send" ELSE "done"]
  /\ UNCHANGED <<open, ticker, loops, jobs, stored, given, sent, reg, crashed, faults>>

\* updateCron sends with the lock held.
UpdateCron(u) ==
  /\ req[u] = "lock" /\ mutex = Nobody /\ mutex' = u
  /\ req' = [req EXCEPT ![u] = IF reg THEN "send" ELSE "unlock"]
  /\ UNCHANGED <<open, ticker, loops, jobs, stored, given, sent, reg, crashed, faults>>

UpdateDone(u) ==
  /\ req[u] \in {"received", "unlock"} /\ mutex' = Nobody
  /\ req' = [req EXCEPT ![u] = IF req[u] = "received" THEN "told" ELSE "done"]
  /\ UNCHANGED <<open, ticker, loops, jobs, stored, given, sent, reg, crashed, faults>>

RequestDetach(x) ==
  /\ req[x] = "idle" /\ req' = [req EXCEPT ![x] = "lock"]
  /\ UNCHANGED <<open, ticker, loops, jobs, stored, given, mutex, sent, reg, crashed, faults>>

StopMonitoring(x) ==
  /\ req[x] = "lock" /\ mutex = Nobody /\ CloseChannels
  /\ req' = [req EXCEPT ![x] = "done"]
  /\ UNCHANGED <<ticker, loops, jobs, stored, given, mutex, sent, crashed, faults>>

RequestStep ==
  \/ StartMonitoring
  \/ \E u \in Updaters : UpdateCron(u) \/ UpdateDone(u)
  \/ \E x \in Closers : StopMonitoring(x)

Arrival ==
  \/ ReadVolume
  \/ \E u \in Updaters, j \in Jobs : UpdateRecurring(u, j)
  \/ \E x \in Closers : RequestDetach(x)

\* Nobody has to make a request; a goroutine tick that waits for a stopped
\* timer waits for ever.
Rest ==
  /\ \/ crashed
     \/ /\ \A x \in MonitorRequests : req[x] \in {"done", "told"}
        /\ \A l \in Loops : loop[l] = "exit"
  /\ UNCHANGED monitorVars

MonitorNext ==
  \/ /\ ~crashed
     /\ \/ \E l \in Loops : Expire(l) \/ TickStep(l) \/ LoopStep(l)
        \/ CronStep \/ RequestStep \/ Arrival
  \/ Rest

MonitorSpec == MonitorInit /\ [][MonitorNext]_monitorVars

\* The goroutines run, timers expire, and checks return.  A request takes the
\* lock once, so that weak fairness is enough for those that wait for it.
FairMonitorSpec ==
  /\ MonitorSpec
  /\ \A l \in Loops : /\ WF_monitorVars(~crashed /\ Expire(l))
                      /\ WF_monitorVars(~crashed /\ TickStep(l))
                      /\ WF_monitorVars(~crashed /\ LoopStep(l))
  /\ WF_monitorVars(~crashed /\ CronStep)
  /\ WF_monitorVars(~crashed /\ StartMonitoring)
  /\ \A u \in Updaters : /\ WF_monitorVars(~crashed /\ UpdateCron(u))
                         /\ WF_monitorVars(~crashed /\ UpdateDone(u))
  /\ \A x \in Closers : WF_monitorVars(~crashed /\ StopMonitoring(x))
----------------------------------------------------------------------------
(* Properties.                                                             *)

\* While a loop waits for a tick, one is on its way: stopping and starting the
\* timer around a check (monitor.go:59, 87) never leaves the goroutine tick
\* without a timer, although it resets the timer at the same time.
TickOnItsWay ==
  \A l \in Loops : loop[l] \in {"first", "range"} /\ l \in open =>
    \/ tick[l] \in {"send", "reset"}
    \/ tick[l] = "wait" /\ (armed[l] \/ fired[l])

\* The volume goes on being checked as long as it is monitored.
KeepsChecking ==
  \A l \in Loops : []<>(loop[l] = "check" \/ l \notin open \/ crashed)

\* Once the monitor is closed its loops and RunJobs end, whichever of a request
\* and the loop that gave up closed it first, so that a volume that is not
\* monitored any more is not checked, rebuilt or backed up (monitor.go:27-33).
LoopsEnd ==
  req[Attacher] = "done" /\ ~reg
    ~> (cron = "exit" /\ \A l \in Loops : loop[l] = "exit") \/ crashed

\* While the settings can be read, the requests return: none is blocked on the
\* manager's lock for ever.  After a failure to read them at the attach, nobody
\* receives from updateCron (manager.go:241), and this does not hold.
MonitorRequestsReturn ==
  \A x \in MonitorRequests :
    req[x] \notin {"idle", "done", "told"} ~> req[x] \in {"done", "told"} \/ crashed \/ faults > 0

\* Once an update has reached RunJobs (cron.go:58-66), the jobs that run are the
\* ones of an update, and never again those that the attach has read.
JobsOfAnUpdate ==
  (\E u \in Updaters : req[u] = "told") /\ cron = "range"
    => \E u \in Updaters : req[u] \in {"received", "told"} /\ sched = sent[u]
----------------------------------------------------------------------------
(* What tests, comments and messages lead one to expect and the code does  *)
(* not keep: TLC finds a counterexample to each (see the README).          *)

\* A monitor that is closed leaves no goroutine behind: the one of the ticker
\* ends too (event.go:40-46).
TickersEnd ==
  req[Attacher] = "done" /\ ~reg ~> (\A l \in Loops : tick[l] = "off") \/ crashed

\* The jobs of UpdateRecurring run once it has returned (manager.go:445-455).
StoredJobsRun ==
  reg /\ cron = "range" /\ stored \notin Invalid
    /\ (\A x \in MonitorRequests : req[x] \in {"idle", "done", "told"}) => sched = stored
=============================================================================
