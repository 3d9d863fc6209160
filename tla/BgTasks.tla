------------------------------ MODULE BgTasks ------------------------------
(***************************************************************************)
(* The background tasks of one controller (controller/bgtasks.go) around   *)
(* its queue (TaskQueue): the goroutine runBgTasks that takes and runs the *)
(* tasks, the API requests and cron jobs that put backups, and the API     *)
(* request bgTaskQueue that lists them.                                    *)
(*                                                                         *)
(* The clients of the queue are the runner, the lister, the API requests   *)
(* that start a backup and the recurring jobs that do.                     *)
(***************************************************************************)
EXTENDS TaskQueue

CONSTANTS Runner,    \* the goroutine runBgTasks
          Lister,    \* the API handler BgTaskQueue
          Starters,  \* the API handlers in StartBackup
          Jobs       \* the cron goroutines in backupTask.Run

ASSUME BgAssumption ==
  /\ Clients = {Runner, Lister} \cup Starters \cup Jobs
  /\ Runner # Lister
  /\ {Runner, Lister} \cap (Starters \cup Jobs) = {}
  /\ Starters \cap Jobs = {}

VARIABLES
  rpc,      \* where runBgTasks is
  inHand,   \* the task its last Take returned, 0 for nil
  running,  \* c.runningBgTask, 0 for nil
  last,     \* c.lastRunBgTask, 0 for nil
  byValue,  \* for each number, whether the task holds a BackupBgTask value
  backedUp, \* the tasks for which `longhorn backup create` was run
  lpc,      \* where the handler BgTaskQueue is
  listing   \* what it has collected so far

runVars == <<rpc, inHand, running, last, backedUp>>
listVars == <<lpc, listing>>
bvars == <<qvars, runVars, listVars, byValue>>

BgTypeOK ==
  /\ TypeOK
  /\ rpc \in {"loop", "taking", "took", "run", "finish", "stop"}
  /\ {inHand, running, last} \subseteq 0..i
  /\ byValue \in Seq(BOOLEAN) /\ Len(byValue) = i
  /\ backedUp \subseteq 1..i
  /\ lpc \in {"idle", "latest", "list", "done"}
  /\ listing \in Seq(1..i)

BgInit ==
  /\ Init
  /\ rpc = "loop" /\ inHand = 0 /\ running = 0 /\ last = 0 /\ backedUp = {}
  /\ byValue = <<>>
  /\ lpc = "idle" /\ listing = <<>>
----------------------------------------------------------------------------
(* Putting tasks.                                                          *)

\* StartBackup of an existing snapshot; for a missing one it returns an error
\* and nothing changes.
StartBackup(c) ==
  c \in Starters /\ Call(c, "put") /\ UNCHANGED <<runVars, listVars, byValue>>

\* backupTask.Run, after it created its snapshot.
JobPut(c) ==
  c \in Jobs /\ Call(c, "put") /\ UNCHANGED <<runVars, listVars, byValue>>

\* StartBackup puts a *BackupBgTask, backupTask.Run a BackupBgTask.
TaskPut(c) ==
  /\ ReceivePut(c)
  /\ byValue' = Append(byValue, c \in Jobs)
  /\ UNCHANGED <<runVars, listVars>>

PutDropped(c) ==
  c \in Starters \cup Jobs /\ Recover(c) /\ UNCHANGED <<runVars, listVars, byValue>>
----------------------------------------------------------------------------
(* The goroutine runBgTasks.                                               *)

RunnerTake ==
  /\ rpc = "loop" /\ Call(Runner, "take")
  /\ rpc' = "taking"
  /\ UNCHANGED <<inHand, running, last, backedUp, listVars, byValue>>

\* Take returns: a task from the queue, the task just put, or nil.
RunnerTook ==
  /\ \/ AnswerTake(Runner) /\ inHand' = Head(queue)
     \/ AnswerWaiting(Runner) /\ inHand' = i
     \/ (CloseTake(Runner) \/ Recover(Runner)) /\ inHand' = 0
  /\ rpc' = "took"
  /\ UNCHANGED <<running, last, backedUp, listVars, byValue>>

\* Mutant: nil does not end the loop.
RunTaskBeginLoop ==
  /\ rpc = "took"
  /\ rpc' = IF inHand = 0 THEN "loop" ELSE "run"
  /\ running' = inHand
  /\ UNCHANGED <<qvars, inHand, last, backedUp, listVars, byValue>>

\* nil ends the loop; otherwise runTask records the task as running, under
\* bgTaskLock.
RunTaskBegin ==
  /\ rpc = "took"
  /\ IF inHand = 0
     THEN rpc' = "stop" /\ UNCHANGED running
     ELSE rpc' = "run" /\ running' = inHand
  /\ UNCHANGED <<qvars, inHand, last, backedUp, listVars, byValue>>

\* The type switch: only a *BackupBgTask is backed up, any other type is the
\* error "unknown task type".
RunTask ==
  /\ rpc = "run"
  /\ backedUp' = IF byValue[running] THEN backedUp ELSE backedUp \cup {running}
  /\ rpc' = "finish"
  /\ UNCHANGED <<qvars, inHand, running, last, listVars, byValue>>

\* Mutant: a task that failed ends the loop.
RunTaskEndStop ==
  /\ rpc = "finish"
  /\ last' = running /\ running' = 0 /\ inHand' = 0
  /\ rpc' = IF running \in backedUp THEN "loop" ELSE "stop"
  /\ UNCHANGED <<qvars, backedUp, listVars, byValue>>

\* The deferred function of runTask, under bgTaskLock.
RunTaskEnd ==
  /\ rpc = "finish"
  /\ last' = running /\ running' = 0 /\ inHand' = 0
  /\ rpc' = "loop"
  /\ UNCHANGED <<qvars, backedUp, listVars, byValue>>
----------------------------------------------------------------------------
(* The handler BgTaskQueue: append(LatestBgTasks(), List()...).            *)

One(t) == IF t = 0 THEN <<>> ELSE <<t>>

LatestBgTasks ==
  /\ lpc = "idle"
  /\ listing' = One(last) \o One(running)
  /\ lpc' = "latest"
  /\ UNCHANGED <<qvars, runVars, byValue>>

ListCall ==
  /\ lpc = "latest" /\ Call(Lister, "list")
  /\ lpc' = "list"
  /\ UNCHANGED <<runVars, listing, byValue>>

\* Mutant: the queue is listed before the tasks already taken.
ListReturnFirst ==
  /\ \/ AnswerList(Lister) /\ listing' = queue \o listing
     \/ Recover(Lister) /\ UNCHANGED listing
  /\ lpc' = "done"
  /\ UNCHANGED <<runVars, byValue>>

\* List returns the queue, or nil when it is closed.
ListReturn ==
  /\ \/ AnswerList(Lister) /\ listing' = listing \o queue
     \/ Recover(Lister) /\ UNCHANGED listing
  /\ lpc' = "done"
  /\ UNCHANGED <<runVars, byValue>>

ListDone ==
  /\ lpc = "done"
  /\ lpc' = "idle" /\ listing' = <<>>
  /\ UNCHANGED <<qvars, runVars, byValue>>
----------------------------------------------------------------------------
\* holdControllers closes the queue when the volume is detached.
CloseQueue == Close /\ UNCHANGED <<runVars, listVars, byValue>>

QueueInternal ==
  /\ (\E c \in Clients : ReceiveList(c) \/ ReceiveTake(c)) \/ Drain \/ Exit
  /\ UNCHANGED <<runVars, listVars, byValue>>

RunnerStep == RunnerTake \/ RunnerTook \/ RunTaskBegin \/ RunTask \/ RunTaskEnd
ListerStep == LatestBgTasks \/ ListCall \/ ListReturn \/ ListDone

BgNext ==
  \/ \E c \in Clients : StartBackup(c) \/ JobPut(c) \/ TaskPut(c) \/ PutDropped(c)
  \/ RunnerStep \/ ListerStep
  \/ CloseQueue \/ QueueInternal

\* The runner, the queue's goroutine and a handler waiting for an answer run;
\* the command `longhorn backup create` ends; a sender the queue keeps being
\* ready for is eventually received.
BgFairness ==
  /\ WF_bvars(RunnerStep) /\ WF_bvars(ListReturn)
  /\ WF_bvars(QueueInternal /\ (closed \/ srv # "range"))
  /\ SF_bvars(QueueInternal /\ ReceiveTake(Runner))
  /\ SF_bvars(QueueInternal /\ ReceiveList(Lister))
  /\ \A c \in Starters \cup Jobs : SF_bvars(TaskPut(c)) /\ WF_bvars(PutDropped(c))

BgSpec == BgInit /\ [][BgNext]_bvars
BgFairSpec == BgSpec /\ BgFairness
----------------------------------------------------------------------------
(* Properties.                                                             *)

\* Tasks finish one at a time, in the order of their numbers, none skipped
\* and none twice (bgtasks.go:33-61).
FinishInOrder == [][last' # last => last' = last + 1]_last

\* A listing shows each task at most once and in the order of the numbers:
\* the handler reads the finished and running tasks before the queue, so a
\* task that moves in between can only be missed (api/volume.go:87).
ListingInOrder ==
  \A j, k \in DOMAIN listing : j < k => listing[j] < listing[k]

\* Put and List never block for good, although the runner is busy, blocked in
\* Take or gone: runQueue only ever waits for a client that is already
\* receiving, and Close releases the senders (queue.go:17-48,57,66).
PutAndListReturn ==
  \A c \in Clients \ {Runner} : pc[c] # "idle" ~> pc[c] = "idle"

\* Every task put is eventually run, unless the queue is closed.
PutIsRun == \A k \in 1..MaxNum : i >= k ~> last >= k \/ closed

\* Closing the queue ends the runner (bgtasks.go:36-38): it does not outlive
\* the attachment of its volume by more than the task it is running.
CloseStopsRunner == closed ~> rpc = "stop"
-----------------------------------------------------------------------------
(* What tests, comments and messages lead one to expect and the code does  *)
(* not keep: TLC finds a counterexample to each (see the README).          *)

\* test_bgtasks computes the number of the first listed task from the length
\* of the listing (test_basic.py:210): a listing has no gaps.
ListingHasNoGap ==
  lpc = "done" => \A j \in DOMAIN listing : j > 1 => listing[j] = listing[j - 1] + 1

\* A recurring backup (cron.go:219-230) that was run has been backed up.
RecurringIsBackedUp == \A t \in 1..last : byValue[t] => t \in backedUp
=============================================================================
