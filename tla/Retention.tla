----------------------------- MODULE Retention -----------------------------
(***************************************************************************)
(* The snapshots that a recurring job retains (manager/cron.go,            *)
(* snapshotTask; the two cleanups of backupTask follow the same scheme).   *)
(* Cron starts every run of a job in a goroutine of its own, so that runs  *)
(* overlap; the task object with its count and its cached list is shared   *)
(* by the runs, and replaced when the jobs are updated.                    *)
(*                                                                         *)
(* A snapshot is the number of its creation, by which listSnapshots sorts. *)
(***************************************************************************)
EXTENDS Integers, Sequences, FiniteSets

CONSTANTS
  Runs,       \* goroutines of the job
  Tasks,      \* the task objects are 1..Tasks
  Retains,    \* the values of job.Retain, which are not validated
  Nil,        \* a list that has not been read
  MaxSnaps,   \* bound on the snapshots
  MaxFaults,  \* bound on the failures of the engine
  MaxUser     \* bound on the snapshots that users delete

ASSUME RetentionAssumption ==
  /\ IsFiniteSet(Runs) /\ Nil \notin Runs
  /\ Tasks \in Nat \ {0} /\ Retains \subseteq Int
  /\ MaxSnaps \in Nat /\ MaxFaults \in Nat /\ MaxUser \in Nat

VARIABLES
  retain,  \* job.Retain of each task object
  live,    \* the snapshots of the job that are not removed
  made,    \* how many have been created
  cur,     \* the task object that cron runs
  count,   \* st.count
  cached,  \* st.cached
  holder,  \* which run holds st.Mutex
  pc, task,  \* where a run is, and of which task object
  faults, user

vars == <<retain, live, made, cur, count, cached, holder, pc, task, faults, user>>

\* The list never holds more snapshots than are counted, so that the cleanup
\* cannot come to the end of the list with the count below zero.
TypeOK ==
  /\ retain \in [1..Tasks -> Retains]
  /\ live \subseteq 1..made /\ made \in 0..MaxSnaps
  /\ cur \in 1..Tasks
  /\ count \in [1..Tasks -> Nat]
  /\ \A t \in 1..Tasks : cached[t] # Nil => cached[t] \in Seq(1..MaxSnaps) /\ Len(cached[t]) <= count[t]
  /\ holder \in [1..Tasks -> Runs \cup {Nil}]
  /\ pc \in [Runs -> {"idle", "create", "lock", "loop", "list", "inner"}]
  /\ task \in [Runs -> 1..Tasks]
  /\ faults \in 0..MaxFaults /\ user \in 0..MaxUser

Init ==
  /\ retain \in [1..Tasks -> Retains]
  /\ live = {} /\ made = 0 /\ cur = 1 /\ faults = 0 /\ user = 0
  /\ count = [t \in 1..Tasks |-> 0] /\ cached = [t \in 1..Tasks |-> Nil]
  /\ holder = [t \in 1..Tasks |-> Nil]
  /\ pc = [r \in Runs |-> "idle"] /\ task = [r \in Runs |-> 1]

Goto(r, p) == pc' = [pc EXCEPT ![r] = p]
Fault == faults < MaxFaults /\ faults' = faults + 1

\* cleanup returns, and st.Mutex is unlocked.
Return(r) == Goto(r, "idle") /\ holder' = [holder EXCEPT ![task[r]] = Nil]
----------------------------------------------------------------------------
Fire(r) ==
  /\ pc[r] = "idle" /\ made < MaxSnaps /\ Goto(r, "create")
  /\ task' = [task EXCEPT ![r] = cur]
  /\ UNCHANGED <<retain, live, made, cur, count, cached, holder, faults, user>>

\* Without retention cleanup returns at once.
AfterCreate(t) == IF retain[t] = 0 THEN "idle" ELSE "lock"

Create(r) ==
  /\ pc[r] = "create"
  /\ \/ /\ made < MaxSnaps /\ made' = made + 1 /\ live' = live \cup {made + 1}
        /\ Goto(r, AfterCreate(task[r])) /\ UNCHANGED faults
     \/ Fault /\ Goto(r, "idle") /\ UNCHANGED <<live, made>>
  /\ UNCHANGED <<retain, cur, count, cached, holder, task, user>>

\* Mutant: the new snapshot is not counted.
LockTaskUncounted(r) ==
  /\ pc[r] = "lock" /\ holder[task[r]] = Nil
  /\ holder' = [holder EXCEPT ![task[r]] = r] /\ Goto(r, "loop")
  /\ UNCHANGED <<retain, live, made, cur, count, cached, task, faults, user>>

LockTask(r) ==
  /\ pc[r] = "lock" /\ holder[task[r]] = Nil
  /\ holder' = [holder EXCEPT ![task[r]] = r] /\ Goto(r, "loop")
  /\ count' = [count EXCEPT ![task[r]] = @ + 1]
  /\ UNCHANGED <<retain, live, made, cur, cached, task, faults, user>>

\* Mutant: the loop looks for an empty list instead of one never read.
UnreadEmpty(t) == cached[t] \in {Nil, <<>>}

Unread(t) == cached[t] = Nil

\* The condition of the outer loop.
Loop(r) ==
  /\ pc[r] = "loop"
  /\ LET t == task[r] IN
     IF Unread(t) \/ count[t] > retain[t]
     THEN Goto(r, IF cached[t] \in {Nil, <<>>} THEN "list" ELSE "inner") /\ UNCHANGED holder
     ELSE Return(r)
  /\ UNCHANGED <<retain, live, made, cur, count, cached, task, faults, user>>

\* Mutant: the newest snapshot comes first.
ListSortedDown ==
  {q \in [1..Cardinality(live) -> live] : \A i, j \in DOMAIN q : i < j => q[i] > q[j]}

\* What listSnapshots returns: all the snapshots, sorted by creation.
ListSorted ==
  {q \in [1..Cardinality(live) -> live] : \A i, j \in DOMAIN q : i < j => q[i] < q[j]}

ListSnapshots(r) ==
  /\ pc[r] = "list"
  /\ \/ /\ \E q \in ListSorted :
             /\ cached' = [cached EXCEPT ![task[r]] = q]
             /\ count' = [count EXCEPT ![task[r]] = Len(q)]
        /\ Goto(r, "inner") /\ UNCHANGED <<holder, faults>>
     \/ Fault /\ Return(r) /\ UNCHANGED <<cached, count>>
  /\ UNCHANGED <<retain, live, made, cur, task, user>>

\* Mutant: one snapshot too many is removed.
SurplusEqual(t) == cached[t] # <<>> /\ count[t] >= retain[t]

\* The condition of the inner loop.
Surplus(t) == cached[t] # <<>> /\ count[t] > retain[t]

\* The engine refuses a snapshot that is gone, or answers that it is.
DeleteSnapshot(r) ==
  /\ pc[r] = "inner" /\ Surplus(task[r])
  /\ LET t == task[r]
         s == Head(cached[t]) IN
     \/ /\ live' = live \ {s} /\ cached' = [cached EXCEPT ![t] = Tail(@)]
        /\ count' = [count EXCEPT ![t] = @ - 1]
        /\ UNCHANGED <<pc, holder, faults>>
     \/ /\ IF s \in live THEN Fault ELSE UNCHANGED faults
        /\ Return(r) /\ UNCHANGED <<live, cached, count>>
  /\ UNCHANGED <<retain, made, cur, task, user>>

Purge(r) ==
  /\ pc[r] = "inner" /\ ~Surplus(task[r])
  /\ \/ Goto(r, "loop") /\ UNCHANGED <<holder, faults>>
     \/ Fault /\ Return(r)
  /\ UNCHANGED <<retain, live, made, cur, count, cached, task, user>>

\* A user deletes a snapshot of the job.
UserDelete(s) ==
  /\ s \in live /\ user < MaxUser /\ user' = user + 1 /\ live' = live \ {s}
  /\ UNCHANGED <<retain, made, cur, count, cached, holder, pc, task, faults>>

\* The jobs are set anew: cron has a new task object, and the runs of the old
\* one go on.
SetJobs ==
  /\ cur < Tasks /\ cur' = cur + 1
  /\ UNCHANGED <<retain, live, made, count, cached, holder, pc, task, faults, user>>

RunStep(r) ==
  \/ Create(r) \/ LockTask(r) \/ Loop(r) \/ ListSnapshots(r) \/ DeleteSnapshot(r) \/ Purge(r)

\* All snapshots within the bound have been made.
Rest == made = MaxSnaps /\ (\A r \in Runs : pc[r] \in {"idle", "create"}) /\ UNCHANGED vars

Next ==
  \/ \E r \in Runs : Fire(r) \/ RunStep(r)
  \/ \E s \in 1..MaxSnaps : UserDelete(s)
  \/ SetJobs
  \/ Rest

Spec == Init /\ [][Next]_vars

\* The goroutines run and the engine answers.
FairSpec == Spec /\ \A r \in Runs : WF_vars(RunStep(r)) /\ SF_vars(LockTask(r))
----------------------------------------------------------------------------
(* Properties.                                                             *)

Cleaned(r) == pc[r] = "inner" /\ DeleteSnapshot(r) /\ live' # live

\* A cleanup removes the oldest snapshot that is left (cron.go:185), also with
\* a list read long ago, by another run, and with users deleting snapshots;
\* and a job whose Retain is 0 never removes one (cron.go:168).
DeletesOldest ==
  [][\A r \in Runs : Cleaned(r) =>
       /\ retain[task[r]] # 0
       /\ \A s \in live \ live' : \A q \in live' : s < q]_vars

\* Runs that overlap count a snapshot twice when one lists what the other has
\* just created (cron.go:174,182).  The damage is bounded: each other run takes
\* at most one snapshot too many, and it does not add up from one reading of
\* the list to the next.
KeepsMost ==
  [][\A r \in Runs : Cleaned(r) /\ cur = 1 /\ user = 0 =>
       Cardinality(live') >= retain[1] - (Cardinality(Runs) - 1)]_vars

\* When no run is under way there are no more snapshots than the job retains,
\* as long as the engine did not fail and the jobs were not updated, although
\* the runs overlap.
NotTooMany ==
  /\ \A r \in Runs : pc[r] \in {"idle", "create"}
  /\ faults = 0 /\ user = 0 /\ cur = 1 /\ retain[1] > 0
  => Cardinality(live) <= retain[1]

\* Every cleanup ends, unless Retain is negative.
CleanupReturns ==
  \A r \in Runs :
    pc[r] \in {"lock", "loop", "list", "inner"} /\ retain[task[r]] >= 0
      ~> pc[r] \in {"idle", "create"}
-----------------------------------------------------------------------------
(* What tests and messages lead one to expect and the code does not keep:  *)
(* TLC finds a counterexample to each (see the README).                    *)

\* A cleanup never leaves fewer snapshots than the job retains: the test of
\* retention counts them (test_basic.py:171).
KeepsRetained ==
  [][\A r \in Runs : Cleaned(r) => Cardinality(live') >= retain[task[r]]]_vars

\* The cleanup of any job that ValidateJobs accepts ends (cron.go:72-88).
AnyCleanupReturns ==
  \A r \in Runs : pc[r] = "loop" ~> pc[r] = "idle"
=============================================================================
