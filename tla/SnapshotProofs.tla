--------------------------- MODULE SnapshotProofs ---------------------------
(***************************************************************************)
(* The purge of removed snapshots and the cleanup of the recurring jobs,   *)
(* which ends with a purge, are right for any number of callers,           *)
(* snapshots, jobs and runs.                                               *)
(*                                                                         *)
(* Purge: two purges never run together, no place in the queue leaks, and  *)
(* what was removed before a purge that succeeded is gone when it returns. *)
(*                                                                         *)
(* Retention: a cleanup deletes the oldest snapshots first, never below    *)
(* what the job retains, and leaves no more of them than that and the runs *)
(* that have yet to clean up.                                              *)
(***************************************************************************)
EXTENDS Purge, Retention, FiniteSetTheorems, SequenceTheorems, TLAPS

\* Most leaves are first-order and Zenon takes them; SMT takes those that cite
\* it.
USE Zenon

(* Retention.                                                              *)

\* TypeOK without what the lists hold.
Types ==
  /\ retain \in [1..Tasks -> Int]
  /\ live \subseteq 1..made /\ made \in Nat
  /\ cur \in 1..Tasks
  /\ count \in [1..Tasks -> Nat]
  /\ cached \in [1..Tasks -> Seq(Nat) \cup {Nil}]
  /\ holder \in [1..Tasks -> Runs \cup {Nil}]
  /\ pc \in [Runs -> {"idle", "create", "lock", "loop", "list", "inner"}]
  /\ task \in [Runs -> 1..Tasks]
  /\ faults \in Nat /\ user \in Nat

\* The snapshots on a list.
On(q) == {q[i] : i \in 1..Len(q)}

\* A list, however old, is sorted, and a snapshot that is left and not on it is
\* younger than all that are; the count is never below its length.
Listed(t) ==
  /\ cached[t] \in Seq(Nat)
  /\ Len(cached[t]) <= count[t]
  /\ \A i \in 1..Len(cached[t]) : cached[t][i] <= made
  /\ \A i, j \in 1..Len(cached[t]) : i < j => cached[t][i] < cached[t][j]
  /\ \A s \in live \ On(cached[t]) : \A i \in 1..Len(cached[t]) : cached[t][i] < s

\* A run that cleans up has something to retain, holds the lock of its task,
\* and deletes from a list.
RunAt(r) ==
  /\ pc[r] \in {"lock", "loop", "list", "inner"} => retain[task[r]] # 0
  /\ pc[r] \in {"loop", "list", "inner"} => holder[task[r]] = r
  /\ pc[r] = "inner" => Listed(task[r])

ListInv ==
  /\ Types
  /\ \A t \in 1..Tasks : cached[t] = Nil \/ Listed(t)
  /\ \A r \in Runs : RunAt(r)

\* The invariant holds at the start.
LEMMA InitList == Init => ListInv
<1> SUFFICES ASSUME Init PROVE ListInv
  OBVIOUS
<1> USE RetentionAssumption
<1>1. Types
  <2>1. /\ retain \in [1..Tasks -> Int] /\ live \subseteq 1..made /\ made \in Nat
        /\ cur \in 1..Tasks /\ faults \in Nat /\ user \in Nat
    <3>1. retain \in [1..Tasks -> Retains] /\ live = {} /\ made = 0 /\ cur = 1 /\ faults = 0 /\ user = 0
      BY DEF Init
    <3>2. 1 \in 1..Tasks /\ Retains \subseteq Int
      BY SMT
    <3>3. retain \in [1..Tasks -> Int]
      BY <3>1, <3>2
    <3> QED BY <3>1, <3>2, <3>3
  <2>2. /\ count \in [1..Tasks -> Nat] /\ holder \in [1..Tasks -> Runs \cup {Nil}]
        /\ cached \in [1..Tasks -> Seq(Nat) \cup {Nil}]
    BY DEF Init
  <2>3. /\ pc \in [Runs -> {"idle", "create", "lock", "loop", "list", "inner"}]
        /\ task \in [Runs -> 1..Tasks]
    BY SMT DEF Init
  <2> QED BY <2>1, <2>2, <2>3 DEF Types
<1>2. \A t \in 1..Tasks : cached[t] = Nil
  BY DEF Init
<1>3. \A r \in Runs : pc[r] = "idle"
  BY DEF Init
<1> QED BY <1>1, <1>2, <1>3 DEF ListInv, RunAt

\* The rest of a list.
LEMMA TailOfList ==
  ASSUME NEW q \in Seq(Nat), q # <<>>
  PROVE  /\ Tail(q) \in Seq(Nat) /\ Len(Tail(q)) = Len(q) - 1 /\ Len(q) \in Nat \ {0}
         /\ Head(q) = q[1]
         /\ \A i \in 1..Len(q) - 1 : Tail(q)[i] = q[i + 1]
         /\ \A s \in On(q) : s = Head(q) \/ s \in On(Tail(q))
         /\ On(Tail(q)) \subseteq On(q) /\ Head(q) \in On(q)
<1>1. /\ Tail(q) \in Seq(Nat) /\ Len(Tail(q)) = Len(q) - 1 /\ Len(q) \in Nat \ {0}
      /\ Head(q) = q[1]
      /\ \A i \in 1..Len(q) - 1 : Tail(q)[i] = q[i + 1]
  BY HeadTailProperties, EmptySeq, LenProperties, SMT
<1>2. ASSUME NEW s \in On(q) PROVE s = Head(q) \/ s \in On(Tail(q))
  <2>1. PICK i \in 1..Len(q) : s = q[i]
    BY DEF On
  <2>2. CASE i = 1
    BY <1>1, <2>1, <2>2
  <2>3. CASE i # 1
    <3>1. i - 1 \in 1..Len(Tail(q)) /\ Tail(q)[i - 1] = s
      BY <1>1, <2>1, <2>3, SMT
    <3> QED BY <3>1 DEF On
  <2> QED BY <2>2, <2>3
<1>3. ASSUME NEW s \in On(Tail(q)) PROVE s \in On(q)
  <2>1. PICK i \in 1..Len(Tail(q)) : s = Tail(q)[i]
    BY DEF On
  <2>2. i + 1 \in 1..Len(q) /\ q[i + 1] = s
    BY <1>1, <2>1, SMT
  <2> QED BY <2>2 DEF On
<1>4. Head(q) \in On(q)
  BY <1>1, SMT DEF On
<1> QED BY <1>1, <1>2, <1>3, <1>4

\* A list that is not touched stays right while snapshots come and go and the
\* count grows.
LEMMA ListedKept ==
  ASSUME Types, NEW t \in 1..Tasks, Listed(t), cached'[t] = cached[t],
         count'[t] \in Nat, count[t] <= count'[t],
         made' \in Nat, made <= made', \A s \in live' \ live : made < s,
         live' \subseteq Nat
  PROVE  Listed(t)'
<1> DEFINE q == cached[t]
<1>1. /\ q \in Seq(Nat) /\ Len(q) \in Nat /\ Len(q) <= count[t] /\ count[t] \in Nat /\ made \in Nat
      /\ \A i \in 1..Len(q) : q[i] <= made /\ q[i] \in Nat
  <2>1. q \in Seq(Nat) /\ Len(q) <= count[t] /\ \A i \in 1..Len(q) : q[i] <= made
    BY DEF Listed
  <2>2. count[t] \in Nat /\ made \in Nat
    BY DEF Types
  <2> QED BY <2>1, <2>2, LenProperties, ElementOfSeq
<1>2. ASSUME NEW s \in live' \ On(q), NEW i \in 1..Len(q) PROVE q[i] < s
  <2>1. CASE s \in live
    BY <1>2, <2>1 DEF Listed
  <2>2. CASE s \notin live
    BY <1>1, <1>2, <2>2, SMT
  <2> QED BY <2>1, <2>2
<1>3. Len(q) <= count'[t] /\ \A i \in 1..Len(q) : q[i] <= made'
  BY <1>1, SMT
<1>4. \A i, j \in 1..Len(q) : i < j => q[i] < q[j]
  BY DEF Listed
<1> QED BY <1>1, <1>2, <1>3, <1>4 DEF Listed, On

\* A step of the run r, which may take or release the lock of its task and
\* change its list.
LEMMA RunStepKeeps ==
  ASSUME ListInv, NEW r \in Runs, NEW p \in {"idle", "create", "lock", "loop", "list", "inner"},
         Goto(r, p), Types', UNCHANGED <<retain, task>>,
         \A t \in 1..Tasks : Listed(t) => Listed(t)',
         \A t \in 1..Tasks : cached'[t] = cached[t] \/ Listed(t)',
         holder[task[r]] \in {Nil, r},
         \A t \in 1..Tasks \ {task[r]} : holder'[t] = holder[t],
         RunAt(r)'
  PROVE  ListInv'
<1>1. \A t \in 1..Tasks : (cached[t] = Nil \/ Listed(t))'
  BY DEF ListInv
<1>2. ASSUME NEW q \in Runs \ {r} PROVE RunAt(q)'
  <2>1. pc'[q] = pc[q] /\ task'[q] = task[q] /\ task[q] \in 1..Tasks
    BY DEF Goto, ListInv, Types
  <2>2. RunAt(q)
    BY DEF ListInv
  <2>3. holder[task[q]] = q => holder'[task[q]] = q
    BY <2>1, RetentionAssumption
  <2>4. Listed(task[q]) => Listed(task[q])'
    BY <2>1
  <2> QED BY <2>1, <2>2, <2>3, <2>4 DEF RunAt
<1> QED BY <1>1, <1>2 DEF ListInv

LEMMA FireKeeps ==
  ASSUME ListInv, NEW r \in Runs, Fire(r)
  PROVE  ListInv'
<1>1. /\ pc' = [pc EXCEPT ![r] = "create"] /\ task' = [task EXCEPT ![r] = cur]
      /\ UNCHANGED <<retain, live, made, cur, count, cached, holder, faults, user>>
  BY DEF Fire, Goto
<1>2. Types'
  BY <1>1 DEF ListInv, Types
<1>3. \A t \in 1..Tasks : Listed(t)' = Listed(t)
  BY <1>1 DEF Listed, On
<1>4. ASSUME NEW q \in Runs PROVE RunAt(q)'
  <2>1. CASE q = r
    BY <1>1, <2>1 DEF ListInv, Types, RunAt
  <2>2. CASE q # r
    <3>1. pc'[q] = pc[q] /\ task'[q] = task[q] /\ task[q] \in 1..Tasks /\ RunAt(q)
      BY <1>1, <2>2 DEF ListInv, Types
    <3> QED BY <1>1, <1>3, <3>1 DEF RunAt
  <2> QED BY <2>1, <2>2
<1> QED BY <1>1, <1>2, <1>3, <1>4 DEF ListInv

LEMMA CreateKeeps ==
  ASSUME ListInv, NEW r \in Runs, Create(r)
  PROVE  ListInv'
<1>1. /\ pc[r] = "create" /\ UNCHANGED <<retain, cur, count, cached, holder, task, user>>
      /\ \/ /\ made' = made + 1 /\ live' = live \cup {made + 1} /\ UNCHANGED faults
            /\ Goto(r, AfterCreate(task[r]))
         \/ Fault /\ Goto(r, "idle") /\ UNCHANGED <<live, made>>
  BY DEF Create
<1>2. PICK p \in {"idle", "lock"} : Goto(r, p) /\ (p = "lock" => retain[task[r]] # 0)
  BY <1>1 DEF AfterCreate
<1>3. /\ made \in Nat /\ live \subseteq 1..made /\ faults \in Nat /\ user \in Nat
      /\ pc \in [Runs -> {"idle", "create", "lock", "loop", "list", "inner"}]
  BY DEF ListInv, Types
<1>4. /\ made' \in Nat /\ made <= made' /\ live' \subseteq 1..made' /\ faults' \in Nat
      /\ \A s \in live' \ live : made < s
  <2>1. CASE made' = made + 1 /\ live' = live \cup {made + 1} /\ UNCHANGED faults
    BY <1>3, <2>1, SMT
  <2>2. CASE Fault /\ UNCHANGED <<live, made>>
    BY <1>3, <2>2, SMT DEF Fault
  <2> QED BY <1>1, <2>1, <2>2
<1>5. Types'
  BY <1>1, <1>2, <1>4 DEF ListInv, Types, Goto
<1>6. ASSUME NEW t \in 1..Tasks, Listed(t) PROVE Listed(t)'
  <2>1. Types
    BY DEF ListInv
  <2>2. count[t] \in Nat /\ count'[t] = count[t] /\ cached'[t] = cached[t]
    BY <1>1, <2>1 DEF Types
  <2>3. live' \subseteq Nat
    BY <1>4, SMT
  <2> QED BY <1>4, <1>6, <2>1, <2>2, <2>3, ListedKept, SMT
<1>7. pc'[r] = p
  BY <1>2, <1>3 DEF Goto
<1>8. RunAt(r)'
  BY <1>1, <1>2, <1>7 DEF RunAt
<1>9. ASSUME NEW q \in Runs \ {r} PROVE RunAt(q)'
  <2>1. pc'[q] = pc[q] /\ task'[q] = task[q] /\ task[q] \in 1..Tasks /\ RunAt(q)
    BY <1>1, <1>2 DEF Goto, ListInv, Types
  <2> QED BY <1>1, <1>6, <2>1 DEF RunAt
<1>10. \A t \in 1..Tasks : (cached[t] = Nil \/ Listed(t))'
  BY <1>1, <1>6 DEF ListInv
<1> QED BY <1>5, <1>8, <1>9, <1>10 DEF ListInv

LEMMA LockKeeps ==
  ASSUME ListInv, NEW r \in Runs, LockTask(r)
  PROVE  ListInv'
<1> DEFINE t == task[r]
<1>1. /\ pc[r] = "lock" /\ holder[t] = Nil /\ holder' = [holder EXCEPT ![t] = r] /\ Goto(r, "loop")
      /\ count' = [count EXCEPT ![t] = @ + 1]
      /\ UNCHANGED <<retain, live, made, cur, cached, task, faults, user>>
  BY DEF LockTask
<1>2. Types /\ t \in 1..Tasks /\ made \in Nat /\ live \subseteq Nat /\ \A u \in 1..Tasks : count[u] \in Nat
  <2>1. Types
    BY DEF ListInv
  <2>2. t \in 1..Tasks /\ made \in Nat /\ live \subseteq 1..made /\ \A u \in 1..Tasks : count[u] \in Nat
    BY <2>1 DEF Types
  <2> QED BY <2>1, <2>2, SMT
<1>3. Types'
  <2>1. count' \in [1..Tasks -> Nat]
    BY <1>1, <1>2, SMT DEF Types
  <2> QED BY <1>1, <1>2, <2>1 DEF Types, Goto
<1>4. ASSUME NEW u \in 1..Tasks, Listed(u) PROVE Listed(u)'
  <2>1. count'[u] \in Nat /\ count[u] <= count'[u]
    BY <1>1, <1>2, SMT DEF Types
  <2> QED BY <1>1, <1>2, <1>4, <2>1, ListedKept, SMT
<1>5. RunAt(r)'
  <2>1. RunAt(r) /\ pc'[r] = "loop" /\ holder'[t] = r
    BY <1>1, <1>2 DEF ListInv, Types, Goto
  <2> QED BY <1>1, <2>1 DEF RunAt
<1>6. \A u \in 1..Tasks \ {t} : holder'[u] = holder[u]
  BY <1>1, <1>2 DEF Types
<1> QED BY <1>1, <1>3, <1>4, <1>5, <1>6, RunStepKeeps

LEMMA LoopKeeps ==
  ASSUME ListInv, NEW r \in Runs, Loop(r)
  PROVE  ListInv'
<1> DEFINE t == task[r]
<1>1. /\ pc[r] = "loop" /\ UNCHANGED <<retain, live, made, cur, count, cached, task, faults, user>>
      /\ \/ Return(r)
         \/ Goto(r, "list") /\ UNCHANGED holder
         \/ Goto(r, "inner") /\ cached[t] # Nil /\ UNCHANGED holder
  BY DEF Loop
<1>2. Types /\ RunAt(r) /\ t \in 1..Tasks /\ holder[t] = r
  <2>1. Types /\ RunAt(r)
    BY DEF ListInv
  <2> QED BY <1>1, <2>1 DEF Types, RunAt
<1>3. \A u \in 1..Tasks : Listed(u)' = Listed(u) /\ cached'[u] = cached[u]
  BY <1>1 DEF Listed, On
<1>4. Types' /\ \A u \in 1..Tasks \ {t} : holder'[u] = holder[u]
  BY <1>1, <1>2 DEF Types, Return, Goto
<1>5. retain[t] # 0
  BY <1>1, <1>2 DEF RunAt
<1>6. CASE Return(r)
  <2>1. Goto(r, "idle") /\ pc'[r] = "idle"
    BY <1>2, <1>6 DEF Return, Goto, Types
  <2>2. RunAt(r)'
    BY <2>1 DEF RunAt
  <2> QED BY <1>1, <1>2, <1>3, <1>4, <2>1, <2>2, RunStepKeeps
<1>7. CASE Goto(r, "list") /\ UNCHANGED holder
  <2>1. pc'[r] = "list"
    BY <1>2, <1>7 DEF Goto, Types
  <2>2. RunAt(r)'
    BY <1>1, <1>2, <1>5, <1>7, <2>1 DEF RunAt
  <2> QED BY <1>1, <1>2, <1>3, <1>4, <1>7, <2>2, RunStepKeeps
<1>8. CASE Goto(r, "inner") /\ cached[t] # Nil /\ UNCHANGED holder
  <2>1. pc'[r] = "inner"
    BY <1>2, <1>8 DEF Goto, Types
  <2>2. Listed(t)
    BY <1>2, <1>8 DEF ListInv
  <2>3. task'[r] = t /\ Listed(task[r])'
    BY <1>1, <2>2 DEF Listed, On
  <2>4. RunAt(r)'
    BY <1>1, <1>2, <1>5, <1>8, <2>1, <2>3 DEF RunAt
  <2> QED BY <1>1, <1>2, <1>3, <1>4, <1>8, <2>4, RunStepKeeps
<1> QED BY <1>1, <1>6, <1>7, <1>8

\* A run that returns from cleanup with an error, or has nothing left to delete.
LEMMA PurgeKeeps ==
  ASSUME ListInv, NEW r \in Runs, pc[r] \in {"list", "inner"}, faults' \in Nat,
         UNCHANGED <<retain, live, made, cur, count, cached, task, user>>,
         Return(r) \/ (Goto(r, "loop") /\ UNCHANGED holder)
  PROVE  ListInv'
<1> DEFINE t == task[r]
<1>2. Types /\ RunAt(r) /\ t \in 1..Tasks /\ holder[t] = r /\ retain[t] # 0
  <2>1. Types /\ RunAt(r)
    BY DEF ListInv
  <2> QED BY <2>1 DEF Types, RunAt
<1>3. \A u \in 1..Tasks : Listed(u)' = Listed(u) /\ cached'[u] = cached[u]
  BY DEF Listed, On
<1>4. Types' /\ \A u \in 1..Tasks \ {t} : holder'[u] = holder[u]
  BY <1>2 DEF Types, Return, Goto
<1>5. PICK p \in {"idle", "loop"} : Goto(r, p) /\ (p = "loop" => UNCHANGED holder)
  BY DEF Return
<1>6. pc'[r] = p
  BY <1>2, <1>5 DEF Goto, Types
<1>7. RunAt(r)'
  BY <1>2, <1>5, <1>6 DEF RunAt
<1> QED BY <1>2, <1>3, <1>4, <1>5, <1>7, RunStepKeeps

\* The list that is read.
LEMMA SortedList ==
  ASSUME Types, NEW q \in ListSorted
  PROVE  /\ q \in Seq(Nat) /\ Len(q) = Cardinality(live) /\ Len(q) \in Nat
         /\ \A i \in 1..Len(q) : q[i] \in live /\ q[i] <= made
         /\ \A i, j \in 1..Len(q) : i < j => q[i] < q[j]
         /\ On(q) = live
<1>1. IsFiniteSet(live) /\ Cardinality(live) \in Nat /\ live \subseteq Nat /\ \A s \in live : s <= made
  <2>1. made \in Nat /\ live \subseteq 1..made
    BY DEF Types
  <2>2. IsFiniteSet(1..made)
    BY <2>1, FS_Interval, SMT
  <2>3. IsFiniteSet(live)
    BY <2>1, <2>2, FS_Subset
  <2> QED BY <2>1, <2>3, FS_CardinalityType, SMT
<1>2. q \in [1..Cardinality(live) -> live] /\ \A i, j \in DOMAIN q : i < j => q[i] < q[j]
  BY DEF ListSorted
<1>3. q \in Seq(live)
  BY <1>1, <1>2, SeqDef
<1>4. Len(q) = Cardinality(live) /\ DOMAIN q = 1..Len(q)
  BY <1>1, <1>2, <1>3, LenProperties, SMT
<1>5. q \in Seq(Nat)
  BY <1>1, <1>3, SeqMonotonic
<1>6. q \in Surjection(1..Cardinality(live), live)
  <2>1. ASSUME NEW i \in 1..Cardinality(live), NEW j \in 1..Cardinality(live), i # j
        PROVE  q[i] # q[j]
    <3>1. q[i] \in Nat /\ q[j] \in Nat /\ i \in DOMAIN q /\ j \in DOMAIN q
      BY <1>1, <1>2
    <3>2. q[i] < q[j] \/ q[j] < q[i]
      BY <1>2, <2>1, <3>1, SMT
    <3> QED BY <3>1, <3>2, SMT
  <2>2. q \in Injection(1..Cardinality(live), live)
    BY <1>2, <2>1 DEF Injection, IsInjective
  <2>3. Cardinality(1..Cardinality(live)) = Cardinality(live)
    BY <1>1, FS_Interval, SMT
  <2> QED BY <1>1, <2>2, <2>3, FS_Injection
<1>7. \A s \in live : \E i \in 1..Len(q) : q[i] = s
  BY <1>4, <1>6 DEF Surjection
<1> QED BY <1>1, <1>2, <1>4, <1>5, <1>7 DEF On

LEMMA ListSnapshotsKeeps ==
  ASSUME ListInv, NEW r \in Runs, ListSnapshots(r)
  PROVE  ListInv'
<1> DEFINE t == task[r]
<1>1. /\ pc[r] = "list" /\ UNCHANGED <<retain, live, made, cur, task, user>>
  BY DEF ListSnapshots
<1>2. CASE Fault /\ Return(r) /\ UNCHANGED <<cached, count>>
  <2>1. faults' \in Nat
    BY <1>2, SMT DEF Fault, ListInv, Types
  <2> QED BY <1>1, <1>2, <2>1, PurgeKeeps
<1>3. ASSUME NEW q \in ListSorted, cached' = [cached EXCEPT ![t] = q],
             count' = [count EXCEPT ![t] = Len(q)], Goto(r, "inner"), UNCHANGED <<holder, faults>>
      PROVE  ListInv'
  <2>1. Types /\ RunAt(r)
    BY DEF ListInv
  <2>2. t \in 1..Tasks /\ holder[t] = r /\ retain[t] # 0 /\ made \in Nat /\ live \subseteq 1..made
    BY <1>1, <2>1 DEF Types, RunAt
  <2>3. /\ q \in Seq(Nat) /\ Len(q) \in Nat /\ On(q) = live
        /\ \A i \in 1..Len(q) : q[i] <= made
        /\ \A i, j \in 1..Len(q) : i < j => q[i] < q[j]
    BY <2>1, SortedList
  <2>4. /\ count' \in [1..Tasks -> Nat] /\ cached' \in [1..Tasks -> Seq(Nat) \cup {Nil}]
        /\ cached'[t] = q /\ count'[t] = Len(q)
        /\ \A u \in 1..Tasks \ {t} : cached'[u] = cached[u] /\ count'[u] = count[u]
    BY <1>3, <2>1, <2>2, <2>3 DEF Types
  <2>5. Types'
    BY <1>1, <1>3, <2>1, <2>4 DEF Types, Goto
  <2>6. ASSUME NEW u \in 1..Tasks, u = t PROVE Listed(u)'
    <3>1. cached'[u] = q /\ count'[u] = Len(q) /\ live' = live /\ made' = made
      BY <1>1, <2>4, <2>6
    <3>2. Len(q) <= count'[u] /\ live' \ On(q) = {}
      BY <2>3, <3>1, SMT
    <3> QED BY <2>3, <3>1, <3>2 DEF Listed
  <2>7. ASSUME NEW u \in 1..Tasks \ {t}, Listed(u) PROVE Listed(u)'
    <3>1. count[u] \in Nat /\ live \subseteq Nat
      BY <2>1, <2>2, SMT DEF Types
    <3> QED BY <1>1, <2>1, <2>2, <2>4, <2>7, <3>1, ListedKept, SMT
  <2>8. pc'[r] = "inner" /\ task'[r] = t
    BY <1>1, <1>3, <2>1 DEF Goto, Types
  <2>9. RunAt(r)'
    BY <1>1, <1>3, <2>2, <2>6, <2>8 DEF RunAt
  <2> QED BY <1>1, <1>3, <2>2, <2>4, <2>5, <2>6, <2>7, <2>9, RunStepKeeps
<1> QED BY <1>2, <1>3 DEF ListSnapshots

\* A list loses its head when the snapshot is deleted.
LEMMA ListedTail ==
  ASSUME Types, NEW t \in 1..Tasks, Listed(t), cached[t] # <<>>,
         cached'[t] = Tail(cached[t]), count'[t] = count[t] - 1,
         UNCHANGED made, live' = live \ {Head(cached[t])}
  PROVE  Listed(t)' /\ count'[t] \in Nat
<1> DEFINE q == cached[t]
<1>1. /\ q \in Seq(Nat) /\ Len(q) <= count[t]
      /\ \A i \in 1..Len(q) : q[i] <= made
      /\ \A i, j \in 1..Len(q) : i < j => q[i] < q[j]
      /\ \A s \in live \ On(q) : \A i \in 1..Len(q) : q[i] < s
  BY DEF Listed
<1>2. /\ Tail(q) \in Seq(Nat) /\ Len(Tail(q)) = Len(q) - 1 /\ Len(q) \in Nat \ {0}
      /\ \A i \in 1..Len(q) - 1 : Tail(q)[i] = q[i + 1]
      /\ \A s \in On(q) : s = Head(q) \/ s \in On(Tail(q))
  BY <1>1, TailOfList
<1>3. count[t] \in Nat /\ count'[t] \in Nat /\ Len(Tail(q)) <= count'[t]
  <2>1. count[t] \in Nat
    BY DEF Types
  <2> QED BY <1>1, <1>2, <2>1, SMT
<1>4. \A i \in 1..Len(Tail(q)) : i + 1 \in 1..Len(q) /\ Tail(q)[i] = q[i + 1]
  BY <1>2, SMT
<1>5. \A i \in 1..Len(Tail(q)) : Tail(q)[i] <= made
  BY <1>1, <1>4
<1>6. \A i, j \in 1..Len(Tail(q)) : i < j => Tail(q)[i] < Tail(q)[j]
  <2> SUFFICES ASSUME NEW i \in 1..Len(Tail(q)), NEW j \in 1..Len(Tail(q)), i < j
               PROVE  Tail(q)[i] < Tail(q)[j]
    OBVIOUS
  <2>1. i + 1 \in 1..Len(q) /\ j + 1 \in 1..Len(q) /\ i + 1 < j + 1
    BY <1>4, SMT
  <2>2. q[i + 1] < q[j + 1]
    BY <1>1, <2>1
  <2> QED BY <1>4, <2>2
<1>7. ASSUME NEW s \in live' \ On(Tail(q)), NEW i \in 1..Len(Tail(q)) PROVE Tail(q)[i] < s
  <2>1. s \in live \ On(q)
    BY <1>2, <1>7
  <2> QED BY <1>1, <1>4, <2>1
<1> QED BY <1>2, <1>3, <1>5, <1>6, <1>7 DEF Listed

LEMMA DeleteKeeps ==
  ASSUME ListInv, NEW r \in Runs, DeleteSnapshot(r)
  PROVE  ListInv'
<1> DEFINE t == task[r]
           s == Head(cached[t])
<1>1. pc[r] = "inner" /\ cached[t] # <<>> /\ UNCHANGED <<retain, made, cur, task, user>>
  BY DEF DeleteSnapshot, Surplus
<1>2. CASE Return(r) /\ UNCHANGED <<live, cached, count>> /\ (Fault \/ UNCHANGED faults)
  <2>1. faults' \in Nat
    BY <1>2, SMT DEF Fault, ListInv, Types
  <2> QED BY <1>1, <1>2, <2>1, PurgeKeeps
<1>3. CASE /\ live' = live \ {s} /\ cached' = [cached EXCEPT ![t] = Tail(@)]
           /\ count' = [count EXCEPT ![t] = @ - 1] /\ UNCHANGED <<pc, holder, faults>>
  <2>1. Types /\ RunAt(r)
    BY DEF ListInv
  <2>2. /\ t \in 1..Tasks /\ holder[t] = r /\ retain[t] # 0 /\ Listed(t)
        /\ made \in Nat /\ live \subseteq 1..made
    BY <1>1, <2>1 DEF Types, RunAt
  <2>3. /\ cached'[t] = Tail(cached[t]) /\ count'[t] = count[t] - 1
        /\ \A u \in 1..Tasks \ {t} : cached'[u] = cached[u] /\ count'[u] = count[u]
    BY <1>3, <2>1, <2>2 DEF Types
  <2>4. Listed(t)' /\ count'[t] \in Nat
    <3>1. ASSUME NEW u \in 1..Tasks, u = t PROVE Listed(u)' /\ count'[u] \in Nat
      BY <1>1, <1>3, <2>1, <2>2, <2>3, <3>1, ListedTail
    <3> QED BY <1>1, <2>2, <3>1
  <2>5. count' \in [1..Tasks -> Nat] /\ cached' \in [1..Tasks -> Seq(Nat) \cup {Nil}]
    <3>0. cached[t] \in Seq(Nat)
      BY <2>2 DEF Listed
    <3>1. Tail(cached[t]) \in Seq(Nat)
      BY <1>1, <3>0, TailOfList
    <3> QED BY <1>3, <2>1, <2>2, <2>3, <2>4, <3>1 DEF Types
  <2>6. Types'
    BY <1>1, <1>3, <2>1, <2>5 DEF Types
  <2>7. ASSUME NEW u \in 1..Tasks \ {t}, Listed(u) PROVE Listed(u)'
    <3>0. count[u] \in Nat
      BY <2>1 DEF Types
    <3>1. count[u] \in Nat /\ live' \subseteq Nat
      <4>1. live \subseteq Nat
        BY <2>2, SMT
      <4>2. live' \subseteq live
        BY <1>3
      <4> QED BY <3>0, <4>1, <4>2
    <3>2. /\ cached'[u] = cached[u] /\ count'[u] = count[u] /\ made' = made
          /\ \A x \in live' \ live : made < x
      BY <1>1, <1>3, <2>3
    <3> QED BY <2>1, <2>2, <2>7, <3>1, <3>2, ListedKept, SMT
  <2>8. RunAt(r)'
    BY <1>1, <1>3, <2>2, <2>4 DEF RunAt
  <2>9. Goto(r, "inner")
    BY <1>1, <1>3, <2>1 DEF Goto, Types
  <2>10. \A u \in 1..Tasks : (Listed(u) => Listed(u)') /\ (cached'[u] = cached[u] \/ Listed(u)')
    BY <1>1, <2>3, <2>4, <2>7
  <2> QED BY <1>1, <1>3, <2>2, <2>6, <2>8, <2>9, <2>10, RunStepKeeps
<1> QED BY <1>2, <1>3 DEF DeleteSnapshot

\* Every step preserves the invariant of the lists.
LEMMA StepList == ListInv /\ [Next]_vars => ListInv'
<1> SUFFICES ASSUME ListInv, [Next]_vars PROVE ListInv'
  OBVIOUS
<1>1. ASSUME NEW r \in Runs, Purge(r) PROVE ListInv'
  <2>1. faults' \in Nat
    BY <1>1, SMT DEF Purge, Fault, ListInv, Types
  <2> QED BY <1>1, <2>1, PurgeKeeps DEF Purge
<1>2. ASSUME UNCHANGED <<retain, made, count, cached, holder, pc, task, faults>>,
             live' \subseteq live, cur' \in 1..Tasks, user' \in Nat
      PROVE  ListInv'
  <2>1. Types
    BY DEF ListInv
  <2>2. Types'
    BY <1>2, <2>1 DEF Types
  <2>3. ASSUME NEW t \in 1..Tasks, Listed(t) PROVE Listed(t)'
    <3>1. count[t] \in Nat /\ made \in Nat /\ live \subseteq 1..made
      BY <2>1 DEF Types
    <3>2. live' \subseteq Nat
      BY <1>2, <3>1, SMT
    <3> QED BY <1>2, <2>1, <2>3, <3>1, <3>2, ListedKept, SMT
  <2>4. ASSUME NEW r \in Runs PROVE RunAt(r)'
    <3>1. RunAt(r) /\ task[r] \in 1..Tasks
      BY <2>1 DEF ListInv, Types
    <3> QED BY <1>2, <2>3, <3>1 DEF RunAt
  <2> QED BY <1>2, <2>2, <2>3, <2>4 DEF ListInv
<1>3. Types
  BY DEF ListInv
<1>4. ASSUME NEW s \in 1..MaxSnaps, UserDelete(s) PROVE ListInv'
  <2>1. cur' \in 1..Tasks /\ user' \in Nat
    BY <1>3, <1>4, SMT DEF UserDelete, Types
  <2> QED BY <1>2, <1>4, <2>1 DEF UserDelete
<1>5. CASE SetJobs
  <2>1. cur' \in 1..Tasks /\ user' \in Nat
    BY <1>3, <1>5, RetentionAssumption, SMT DEF SetJobs, Types
  <2> QED BY <1>2, <1>5, <2>1 DEF SetJobs
<1>6. CASE UNCHANGED vars
  <2>1. cur' \in 1..Tasks /\ user' \in Nat
    BY <1>3, <1>6 DEF vars, Types
  <2> QED BY <1>2, <1>6, <2>1 DEF vars
<1> QED
  BY <1>1, <1>4, <1>5, <1>6, FireKeeps, CreateKeeps, LockKeeps, LoopKeeps, ListSnapshotsKeeps, DeleteKeeps
  DEF Next, RunStep, Rest

LEMMA ListInvariant == Spec => []ListInv
BY InitList, StepList, PTL DEF Spec

\* A cleanup removes the oldest snapshot that is left (cron.go:185), also from a
\* list that another run has read long ago and while users delete snapshots; and
\* a job whose Retain is 0 never removes one.  For any number of runs, task
\* objects, snapshots and failures.
THEOREM RetentionDeletesOldest == Spec => DeletesOldest
<1>1. ListInv /\ [Next]_vars =>
        [\A r \in Runs : Cleaned(r) =>
           /\ retain[task[r]] # 0
           /\ \A s \in live \ live' : \A q \in live' : s < q]_vars
  <2> SUFFICES ASSUME ListInv, NEW r \in Runs, Cleaned(r)
               PROVE  /\ retain[task[r]] # 0
                      /\ \A s \in live \ live' : \A q \in live' : s < q
    OBVIOUS
  <2> DEFINE c == cached[task[r]]
  <2>1. /\ pc[r] = "inner" /\ c # <<>> /\ live' = live \ {Head(c)}
    BY DEF Cleaned, DeleteSnapshot, Surplus
  <2>2. RunAt(r)
    BY DEF ListInv
  <2>3. retain[task[r]] # 0 /\ Listed(task[r])
    BY <2>1, <2>2 DEF RunAt
  <2>4. /\ c \in Seq(Nat) /\ \A i, j \in 1..Len(c) : i < j => c[i] < c[j]
        /\ \A s \in live \ On(c) : \A i \in 1..Len(c) : c[i] < s
    BY <2>3 DEF Listed
  <2>5. Len(c) \in Nat \ {0} /\ Head(c) = c[1]
    BY <2>1, <2>4, TailOfList
  <2>6. ASSUME NEW q \in live' PROVE Head(c) < q
    <3>1. CASE q \in On(c)
      <4>1. PICK i \in 1..Len(c) : q = c[i]
        BY <3>1 DEF On
      <4>2. i # 1
        BY <2>1, <2>5, <2>6, <4>1
      <4>3. 1 \in 1..Len(c) /\ 1 < i
        BY <2>5, <4>2, SMT
      <4> QED BY <2>4, <2>5, <4>1, <4>3
    <3>2. CASE q \notin On(c)
      BY <2>1, <2>4, <2>5, <2>6, <3>2, SMT
    <3> QED BY <3>1, <3>2
  <2> QED BY <2>1, <2>3, <2>6
<1> QED BY <1>1, ListInvariant, PTL DEF Spec, DeletesOldest
----------------------------------------------------------------------------
(* How many snapshots there are.                                           *)

\* No user has deleted a snapshot, and the jobs are those of the attach.
Alone == user = 0 /\ cur = 1

\* The runs whose snapshot is not counted yet.
Waiting == {r \in Runs : pc[r] = "lock"}

\* The count and the snapshots to be counted are not less than the snapshots
\* there are, and more by what the other runs have counted twice at most.  The
\* lock is released with too many only after a failure.
Counted ==
  /\ retain[1] # 0 => Cardinality(live) <= count[1] + Cardinality(Waiting)
  /\ Runs # {} => count[1] + Cardinality(Waiting) <= Cardinality(live) + Cardinality(Runs) - 1

OneTask ==
  /\ \A r \in Runs : task[r] = 1
  /\ cached[1] = Nil \/ On(cached[1]) \subseteq live
  /\ \A r \in Runs : pc[r] = "inner" => On(cached[1]) \subseteq live
  /\ holder[1] # Nil => pc[holder[1]] \in {"loop", "list", "inner"}
  /\ faults = 0 /\ retain[1] > 0 /\ holder[1] = Nil => count[1] <= retain[1]

CountInv == Alone => OneTask /\ Counted

\* The numbers are natural numbers, and they change by one with their sets.
LEMMA Sizes ==
  ASSUME ListInv
  PROVE  /\ IsFiniteSet(live) /\ Cardinality(live) \in Nat
         /\ IsFiniteSet(Waiting) /\ Cardinality(Waiting) \in Nat
         /\ Cardinality(Runs) \in Nat /\ 1 \in 1..Tasks /\ count[1] \in Nat /\ retain[1] \in Int
         /\ \A r \in Runs : r \notin Waiting => Cardinality(Waiting) <= Cardinality(Runs) - 1
<1>1. made \in Nat /\ live \subseteq 1..made /\ count \in [1..Tasks -> Nat] /\ retain \in [1..Tasks -> Int]
  BY DEF ListInv, Types
<1>2. IsFiniteSet(live)
  <2>1. IsFiniteSet(1..made)
    BY <1>1, FS_Interval, SMT
  <2> QED BY <1>1, <2>1, FS_Subset
<1>3. IsFiniteSet(Runs) /\ Waiting \subseteq Runs /\ 1 \in 1..Tasks
  BY RetentionAssumption, SMT DEF Waiting
<1>4. IsFiniteSet(Waiting)
  BY <1>3, FS_Subset
<1>5. ASSUME NEW r \in Runs, r \notin Waiting PROVE Cardinality(Waiting) <= Cardinality(Runs) - 1
  <2>1. IsFiniteSet(Runs \ {r}) /\ Cardinality(Runs \ {r}) = Cardinality(Runs) - 1
    BY <1>3, FS_RemoveElement
  <2>2. Waiting \subseteq Runs \ {r}
    BY <1>3, <1>5
  <2> QED BY <2>1, <2>2, FS_Subset, SMT
<1> QED BY <1>1, <1>2, <1>3, <1>4, <1>5, FS_CardinalityType

LEMMA InitCount == Init => CountInv
<1> SUFFICES ASSUME Init PROVE CountInv
  OBVIOUS
<1>1. Waiting = {} /\ live = {} /\ 1 \in 1..Tasks
  BY RetentionAssumption, SMT DEF Init, Waiting
<1>2. count[1] = 0 /\ cached[1] = Nil /\ holder[1] = Nil /\ \A r \in Runs : task[r] = 1 /\ pc[r] = "idle"
  BY <1>1 DEF Init
<1>3. Cardinality({}) = 0 /\ Cardinality(Runs) \in Nat /\ (Runs # {} => Cardinality(Runs) # 0)
  BY RetentionAssumption, FS_EmptySet, FS_CardinalityType
<1>4. Counted
  BY <1>1, <1>2, <1>3, SMT DEF Counted
<1>5. retain \in [1..Tasks -> Int]
  BY InitList DEF ListInv, Types
<1>6. OneTask
  BY <1>1, <1>2, <1>5, SMT DEF OneTask
<1> QED BY <1>4, <1>6 DEF CountInv

\* A run that moves on joins or leaves those whose snapshot is not counted.
LEMMA Moves ==
  ASSUME ListInv, NEW r \in Runs, NEW p \in {"idle", "create", "lock", "loop", "list", "inner"}, Goto(r, p)
  PROVE  /\ Waiting' = IF p = "lock" THEN Waiting \cup {r} ELSE Waiting \ {r}
         /\ r \in Waiting <=> pc[r] = "lock"
         /\ pc'[r] = p /\ \A q \in Runs \ {r} : pc'[q] = pc[q]
<1>1. pc \in [Runs -> {"idle", "create", "lock", "loop", "list", "inner"}]
  BY DEF ListInv, Types
<1> QED BY <1>1 DEF Goto, Waiting

\* A run that is not at the lock leaves the number of those that are.
LEMMA NotWaiting ==
  ASSUME ListInv, NEW r \in Runs, NEW p \in {"idle", "create", "loop", "list", "inner"}, Goto(r, p), pc[r] # "lock"
  PROVE  Waiting' = Waiting
  BY Moves

LEMMA FireCount ==
  ASSUME ListInv, OneTask, Counted, Alone, NEW r \in Runs, Fire(r)
  PROVE  OneTask' /\ Counted'
<1>1. /\ pc[r] = "idle" /\ Goto(r, "create") /\ task' = [task EXCEPT ![r] = cur] /\ cur = 1
      /\ UNCHANGED <<retain, live, made, cur, count, cached, holder, faults, user>>
  BY DEF Fire, Alone
<1>2. Waiting' = Waiting
  BY <1>1, NotWaiting
<1>3. Counted'
  BY <1>1, <1>2 DEF Counted
<1>4. pc'[r] = "create" /\ \A q \in Runs \ {r} : pc'[q] = pc[q]
  BY <1>1, Moves
<1>5. task \in [Runs -> 1..Tasks] /\ holder \in [1..Tasks -> Runs \cup {Nil}] /\ 1 \in 1..Tasks
  BY Sizes DEF ListInv, Types
<1>6. OneTask'
  BY <1>1, <1>4, <1>5 DEF OneTask
<1> QED BY <1>3, <1>6

LEMMA CreateCount ==
  ASSUME ListInv, OneTask, Counted, NEW r \in Runs, Create(r)
  PROVE  OneTask' /\ Counted'
<1>1. /\ pc[r] = "create" /\ UNCHANGED <<retain, cur, count, cached, holder, task, user>> /\ task[r] = 1
  BY DEF Create, OneTask
<1>2. holder \in [1..Tasks -> Runs \cup {Nil}] /\ 1 \in 1..Tasks /\ faults \in Nat /\ made \in Nat /\ live \subseteq 1..made
  BY Sizes DEF ListInv, Types
<1>3. PICK p \in {"idle", "lock"} : Goto(r, p)
  BY DEF Create, AfterCreate
<1>4. pc'[r] = p /\ \A q \in Runs \ {r} : pc'[q] = pc[q]
  BY <1>3, Moves
<1>5. live \subseteq live' /\ (faults' = 0 => faults = 0)
  BY <1>2, SMT DEF Create, Fault
<1>6. OneTask'
  BY <1>1, <1>2, <1>4, <1>5 DEF OneTask
<1>7. CASE Fault /\ Goto(r, "idle") /\ UNCHANGED <<live, made>>
  <2>1. Waiting' = Waiting
    BY <1>1, <1>7, NotWaiting
  <2>2. Counted'
    BY <1>1, <1>7, <2>1 DEF Counted
  <2> QED BY <1>6, <2>2
<1>8. CASE live' = live \cup {made + 1} /\ Goto(r, AfterCreate(task[r]))
  <2>1. made + 1 \notin live
    BY <1>2, SMT
  <2>2. Cardinality(live') = Cardinality(live) + 1
    BY <1>8, <2>1, Sizes, FS_AddElement
  <2>0. Cardinality(live) \in Nat /\ Cardinality(Waiting) \in Nat /\ Cardinality(Runs) \in Nat /\ count[1] \in Nat
    BY Sizes
  <2>3. CASE retain[1] = 0
    <3>1. Waiting' = Waiting
      BY <1>1, <1>8, <2>3, NotWaiting DEF AfterCreate
    <3>2. Counted'
      BY <1>1, <2>0, <2>2, <2>3, <3>1, SMT DEF Counted
    <3> QED BY <1>6, <3>2
  <2>4. CASE retain[1] # 0
    <3>1. Waiting' = Waiting \cup {r} /\ r \notin Waiting
      BY <1>1, <1>8, <2>4, Moves DEF AfterCreate
    <3>2. Cardinality(Waiting') = Cardinality(Waiting) + 1
      BY <3>1, Sizes, FS_AddElement
    <3>3. Counted'
      BY <1>1, <2>0, <2>2, <3>2, SMT DEF Counted
    <3> QED BY <1>6, <3>3
  <2> QED BY <2>3, <2>4
<1> QED BY <1>7, <1>8 DEF Create

LEMMA LockCount ==
  ASSUME ListInv, OneTask, Counted, NEW r \in Runs, LockTask(r)
  PROVE  OneTask' /\ Counted'
<1>1. /\ pc[r] = "lock" /\ task[r] = 1 /\ holder' = [holder EXCEPT ![1] = r] /\ Goto(r, "loop")
      /\ count' = [count EXCEPT ![1] = @ + 1]
      /\ UNCHANGED <<retain, live, made, cur, cached, task, faults, user>>
  BY DEF LockTask, OneTask
<1>2. /\ holder \in [1..Tasks -> Runs \cup {Nil}] /\ 1 \in 1..Tasks /\ count \in [1..Tasks -> Nat]
      /\ r # Nil
  BY Sizes, RetentionAssumption DEF ListInv, Types
<1>3. /\ Waiting' = Waiting \ {r} /\ r \in Waiting
      /\ pc'[r] = "loop" /\ \A q \in Runs \ {r} : pc'[q] = pc[q]
  BY <1>1, Moves
<1>4. Cardinality(Waiting') = Cardinality(Waiting) - 1
  BY <1>3, Sizes, FS_RemoveElement
<1>5. holder'[1] = r /\ count'[1] = count[1] + 1
  BY <1>1, <1>2
<1>6. Counted'
  <2>1. Cardinality(live) \in Nat /\ Cardinality(Waiting) \in Nat /\ Cardinality(Runs) \in Nat /\ count[1] \in Nat
    BY Sizes
  <2> QED BY <1>1, <1>4, <1>5, <2>1, SMT DEF Counted
<1>7. OneTask'
  BY <1>1, <1>2, <1>3, <1>5 DEF OneTask
<1> QED BY <1>6, <1>7

\* A run in the cleanup moves on, or returns: after a failure, or because there
\* are not too many.
LEMMA CleanupCount ==
  ASSUME ListInv, OneTask, Counted, NEW r \in Runs, pc[r] \in {"loop", "list", "inner"},
         UNCHANGED <<retain, live, count, cached, task>>, faults' \in Nat,
         faults' = 0 => faults = 0,
         \/ Return(r) /\ (faults' = 0 /\ retain[1] > 0 => count[1] <= retain[1])
         \/ Goto(r, "loop") /\ UNCHANGED holder
         \/ Goto(r, "list") /\ UNCHANGED holder
         \/ Goto(r, "inner") /\ UNCHANGED holder /\ cached[1] # Nil
  PROVE  OneTask' /\ Counted'
<1>1. PICK p \in {"idle", "loop", "list", "inner"} :
        Goto(r, p) /\ (p # "idle" => UNCHANGED holder) /\ (p = "inner" => cached[1] # Nil)
  BY DEF Return
<1>2. Waiting' = Waiting
  BY <1>1, NotWaiting
<1>3. Counted'
  BY <1>2 DEF Counted
<1>4. pc'[r] = p /\ \A q \in Runs \ {r} : pc'[q] = pc[q]
  BY <1>1, Moves
<1>5. holder \in [1..Tasks -> Runs \cup {Nil}] /\ 1 \in 1..Tasks /\ task[r] = 1
  BY Sizes DEF ListInv, Types, OneTask
<1>0. /\ \A q \in Runs : task'[q] = 1
      /\ cached'[1] = Nil \/ On(cached'[1]) \subseteq live'
      /\ \A q \in Runs : pc'[q] = "inner" => On(cached'[1]) \subseteq live'
  <2>1. /\ \A q \in Runs : task[q] = 1
        /\ cached[1] = Nil \/ On(cached[1]) \subseteq live
        /\ \A q \in Runs : pc[q] = "inner" => On(cached[1]) \subseteq live
    BY DEF OneTask
  <2> QED BY <1>1, <1>4, <2>1
<1>6. CASE p # "idle"
  <2>1. holder'[1] # Nil => pc'[holder'[1]] \in {"loop", "list", "inner"}
    BY <1>1, <1>4, <1>5, <1>6 DEF OneTask
  <2>2. (faults = 0 /\ retain[1] > 0 /\ holder[1] = Nil => count[1] <= retain[1])'
    BY <1>1, <1>6 DEF OneTask
  <2> QED BY <1>0, <1>3, <2>1, <2>2 DEF OneTask
<1>7. CASE p = "idle"
  <2>1. Return(r) /\ (faults' = 0 /\ retain[1] > 0 => count[1] <= retain[1])
    BY <1>4, <1>7, Moves
  <2>2. holder'[1] = Nil
    BY <1>5, <2>1 DEF Return
  <2>3. (faults = 0 /\ retain[1] > 0 /\ holder[1] = Nil => count[1] <= retain[1])'
    BY <2>1
  <2> QED BY <1>0, <1>3, <2>2, <2>3 DEF OneTask
<1> QED BY <1>6, <1>7

LEMMA LoopCount ==
  ASSUME ListInv, OneTask, Counted, NEW r \in Runs, Loop(r)
  PROVE  OneTask' /\ Counted'
<1>1. pc[r] = "loop" /\ task[r] = 1 /\ UNCHANGED <<retain, live, made, cur, count, cached, task, faults, user>>
  BY DEF Loop, OneTask
<1>2. count[1] \in Nat /\ retain[1] \in Int /\ faults \in Nat
  BY Sizes DEF ListInv, Types
<1>3. CASE Return(r) /\ ~(count[1] > retain[1])
  <2>1. count[1] <= retain[1]
    BY <1>2, <1>3, SMT
  <2>2. /\ pc[r] \in {"loop", "list", "inner"} /\ UNCHANGED <<retain, live, count, cached, task>>
        /\ faults' \in Nat /\ (faults' = 0 => faults = 0)
    BY <1>1, <1>2
  <2> QED BY <1>3, <2>1, <2>2, CleanupCount
<1>4. CASE Goto(r, "list") /\ UNCHANGED holder
  BY <1>1, <1>2, <1>4, CleanupCount
<1>5. CASE Goto(r, "inner") /\ UNCHANGED holder /\ cached[1] # Nil
  BY <1>1, <1>2, <1>5, CleanupCount
<1> QED BY <1>1, <1>3, <1>4, <1>5 DEF Loop

LEMMA ListSnapshotsCount ==
  ASSUME ListInv, OneTask, Counted, NEW r \in Runs, ListSnapshots(r)
  PROVE  OneTask' /\ Counted'
<1>1. pc[r] = "list" /\ task[r] = 1 /\ UNCHANGED <<retain, live, made, cur, task, user>>
  BY DEF ListSnapshots, OneTask
<1>2. /\ holder \in [1..Tasks -> Runs \cup {Nil}] /\ 1 \in 1..Tasks /\ count \in [1..Tasks -> Nat]
      /\ cached \in [1..Tasks -> Seq(Nat) \cup {Nil}] /\ faults \in Nat /\ Types
  <2>1. Types
    BY DEF ListInv
  <2> QED BY <2>1, Sizes DEF Types
<1>3. CASE Fault /\ Return(r) /\ UNCHANGED <<cached, count>>
  <2>1. faults' \in Nat /\ faults' # 0
    BY <1>2, <1>3, SMT DEF Fault
  <2> QED BY <1>1, <1>3, <2>1, CleanupCount
<1>4. ASSUME NEW q \in ListSorted, cached' = [cached EXCEPT ![1] = q],
             count' = [count EXCEPT ![1] = Len(q)], Goto(r, "inner"), UNCHANGED <<holder, faults>>
      PROVE  OneTask' /\ Counted'
  <2>1. Len(q) = Cardinality(live) /\ On(q) = live
    BY <1>2, SortedList
  <2>2. cached'[1] = q /\ count'[1] = Cardinality(live)
    BY <1>2, <1>4, <2>1
  <2>3. Waiting' = Waiting /\ r \notin Waiting /\ pc'[r] = "inner" /\ \A x \in Runs \ {r} : pc'[x] = pc[x]
    BY <1>1, <1>4, NotWaiting, Moves
  <2>4. Cardinality(Waiting) <= Cardinality(Runs) - 1
    BY <2>3, Sizes
  <2>5. Counted'
    <3>1. Cardinality(live) \in Nat /\ Cardinality(Waiting) \in Nat /\ Cardinality(Runs) \in Nat /\ count[1] \in Nat
      BY Sizes
    <3> QED BY <1>1, <2>2, <2>3, <2>4, <3>1, SMT DEF Counted
  <2>6. holder[1] = r /\ r # Nil
    BY <1>1, RetentionAssumption DEF ListInv, RunAt
  <2>7. OneTask'
    BY <1>1, <1>4, <2>1, <2>2, <2>3, <2>6 DEF OneTask
  <2> QED BY <2>5, <2>7
<1> QED BY <1>1, <1>3, <1>4 DEF ListSnapshots

\* The head of the list that a run deletes from is there, and is not on the list
\* again.
LEMMA HeadIsLive ==
  ASSUME ListInv, OneTask, NEW r \in Runs, pc[r] = "inner", cached[1] # <<>>
  PROVE  /\ Head(cached[1]) \in live
         /\ On(Tail(cached[1])) \subseteq live \ {Head(cached[1])}
<1> DEFINE q == cached[1]
<1>1. On(q) \subseteq live /\ task[r] = 1
  BY DEF OneTask
<1>2. RunAt(r)
  BY DEF ListInv
<1>3. q \in Seq(Nat) /\ \A i, j \in 1..Len(q) : i < j => q[i] < q[j]
  BY <1>1, <1>2 DEF RunAt, Listed
<1>4. /\ Head(q) \in On(q) /\ On(Tail(q)) \subseteq On(q) /\ Head(q) = q[1]
      /\ Len(Tail(q)) = Len(q) - 1 /\ Len(q) \in Nat \ {0}
      /\ \A i \in 1..Len(q) - 1 : Tail(q)[i] = q[i + 1]
  BY <1>3, TailOfList
<1>5. ASSUME NEW i \in 1..Len(Tail(q)) PROVE Tail(q)[i] # Head(q)
  <2>1. i \in 1..Len(q) - 1 /\ 1 \in 1..Len(q) /\ i + 1 \in 1..Len(q) /\ 1 < i + 1
    BY <1>4, SMT
  <2>2. q[1] < q[i + 1] /\ q[1] \in Nat /\ q[i + 1] \in Nat
    BY <1>3, <2>1, ElementOfSeq
  <2> QED BY <1>4, <2>1, <2>2, SMT
<1> QED BY <1>1, <1>4, <1>5 DEF On

LEMMA DeleteCount ==
  ASSUME ListInv, OneTask, Counted, NEW r \in Runs, DeleteSnapshot(r)
  PROVE  OneTask' /\ Counted'
<1>1. /\ pc[r] = "inner" /\ task[r] = 1 /\ cached[1] # <<>> /\ UNCHANGED <<retain, made, cur, task, user>>
  BY DEF DeleteSnapshot, Surplus, OneTask
<1>2. /\ 1 \in 1..Tasks /\ count \in [1..Tasks -> Nat] /\ faults \in Nat
      /\ cached \in [1..Tasks -> Seq(Nat) \cup {Nil}]
  BY Sizes DEF ListInv, Types
<1>3. Head(cached[1]) \in live /\ On(Tail(cached[1])) \subseteq live \ {Head(cached[1])}
  BY <1>1, HeadIsLive
<1>4. CASE Return(r) /\ UNCHANGED <<live, cached, count>> /\ Fault
  <2>1. faults' \in Nat /\ faults' # 0
    BY <1>2, <1>4, SMT DEF Fault
  <2> QED BY <1>1, <1>4, <2>1, CleanupCount
<1>5. CASE /\ live' = live \ {Head(cached[1])} /\ cached' = [cached EXCEPT ![1] = Tail(@)]
           /\ count' = [count EXCEPT ![1] = @ - 1] /\ UNCHANGED <<pc, holder, faults>>
  <2>1. Cardinality(live') = Cardinality(live) - 1
    BY <1>3, <1>5, Sizes, FS_RemoveElement
  <2>2. count'[1] = count[1] - 1 /\ cached'[1] = Tail(cached[1]) /\ Waiting' = Waiting
    BY <1>2, <1>5 DEF Waiting
  <2>3. Counted'
    <3>1. Cardinality(live) \in Nat /\ Cardinality(Waiting) \in Nat /\ Cardinality(Runs) \in Nat /\ count[1] \in Nat
      BY Sizes
    <3> QED BY <1>1, <2>1, <2>2, <3>1, SMT DEF Counted
  <2>4. holder[1] = r /\ r # Nil
    BY <1>1, RetentionAssumption DEF ListInv, RunAt
  <2>5. On(cached'[1]) \subseteq live'
    BY <1>3, <1>5, <2>2
  <2>6. OneTask'
    BY <1>1, <1>5, <2>4, <2>5 DEF OneTask
  <2> QED BY <2>3, <2>6
<1> QED BY <1>1, <1>3, <1>4, <1>5 DEF DeleteSnapshot

\* Every step preserves the invariant of the count.
LEMMA StepCount == ListInv /\ CountInv /\ [Next]_vars => CountInv'
<1> SUFFICES ASSUME ListInv, CountInv, [Next]_vars, Alone' PROVE OneTask' /\ Counted'
  BY DEF CountInv
<1>1. cur \in Nat /\ user \in Nat /\ faults \in Nat /\ cur # 0
  <2>1. Types
    BY DEF ListInv
  <2> QED BY <2>1, SMT DEF Types
<1>2. CASE UNCHANGED vars
  <2>1. OneTask /\ Counted
    BY <1>2 DEF CountInv, Alone, vars
  <2>2. Waiting' = Waiting
    BY <1>2 DEF vars, Waiting
  <2>3. Counted'
    BY <1>2, <2>1, <2>2 DEF vars, Counted
  <2>4. OneTask'
    BY <1>2, <2>1 DEF vars, OneTask, On
  <2> QED BY <2>3, <2>4
<1>3. CASE SetJobs
  BY <1>1, <1>3, SMT DEF SetJobs, Alone
<1>4. ASSUME NEW s \in 1..MaxSnaps, UserDelete(s) PROVE FALSE
  BY <1>1, <1>4, SMT DEF UserDelete, Alone
<1>5. ASSUME NEW r \in Runs, Fire(r) \/ RunStep(r) PROVE OneTask' /\ Counted'
  <2>1. UNCHANGED <<cur, user>>
    <3>1. CASE Fire(r)
      BY <3>1 DEF Fire
    <3>2. CASE RunStep(r)
      BY <3>2 DEF RunStep, Create, LockTask, Loop, ListSnapshots, DeleteSnapshot, Purge
    <3> QED BY <1>5, <3>1, <3>2
  <2>2. Alone /\ OneTask /\ Counted
    BY <2>1 DEF CountInv, Alone
  <2>3. CASE Purge(r)
    <3>1. pc[r] = "inner" /\ UNCHANGED <<retain, live, count, cached, task>>
      BY <2>3 DEF Purge
    <3>2. faults' \in Nat /\ (faults' = 0 => faults = 0) /\ (Fault => faults' # 0)
      BY <1>1, <2>3, SMT DEF Purge, Fault
    <3> QED BY <2>2, <2>3, <3>1, <3>2, CleanupCount DEF Purge
  <2> QED
    BY <1>5, <2>2, <2>3, FireCount, CreateCount, LockCount, LoopCount, ListSnapshotsCount, DeleteCount
    DEF RunStep
<1> QED BY <1>2, <1>3, <1>4, <1>5 DEF Next, Rest

LEMMA CountInvariant == Spec => [](ListInv /\ CountInv)
BY InitList, StepList, InitCount, StepCount, PTL DEF Spec

\* When no run is under way there are no more snapshots than the job retains
\* (cron.go:166-199), however the runs have overlapped, as long as the engine
\* did not fail.  For any number of runs and snapshots.
THEOREM RetentionNotTooMany == Spec => []NotTooMany
<1>1. ListInv /\ CountInv => NotTooMany
  <2> SUFFICES ASSUME ListInv, CountInv, \A r \in Runs : pc[r] \in {"idle", "create"},
                      faults = 0, user = 0, cur = 1, retain[1] > 0
               PROVE  Cardinality(live) <= retain[1]
    BY DEF NotTooMany
  <2>1. OneTask /\ Counted
    BY DEF CountInv, Alone
  <2>2. Waiting = {} /\ Cardinality(Waiting) = 0
    BY FS_EmptySet DEF Waiting
  <2>3. holder[1] = Nil
    <3>1. holder[1] \in Runs \cup {Nil}
      BY Sizes DEF ListInv, Types
    <3> QED BY <2>1, <3>1 DEF OneTask
  <2>4. count[1] <= retain[1]
    BY <2>1, <2>3 DEF OneTask
  <2>5. Cardinality(live) <= count[1] + Cardinality(Waiting)
    BY <2>1, Sizes, SMT DEF Counted
  <2> QED BY <2>2, <2>4, <2>5, Sizes, SMT
<1> QED BY <1>1, CountInvariant, PTL

\* Overlapping runs make a cleanup remove at most one snapshot too many for each
\* other run (cron.go:174-182), and this does not add up over time.  For any
\* number of runs, snapshots and failures of the engine.
THEOREM RetentionKeepsMost == Spec => KeepsMost
<1>1. ListInv /\ CountInv /\ [Next]_vars =>
        [\A r \in Runs : Cleaned(r) /\ cur = 1 /\ user = 0 =>
           Cardinality(live') >= retain[1] - (Cardinality(Runs) - 1)]_vars
  <2> SUFFICES ASSUME ListInv, CountInv, NEW r \in Runs, Cleaned(r), cur = 1, user = 0
               PROVE  Cardinality(live') >= retain[1] - (Cardinality(Runs) - 1)
    OBVIOUS
  <2>1. OneTask /\ Counted
    BY DEF CountInv, Alone
  <2>2. /\ pc[r] = "inner" /\ task[r] = 1 /\ cached[1] # <<>> /\ count[1] > retain[1]
        /\ live' = live \ {Head(cached[1])}
    BY <2>1 DEF Cleaned, DeleteSnapshot, Surplus, OneTask
  <2>3. Cardinality(live') = Cardinality(live) - 1
    <3>1. Head(cached[1]) \in live
      BY <2>1, <2>2, HeadIsLive
    <3> QED BY <2>2, <3>1, Sizes, FS_RemoveElement
  <2>4. count[1] + Cardinality(Waiting) <= Cardinality(live) + Cardinality(Runs) - 1
    BY <2>1 DEF Counted
  <2>5. /\ Cardinality(live) \in Nat /\ Cardinality(Waiting) \in Nat /\ Cardinality(Runs) \in Nat
        /\ count[1] \in Nat /\ retain[1] \in Int
    BY Sizes
  <2> QED BY <2>2, <2>3, <2>4, <2>5, SMT
<1> QED BY <1>1, CountInvariant, PTL DEF Spec, KeepsMost
-----------------------------------------------------------------------------
(* Purge.                                                                  *)

\* PurgeTypeOK without the length of the queue, which takes counting.
PurgeTypes ==
  /\ lock \in Callers \cup {None}
  /\ call \in [Callers -> {"idle", "lock", "exec", "purge", "unlock", "leave"}]
  /\ removed \subseteq Snaps /\ gone \subseteq Snaps /\ working \subseteq Snaps
  /\ want \in [Callers -> SUBSET Snaps] /\ purging \in [Callers -> SUBSET Snaps]
  /\ result \in [Callers -> {"none", "skipped", "purged", "error"}]

\* A caller between Lock and Unlock holds the lock.
HoldsLock == \A c \in Callers : call[c] \in {"exec", "purge", "unlock"} => lock = c

\* What a caller wants purged is marked until it is gone, and is among what its
\* purge takes away, whatever the other purges do meanwhile.
Pending ==
  \A c \in Callers :
    /\ call[c] \in {"lock", "exec"} => want[c] \subseteq removed \cup gone
    /\ call[c] = "purge" => want[c] \subseteq purging[c] \cup gone
    /\ call[c] \in {"lock", "exec", "purge"} => result[c] = "none"

PurgeInv == PurgeTypes /\ HoldsLock /\ Pending /\ PurgedIsGone

\* The invariant holds at the start.
LEMMA PurgeInitInv == PurgeInit => PurgeInv
  BY PurgeAssumption DEF PurgeInit, PurgeInv, PurgeTypes, HoldsLock, Pending, PurgedIsGone

\* A purge that takes away S, marked when it began, loses nothing of what the
\* others wait for.
LEMMA TakeAway ==
  ASSUME PurgeInv, NEW c \in Callers, call[c] = "purge",
         NEW S \in SUBSET purging[c],
         removed' = removed \ S, gone' = gone \cup S
  PROVE  /\ removed' \subseteq Snaps /\ gone' \subseteq Snaps
         /\ removed \cup gone \subseteq removed' \cup gone'
         /\ gone \subseteq gone'
  BY DEF PurgeInv, PurgeTypes

\* Every step preserves the invariant.
LEMMA PurgeStepInv == PurgeInv /\ [PurgeNext]_purgeVars => PurgeInv'
<1> SUFFICES ASSUME PurgeInv, [PurgeNext]_purgeVars PROVE PurgeInv'
  OBVIOUS
<1> USE PurgeAssumption
<1>1. ASSUME NEW s \in Snaps, Delete(s) PROVE PurgeInv'
  BY <1>1 DEF Delete, PurgeInv, PurgeTypes, HoldsLock, Pending, PurgedIsGone
<1>2. ASSUME NEW c \in Callers, Enter(c) PROVE PurgeInv'
  BY <1>2 DEF Enter, PurgeInv, PurgeTypes, HoldsLock, Pending, PurgedIsGone
<1>3. ASSUME NEW c \in Callers, Skip(c) PROVE PurgeInv'
  BY <1>3 DEF Skip, PurgeInv, PurgeTypes, HoldsLock, Pending, PurgedIsGone
<1>4. ASSUME NEW c \in Callers, Lock(c) PROVE PurgeInv'
  BY <1>4 DEF Lock, PurgeInv, PurgeTypes, HoldsLock, Pending, PurgedIsGone
<1>5. ASSUME NEW c \in Callers, Exec(c) PROVE PurgeInv'
  BY <1>5 DEF Exec, PurgeInv, PurgeTypes, HoldsLock, Pending, PurgedIsGone
<1>6. ASSUME NEW c \in Callers, Purged(c) PROVE PurgeInv'
  <2>1. /\ removed' \subseteq Snaps /\ gone' \subseteq Snaps
        /\ removed \cup gone \subseteq removed' \cup gone' /\ gone \subseteq gone'
    BY <1>6, TakeAway DEF Purged
  <2>2. want[c] \subseteq gone'
    BY <1>6 DEF Purged, PurgeInv, Pending
  <2>3. PurgeTypes' /\ HoldsLock'
    BY <1>6, <2>1 DEF Purged, PurgeInv, PurgeTypes, HoldsLock
  <2>4. Pending'
    BY <1>6, <2>1 DEF Purged, PurgeInv, PurgeTypes, Pending
  <2>5. PurgedIsGone'
    BY <1>6, <2>1, <2>2 DEF Purged, PurgeInv, PurgeTypes, PurgedIsGone
  <2> QED BY <2>3, <2>4, <2>5 DEF PurgeInv
<1>7. ASSUME NEW c \in Callers, PurgeFails(c) PROVE PurgeInv'
  <2>1. PICK S \in SUBSET purging[c] :
          /\ removed' = removed \ S /\ gone' = gone \cup S
          /\ working' \in {working, working \cup (purging[c] \ S)}
    BY <1>7 DEF PurgeFails
  <2>2. /\ removed' \subseteq Snaps /\ gone' \subseteq Snaps
        /\ removed \cup gone \subseteq removed' \cup gone' /\ gone \subseteq gone'
    BY <1>7, <2>1, TakeAway DEF PurgeFails
  <2>5. working' \subseteq Snaps
    BY <2>1 DEF PurgeInv, PurgeTypes
  <2>3. PurgeTypes' /\ HoldsLock'
    BY <1>7, <2>2, <2>5 DEF PurgeFails, PurgeInv, PurgeTypes, HoldsLock
  <2>4. Pending' /\ PurgedIsGone'
    BY <1>7, <2>2 DEF PurgeFails, PurgeInv, PurgeTypes, Pending, PurgedIsGone
  <2> QED BY <2>3, <2>4 DEF PurgeInv
<1>8. ASSUME NEW c \in Callers, Unlock(c) PROVE PurgeInv'
  BY <1>8 DEF Unlock, PurgeInv, PurgeTypes, HoldsLock, Pending, PurgedIsGone
<1>9. ASSUME NEW c \in Callers, Leave(c) PROVE PurgeInv'
  BY <1>9 DEF Leave, PurgeInv, PurgeTypes, HoldsLock, Pending, PurgedIsGone
<1>10. CASE UNCHANGED purgeVars
  BY <1>10 DEF purgeVars, PurgeInv, PurgeTypes, HoldsLock, Pending, PurgedIsGone
<1>11. ASSUME NEW s \in Snaps, EnginePurges(s) PROVE PurgeInv'
  <2>1. /\ removed' \subseteq Snaps /\ gone' \subseteq Snaps /\ working' \subseteq Snaps
        /\ removed \cup gone \subseteq removed' \cup gone' /\ gone \subseteq gone'
    BY <1>11 DEF EnginePurges, PurgeInv, PurgeTypes
  <2>2. PurgeTypes' /\ HoldsLock'
    BY <1>11, <2>1 DEF EnginePurges, PurgeInv, PurgeTypes, HoldsLock
  <2>3. Pending' /\ PurgedIsGone'
    BY <1>11, <2>1 DEF EnginePurges, PurgeInv, Pending, PurgedIsGone
  <2> QED BY <2>2, <2>3 DEF PurgeInv
<1> QED
  BY <1>1, <1>2, <1>3, <1>4, <1>5, <1>6, <1>7, <1>8, <1>9, <1>10, <1>11 DEF PurgeNext, PurgeStep

\* Two purge commands never run at the same time (the lock of snapshots.go:108), for any
\* number of callers.
THEOREM PurgeOneAtATime == PurgeSpec => []OnePurge
<1>1. PurgeInv => OnePurge
  BY DEF PurgeInv, HoldsLock, OnePurge
<1> QED BY <1>1, PurgeInitInv, PurgeStepInv, PTL DEF PurgeSpec

\* What was removed before a Purge that succeeded is gone (cron.go:193), for any
\* number of callers and snapshots.
THEOREM PurgeTakesAway == PurgeSpec => []PurgedIsGone
<1>1. PurgeInv => PurgedIsGone
  BY DEF PurgeInv
<1> QED BY <1>1, PurgeInitInv, PurgeStepInv, PTL DEF PurgeSpec

\* The calls that have entered and not left.
Inside == {c \in Callers : call[c] # "idle"}

PlaceInv == queue \in Nat /\ NoLeakedPlace

\* Every step keeps a place in the queue for every call under way.
LEMMA StepPlace == PurgeInv /\ PlaceInv /\ [PurgeNext]_purgeVars => PlaceInv'
<1> SUFFICES ASSUME PurgeInv, PlaceInv, [PurgeNext]_purgeVars PROVE PlaceInv'
  OBVIOUS
<1>1. IsFiniteSet(Inside)
  BY PurgeAssumption, FS_Subset DEF Inside
<1>2. queue \in Nat /\ queue = Cardinality(Inside)
  BY DEF PlaceInv, NoLeakedPlace, Inside
<1>3. call \in [Callers -> {"idle", "lock", "exec", "purge", "unlock", "leave"}]
  BY DEF PurgeInv, PurgeTypes
<1>4. ASSUME NEW c \in Callers, Enter(c) PROVE PlaceInv'
  <2>1. c \notin Inside /\ Inside' = Inside \cup {c}
    BY <1>3, <1>4 DEF Enter, Inside
  <2>2. Cardinality(Inside') = Cardinality(Inside) + 1
    BY <1>1, <2>1, FS_AddElement
  <2> QED BY <1>2, <1>4, <2>2, SMT DEF Enter, PlaceInv, NoLeakedPlace, Inside
<1>5. ASSUME NEW c \in Callers, Leave(c) PROVE PlaceInv'
  <2>1. c \in Inside /\ Inside' = Inside \ {c}
    BY <1>3, <1>5 DEF Leave, Inside
  <2>2. Cardinality(Inside') = Cardinality(Inside) - 1 /\ Cardinality(Inside') \in Nat
    BY <1>1, <2>1, FS_RemoveElement, FS_CardinalityType, FS_Subset
  <2> QED BY <1>2, <1>5, <2>2 DEF Leave, PlaceInv, NoLeakedPlace, Inside
<1>6. ASSUME queue' = queue, Inside' = Inside PROVE PlaceInv'
  BY <1>2, <1>6 DEF PlaceInv, NoLeakedPlace, Inside
<1>7. ASSUME NEW s \in Snaps, Delete(s) PROVE PlaceInv'
  BY <1>6, <1>7 DEF Delete, Inside
<1>8. ASSUME NEW c \in Callers, Skip(c) PROVE PlaceInv'
  BY <1>6, <1>8 DEF Skip, Inside
<1>9. ASSUME NEW c \in Callers, Lock(c) PROVE PlaceInv'
  <2>1. Inside' = Inside
    BY <1>3, <1>9 DEF Lock, Inside
  <2> QED BY <1>6, <1>9, <2>1 DEF Lock
<1>10. ASSUME NEW c \in Callers, Exec(c) PROVE PlaceInv'
  <2>1. Inside' = Inside
    BY <1>3, <1>10 DEF Exec, Inside
  <2> QED BY <1>6, <1>10, <2>1 DEF Exec
<1>11. ASSUME NEW c \in Callers, Purged(c) PROVE PlaceInv'
  <2>1. Inside' = Inside
    BY <1>3, <1>11 DEF Purged, Inside
  <2> QED BY <1>6, <1>11, <2>1 DEF Purged
<1>12. ASSUME NEW c \in Callers, PurgeFails(c) PROVE PlaceInv'
  <2>1. Inside' = Inside
    BY <1>3, <1>12 DEF PurgeFails, Inside
  <2> QED BY <1>6, <1>12, <2>1 DEF PurgeFails
<1>13. ASSUME NEW c \in Callers, Unlock(c) PROVE PlaceInv'
  <2>1. Inside' = Inside
    BY <1>3, <1>13 DEF Unlock, Inside
  <2> QED BY <1>6, <1>13, <2>1 DEF Unlock
<1>14. CASE UNCHANGED purgeVars
  BY <1>6, <1>14 DEF purgeVars, Inside
<1>15. ASSUME NEW s \in Snaps, EnginePurges(s) PROVE PlaceInv'
  BY <1>6, <1>15 DEF EnginePurges, Inside
<1> QED
  BY <1>4, <1>5, <1>7, <1>8, <1>9, <1>10, <1>11, <1>12, <1>13, <1>14, <1>15
  DEF PurgeNext, PurgeStep

\* A call gives its place in the queue back however it ends (the deferred
\* receive of snapshots.go:102), for any number of callers.
THEOREM PurgeNoLeakedPlace == PurgeSpec => []NoLeakedPlace
<1>1. PurgeInit => PlaceInv
  <2> SUFFICES ASSUME PurgeInit PROVE PlaceInv
    OBVIOUS
  <2>1. {c \in Callers : call[c] # "idle"} = {}
    BY DEF PurgeInit
  <2>2. queue = 0
    BY DEF PurgeInit
  <2> QED BY <2>1, <2>2, FS_EmptySet DEF PlaceInv, NoLeakedPlace
<1>2. PlaceInv => NoLeakedPlace
  BY DEF PlaceInv
<1> QED BY <1>1, <1>2, PurgeInitInv, PurgeStepInv, StepPlace, PTL DEF PurgeSpec
=============================================================================
