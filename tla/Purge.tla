------------------------------- MODULE Purge -------------------------------
(***************************************************************************)
(* The purge of removed snapshots (controller/snapshots.go, Purge): at     *)
(* most one runs at a time, and a call is skipped when another is waiting. *)
(* The callers are the API handler snapshotPurge and the cleanup of the    *)
(* recurring jobs.                                                         *)
(***************************************************************************)
EXTENDS Naturals, FiniteSets

CONSTANTS Callers, Snaps,
          None,       \* nobody
          MaxErrors   \* bound on the purges that fail

ASSUME PurgeAssumption ==
  /\ IsFiniteSet(Callers) /\ None \notin Callers /\ MaxErrors \in Nat

Capacity == 2   \* of c.purgeQueue

VARIABLES
  queue,    \* len(c.purgeQueue)
  lock,     \* who holds c.Mutex
  call,     \* where the callers are
  removed,  \* the snapshots that are marked removed and not purged yet
  gone,     \* the snapshots that have been purged
  want,     \* history: the snapshots removed when a caller called Purge
  purging,  \* the snapshots that a purge under way takes away
  working,  \* those the engine goes on with after the command was killed
  result,   \* what a caller's last Purge did
  errors

purgeVars == <<queue, lock, call, removed, gone, want, purging, working, result, errors>>

PurgeTypeOK ==
  /\ queue \in 0..Capacity
  /\ lock \in Callers \cup {None}
  /\ call \in [Callers -> {"idle", "lock", "exec", "purge", "unlock", "leave"}]
  /\ removed \subseteq Snaps /\ gone \subseteq Snaps /\ working \subseteq Snaps
  /\ want \in [Callers -> SUBSET Snaps] /\ purging \in [Callers -> SUBSET Snaps]
  /\ result \in [Callers -> {"none", "skipped", "purged", "error"}]
  /\ errors \in Nat

PurgeInit ==
  /\ queue = 0 /\ lock = None /\ errors = 0
  /\ call = [c \in Callers |-> "idle"]
  /\ removed = {} /\ gone = {} /\ working = {}
  /\ want = [c \in Callers |-> {}] /\ purging = [c \in Callers |-> {}]
  /\ result = [c \in Callers |-> "none"]

\* A snapshot is removed: it is marked, and stays until a purge.
Delete(s) ==
  /\ s \notin removed \cup gone /\ removed' = removed \cup {s}
  /\ UNCHANGED <<queue, lock, call, gone, want, purging, working, result, errors>>

\* select: the call takes a place in the queue.
Enter(c) ==
  /\ call[c] = "idle" /\ queue < Capacity
  /\ queue' = queue + 1 /\ call' = [call EXCEPT ![c] = "lock"]
  /\ want' = [want EXCEPT ![c] = removed] /\ result' = [result EXCEPT ![c] = "none"]
  /\ UNCHANGED <<lock, removed, gone, purging, working, errors>>

\* select, default: the call returns nil at once.
Skip(c) ==
  /\ call[c] = "idle" /\ queue = Capacity
  /\ want' = [want EXCEPT ![c] = removed] /\ result' = [result EXCEPT ![c] = "skipped"]
  /\ UNCHANGED <<queue, lock, call, removed, gone, purging, working, errors>>

Lock(c) ==
  /\ call[c] = "lock" /\ lock = None /\ lock' = c
  /\ call' = [call EXCEPT ![c] = "exec"]
  /\ UNCHANGED <<queue, removed, gone, want, purging, working, result, errors>>

\* The engine purges the snapshots that are marked when it starts.
Exec(c) ==
  /\ call[c] = "exec" /\ call' = [call EXCEPT ![c] = "purge"]
  /\ purging' = [purging EXCEPT ![c] = removed]
  /\ UNCHANGED <<queue, lock, removed, gone, want, working, result, errors>>

Purged(c) ==
  /\ call[c] = "purge" /\ call' = [call EXCEPT ![c] = "unlock"]
  /\ removed' = removed \ purging[c] /\ gone' = gone \cup purging[c]
  /\ result' = [result EXCEPT ![c] = "purged"]
  /\ UNCHANGED <<queue, lock, want, purging, working, errors>>

\* Mutant: the error is dropped.
PurgeFailsSilently(c) ==
  /\ call[c] = "purge" /\ call' = [call EXCEPT ![c] = "unlock"]
  /\ errors < MaxErrors /\ errors' = errors + 1
  /\ result' = [result EXCEPT ![c] = "purged"]
  /\ UNCHANGED <<queue, lock, removed, gone, want, purging, working>>

\* The engine fails with some of the snapshots purged, or the command is killed at
\* its timeout, and the engine, which knows nothing of it, goes on with the rest.
PurgeFails(c) ==
  /\ call[c] = "purge" /\ call' = [call EXCEPT ![c] = "unlock"]
  /\ errors < MaxErrors /\ errors' = errors + 1
  /\ \E S \in SUBSET purging[c] :
       /\ removed' = removed \ S /\ gone' = gone \cup S
       /\ working' \in {working, working \cup (purging[c] \ S)}
  /\ result' = [result EXCEPT ![c] = "error"]
  /\ UNCHANGED <<queue, lock, want, purging>>

EnginePurges(s) ==
  /\ s \in working /\ working' = working \ {s}
  /\ removed' = removed \ {s} /\ gone' = gone \cup {s}
  /\ UNCHANGED <<queue, lock, call, want, purging, result, errors>>

\* Mutant: the lock is kept after an error.
UnlockOnSuccess(c) ==
  /\ call[c] = "unlock" /\ call' = [call EXCEPT ![c] = "leave"]
  /\ lock' = IF result[c] = "error" THEN lock ELSE None
  /\ UNCHANGED <<queue, removed, gone, want, purging, working, result, errors>>

\* The deferred calls, last in first out: the lock is released, then the place
\* in the queue.
Unlock(c) ==
  /\ call[c] = "unlock" /\ call' = [call EXCEPT ![c] = "leave"]
  /\ lock' = None
  /\ UNCHANGED <<queue, removed, gone, want, purging, working, result, errors>>

\* Mutant: an error returns without leaving the queue.
LeaveOnSuccess(c) ==
  /\ call[c] = "leave" /\ call' = [call EXCEPT ![c] = "idle"]
  /\ queue' = IF result[c] = "error" THEN queue ELSE queue - 1
  /\ UNCHANGED <<lock, removed, gone, want, purging, working, result, errors>>

Leave(c) ==
  /\ call[c] = "leave" /\ call' = [call EXCEPT ![c] = "idle"]
  /\ queue' = queue - 1
  /\ UNCHANGED <<lock, removed, gone, want, purging, working, result, errors>>

PurgeStep(c) ==
  \/ Lock(c) \/ Exec(c) \/ Purged(c) \/ PurgeFails(c) \/ Unlock(c) \/ Leave(c)

PurgeNext ==
  \/ \E s \in Snaps : Delete(s) \/ EnginePurges(s)
  \/ \E c \in Callers : Enter(c) \/ Skip(c) \/ PurgeStep(c)

PurgeSpec == PurgeInit /\ [][PurgeNext]_purgeVars

\* The callers run, the engine answers (or is killed by the timeout), and
\* sync.Mutex hands a lock over to one that waits for it.
FairPurgeSpec == PurgeSpec /\ \A c \in Callers : WF_purgeVars(PurgeStep(c)) /\ SF_purgeVars(Lock(c))
----------------------------------------------------------------------------
(* Properties.                                                             *)

\* The queue holds a place for every call that has entered and not left, also
\* after errors: a leaked place would make every later purge be skipped.
NoLeakedPlace == queue = Cardinality({c \in Callers : call[c] # "idle"})

\* Two purge commands never run at the same time (the lock of snapshots.go:108).
OnePurge ==
  \A c, d \in Callers : call[c] \in {"exec", "purge"} /\ call[d] \in {"exec", "purge"} => c = d

\* What was removed before a Purge that returned without an error, and was not
\* skipped, is gone: the recurring jobs rely on it (cron.go:193).
PurgedIsGone == \A c \in Callers : result[c] = "purged" => want[c] \subseteq gone

\* Every call of Purge returns.
PurgeReturns == \A c \in Callers : call[c] # "idle" ~> call[c] = "idle"
-----------------------------------------------------------------------------
(* What tests, comments and messages lead one to expect and the code does  *)
(* not keep: TLC finds a counterexample to each (see the README).          *)

\* A call is skipped because "another one is pending" (snapshots.go:104): while
\* no purge fails, what the skipped caller has removed is purged by one that
\* had yet to start.
SkippedIsCovered ==
  \A c \in Callers : result[c] = "skipped" /\ errors = 0 =>
    \A s \in want[c] :
      \/ s \in gone
      \/ \E d \in Callers : call[d] \in {"lock", "exec"} \/ (call[d] = "purge" /\ s \in purging[d])

\* The lock keeps the engine from purging twice at a time (snapshots.go:108): a
\* purge starts when the one before it has ended.
EnginePurgesAlone == \A c \in Callers : call[c] = "purge" => working = {}
=============================================================================
