---------------------------- MODULE ReplicaProofs ----------------------------
(***************************************************************************)
(* Proofs about the replicas of a volume, for any number of hosts,         *)
(* replicas, failures and requests.  Their rebuilding: the count of        *)
(* replicas being added is right, no replica in use is taken out of the    *)
(* engine, and a volume with a good replica is not detached.  Their        *)
(* placement: what is stored of a replica has its container, and replicas  *)
(* are spread over the hosts.                                              *)
(***************************************************************************)
EXTENDS ReplicaRebuild, Scheduler, FiniteSetTheorems, TLAPS

\* Most leaves are first-order and Zenon takes them; SMT takes those that cite
\* it.
USE Zenon

-----------------------------------------------------------------------------
(* The rebuilding of replicas.                                             *)

\* The goroutines that count in addingReplicas.
Counted == {r \in Reps : adder[r] \notin {"off", "inc"}}

\* The calls that remove a replica are made for one that stays in mode ERR: a
\* goroutine adds only a replica that the engine does not have, and the
\* monitor has created it for that goroutine alone.
CallsInv ==
  /\ mon # "calls" => calls = NoCalls
  /\ \A r \in Reps : "rm" \in calls[r] => mode[r] = "ERR"
  /\ \A r \in Reps : adder[r] \in {"inc", "add"} => mode[r] = "none"
  /\ mon = "start" => new \in Reps /\ mode[new] = "none" /\ adder[new] = "off"

\* What makes the monitor detach the volume stays true until it does: a replica
\* becomes RW only from another one that is, and only a request or its own
\* goroutine removes a replica.
DetachInv ==
  /\ faults = 0 => ~errs
  /\ mon = "calls" /\ seen.rw = {} => With("RW") = {}
  /\ mon = "shutdown" => With("RW") = {}
  /\ mon = "giveup" => faults # 0 \/ removals # 0
  /\ removals = 0 => req = NoReq
  /\ req.pc # "idle" => req.rep \in Reps
  /\ mon = "start" /\ removals = 0 => repBox[new] # "none"

RebuildInv == TypeOK /\ NoLeakedCount /\ CallsInv /\ DetachInv

\* The invariant holds at the start.
LEMMA InitInv == Init => RebuildInv
<1> SUFFICES ASSUME Init PROVE RebuildInv
  OBVIOUS
<1> USE RebuildAssumption
<1>1. /\ rep = [r \in Reps |-> IF r \in First THEN "running" ELSE "nil"]
      /\ repBox = [r \in Reps |-> IF r \in First THEN "running" ELSE "none"]
      /\ mode = [r \in Reps |-> IF r \in First THEN "RW" ELSE "none"]
  BY DEF Init
<1>2. TypeOK
  <2>1. /\ rep \in [Reps -> {"nil", "stopped", "running"}]
        /\ repBox \in [Reps -> {"none", "stopped", "running"}]
        /\ mode \in [Reps -> {"none", "WO", "RW", "ERR"}]
    BY <1>1
  <2>2. calls \in [Reps -> SUBSET {"rm", "mark"}] /\ seen \in [rw : SUBSET Reps, wo : SUBSET Reps]
    BY DEF Init, NoCalls, NotSeen
  <2>3. req \in [pc : {"idle", "stop", "remove"}, rep : Reps \cup {None}]
    BY DEF Init, NoReq
  <2>4. attempts \in 0..MaxRetries /\ adder \in [Reps -> {"off", "inc", "add", "wait", "stop", "remove", "dec"}]
    BY SMT DEF Init, NoAdders
  <2>5. up \in BOOLEAN /\ bad \subseteq Reps /\ marked \subseteq Reps /\ new \in Reps \cup {None} /\ errs \in BOOLEAN
    BY DEF Init
  <2> QED BY <2>1, <2>2, <2>3, <2>4, <2>5 DEF Init, TypeOK
<1>3. NoLeakedCount
  <2>1. {r \in Reps : adder[r] \notin {"off", "inc"}} = {}
    BY DEF Init, NoAdders
  <2> QED BY <2>1, FS_EmptySet DEF Init, NoLeakedCount
<1>4. CallsInv
  BY DEF Init, CallsInv, NoCalls, NoAdders
<1>5. DetachInv
  BY DEF Init, DetachInv, NoReq
<1> QED BY <1>2, <1>3, <1>4, <1>5 DEF RebuildInv
----------------------------------------------------------------------------
(* The count.                                                              *)

\* The count is a number, and not 0 while a goroutine counts.
LEMMA CountedIsNumber ==
  ASSUME RebuildInv
  PROVE  /\ IsFiniteSet(Counted) /\ adding = Cardinality(Counted) /\ adding \in Nat
         /\ \A r \in Counted : adding # 0
<1>1. IsFiniteSet(Counted)
  BY RebuildAssumption, FS_Subset DEF Counted
<1>2. adding = Cardinality(Counted)
  BY DEF RebuildInv, NoLeakedCount, Counted
<1>3. adding \in Nat
  BY DEF RebuildInv, TypeOK
<1> QED BY <1>1, <1>2, <1>3, FS_EmptySet

\* A step that moves no goroutine in or out of the count preserves it.
LEMMA CountKept ==
  ASSUME RebuildInv, Counted' = Counted, adding' = adding
  PROVE  NoLeakedCount'
  BY DEF RebuildInv, NoLeakedCount, Counted

\* The steps of the goroutine that change its place.
LEMMA MoveAdder ==
  ASSUME RebuildInv, NEW r \in Reps,
         NEW l \in {"off", "inc", "add", "wait", "stop", "remove", "dec"}, To(r, l)
  PROVE  /\ adder' \in [Reps -> {"off", "inc", "add", "wait", "stop", "remove", "dec"}]
         /\ Counted' = IF l \in {"off", "inc"} THEN Counted \ {r} ELSE Counted \cup {r}
         /\ adder'[r] = l /\ \A q \in Reps \ {r} : adder'[q] = adder[q]
<1>1. adder \in [Reps -> {"off", "inc", "add", "wait", "stop", "remove", "dec"}]
  BY DEF RebuildInv, TypeOK
<1> QED BY <1>1 DEF To, Counted

\* A goroutine that counts up, and one that counts down.
LEMMA AddingUpCounts ==
  ASSUME RebuildInv, NEW r \in Reps, AddingUp(r)
  PROVE  NoLeakedCount' /\ adding' \in Nat
<1>1. Counted' = Counted \cup {r} /\ r \notin Counted
  BY MoveAdder DEF AddingUp, Counted
<1>2. Cardinality(Counted') = Cardinality(Counted) + 1
  BY <1>1, CountedIsNumber, FS_AddElement
<1>3. adding' = Cardinality(Counted') /\ adding' \in Nat
  BY <1>2, CountedIsNumber, SMT DEF AddingUp
<1> QED BY <1>3 DEF NoLeakedCount, Counted

LEMMA AddingDownCounts ==
  ASSUME RebuildInv, NEW r \in Reps, AddingDown(r)
  PROVE  NoLeakedCount' /\ adding' \in Nat
<1>1. Counted' = Counted \ {r} /\ r \in Counted
  BY MoveAdder DEF AddingDown, Counted
<1>2. Cardinality(Counted') = Cardinality(Counted) - 1
  BY <1>1, CountedIsNumber, FS_RemoveElement
<1>3. adding' = Cardinality(Counted') /\ adding' \in Nat
  BY <1>1, <1>2, CountedIsNumber, SMT DEF AddingDown
<1> QED BY <1>3 DEF NoLeakedCount, Counted
----------------------------------------------------------------------------
(* The monitor.                                                            *)

\* A check that returns has nothing under way.
LEMMA ReturnKeeps ==
  ASSUME RebuildInv, NEW m \in {"watch", "create", "shutdown", "giveup", "ended"},
         Return(m), attempts' \in 0..MaxRetries,
         mon # "calls" \/ calls = NoCalls,
         m = "shutdown" => With("RW") = {},
         m = "giveup" => faults' # 0 \/ removals # 0,
         UNCHANGED <<rep, bad, marked, repBox, up, mode, adding, adder, req, stops, removals>>,
         faults' \in Nat, faults' = 0 => faults = 0
  PROVE  RebuildInv'
<1>1. mon' = m /\ seen' = NotSeen /\ errs' = FALSE /\ new' = None /\ calls' = calls
  BY DEF Return
<1>2. TypeOK'
  <2>1. seen' \in [rw : SUBSET Reps, wo : SUBSET Reps]
    BY <1>1 DEF NotSeen
  <2> QED BY <1>1, <2>1 DEF RebuildInv, TypeOK
<1>3. NoLeakedCount'
  BY CountKept DEF Counted
<1>4. calls = NoCalls
  BY DEF RebuildInv, CallsInv
<1>5. CallsInv'
  BY <1>1, <1>4 DEF RebuildInv, CallsInv, NoCalls
<1>6. With("RW")' = With("RW")
  BY DEF With
<1>7. DetachInv'
  BY <1>1, <1>6 DEF RebuildInv, DetachInv
<1> QED BY <1>2, <1>3, <1>5, <1>7 DEF RebuildInv

\* The monitor gives up after an error.
LEMMA GiveUpKeeps ==
  ASSUME RebuildInv, GiveUp, mon # "calls" \/ calls = NoCalls,
         faults' # 0 \/ removals # 0, faults' \in Nat, faults' = 0 => faults = 0,
         UNCHANGED <<rep, bad, marked, repBox, up, mode, adding, adder, req, stops, removals>>
  PROVE  RebuildInv'
<1>1. Return("giveup") /\ attempts' \in 0..MaxRetries
  BY DEF GiveUp, RebuildInv, TypeOK
<1> QED BY <1>1, ReturnKeeps

\* The number of failures.
LEMMA FaultCounts ==
  ASSUME RebuildInv, Fault
  PROVE  faults' \in Nat /\ faults' # 0 /\ UNCHANGED <<stops, removals>>
  BY SMT DEF RebuildInv, TypeOK, Fault

LEMMA GetReplicaStatesInv ==
  ASSUME RebuildInv, GetReplicaStates
  PROVE  RebuildInv'
<1>1. CASE Fault /\ GiveUp
  BY <1>1, FaultCounts, GiveUpKeeps DEF GetReplicaStates, store, engine
<1>2. CASE /\ seen' = [rw |-> With("RW"), wo |-> With("WO")]
           /\ calls' = [r \in Reps |-> IF Failed(r) THEN {"rm", "mark"} ELSE {}]
           /\ errs' = FALSE /\ mon' = "calls"
           /\ UNCHANGED <<attempts, new, luck>>
  <2>1. UNCHANGED <<rep, bad, marked, repBox, up, mode, adding, adder, attempts, new, req, faults, stops, removals>>
    BY <1>2 DEF GetReplicaStates, store, engine, luck
  <2>2. TypeOK'
    BY <1>2, <2>1 DEF RebuildInv, TypeOK, With
  <2>3. NoLeakedCount'
    BY <2>1, CountKept DEF Counted
  <2>4. CallsInv'
    BY <1>2, <2>1 DEF RebuildInv, CallsInv, Failed
  <2>5. DetachInv'
    BY <1>2, <2>1 DEF RebuildInv, DetachInv, With
  <2> QED BY <2>2, <2>3, <2>4, <2>5 DEF RebuildInv
<1> QED BY <1>1, <1>2 DEF GetReplicaStates

LEMMA RemoveReplicaInv ==
  ASSUME RebuildInv, NEW r \in Reps, RemoveReplica(r)
  PROVE  RebuildInv'
<1>1. /\ "rm" \in calls[r] /\ calls' = [calls EXCEPT ![r] = @ \ {"rm"}]
      /\ UNCHANGED <<rep, bad, marked, repBox, up, adding, adder, mon, seen, attempts, new, req, stops, removals>>
  BY DEF RemoveReplica, CallDone, store, luck, Fault
<1>2. mode[r] = "ERR" /\ mon = "calls"
  BY <1>1 DEF RebuildInv, CallsInv, NoCalls
<1>3. \/ mode' = [mode EXCEPT ![r] = "none"] /\ UNCHANGED <<errs, faults>>
      \/ errs' = TRUE /\ UNCHANGED mode /\ faults' \in Nat /\ faults' # 0
  BY FaultCounts DEF RemoveReplica, luck
<1>4. TypeOK'
  <2>1. calls' \in [Reps -> SUBSET {"rm", "mark"}]
    BY <1>1 DEF RebuildInv, TypeOK
  <2> QED BY <1>1, <1>3, <2>1 DEF RebuildInv, TypeOK
<1>5. NoLeakedCount'
  BY <1>1, CountKept DEF Counted
<1>6. CallsInv'
  BY <1>1, <1>2, <1>3, SMT DEF RebuildInv, TypeOK, CallsInv
<1>7. DetachInv'
  BY <1>1, <1>2, <1>3, SMT DEF RebuildInv, TypeOK, DetachInv, With
<1> QED BY <1>4, <1>5, <1>6, <1>7 DEF RebuildInv

LEMMA MarkBadReplicaInv ==
  ASSUME RebuildInv, NEW r \in Reps, MarkBadReplica(r)
  PROVE  RebuildInv'
<1>1. /\ "mark" \in calls[r] /\ calls' = [calls EXCEPT ![r] = @ \ {"mark"}]
      /\ UNCHANGED <<rep, bad, repBox, up, mode, adding, adder, mon, seen, attempts, new, req, stops, removals>>
  BY DEF MarkBadReplica, CallDone, engine, luck, Fault
<1>2. mon = "calls"
  BY <1>1 DEF RebuildInv, CallsInv, NoCalls
<1>3. \/ marked' = marked \cup {r} /\ UNCHANGED <<errs, faults>>
      \/ errs' = TRUE /\ UNCHANGED marked /\ faults' \in Nat /\ faults' # 0
  BY FaultCounts DEF MarkBadReplica, luck
<1>4. TypeOK'
  <2>1. calls' \in [Reps -> SUBSET {"rm", "mark"}]
    BY <1>1 DEF RebuildInv, TypeOK
  <2> QED BY <1>1, <1>3, <2>1 DEF RebuildInv, TypeOK
<1>5. NoLeakedCount'
  BY <1>1, CountKept DEF Counted
<1>6. CallsInv'
  BY <1>1, <1>2 DEF RebuildInv, TypeOK, CallsInv
<1>7. DetachInv'
  BY <1>1, <1>2, <1>3, SMT DEF RebuildInv, DetachInv, With
<1> QED BY <1>4, <1>5, <1>6, <1>7 DEF RebuildInv

LEMMA CallsJoinedInv ==
  ASSUME RebuildInv, CallsJoined
  PROVE  RebuildInv'
<1>1. /\ UNCHANGED <<rep, bad, marked, repBox, up, mode, adding, adder, req, faults, stops, removals>>
      /\ mon = "calls" /\ calls = NoCalls
  BY DEF CallsJoined, store, engine, luck
<1>2. attempts \in 0..MaxRetries /\ MaxRetries \in Nat /\ faults \in Nat
  BY RebuildAssumption DEF RebuildInv, TypeOK
<1>3. CASE errs /\ attempts < MaxRetries
  <2>1. Return("watch") /\ attempts' \in 0..MaxRetries
    BY <1>2, <1>3, SMT DEF CallsJoined
  <2> QED BY <1>1, <1>2, <2>1, ReturnKeeps
<1>4. CASE errs /\ ~(attempts < MaxRetries)
  <2>1. GiveUp /\ faults # 0
    BY <1>4 DEF CallsJoined, RebuildInv, DetachInv
  <2> QED BY <1>1, <1>2, <2>1, GiveUpKeeps
<1>5. CASE ~errs /\ NoGood
  <2>1. Return("shutdown") /\ attempts' = attempts
    BY <1>5 DEF CallsJoined
  <2>2. With("RW") = {}
    BY <1>1, <1>5 DEF NoGood, RebuildInv, DetachInv
  <2> QED BY <1>1, <1>2, <2>1, <2>2, ReturnKeeps
<1>6. CASE ~errs /\ ~NoGood
  <2>1. mon' = "count" /\ UNCHANGED <<seen, calls, errs, attempts, new>>
    BY <1>6 DEF CallsJoined
  <2>2. TypeOK'
    BY <1>1, <2>1 DEF RebuildInv, TypeOK
  <2>3. NoLeakedCount'
    BY <1>1, CountKept DEF Counted
  <2>4. CallsInv'
    BY <1>1, <2>1 DEF RebuildInv, CallsInv, NoCalls
  <2>5. DetachInv'
    BY <1>1, <2>1 DEF RebuildInv, DetachInv
  <2> QED BY <2>2, <2>3, <2>4, <2>5 DEF RebuildInv
<1> QED BY <1>3, <1>4, <1>5, <1>6

LEMMA AddingReplicasCountInv ==
  ASSUME RebuildInv, AddingReplicasCount
  PROVE  RebuildInv'
<1>1. /\ UNCHANGED <<rep, bad, marked, repBox, up, mode, adding, adder, req, faults, stops, removals>>
      /\ mon = "count" /\ attempts' \in {attempts, 0}
      /\ Return("create") \/ Return("watch")
  BY DEF AddingReplicasCount, Checked, store, engine, luck
<1>2. attempts' \in 0..MaxRetries
  BY <1>1, RebuildAssumption, SMT DEF RebuildInv, TypeOK
<1>3. faults \in Nat
  BY DEF RebuildInv, TypeOK
<1> QED BY <1>1, <1>2, <1>3, ReturnKeeps

LEMMA CreateReplicaInv ==
  ASSUME RebuildInv, CreateReplica
  PROVE  RebuildInv'
<1>1. CASE Fault /\ GiveUp /\ UNCHANGED <<repBox, rep, marked>>
  BY <1>1, FaultCounts, GiveUpKeeps DEF CreateReplica
<1>2. ASSUME NEW r \in Unused,
             repBox' = [repBox EXCEPT ![r] = "stopped"], rep' = [rep EXCEPT ![r] = "stopped"],
             marked' = marked \ {r}, new' = r, mon' = "start",
             UNCHANGED <<seen, calls, errs, attempts, luck>>
      PROVE  RebuildInv'
  <2>1. /\ r \in Reps /\ mode[r] = "none" /\ adder[r] = "off" /\ mon = "create"
        /\ UNCHANGED <<bad, up, mode, adding, adder, req, faults, stops, removals>>
    BY <1>2 DEF CreateReplica, Unused, luck
  <2>2. TypeOK'
    BY <1>2, <2>1 DEF RebuildInv, TypeOK
  <2>3. NoLeakedCount'
    BY <2>1, CountKept DEF Counted
  <2>4. CallsInv'
    BY <1>2, <2>1 DEF RebuildInv, CallsInv, NoCalls
  <2>5. DetachInv'
    BY <1>2, <2>1 DEF RebuildInv, TypeOK, DetachInv
  <2> QED BY <2>2, <2>3, <2>4, <2>5 DEF RebuildInv
<1> QED BY <1>1, <1>2 DEF CreateReplica

LEMMA StartReplicaInv ==
  ASSUME RebuildInv, StartReplica
  PROVE  RebuildInv'
<1>1. CASE Fault /\ GiveUp /\ UNCHANGED <<repBox, rep, adder>>
  BY <1>1, FaultCounts, GiveUpKeeps DEF StartReplica
<1>2. CASE repBox[new] = "none" /\ GiveUp /\ UNCHANGED <<repBox, rep, adder, luck>>
  <2>1. removals # 0 /\ faults \in Nat
    BY <1>2 DEF StartReplica, RebuildInv, DetachInv, TypeOK
  <2> QED BY <1>2, <2>1, GiveUpKeeps DEF StartReplica, luck
<1>3. CASE /\ repBox' = [repBox EXCEPT ![new] = "running"]
           /\ rep' = [rep EXCEPT ![new] = "running"]
           /\ adder' = [adder EXCEPT ![new] = "inc"]
           /\ Checked /\ UNCHANGED luck
  <2>1. /\ mon = "start" /\ new \in Reps /\ mode[new] = "none" /\ adder[new] = "off"
        /\ calls = NoCalls
    BY DEF StartReplica, RebuildInv, CallsInv
  <2>2. /\ mon' = "watch" /\ attempts' = 0 /\ seen' = NotSeen /\ errs' = FALSE /\ new' = None
        /\ UNCHANGED <<bad, marked, up, mode, adding, calls, req, faults, stops, removals>>
    BY <1>3 DEF StartReplica, Checked, Return, luck
  <2>3. TypeOK'
    <3>1. attempts' \in 0..MaxRetries
      BY <2>2, RebuildAssumption, SMT
    <3>2. seen' \in [rw : SUBSET Reps, wo : SUBSET Reps]
      BY <2>2 DEF NotSeen
    <3>3. /\ rep' \in [Reps -> {"nil", "stopped", "running"}]
          /\ repBox' \in [Reps -> {"none", "stopped", "running"}]
          /\ adder' \in [Reps -> {"off", "inc", "add", "wait", "stop", "remove", "dec"}]
      BY <1>3, <2>1 DEF RebuildInv, TypeOK
    <3> QED BY <2>2, <3>1, <3>2, <3>3 DEF RebuildInv, TypeOK
  <2>4. Counted' = Counted
    BY <1>3, <2>1 DEF RebuildInv, TypeOK, Counted
  <2>5. NoLeakedCount'
    BY <2>2, <2>4, CountKept
  <2>6. CallsInv'
    BY <1>3, <2>1, <2>2 DEF RebuildInv, TypeOK, CallsInv, NoCalls
  <2>7. DetachInv'
    BY <2>2 DEF RebuildInv, DetachInv
  <2> QED BY <2>3, <2>5, <2>6, <2>7 DEF RebuildInv
<1> QED BY <1>1, <1>2, <1>3 DEF StartReplica

\* The end of the monitor, or of the manager with all its goroutines, when at
\* most containers and keys of replicas change.
LEMMA EndsKeeps ==
  ASSUME RebuildInv, NEW panics \in BOOLEAN, Ends(panics), Detaching,
         UNCHANGED <<bad, marked, up, mode, stops, removals>>,
         rep' \in [Reps -> {"nil", "stopped", "running"}],
         repBox' \in [Reps -> {"none", "stopped", "running"}],
         faults' \in Nat, faults' = 0 => faults = 0
  PROVE  RebuildInv'
<1>1. /\ mon' \in {"ended", "crashed"} /\ seen' = NotSeen /\ errs' = FALSE /\ new' = None
      /\ UNCHANGED <<calls, attempts>>
      /\ \/ adding' = 0 /\ adder' = NoAdders /\ req' \in {req, NoReq}
         \/ UNCHANGED <<adding, adder, req>>
  BY DEF Ends, Return
<1>2. NoReq \in [pc : {"idle", "stop", "remove"}, rep : Reps \cup {None}]
  BY DEF NoReq
<1>3. NoAdders \in [Reps -> {"off", "inc", "add", "wait", "stop", "remove", "dec"}]
  BY DEF NoAdders
<1>4. TypeOK'
  <2>1. seen' \in [rw : SUBSET Reps, wo : SUBSET Reps]
    BY <1>1 DEF NotSeen
  <2>2. adding' \in Nat /\ adder' \in [Reps -> {"off", "inc", "add", "wait", "stop", "remove", "dec"}]
    BY <1>1, <1>3, SMT DEF RebuildInv, TypeOK
  <2>3. req' \in [pc : {"idle", "stop", "remove"}, rep : Reps \cup {None}]
    BY <1>1, <1>2 DEF RebuildInv, TypeOK
  <2> QED BY <1>1, <2>1, <2>2, <2>3 DEF RebuildInv, TypeOK
<1>5. NoLeakedCount'
  <2>1. CASE adding' = 0 /\ adder' = NoAdders
    <3>1. {r \in Reps : adder'[r] \notin {"off", "inc"}} = {}
      BY <2>1 DEF NoAdders
    <3> QED BY <2>1, <3>1, FS_EmptySet DEF NoLeakedCount
  <2>2. CASE UNCHANGED <<adding, adder>>
    BY <2>2, CountKept DEF Counted
  <2> QED BY <1>1, <2>1, <2>2
<1>6. calls = NoCalls
  BY DEF Detaching, RebuildInv, CallsInv
<1>7. CallsInv'
  BY <1>1, <1>6 DEF RebuildInv, CallsInv, NoCalls, NoAdders
<1>8. DetachInv'
  <2>1. removals' = 0 => req' = NoReq
    BY <1>1 DEF RebuildInv, DetachInv
  <2>2. NoReq.pc = "idle"
    BY SMT DEF NoReq
  <2>3. req'.pc # "idle" => req'.rep \in Reps
    BY <1>1, <2>2 DEF RebuildInv, DetachInv
  <2> QED BY <1>1, <2>1, <2>3 DEF DetachInv
<1> QED BY <1>4, <1>5, <1>7, <1>8 DEF RebuildInv

LEMMA StopControllerInv ==
  ASSUME RebuildInv, StopController
  PROVE  RebuildInv'
<1>1. Detaching /\ UNCHANGED <<rep, bad, marked, repBox>>
  BY DEF StopController, store
<1>2. /\ rep \in [Reps -> {"nil", "stopped", "running"}]
      /\ repBox \in [Reps -> {"none", "stopped", "running"}]
  BY DEF RebuildInv, TypeOK
<1>3. CASE /\ up' = FALSE /\ mode' = [r \in Reps |-> "none"]
           /\ UNCHANGED <<monitor, adding, adder, req, luck>>
  <2>1. UNCHANGED <<mon, seen, calls, errs, attempts, new, adding, adder, req, faults, stops, removals>>
    BY <1>3 DEF monitor, luck
  <2>2. TypeOK'
    BY <1>1, <1>3, <2>1 DEF RebuildInv, TypeOK
  <2>3. NoLeakedCount'
    BY <2>1, CountKept DEF Counted
  <2>4. calls = NoCalls /\ mon # "start"
    BY <1>1 DEF Detaching, RebuildInv, CallsInv
  <2>5. CallsInv'
    BY <1>3, <2>1, <2>4 DEF RebuildInv, CallsInv, NoCalls
  <2>6. With("RW")' = {}
    BY <1>3 DEF With
  <2>7. DetachInv'
    BY <2>1, <2>4, <2>6 DEF RebuildInv, DetachInv
  <2> QED BY <2>2, <2>3, <2>5, <2>7 DEF RebuildInv
<1>4. CASE Fault /\ GiveUp /\ UNCHANGED <<up, mode, adding, adder, req>>
  BY <1>1, <1>4, FaultCounts, GiveUpKeeps DEF Detaching
<1>5. ASSUME NEW p \in BOOLEAN, Fault, Ends(p), UNCHANGED <<up, mode>> PROVE RebuildInv'
  BY <1>1, <1>2, <1>5, FaultCounts, EndsKeeps
<1>6. (mon = "shutdown") \in BOOLEAN
  OBVIOUS
<1> QED BY <1>3, <1>4, <1>5, <1>6 DEF StopController

LEMMA StopReplicasInv ==
  ASSUME RebuildInv, StopReplicas
  PROVE  RebuildInv'
<1>1. Detaching /\ UNCHANGED <<bad, marked, up, mode>>
  BY DEF StopReplicas
<1>2. PICK S \in SUBSET Reps :
        /\ repBox' = [r \in Reps |-> IF r \in S THEN "stopped" ELSE repBox[r]]
        /\ rep' = [r \in Reps |-> IF r \in S THEN "stopped" ELSE rep[r]]
        /\ \E p \in BOOLEAN : Ends(p)
        /\ UNCHANGED luck \/ Fault
  <2>1. (mon = "shutdown") \in BOOLEAN /\ (mon = "shutdown" /\ attempts = MaxRetries) \in BOOLEAN
    OBVIOUS
  <2> QED BY <2>1 DEF StopReplicas
<1>3. /\ rep' \in [Reps -> {"nil", "stopped", "running"}]
      /\ repBox' \in [Reps -> {"none", "stopped", "running"}]
  BY <1>2 DEF RebuildInv, TypeOK
<1>4. faults' \in Nat /\ (faults' = 0 => faults = 0) /\ UNCHANGED <<stops, removals>>
  BY <1>2, FaultCounts DEF luck, RebuildInv, TypeOK
<1> QED BY <1>1, <1>2, <1>3, <1>4, EndsKeeps
----------------------------------------------------------------------------
(* The goroutines that add replicas.                                       *)

\* A step of the goroutine of r leaves the monitor alone; the replica of the
\* monitor is another one.
LEMMA AdderIsOther ==
  ASSUME RebuildInv, NEW r \in Reps, adder[r] # "off"
  PROVE  mon = "start" => new # r
  BY DEF RebuildInv, CallsInv

LEMMA AddingInv ==
  ASSUME RebuildInv, NEW r \in Reps, AddingUp(r) \/ AddingDown(r)
  PROVE  RebuildInv'
<1>1. /\ UNCHANGED <<rep, bad, marked, repBox, up, mode, mon, seen, calls, errs, attempts, new, req>>
      /\ UNCHANGED <<faults, stops, removals>>
      /\ \/ adder[r] = "inc" /\ To(r, "add")
         \/ adder[r] = "dec" /\ To(r, "off")
  BY DEF AddingUp, AddingDown, store, engine, monitor, luck
<1>2. NoLeakedCount' /\ adding' \in Nat
  BY AddingUpCounts, AddingDownCounts
<1>3. TypeOK'
  BY <1>1, <1>2, MoveAdder, SMT DEF RebuildInv, TypeOK
<1>4. CallsInv'
  BY <1>1, MoveAdder, AdderIsOther DEF RebuildInv, CallsInv
<1>5. DetachInv'
  BY <1>1 DEF RebuildInv, DetachInv, With
<1> QED BY <1>2, <1>3, <1>4, <1>5 DEF RebuildInv

\* A step that changes the mode of the goroutine's replica r to m, and lets the
\* goroutine go on to l.
LEMMA ModeInv ==
  ASSUME RebuildInv, NEW r \in Reps, adder[r] \in {"add", "wait"},
         NEW l \in {"wait", "stop", "dec"}, To(r, l),
         NEW m \in {"none", "WO", "RW", "ERR"}, mode' = [mode EXCEPT ![r] = m],
         mode[r] = "ERR" => m = "ERR",
         m = "RW" => With("RW") # {},
         faults' \in Nat, faults' = 0 => faults = 0,
         UNCHANGED <<rep, bad, marked, repBox, up, adding, mon, seen, calls, errs, attempts, new, req, stops, removals>>
  PROVE  RebuildInv'
<1>1. /\ adder' \in [Reps -> {"off", "inc", "add", "wait", "stop", "remove", "dec"}]
      /\ Counted' = Counted
      /\ adder'[r] = l /\ \A q \in Reps \ {r} : adder'[q] = adder[q]
  <2>1. r \in Counted
    BY DEF Counted
  <2>2. l \in {"off", "inc", "add", "wait", "stop", "remove", "dec"} /\ l \notin {"off", "inc"}
    OBVIOUS
  <2> QED BY <2>1, <2>2, MoveAdder, SMT
<1>2. mode \in [Reps -> {"none", "WO", "RW", "ERR"}]
  BY DEF RebuildInv, TypeOK
<1>3. mode'[r] = m /\ \A q \in Reps \ {r} : mode'[q] = mode[q]
  BY <1>2
<1>4. TypeOK'
  BY <1>1, <1>2 DEF RebuildInv, TypeOK
<1>5. NoLeakedCount'
  BY <1>1, CountKept
<1>6. CallsInv'
  <2>1. mon = "start" => new # r
    BY AdderIsOther
  <2> QED BY <1>1, <1>3, <2>1 DEF RebuildInv, CallsInv
<1>7. With("RW") = {} => With("RW")' = {}
  BY <1>3 DEF With
<1>8. DetachInv'
  BY <1>7 DEF RebuildInv, DetachInv
<1> QED BY <1>4, <1>5, <1>6, <1>8 DEF RebuildInv

LEMMA AddReplicaInv ==
  ASSUME RebuildInv, NEW r \in Reps, AddReplica(r) \/ Rebuilt(r)
  PROVE  RebuildInv'
<1>1. UNCHANGED <<rep, bad, marked, repBox, up, adding, mon, seen, calls, errs, attempts, new, req, stops, removals>>
  BY DEF AddReplica, Rebuilt, store, monitor, luck, Fault
<1>2. mode \in [Reps -> {"none", "WO", "RW", "ERR"}] /\ faults \in Nat
  BY DEF RebuildInv, TypeOK
<1>3. mode' = mode => mode' = [mode EXCEPT ![r] = mode[r]]
  BY <1>2
<1>4. adder[r] \in {"add", "wait"} /\ (adder[r] = "add" => mode[r] = "none")
  BY DEF AddReplica, Rebuilt, RebuildInv, CallsInv
<1>5. faults' \in Nat /\ (faults' = 0 => faults = 0)
  BY <1>2, FaultCounts DEF AddReplica, Rebuilt, luck
<1>6. \E l \in {"wait", "stop", "dec"}, m \in {"none", "WO", "RW", "ERR"} :
        /\ To(r, l) /\ mode' = [mode EXCEPT ![r] = m]
        /\ mode[r] = "ERR" => m = "ERR"
        /\ m = "RW" => With("RW") # {}
  <2>1. mode[r] = "RW" => With("RW") # {}
    BY DEF With
  <2>2. CASE AddReplica(r)
    <3>1. CASE mode' = [mode EXCEPT ![r] = "WO"] /\ To(r, "wait")
      BY <1>4, <2>2, <3>1 DEF AddReplica
    <3>2. CASE mode' = mode /\ To(r, "stop")
      BY <1>2, <1>3, <2>1, <3>2
    <3> QED BY <2>2, <3>1, <3>2 DEF AddReplica
  <2>3. CASE Rebuilt(r)
    <3>1. CASE mode[r] = "WO" /\ With("RW") # {} /\ mode' = [mode EXCEPT ![r] = "RW"] /\ To(r, "dec")
      BY <3>1
    <3>2. CASE mode' = mode /\ To(r, "stop")
      BY <1>2, <1>3, <2>1, <3>2
    <3>3. CASE mode' = [mode EXCEPT ![r] = IF @ = "WO" THEN "ERR" ELSE @] /\ To(r, "stop")
      <4>1. CASE mode[r] = "WO"
        BY <3>3, <4>1
      <4>2. CASE mode[r] # "WO"
        BY <1>2, <2>1, <3>3, <4>2
      <4> QED BY <4>1, <4>2
    <3> QED BY <2>3, <3>1, <3>2, <3>3 DEF Rebuilt
  <2> QED BY <2>2, <2>3
<1> QED BY <1>1, <1>4, <1>5, <1>6, ModeInv

\* A step that changes at most the container and the key of the replica r, which
\* is not the one that the monitor starts, or is not removed.
LEMMA InstanceInv ==
  ASSUME RebuildInv, NEW r \in Reps,
         NEW b \in {"none", "stopped", "running"}, repBox' = [repBox EXCEPT ![r] = b],
         NEW k \in {"nil", "stopped", "running"}, rep' = [rep EXCEPT ![r] = k],
         mon = "start" /\ removals' = 0 /\ new = r /\ b = "none" => repBox[r] = "none",
         req' \in [pc : {"idle", "stop", "remove"}, rep : Reps \cup {None}],
         req'.pc # "idle" => req'.rep \in Reps,
         removals' \in Nat, removals' = 0 => removals = 0 /\ req' = NoReq, stops' \in Nat,
         faults' \in Nat, faults' = 0 => faults = 0,
         UNCHANGED <<bad, marked, up, mode, mon, seen, calls, errs, attempts, new>>,
         NoLeakedCount', adding' \in Nat,
         adder' \in [Reps -> {"off", "inc", "add", "wait", "stop", "remove", "dec"}],
         \A q \in Reps : adder'[q] # adder[q] => adder[q] # "off" /\ adder'[q] \notin {"inc", "add"}
  PROVE  RebuildInv'
<1>1. repBox'[r] = b /\ \A q \in Reps \ {r} : repBox'[q] = repBox[q]
  BY SMT DEF RebuildInv, TypeOK
<1>2. TypeOK'
  BY DEF RebuildInv, TypeOK
<1>3. CallsInv'
  BY DEF RebuildInv, CallsInv
<1>4. mon = "start" => new \in Reps
  BY DEF RebuildInv, CallsInv
<1>5. DetachInv'
  <2>1. With("RW")' = With("RW")
    BY DEF With
  <2> QED BY <1>1, <1>4, <2>1 DEF RebuildInv, DetachInv
<1> QED BY <1>2, <1>3, <1>5 DEF RebuildInv

\* What StopInstance and RemoveInstance do to the container and the key, also
\* when they fail.
LEMMA InstanceDoes ==
  ASSUME RebuildInv, NEW r \in Reps,
         StopInstance(r) \/ RemoveInstance(r) \/ InstanceCallFails
  PROVE  /\ \E b \in {"none", "stopped", "running"}, k \in {"nil", "stopped", "running"} :
              repBox' = [repBox EXCEPT ![r] = b] /\ rep' = [rep EXCEPT ![r] = k]
         /\ faults' \in Nat /\ (faults' = 0 => faults = 0) /\ UNCHANGED <<stops, removals>>
<1>1. /\ repBox \in [Reps -> {"none", "stopped", "running"}]
      /\ rep \in [Reps -> {"nil", "stopped", "running"}] /\ faults \in Nat
  BY DEF RebuildInv, TypeOK
<1>2. UNCHANGED luck \/ Fault
  BY DEF StopInstance, RemoveInstance, InstanceCallFails
<1>3. faults' \in Nat /\ (faults' = 0 => faults = 0) /\ UNCHANGED <<stops, removals>>
  BY <1>1, <1>2, FaultCounts DEF luck
<1>4. repBox = [repBox EXCEPT ![r] = repBox[r]] /\ rep = [rep EXCEPT ![r] = rep[r]]
  BY <1>1
<1>5. \/ repBox' = repBox
      \/ repBox' = [repBox EXCEPT ![r] = "stopped"]
      \/ repBox' = [repBox EXCEPT ![r] = "none"]
  BY DEF StopInstance, RemoveInstance, InstanceCallFails
<1>6. \/ rep' = rep
      \/ rep' = [rep EXCEPT ![r] = "stopped"]
      \/ rep' = [rep EXCEPT ![r] = "nil"]
  BY DEF StopInstance, RemoveInstance, InstanceCallFails
<1>7. \E b \in {"none", "stopped", "running"} : repBox' = [repBox EXCEPT ![r] = b]
  BY <1>1, <1>4, <1>5
<1>8. \E k \in {"nil", "stopped", "running"} : rep' = [rep EXCEPT ![r] = k]
  BY <1>1, <1>4, <1>6
<1> QED BY <1>3, <1>7, <1>8

LEMMA StaleInv ==
  ASSUME RebuildInv, NEW r \in Reps, StopStale(r) \/ RemoveStale(r)
  PROVE  RebuildInv'
<1>1. /\ UNCHANGED <<bad, marked, up, mode, adding, mon, seen, calls, errs, attempts, new, req, stops, removals>>
      /\ faults' \in Nat /\ (faults' = 0 => faults = 0)
      /\ adder[r] \in {"stop", "remove"}
      /\ To(r, "remove") \/ To(r, "dec")
  BY InstanceDoes DEF StopStale, RemoveStale, monitor
<1>2. PICK b \in {"none", "stopped", "running"}, k \in {"nil", "stopped", "running"} :
        repBox' = [repBox EXCEPT ![r] = b] /\ rep' = [rep EXCEPT ![r] = k]
  BY InstanceDoes DEF StopStale, RemoveStale
<1>3. PICK l \in {"remove", "dec"} : To(r, l)
  BY <1>1
<1>4. /\ adder' \in [Reps -> {"off", "inc", "add", "wait", "stop", "remove", "dec"}]
      /\ Counted' = Counted
      /\ \A q \in Reps : adder'[q] # adder[q] => adder[q] # "off" /\ adder'[q] \notin {"inc", "add"}
  <2>1. r \in Counted
    BY <1>1 DEF Counted
  <2>2. l \in {"off", "inc", "add", "wait", "stop", "remove", "dec"} /\ l \notin {"off", "inc"}
    OBVIOUS
  <2>3. /\ adder' \in [Reps -> {"off", "inc", "add", "wait", "stop", "remove", "dec"}]
        /\ Counted' = Counted \cup {r}
        /\ adder'[r] = l /\ \A q \in Reps \ {r} : adder'[q] = adder[q]
    BY <1>3, <2>2, MoveAdder
  <2> QED BY <1>1, <2>1, <2>3
<1>5. NoLeakedCount' /\ adding' \in Nat
  BY <1>1, <1>4, CountKept DEF RebuildInv, TypeOK
<1>6. mon = "start" => new # r
  BY <1>1, AdderIsOther
<1>7. /\ req' \in [pc : {"idle", "stop", "remove"}, rep : Reps \cup {None}]
      /\ req'.pc # "idle" => req'.rep \in Reps
      /\ removals' \in Nat /\ stops' \in Nat /\ (removals' = 0 => removals = 0 /\ req' = NoReq)
  BY <1>1 DEF RebuildInv, TypeOK, DetachInv
<1> QED BY <1>1, <1>2, <1>4, <1>5, <1>6, <1>7, InstanceInv
----------------------------------------------------------------------------
(* The requests and the engine.                                            *)

LEMMA RequestRemoveInv ==
  ASSUME RebuildInv, NEW r \in Reps, RequestRemove(r)
  PROVE  RebuildInv'
<1>1. /\ UNCHANGED <<rep, bad, marked, repBox, up, mode, adding, adder, mon, seen, calls, errs, attempts, new, faults, stops>>
      /\ removals' = removals + 1
      /\ req' \in [pc : {"idle", "stop", "remove"}, rep : Reps \cup {None}] /\ req'.rep \in Reps
  BY DEF RequestRemove, store, engine, monitor
<1>2. removals' \in Nat /\ removals' # 0
  BY <1>1, SMT DEF RebuildInv, TypeOK
<1>3. TypeOK'
  BY <1>1, <1>2 DEF RebuildInv, TypeOK
<1>4. NoLeakedCount'
  BY <1>1, CountKept DEF Counted
<1>5. CallsInv'
  BY <1>1 DEF RebuildInv, CallsInv
<1>6. DetachInv'
  BY <1>1, <1>2 DEF RebuildInv, DetachInv, With
<1> QED BY <1>3, <1>4, <1>5, <1>6 DEF RebuildInv

LEMMA RemoveInv ==
  ASSUME RebuildInv, RemoveStop \/ RemoveInst
  PROVE  RebuildInv'
<1>1. /\ UNCHANGED <<bad, marked, up, mode, adding, adder, mon, seen, calls, errs, attempts, new>>
      /\ req.pc \in {"stop", "remove"}
  BY DEF RemoveStop, RemoveInst, monitor
<1>2. /\ removals # 0 /\ req \in [pc : {"idle", "stop", "remove"}, rep : Reps \cup {None}]
      /\ req.rep \in Reps
  BY <1>1, SMT DEF RebuildInv, TypeOK, DetachInv, NoReq
<1>3. /\ req' \in [pc : {"idle", "stop", "remove"}, rep : Reps \cup {None}]
      /\ req'.pc # "idle" => req'.rep \in Reps
  BY <1>2, SMT DEF RemoveStop, RemoveInst, NoReq
<1>4. StopInstance(req.rep) \/ RemoveInstance(req.rep) \/ InstanceCallFails
  BY DEF RemoveStop, RemoveInst
<1>5. faults' \in Nat /\ (faults' = 0 => faults = 0) /\ UNCHANGED <<stops, removals>>
  BY <1>2, <1>4, InstanceDoes
<1>6. /\ NoLeakedCount' /\ adding' \in Nat /\ removals' \in Nat /\ stops' \in Nat
      /\ adder' \in [Reps -> {"off", "inc", "add", "wait", "stop", "remove", "dec"}]
      /\ \A q \in Reps : adder'[q] = adder[q]
  BY <1>1, <1>5, CountKept DEF RebuildInv, TypeOK, Counted
<1>7. PICK b \in {"none", "stopped", "running"}, k \in {"nil", "stopped", "running"} :
        repBox' = [repBox EXCEPT ![req.rep] = b] /\ rep' = [rep EXCEPT ![req.rep] = k]
  BY <1>2, <1>4, InstanceDoes
<1> QED BY <1>1, <1>2, <1>3, <1>5, <1>6, <1>7, InstanceInv

LEMMA ReplicaStopsInv ==
  ASSUME RebuildInv, NEW r \in Reps, ReplicaStops(r)
  PROVE  RebuildInv'
<1>1. /\ UNCHANGED <<bad, marked, up, mode, adding, adder, mon, seen, calls, errs, attempts, new, req, faults, removals>>
      /\ repBox' = [repBox EXCEPT ![r] = "stopped"] /\ stops' = stops + 1 /\ UNCHANGED rep
  BY DEF ReplicaStops, store, monitor
<1>2. /\ rep \in [Reps -> {"nil", "stopped", "running"}]
      /\ stops \in Nat /\ removals \in Nat /\ faults \in Nat
  BY DEF RebuildInv, TypeOK
<1>3. rep' = [rep EXCEPT ![r] = rep[r]] /\ rep[r] \in {"nil", "stopped", "running"}
  BY <1>1, <1>2
<1>4. /\ NoLeakedCount' /\ adding' \in Nat /\ removals' \in Nat /\ stops' \in Nat
      /\ adder' \in [Reps -> {"off", "inc", "add", "wait", "stop", "remove", "dec"}]
      /\ \A q \in Reps : adder'[q] = adder[q]
  BY <1>1, <1>2, CountKept, SMT DEF RebuildInv, TypeOK, Counted
<1>5. /\ req' \in [pc : {"idle", "stop", "remove"}, rep : Reps \cup {None}]
      /\ req'.pc # "idle" => req'.rep \in Reps
      /\ removals' = 0 => removals = 0 /\ req' = NoReq
  BY <1>1 DEF RebuildInv, TypeOK, DetachInv
<1> QED BY <1>1, <1>2, <1>3, <1>4, <1>5, InstanceInv

LEMMA EngineNoticesInv ==
  ASSUME RebuildInv, NEW r \in Reps, EngineNotices(r)
  PROVE  RebuildInv'
<1>1. /\ UNCHANGED <<rep, bad, marked, repBox, up, adding, adder, mon, seen, calls, errs, attempts, new, req, faults, stops, removals>>
      /\ mode[r] \in {"WO", "RW"} /\ mode' = [mode EXCEPT ![r] = "ERR"]
  BY DEF EngineNotices, store, monitor, luck
<1>2. mode \in [Reps -> {"none", "WO", "RW", "ERR"}]
  BY DEF RebuildInv, TypeOK
<1>3. mode'[r] = "ERR" /\ \A q \in Reps \ {r} : mode'[q] = mode[q]
  BY <1>1, <1>2
<1>4. TypeOK'
  BY <1>1, <1>2 DEF RebuildInv, TypeOK
<1>5. NoLeakedCount'
  BY <1>1, CountKept DEF Counted
<1>6. CallsInv'
  BY <1>1, <1>3 DEF RebuildInv, CallsInv
<1>7. With("RW") = {} => With("RW")' = {}
  BY <1>3 DEF With
<1>8. DetachInv'
  BY <1>1, <1>7 DEF RebuildInv, DetachInv
<1> QED BY <1>4, <1>5, <1>6, <1>8 DEF RebuildInv

\* Every step preserves the invariant.
LEMMA StepInv == RebuildInv /\ [Next]_vars => RebuildInv'
<1> SUFFICES ASSUME RebuildInv, [Next]_vars PROVE RebuildInv'
  OBVIOUS
<1>1. CASE UNCHANGED vars
  <2>1. UNCHANGED <<rep, bad, marked, repBox, up, mode, adding, adder, mon, seen, calls, errs, attempts, new, req, faults, stops, removals>>
    BY <1>1 DEF vars, store, engine, monitor, luck
  <2>2. TypeOK' /\ NoLeakedCount'
    BY <2>1 DEF RebuildInv, TypeOK, NoLeakedCount
  <2>3. CallsInv' /\ DetachInv'
    BY <2>1 DEF RebuildInv, CallsInv, DetachInv, With
  <2> QED BY <2>2, <2>3 DEF RebuildInv
<1>2. CASE MonitorStep
  BY <1>2, GetReplicaStatesInv, CallsJoinedInv, AddingReplicasCountInv, CreateReplicaInv,
     StartReplicaInv, StopControllerInv, StopReplicasInv, RemoveReplicaInv, MarkBadReplicaInv
  DEF MonitorStep
<1>3. ASSUME NEW r \in Reps, AdderStep(r) PROVE RebuildInv'
  BY <1>3, AddingInv, AddReplicaInv, StaleInv DEF AdderStep
<1>4. CASE RemoveStop \/ RemoveInst
  BY <1>4, RemoveInv
<1>5. ASSUME NEW r \in Reps, RequestRemove(r) \/ ReplicaStops(r) \/ EngineNotices(r) PROVE RebuildInv'
  BY <1>5, RequestRemoveInv, ReplicaStopsInv, EngineNoticesInv
<1> QED BY <1>1, <1>2, <1>3, <1>4, <1>5 DEF Next, Rest

LEMMA RebuildInvariant == Spec => []RebuildInv
BY InitInv, StepInv, PTL DEF Spec
----------------------------------------------------------------------------
\* addingReplicas counts the goroutines that add a replica, wherever adding
\* fails (manager.go:420-443), for any number of replicas and of failures.
THEOREM RebuildNoLeakedCount == Spec => []NoLeakedCount
<1>1. RebuildInv => NoLeakedCount
  BY DEF RebuildInv
<1> QED BY <1>1, RebuildInvariant, PTL

\* A replica in mode RW or WO leaves the engine only through mode ERR or with
\* the engine (manager.go:474-498): the calls for the replicas seen in mode ERR
\* are still right when they are made.
THEOREM RebuildKeepsUsedReplicas == Spec => KeepsUsedReplicas
<1>1. RebuildInv /\ [Next]_vars =>
        [\A r \in Reps : mode[r] \in {"RW", "WO"} /\ up' => mode'[r] # "none"]_mode
  <2> SUFFICES ASSUME RebuildInv, [Next]_vars, NEW r \in Reps,
                      mode[r] \in {"RW", "WO"}, up', mode' # mode
               PROVE  mode'[r] # "none"
    OBVIOUS
  <2>1. mode \in [Reps -> {"none", "WO", "RW", "ERR"}]
    BY DEF RebuildInv, TypeOK
  <2>2. ~StopController /\ ~StopReplicas
    BY DEF StopController, StopReplicas
  <2>3. ASSUME NEW q \in Reps, RemoveReplica(q) PROVE mode'[r] # "none"
    <3>1. mode[q] = "ERR"
      BY <2>3 DEF RemoveReplica, RebuildInv, CallsInv
    <3> QED BY <2>1, <2>3, <3>1 DEF RemoveReplica
  <2>4. ASSUME NEW q \in Reps, AddReplica(q) \/ Rebuilt(q) \/ EngineNotices(q) PROVE mode'[r] # "none"
    BY <2>1, <2>4 DEF AddReplica, Rebuilt, EngineNotices
  <2>5. CASE MonitorStep /\ ~\E q \in Reps : RemoveReplica(q)
    BY <2>2, <2>5 DEF MonitorStep, GetReplicaStates, CallsJoined, AddingReplicasCount,
         CreateReplica, StartReplica, MarkBadReplica, engine
  <2>6. ASSUME NEW q \in Reps, AddingUp(q) \/ StopStale(q) \/ RemoveStale(q) \/ AddingDown(q)
        PROVE  FALSE
    BY <2>6 DEF AddingUp, StopStale, RemoveStale, AddingDown, engine
  <2>7. ASSUME NEW q \in Reps, RequestRemove(q) \/ ReplicaStops(q)
        PROVE  FALSE
    BY <2>7 DEF RequestRemove, ReplicaStops, engine
  <2>8. CASE RemoveStop \/ RemoveInst \/ UNCHANGED vars
    BY <2>8 DEF RemoveStop, RemoveInst, vars, engine
  <2> QED BY <2>3, <2>4, <2>5, <2>6, <2>7, <2>8 DEF Next, Rest, AdderStep, MonitorStep
<1> QED BY <1>1, RebuildInvariant, PTL DEF Spec, KeepsUsedReplicas

\* While no call fails and no replica is removed by request, the monitor
\* detaches the volume only when no replica in mode RW is left (manager.go:
\* 514-517): what it has read before it joined its calls is still true.
THEOREM RebuildDetachOnlyWithoutGood == Spec => DetachOnlyWithoutGood
<1>1. RebuildInv /\ [Next]_vars =>
        [up /\ ~up' /\ faults = 0 /\ removals = 0 => With("RW") = {}]_up
  <2> SUFFICES ASSUME RebuildInv, [Next]_vars, up, ~up', faults = 0, removals = 0
               PROVE  With("RW") = {}
    OBVIOUS
  <2>1. CASE StopController
    BY <2>1 DEF StopController, Detaching, RebuildInv, DetachInv
  <2>2. CASE MonitorStep /\ ~StopController
    BY <2>2 DEF MonitorStep, GetReplicaStates, CallsJoined, AddingReplicasCount, CreateReplica,
         StartReplica, StopReplicas, RemoveReplica, MarkBadReplica, engine
  <2>3. ASSUME NEW q \in Reps, AdderStep(q) PROVE FALSE
    BY <2>3 DEF AdderStep, AddingUp, AddReplica, Rebuilt, StopStale, RemoveStale, AddingDown, engine
  <2>4. ASSUME NEW q \in Reps, RequestRemove(q) \/ ReplicaStops(q) \/ EngineNotices(q) PROVE FALSE
    BY <2>4 DEF RequestRemove, ReplicaStops, EngineNotices, engine
  <2>5. CASE RemoveStop \/ RemoveInst \/ UNCHANGED vars
    BY <2>5 DEF RemoveStop, RemoveInst, vars, engine
  <2> QED BY <2>1, <2>2, <2>3, <2>4, <2>5 DEF Next, Rest
<1> QED BY <1>1, RebuildInvariant, PTL DEF Spec, DetachOnlyWithoutGood

-----------------------------------------------------------------------------
(* The placement of replicas.                                              *)

States == {"none", "create", "get", "set", "clean", "ok", "error"}

\* A host is called once for a replica, so what it has left behind stays: the
\* container that is stored, and the one whose cleanup has failed.
OnceAt(r, h) ==
  /\ srv[r][h] # "none" => h \notin todo[r] /\ pc[r] # "idle"
  /\ srv[r][h] \in {"get", "set", "clean"} => <<r, h>> \in cont
  /\ stored[r] = h => h \notin todo[r] /\ pc[r] # "idle"
  /\ stored[r] = h /\ r \notin timedOut
       => <<r, h>> \in cont \ leaked /\ srv[r][h] \in {"ok", "none"}
  /\ <<r, h>> \in leaked => /\ srv[r][h] \in {"error", "none"}
                            /\ h \notin todo[r] /\ pc[r] # "idle"

Once == \A r \in Names, h \in Hosts : OnceAt(r, h)

\* No host works for a replica but the one called, a container is stored, being
\* made, or one whose cleanup has failed, and a stored replica ends its request.
AloneAt(r, h) ==
  /\ srv[r][h] # "none" => pc[r] = "call" /\ at[r] = h
  /\ <<r, h>> \in cont \ leaked => stored[r] = h \/ srv[r][h] \in {"get", "set", "clean"}
  /\ stored[r] = h => pc[r] = "done" \/ srv[r][h] = "ok"

\* This needs connections that hold and writes that fail without effect.
Alone == lost = 0 => \A r \in Names \ timedOut, h \in Hosts : AloneAt(r, h)

\* A host that a request has tried and left has failed for it.
TriedFailed(r) ==
  /\ pc[r] = "pick" => \A h \in Hosts : h \in todo[r] \cup refused[r]
  /\ pc[r] = "call" => /\ \A h \in Hosts : h \in todo[r] \cup refused[r] \cup {at[r]}
                       /\ srv[r][at[r]] \in {"clean", "error"} => at[r] \in refused[r]
  /\ pc[r] = "failed" => \A h \in Hosts : h \in refused[r]

Failing == lost = 0 => \A r \in Names \ timedOut : TriedFailed(r)

\* A write that took effect and failed is a failure.
Unsure == failures = 0 => timedOut = {}

Active(r) == pc[r] \in {"pick", "call"}

\* One request at a time is being placed.
OneActive == \A q, r \in Names : Active(q) /\ Active(r) => q = r

\* The first host tried is the one; its priority is that of the replicas stored
\* by then, which stay the same until the request ends.
PlacedAt(r) ==
  /\ pc[r] = "pick" => todo[r] = Hosts
  /\ Active(r) => \A h \in low[r] : \E q \in Names \ {r} : stored[q] = h
  /\ Active(r) => \A q \in Names \ {r} : stored[q] # NoHost => stored[q] \in low[r]
  /\ pc[r] = "call" /\ at[r] \in low[r] => Hosts \subseteq low[r]
  /\ \A h \in Hosts : srv[r][h] \notin {"clean", "error"}

Placed == failures = 0 /\ lost = 0 => \A r \in Names : PlacedAt(r)

PlaceInv == PlaceTypeOK /\ Once /\ Alone /\ Failing /\ Unsure /\ OneActive /\ Placed /\ Spread
----------------------------------------------------------------------------
(* Types and the effect of a host's step.                                  *)

LEMMA Served ==
  ASSUME PlaceTypeOK, NEW r \in Names, NEW h \in Hosts, NEW s \in States, Serve(r, h, s)
  PROVE  /\ srv' \in [Names -> [Hosts -> States]]
         /\ srv'[r][h] = s
         /\ \A q \in Names, g \in Hosts : q # r \/ g # h => srv'[q][g] = srv[q][g]
BY DEF PlaceTypeOK, Serve, States

\* Failures and broken connections are only counted up, and what has failed is
\* not forgotten.
LEMMA Counters ==
  ASSUME PlaceTypeOK, [PlaceNext]_placeVars
  PROVE  (lost' = 0 => lost = 0) /\ (failures' = 0 => failures = 0)
<1>0. lost \in Nat /\ failures \in Nat
  BY SMT DEF PlaceTypeOK
<1>1. lost' \in {lost, lost + 1} /\ failures' \in {failures, failures + 1}
  <2>1. ASSUME NEW r \in Names, ScheduleReplica(r) \/ LoseResponse(r) \/ NoSuitableHost(r) \/ Response(r)
        PROVE  lost' \in {lost, lost + 1} /\ failures' \in {failures, failures + 1}
    BY <2>1 DEF ScheduleReplica, LoseResponse, NoSuitableHost, Response, Failure
  <2>2. ASSUME NEW r \in Names, NEW h \in Hosts, ScheduleProcess(r, h)
        PROVE  lost' \in {lost, lost + 1} /\ failures' \in {failures, failures + 1}
    BY <2>2 DEF ScheduleProcess, Refuse, Failure
  <2>3. ASSUME NEW r \in Names, NEW h \in Hosts, ServerStep(r, h)
        PROVE  lost' \in {lost, lost + 1} /\ failures' \in {failures, failures + 1}
    BY <2>3 DEF ServerStep, Container, GetMetadata, SetMetadata, CleanUp, Refuse, Failure
  <2>4. CASE UNCHANGED placeVars
    BY <2>4 DEF placeVars
  <2> QED BY <2>1, <2>2, <2>3, <2>4 DEF PlaceNext, ClientStep, PlaceRest
<1> QED BY <1>0, <1>1, SMT

LEMMA Remembered ==
  ASSUME PlaceTypeOK, [PlaceNext]_placeVars
  PROVE  /\ timedOut \subseteq timedOut'
         /\ \A r \in Names : refused[r] \subseteq refused'[r]
<1>1. ASSUME NEW r \in Names, NEW h \in Hosts, Refuse(r, h)
      PROVE  \A q \in Names : refused[q] \subseteq refused'[q]
  BY <1>1 DEF Refuse, PlaceTypeOK
<1>2. ASSUME NEW r \in Names, ScheduleReplica(r) \/ LoseResponse(r) \/ NoSuitableHost(r) \/ Response(r)
      PROVE  refused' = refused /\ timedOut' = timedOut
  BY <1>2 DEF ScheduleReplica, LoseResponse, NoSuitableHost, Response, history
<1>3. ASSUME NEW r \in Names, NEW h \in Hosts, ScheduleProcess(r, h) \/ ServerStep(r, h)
      PROVE  (Refuse(r, h) \/ refused' = refused) /\ timedOut \subseteq timedOut'
  BY <1>3 DEF ScheduleProcess, ServerStep, Container, GetMetadata, SetMetadata, CleanUp
<1>4. CASE UNCHANGED placeVars
  BY <1>4 DEF placeVars, history
<1> QED BY <1>1, <1>2, <1>3, <1>4 DEF PlaceNext, ClientStep, PlaceRest

LEMMA InitTypes == PlaceInit => PlaceTypeOK
BY SchedulerAssumption, SMT DEF PlaceInit, PlaceTypeOK

LEMMA NextTypes == PlaceTypeOK /\ Once /\ [PlaceNext]_placeVars => PlaceTypeOK'
<1> SUFFICES ASSUME PlaceTypeOK, Once, [PlaceNext]_placeVars PROVE PlaceTypeOK'
  OBVIOUS
<1> USE SchedulerAssumption
<1>1. ASSUME NEW r \in Names, ScheduleReplica(r) PROVE PlaceTypeOK'
  <2>1. /\ at' = at /\ srv' = srv /\ cont' = cont /\ stored' = stored /\ lost' = lost
        /\ leaked' = leaked /\ refused' = refused /\ timedOut' = timedOut
    BY <1>1 DEF ScheduleReplica, history
  <2>2. /\ failures' \in 0..MaxFailures /\ low' \in [Names -> SUBSET Hosts]
        /\ todo' \in [Names -> SUBSET Hosts]
    <3>1. failures' \in 0..MaxFailures
      BY <1>1, SMT DEF ScheduleReplica, Failure, PlaceTypeOK
    <3>2. HostIDMap \in SUBSET Hosts
      BY SMT DEF HostIDMap, PlaceTypeOK
    <3>3. Hosts \in SUBSET Hosts
      OBVIOUS
    <3>4. low' \in [Names -> SUBSET Hosts] /\ todo' \in [Names -> SUBSET Hosts]
      <4>1. low' \in {low, [low EXCEPT ![r] = HostIDMap]} /\ todo' \in {todo, [todo EXCEPT ![r] = Hosts]}
        BY <1>1 DEF ScheduleReplica
      <4>2. low \in [Names -> SUBSET Hosts] /\ todo \in [Names -> SUBSET Hosts]
        BY DEF PlaceTypeOK
      <4> QED BY <3>2, <3>3, <4>1, <4>2
    <3> QED BY <3>1, <3>4
  <2>3. /\ pc' \in [Names -> {"idle", "unread", "pick", "call", "done", "failed"}]
        /\ \A q \in Names : pc'[q] = "call" => pc[q] = "call" /\ todo'[q] = todo[q]
    BY <1>1 DEF ScheduleReplica, PlaceTypeOK
  <2> QED BY <2>1, <2>2, <2>3 DEF PlaceTypeOK
<1>2. ASSUME NEW r \in Names, NEW h \in Hosts, ScheduleProcess(r, h) PROVE PlaceTypeOK'
  <2>1. /\ low' = low /\ cont' = cont /\ stored' = stored /\ leaked' = leaked /\ lost' = lost
        /\ timedOut' = timedOut /\ todo' = [todo EXCEPT ![r] = @ \ {h}] /\ pc[r] = "pick"
    BY <1>2 DEF ScheduleProcess
  <2>2. CASE /\ pc' = [pc EXCEPT ![r] = "call"] /\ at' = [at EXCEPT ![r] = h]
             /\ Serve(r, h, "create") /\ UNCHANGED <<failures, refused>>
    <3>1. srv' \in [Names -> [Hosts -> States]]
      BY <2>2, Served DEF States
    <3> QED BY <2>1, <2>2, <3>1 DEF PlaceTypeOK, States
  <2>3. CASE Refuse(r, h) /\ UNCHANGED <<pc, at, srv>>
    BY <2>1, <2>3, SMT DEF Refuse, Failure, PlaceTypeOK
  <2> QED BY <1>2, <2>2, <2>3 DEF ScheduleProcess
<1>3. ASSUME NEW r \in Names, NoSuitableHost(r) PROVE PlaceTypeOK'
  BY <1>3 DEF NoSuitableHost, history, PlaceTypeOK
<1>4. ASSUME NEW r \in Names, Response(r) PROVE PlaceTypeOK'
  <2>1. at[r] \in Hosts
    BY <1>4 DEF Response, PlaceTypeOK
  <2>2. srv' \in [Names -> [Hosts -> States]]
    <3>1. Serve(r, at[r], "none") /\ "none" \in States
      BY <1>4 DEF Response, States
    <3> QED BY <2>1, <3>1, Served
  <2> QED BY <1>4, <2>2 DEF Response, AfterError, history, PlaceTypeOK, States
<1>5. ASSUME NEW r \in Names, LoseResponse(r) PROVE PlaceTypeOK'
  BY <1>5, SMT DEF LoseResponse, AfterError, history, PlaceTypeOK
<1>6. ASSUME NEW r \in Names, NEW h \in Hosts, ServerStep(r, h) PROVE PlaceTypeOK'
  <2>0. \E s \in States : Serve(r, h, s)
    BY <1>6 DEF ServerStep, Container, GetMetadata, SetMetadata, CleanUp, States, NotStored
  <2>1. srv' \in [Names -> [Hosts -> States]]
    BY <2>0, Served
  <2>2. /\ UNCHANGED <<client, lost>> /\ failures' \in 0..MaxFailures
        /\ refused' \in [Names -> SUBSET Hosts]
    <3>1. UNCHANGED <<client, lost>>
      BY <1>6 DEF ServerStep, Container, GetMetadata, SetMetadata, CleanUp
    <3>2. (UNCHANGED failures \/ Failure) /\ (UNCHANGED refused \/ Refuse(r, h))
      BY <1>6 DEF ServerStep, Container, GetMetadata, SetMetadata, CleanUp, Refuse
    <3> QED BY <3>1, <3>2, SMT DEF Failure, Refuse, PlaceTypeOK
  <2>3. CASE Container(r, h)
    BY <2>1, <2>2, <2>3, SMT DEF Container, PlaceTypeOK, client, States
  <2>5. CASE GetMetadata(r, h)
    BY <2>1, <2>2, <2>5, SMT DEF GetMetadata, PlaceTypeOK, client, States
  <2>6. CASE SetMetadata(r, h)
    <3>1. /\ stored' \in [Names -> Hosts \cup {NoHost}] /\ timedOut' \subseteq Names
          /\ cont' = cont /\ leaked' = leaked
      BY <2>6, SMT DEF SetMetadata, PlaceTypeOK
    <3> QED BY <2>1, <2>2, <3>1 DEF PlaceTypeOK, client, States
  <2>4. CASE CleanUp(r, h)
    <3>1. /\ leaked' \subseteq cont' /\ cont' \subseteq Names \X Hosts /\ stored' = stored
          /\ timedOut' = timedOut
      BY <2>4, SMT DEF CleanUp, Once, OnceAt, PlaceTypeOK
    <3> QED BY <2>1, <2>2, <3>1, SMT DEF PlaceTypeOK, client, States
  <2> QED BY <1>6, <2>3, <2>4, <2>5, <2>6 DEF ServerStep
<1>7. CASE UNCHANGED placeVars
  BY <1>7 DEF placeVars, client, history, PlaceTypeOK
<1> QED
  BY <1>1, <1>2, <1>3, <1>4, <1>5, <1>6, <1>7 DEF PlaceNext, ClientStep, PlaceRest
----------------------------------------------------------------------------
(* One host is called once.                                                *)

LEMMA OnceKept ==
  ASSUME NEW r, NEW h, OnceAt(r, h),
         srv'[r][h] \in {srv[r][h], "none"},
         pc[r] # "idle" => pc'[r] # "idle",
         h \in todo'[r] => h \in todo[r],
         <<r, h>> \in cont => <<r, h>> \in cont',
         <<r, h>> \in leaked' => <<r, h>> \in leaked,
         stored'[r] = h => stored[r] = h,
         r \in timedOut => r \in timedOut'
  PROVE  OnceAt(r, h)'
BY DEF OnceAt

LEMMA NextOnce == PlaceTypeOK /\ Once /\ [PlaceNext]_placeVars => Once'
<1> SUFFICES ASSUME PlaceTypeOK, Once, [PlaceNext]_placeVars, NEW q \in Names, NEW g \in Hosts PROVE OnceAt(q, g)'
  BY DEF Once
<1>0. OnceAt(q, g)
  BY DEF Once
<1> USE SchedulerAssumption
<1>b. q \in timedOut => q \in timedOut'
  BY Remembered
<1>1. ASSUME NEW r \in Names, ScheduleReplica(r) PROVE OnceAt(q, g)'
  <2>1. srv' = srv /\ cont' = cont /\ stored' = stored /\ leaked' = leaked /\ pc[r] = "idle"
        /\ timedOut' = timedOut /\ pc'[r] # "idle"
        /\ (q # r => pc'[q] = pc[q] /\ todo'[q] = todo[q])
    BY <1>1 DEF ScheduleReplica, history, PlaceTypeOK
  <2>2. CASE q = r
    BY <1>0, <2>1, <2>2 DEF OnceAt
  <2>3. CASE q # r
    BY <1>0, <2>1, <2>3 DEF OnceAt
  <2> QED BY <2>2, <2>3
<1>2. ASSUME NEW r \in Names, NEW h \in Hosts, ScheduleProcess(r, h) PROVE OnceAt(q, g)'
  <2>1. /\ cont' = cont /\ stored' = stored /\ leaked' = leaked /\ h \in todo[r]
        /\ todo'[q] \subseteq todo[q] /\ (pc[q] # "idle" => pc'[q] # "idle")
        /\ h \notin todo'[r] /\ pc'[r] # "idle"
    BY <1>2 DEF ScheduleProcess, Priority, PlaceTypeOK
  <2>2. CASE Serve(r, h, "create") /\ q = r /\ g = h
    <3>1. srv'[r][h] = "create"
      BY <2>2, Served DEF States
    <3> QED BY <1>0, <2>1, <2>2, <3>1 DEF OnceAt
  <2>3. CASE UNCHANGED srv \/ (Serve(r, h, "create") /\ (q # r \/ g # h))
    <3>1. srv'[q][g] = srv[q][g]
      BY <2>3, Served, SMT DEF States
    <3> QED BY <1>0, <1>b, <2>1, <3>1, OnceKept
  <2> QED BY <1>2, <2>2, <2>3 DEF ScheduleProcess
<1>3. ASSUME NEW r \in Names, NoSuitableHost(r) \/ LoseResponse(r) PROVE OnceAt(q, g)'
  <2>1. /\ srv' = srv /\ cont' = cont /\ stored' = stored /\ leaked' = leaked /\ todo' = todo
        /\ (pc[q] # "idle" => pc'[q] # "idle")
    BY <1>3 DEF NoSuitableHost, LoseResponse, AfterError, history, PlaceTypeOK
  <2> QED BY <1>0, <1>b, <2>1, OnceKept
<1>4. ASSUME NEW r \in Names, Response(r) PROVE OnceAt(q, g)'
  <2>1. at[r] \in Hosts
    BY <1>4 DEF Response, PlaceTypeOK
  <2>2. srv'[q][g] \in {srv[q][g], "none"}
    <3>1. Serve(r, at[r], "none") /\ "none" \in States
      BY <1>4 DEF Response, States
    <3> QED BY <2>1, <3>1, Served, SMT
  <2>3. /\ cont' = cont /\ stored' = stored /\ leaked' = leaked /\ todo' = todo
        /\ (pc[q] # "idle" => pc'[q] # "idle")
    BY <1>4 DEF Response, AfterError, history, PlaceTypeOK
  <2> QED BY <1>0, <1>b, <2>2, <2>3, OnceKept
<1>5. ASSUME NEW r \in Names, NEW h \in Hosts, ServerStep(r, h) PROVE OnceAt(q, g)'
  <2>0. PICK s \in States : Serve(r, h, s)
    BY <1>5 DEF ServerStep, Container, GetMetadata, SetMetadata, CleanUp, States, NotStored
  <2>2. pc' = pc /\ todo' = todo
    BY <1>5 DEF ServerStep, Container, GetMetadata, SetMetadata, CleanUp, client
  <2>3. CASE q # r \/ g # h
    <3>1. srv'[q][g] = srv[q][g]
      BY <2>0, <2>3, Served, SMT
    <3>2. /\ (<<q, g>> \in cont => <<q, g>> \in cont')
          /\ (<<q, g>> \in leaked' => <<q, g>> \in leaked)
      BY <1>5, <2>3 DEF ServerStep, Container, GetMetadata, SetMetadata, CleanUp
    <3>3. stored'[q] = g => stored[q] = g
      BY <1>5, <2>3 DEF ServerStep, Container, GetMetadata, SetMetadata, CleanUp, PlaceTypeOK
    <3> QED BY <1>0, <1>b, <2>2, <3>1, <3>2, <3>3, OnceKept
  <2>4. CASE q = r /\ g = h
    <3>1. /\ srv[r][h] \in {"create", "get", "set", "clean"}
          /\ h \notin todo[r] /\ pc[r] # "idle" /\ <<r, h>> \notin leaked
          /\ (r \notin timedOut => stored[r] # h)
      BY <1>0, <1>5, <2>4 DEF ServerStep, Container, GetMetadata, SetMetadata, CleanUp, OnceAt
    <3>2. CASE Container(r, h)
      <4>1. stored' = stored /\ leaked' = leaked
            /\ ((srv'[r][h] \in {"get", "clean"} /\ <<r, h>> \in cont') \/ srv'[r][h] = "error")
        BY <3>2, Served DEF Container, States
      <4> QED BY <1>b, <2>2, <2>4, <3>1, <4>1 DEF OnceAt
    <3>3. CASE GetMetadata(r, h)
      <4>1. stored' = stored /\ leaked' = leaked /\ cont' = cont /\ srv[r][h] = "get"
            /\ srv'[r][h] \in {"set", "clean"}
        BY <3>3, Served DEF GetMetadata, States
      <4> QED BY <1>0, <1>b, <2>2, <2>4, <3>1, <4>1 DEF OnceAt
    <3>4. CASE SetMetadata(r, h)
      <4>1. /\ leaked' = leaked /\ cont' = cont /\ srv[r][h] = "set"
            /\ \/ srv'[r][h] = "ok"
               \/ srv'[r][h] = "clean" /\ (stored' = stored \/ r \in timedOut')
        BY <3>4, Served DEF SetMetadata, NotStored, States
      <4> QED BY <1>0, <1>b, <2>2, <2>4, <3>1, <4>1 DEF OnceAt
    <3>5. CASE CleanUp(r, h)
      <4>1. stored' = stored /\ srv'[r][h] = "error"
        BY <3>5, Served DEF CleanUp, States
      <4> QED BY <1>b, <2>2, <2>4, <3>1, <4>1 DEF OnceAt
    <3> QED BY <1>5, <3>2, <3>3, <3>4, <3>5 DEF ServerStep
  <2> QED BY <2>3, <2>4
<1>6. CASE UNCHANGED placeVars
  BY <1>0, <1>6 DEF placeVars, client, history, OnceAt
<1> QED
  BY <1>1, <1>2, <1>3, <1>4, <1>5, <1>6 DEF PlaceNext, ClientStep, PlaceRest
----------------------------------------------------------------------------
(* While connections hold, one host at a time works for a replica.         *)

LEMMA NextAlone == PlaceTypeOK /\ Once /\ Alone /\ [PlaceNext]_placeVars => Alone'
<1> SUFFICES ASSUME PlaceTypeOK, Once, Alone, [PlaceNext]_placeVars, lost' = 0,
                    NEW q \in Names, q \notin timedOut', NEW g \in Hosts
             PROVE AloneAt(q, g)'
  BY DEF Alone
<1> USE SchedulerAssumption
<1>0. lost = 0
  BY Counters
<1>b. q \notin timedOut
  BY Remembered
<1>a. AloneAt(q, g) /\ OnceAt(q, g)
  BY <1>0, <1>b DEF Alone, Once
<1>1. ASSUME NEW r \in Names, ScheduleReplica(r) PROVE AloneAt(q, g)'
  <2>1. srv' = srv /\ cont' = cont /\ stored' = stored /\ leaked' = leaked /\ at' = at
        /\ pc[r] = "idle" /\ (q # r => pc'[q] = pc[q])
    BY <1>1 DEF ScheduleReplica, history, PlaceTypeOK
  <2> QED BY <1>a, <2>1 DEF AloneAt, OnceAt
<1>2. ASSUME NEW r \in Names, NEW h \in Hosts, ScheduleProcess(r, h) PROVE AloneAt(q, g)'
  <2>1. /\ cont' = cont /\ stored' = stored /\ leaked' = leaked /\ pc[r] = "pick"
    BY <1>2 DEF ScheduleProcess
  <2>2. CASE /\ pc' = [pc EXCEPT ![r] = "call"] /\ at' = [at EXCEPT ![r] = h]
             /\ Serve(r, h, "create")
    <3>1. /\ srv'[r][h] = "create" /\ (q # r \/ g # h => srv'[q][g] = srv[q][g])
          /\ pc'[r] = "call" /\ at'[r] = h /\ (q # r => pc'[q] = pc[q] /\ at'[q] = at[q])
      BY <2>2, Served, SMT DEF States, PlaceTypeOK
    <3> QED BY <1>a, <2>1, <3>1 DEF AloneAt
  <2>3. CASE UNCHANGED <<pc, at, srv>>
    BY <1>a, <2>1, <2>3 DEF AloneAt
  <2> QED BY <1>2, <2>2, <2>3 DEF ScheduleProcess
<1>3. ASSUME NEW r \in Names, NoSuitableHost(r) PROVE AloneAt(q, g)'
  <2>1. srv' = srv /\ cont' = cont /\ stored' = stored /\ leaked' = leaked /\ at' = at
        /\ pc[r] = "pick" /\ (q # r => pc'[q] = pc[q])
    BY <1>3 DEF NoSuitableHost, history, PlaceTypeOK
  <2> QED BY <1>a, <2>1 DEF AloneAt
<1>4. ASSUME NEW r \in Names, Response(r) PROVE AloneAt(q, g)'
  <2>1. /\ cont' = cont /\ stored' = stored /\ leaked' = leaked /\ pc[r] = "call" /\ at[r] \in Hosts
        /\ (q # r => pc'[q] = pc[q] /\ at'[q] = at[q]) /\ srv[r][at[r]] \in {"ok", "error"}
        /\ (srv[r][at[r]] = "ok" => pc'[r] = "done")
    BY <1>4 DEF Response, history, PlaceTypeOK
  <2>2. srv'[r][at[r]] = "none" /\ (q # r \/ g # at[r] => srv'[q][g] = srv[q][g])
    <3>1. Serve(r, at[r], "none") /\ "none" \in States
      BY <1>4 DEF Response, States
    <3> QED BY <2>1, <3>1, Served, SMT
  <2> QED BY <1>a, <2>1, <2>2 DEF AloneAt
<1>5. ASSUME NEW r \in Names, LoseResponse(r) PROVE AloneAt(q, g)'
  BY <1>0, <1>5, SMT DEF LoseResponse
<1>6. ASSUME NEW r \in Names, NEW h \in Hosts, ServerStep(r, h) PROVE AloneAt(q, g)'
  <2>0. PICK s \in States : Serve(r, h, s)
    BY <1>6 DEF ServerStep, Container, GetMetadata, SetMetadata, CleanUp, States, NotStored
  <2>1. pc' = pc /\ at' = at
    BY <1>6 DEF ServerStep, Container, GetMetadata, SetMetadata, CleanUp, client
  <2>2. CASE q # r
    <3>1. srv'[q][g] = srv[q][g]
      BY <2>0, <2>2, Served, SMT
    <3>2. <<q, g>> \in cont' \ leaked' => <<q, g>> \in cont \ leaked
      BY <1>6, <2>2, SMT DEF ServerStep, Container, GetMetadata, SetMetadata, CleanUp
    <3>3. stored'[q] = stored[q]
      BY <1>6, <2>2 DEF ServerStep, Container, GetMetadata, SetMetadata, CleanUp, PlaceTypeOK
    <3> QED BY <1>a, <2>1, <3>1, <3>2, <3>3 DEF AloneAt
  <2>3. ASSUME q = r
        PROVE  /\ AloneAt(r, h) /\ OnceAt(r, h) /\ srv[r][h] \in {"create", "get", "set", "clean"}
               /\ pc[r] = "call" /\ at[r] = h /\ stored[r] # h /\ <<r, h>> \notin leaked
    <3>1. AloneAt(r, h) /\ OnceAt(r, h)
      BY <1>0, <1>b, <2>3 DEF Alone, Once
    <3> QED BY <1>6, <1>b, <2>3, <3>1
            DEF ServerStep, Container, GetMetadata, SetMetadata, CleanUp, OnceAt, AloneAt
  <2>4. CASE q = r /\ g # h
    <3>1. srv'[q][g] = srv[q][g]
      BY <2>0, <2>4, Served, SMT
    <3>2. <<q, g>> \in cont' \ leaked' => <<q, g>> \in cont \ leaked
      BY <1>6, <2>4, SMT DEF ServerStep, Container, GetMetadata, SetMetadata, CleanUp
    <3>3. stored'[q] = stored[q] \/ stored'[q] = h
      BY <1>6, <2>4 DEF ServerStep, Container, GetMetadata, SetMetadata, CleanUp, PlaceTypeOK
    <3> QED BY <1>a, <2>1, <2>3, <2>4, <3>1, <3>2, <3>3 DEF AloneAt
  <2>5. CASE q = r /\ g = h
    <3>2. CASE Container(r, h)
      <4>1. stored' = stored /\ leaked' = leaked /\ srv[r][h] = "create"
            /\ (srv'[r][h] \in {"get", "clean"} \/ (srv'[r][h] = "error" /\ cont' = cont))
        BY <3>2, Served DEF Container, States
      <4> QED BY <2>1, <2>3, <2>5, <4>1 DEF AloneAt
    <3>3. CASE GetMetadata(r, h)
      <4>1. stored' = stored /\ srv'[r][h] \in {"set", "clean"}
        BY <3>3, Served DEF GetMetadata, States
      <4> QED BY <2>1, <2>3, <2>5, <4>1 DEF AloneAt
    <3>4. CASE SetMetadata(r, h)
      <4>1. \/ srv'[r][h] = "ok" /\ stored'[r] = h
            \/ srv'[r][h] = "clean" /\ stored' = stored
        <5>1. CASE Serve(r, h, "ok") /\ stored' = [stored EXCEPT ![r] = h]
          <6>1. srv'[r][h] = "ok"
            BY <5>1, Served DEF States
          <6> QED BY <5>1, <6>1 DEF PlaceTypeOK
        <5>2. CASE Serve(r, h, "clean") /\ stored' = stored
          BY <5>2, Served DEF States
        <5> QED BY <2>5, <3>4, <5>1, <5>2 DEF SetMetadata, NotStored
      <4> QED BY <2>1, <2>3, <2>5, <4>1 DEF AloneAt
    <3>5. CASE CleanUp(r, h)
      <4>1. stored' = stored /\ srv'[r][h] = "error" /\ <<r, h>> \notin cont' \ leaked'
        BY <3>5, Served DEF CleanUp, States
      <4> QED BY <2>1, <2>3, <2>5, <4>1 DEF AloneAt
    <3> QED BY <1>6, <3>2, <3>3, <3>4, <3>5 DEF ServerStep
  <2> QED BY <2>2, <2>4, <2>5
<1>7. CASE UNCHANGED placeVars
  BY <1>a, <1>7 DEF placeVars, client, history, AloneAt
<1> QED
  BY <1>1, <1>2, <1>3, <1>4, <1>5, <1>6, <1>7 DEF PlaceNext, ClientStep, PlaceRest
----------------------------------------------------------------------------
(* A host that a request has tried and left has failed for it.            *)

LEMMA ServerFails ==
  ASSUME PlaceTypeOK, Once, Alone, lost = 0, NEW r \in Names, r \notin timedOut, NEW h \in Hosts,
         ServerStep(r, h)
  PROVE  \/ srv'[r][h] \notin {"clean", "error"}
         \/ srv[r][h] = "clean"
         \/ failures' = failures + 1 /\ h \in refused'[r]
<1>0. Refuse(r, h) => failures' = failures + 1 /\ h \in refused'[r]
  <2>1. Refuse(r, h) => h \in refused'[r]
    BY SMT DEF Refuse, PlaceTypeOK
  <2> QED BY <2>1 DEF Refuse, Failure
<1>1. CASE GetMetadata(r, h)
  <2>1. AloneAt(r, h) /\ OnceAt(r, h) /\ (stored[r] # NoHost => AloneAt(r, stored[r]))
    BY DEF Alone, Once, PlaceTypeOK
  <2>2. stored[r] = NoHost
    BY <1>1, <2>1 DEF AloneAt, OnceAt, GetMetadata
  <2> QED BY <1>0, <1>1, <2>2, Served DEF GetMetadata, States
<1>2. CASE Container(r, h)
  BY <1>0, <1>2, Served DEF Container, States
<1>3. CASE SetMetadata(r, h)
  BY <1>0, <1>3, Served DEF SetMetadata, States
<1>4. CASE CleanUp(r, h)
  BY <1>4 DEF CleanUp
<1> QED BY <1>1, <1>2, <1>3, <1>4 DEF ServerStep

LEMMA NextFailing == PlaceTypeOK /\ Once /\ Alone /\ Failing /\ [PlaceNext]_placeVars => Failing'
<1> SUFFICES ASSUME PlaceTypeOK, Once, Alone, Failing, [PlaceNext]_placeVars, lost' = 0,
                    NEW q \in Names, q \notin timedOut'
             PROVE TriedFailed(q)'
  BY DEF Failing
<1> USE SchedulerAssumption
<1>0. lost = 0
  BY Counters
<1>b. q \notin timedOut /\ refused[q] \subseteq refused'[q]
  BY Remembered
<1>a. TriedFailed(q)
  BY <1>0, <1>b DEF Failing
<1>c. pc[q] = "call" => at[q] \in Hosts
  BY DEF PlaceTypeOK
<1>1. ASSUME NEW r \in Names, ScheduleReplica(r) PROVE TriedFailed(q)'
  <2>1. /\ srv' = srv /\ at' = at /\ (q # r => pc'[q] = pc[q] /\ todo'[q] = todo[q])
        /\ pc'[r] = "unread" \/ (pc'[r] = "pick" /\ todo'[r] = Hosts)
    BY <1>1 DEF ScheduleReplica, PlaceTypeOK
  <2> QED BY <1>a, <1>b, <2>1 DEF TriedFailed
<1>2. ASSUME NEW r \in Names, NEW h \in Hosts, ScheduleProcess(r, h) PROVE TriedFailed(q)'
  <2>1. /\ pc[r] = "pick" /\ todo'[r] = todo[r] \ {h} /\ (q # r => todo'[q] = todo[q])
    BY <1>2 DEF ScheduleProcess, PlaceTypeOK
  <2>2. CASE /\ pc' = [pc EXCEPT ![r] = "call"] /\ at' = [at EXCEPT ![r] = h]
             /\ Serve(r, h, "create")
    <3>1. /\ pc'[r] = "call" /\ at'[r] = h /\ (q # r => pc'[q] = pc[q] /\ at'[q] = at[q])
      BY <2>2 DEF PlaceTypeOK
    <3>2. /\ srv'[r][h] = "create" /\ \A k \in Hosts : q # r => srv'[q][k] = srv[q][k]
      BY <2>2, Served, SMT DEF States
    <3>3. CASE q = r
      BY <1>a, <1>b, <2>1, <3>1, <3>2, <3>3 DEF TriedFailed
    <3>4. CASE q # r
      BY <1>a, <1>b, <1>c, <2>1, <3>1, <3>2, <3>4 DEF TriedFailed
    <3> QED BY <3>3, <3>4
  <2>3. CASE Refuse(r, h) /\ UNCHANGED <<pc, at, srv>>
    <3>1. h \in refused'[r]
      BY <2>3 DEF Refuse, PlaceTypeOK
    <3>2. CASE q = r
      BY <1>a, <1>b, <2>1, <2>3, <3>1, <3>2 DEF TriedFailed
    <3>3. CASE q # r
      BY <1>a, <1>b, <2>1, <2>3, <3>3 DEF TriedFailed
    <3> QED BY <3>2, <3>3
  <2> QED BY <1>2, <2>2, <2>3 DEF ScheduleProcess
<1>3. ASSUME NEW r \in Names, NoSuitableHost(r) PROVE TriedFailed(q)'
  <2>1. srv' = srv /\ at' = at /\ todo' = todo
        /\ pc[r] = "pick" /\ pc'[r] = "failed" /\ (q # r => pc'[q] = pc[q]) /\ todo[r] = {}
    BY <1>3 DEF NoSuitableHost, PlaceTypeOK
  <2> QED BY <1>a, <1>b, <2>1 DEF TriedFailed
<1>4. ASSUME NEW r \in Names, Response(r) PROVE TriedFailed(q)'
  <2>1. /\ todo' = todo /\ pc[r] = "call" /\ at[r] \in Hosts
        /\ (q # r => pc'[q] = pc[q] /\ at'[q] = at[q]) /\ srv[r][at[r]] \in {"ok", "error"}
        /\ pc'[r] = (IF srv[r][at[r]] = "ok" THEN "done" ELSE "pick")
    BY <1>4 DEF Response, AfterError, PlaceTypeOK
  <2>2. \A k \in Hosts : q # r => srv'[q][k] = srv[q][k]
    <3>1. Serve(r, at[r], "none") /\ "none" \in States /\ at[r] \in Hosts
      BY <1>4, <2>1 DEF Response, States
    <3> QED BY <3>1, Served, SMT
  <2> QED BY <1>a, <1>b, <1>c, <2>1, <2>2 DEF TriedFailed
<1>5. ASSUME NEW r \in Names, LoseResponse(r) PROVE TriedFailed(q)'
  BY <1>0, <1>5, SMT DEF LoseResponse
<1>6. ASSUME NEW r \in Names, NEW h \in Hosts, ServerStep(r, h) PROVE TriedFailed(q)'
  <2>0. PICK s \in States : Serve(r, h, s)
    BY <1>6 DEF ServerStep, Container, GetMetadata, SetMetadata, CleanUp, States, NotStored
  <2>1. pc' = pc /\ at' = at /\ todo' = todo
    BY <1>6 DEF ServerStep, Container, GetMetadata, SetMetadata, CleanUp, client
  <2>2. CASE q # r \/ h # at[q]
    <3>1. pc[q] = "call" => srv'[q][at[q]] = srv[q][at[q]]
      BY <1>c, <2>0, <2>2, Served, SMT
    <3> QED BY <1>a, <1>b, <2>1, <3>1 DEF TriedFailed
  <2>3. CASE q = r /\ h = at[q]
    <3>1. srv'[r][h] \in {"clean", "error"} => srv[r][h] = "clean" \/ h \in refused'[r]
      BY <1>0, <1>b, <1>6, <2>3, ServerFails
    <3> QED BY <1>a, <1>b, <2>1, <2>3, <3>1 DEF TriedFailed
  <2> QED BY <2>2, <2>3
<1>7. CASE UNCHANGED placeVars
  BY <1>a, <1>7 DEF placeVars, client, history, TriedFailed
<1> QED
  BY <1>1, <1>2, <1>3, <1>4, <1>5, <1>6, <1>7 DEF PlaceNext, ClientStep, PlaceRest

LEMMA NextUnsure == PlaceTypeOK /\ Unsure /\ [PlaceNext]_placeVars => Unsure'
<1> SUFFICES ASSUME PlaceTypeOK, Unsure, [PlaceNext]_placeVars, failures' = 0 PROVE timedOut' = {}
  BY DEF Unsure
<1>0. failures = 0
  BY Counters
<1>1. ASSUME NEW r \in Names, NEW h \in Hosts PROVE ~ Refuse(r, h)
  BY <1>0, SMT DEF Refuse, Failure
<1>2. timedOut' = timedOut
  BY <1>1 DEF PlaceNext, placeVars, history, ScheduleReplica, ClientStep, ScheduleProcess, NoSuitableHost,
     Response, LoseResponse, ServerStep, Container, GetMetadata, SetMetadata, CleanUp, PlaceRest
<1> QED BY <1>0, <1>2 DEF Unsure
----------------------------------------------------------------------------
(* Without failures the first host is the one, and it has no replica of    *)
(* the volume unless every host has one.                                   *)

LEMMA NextOneActive == PlaceTypeOK /\ OneActive /\ [PlaceNext]_placeVars => OneActive'
<1> SUFFICES ASSUME PlaceTypeOK, OneActive, [PlaceNext]_placeVars, NEW p \in Names, NEW q \in Names,
                    Active(p)', Active(q)'
             PROVE p = q
  BY DEF OneActive
<1>1. ASSUME NEW r \in Names, ScheduleReplica(r) PROVE p = q
  <2>1. \A x \in Names : x # r => pc'[x] = pc[x] /\ ~ Active(x)
    BY <1>1 DEF ScheduleReplica, Active, PlaceTypeOK
  <2> QED BY <2>1 DEF Active
<1>2. CASE \E r \in Names : ClientStep(r) \/ LoseResponse(r)
  <2>1. ASSUME NEW x \in Names, Active(x)' PROVE Active(x)
    <3>1. PICK r \in Names : ClientStep(r) \/ LoseResponse(r)
      BY <1>2
    <3>2. pc[r] \in {"pick", "call"} /\ (x # r => pc'[x] = pc[x])
      BY <3>1 DEF ClientStep, ScheduleProcess, NoSuitableHost, Response, LoseResponse, PlaceTypeOK
    <3> QED BY <2>1, <3>2 DEF Active
  <2> QED BY <2>1 DEF OneActive
<1>3. CASE UNCHANGED pc
  BY <1>3 DEF OneActive, Active
<1> QED
  BY <1>1, <1>2, <1>3 DEF PlaceNext, ServerStep, Container, GetMetadata, SetMetadata, CleanUp, PlaceRest,
                          placeVars, client

LEMMA PlacedKept ==
  ASSUME NEW r, PlacedAt(r),
         \/ pc'[r] = pc[r] /\ todo'[r] = todo[r] /\ at'[r] = at[r]
         \/ pc'[r] \notin {"pick", "call"},
         Active(r) => /\ low'[r] = low[r]
                      /\ \A q \in Names \ {r} : stored'[q] = stored[q],
         \A h \in Hosts : srv'[r][h] \notin {"clean", "error"}
  PROVE  PlacedAt(r)'
<1>1. CASE pc'[r] \notin {"pick", "call"}
  BY <1>1 DEF PlacedAt, Active
<1>2. CASE pc'[r] \in {"pick", "call"}
  <2>1. /\ pc'[r] = pc[r] /\ todo'[r] = todo[r] /\ at'[r] = at[r] /\ Active(r)
        /\ low'[r] = low[r] /\ \A q \in Names \ {r} : stored'[q] = stored[q]
    BY <1>2 DEF Active
  <2> QED BY <2>1 DEF PlacedAt, Active
<1> QED BY <1>1, <1>2

LEMMA NextPlaced ==
  PlaceTypeOK /\ Once /\ Alone /\ Unsure /\ OneActive /\ Placed /\ [PlaceNext]_placeVars => Placed'
<1> SUFFICES ASSUME PlaceTypeOK, Once, Alone, Unsure, OneActive, Placed, [PlaceNext]_placeVars, failures' = 0, lost' = 0,
                    NEW q \in Names
             PROVE PlacedAt(q)'
  BY DEF Placed
<1> USE SchedulerAssumption
<1>0. lost = 0
  BY Counters
<1>b. failures = 0
  BY Counters
<1>c. ~ Failure /\ timedOut = {}
  BY <1>b, SMT DEF Failure, Unsure
<1>a. \A r \in Names : PlacedAt(r)
  BY <1>0, <1>b DEF Placed
<1>1. ASSUME NEW r \in Names, ScheduleReplica(r) PROVE PlacedAt(q)'
  <2>1. srv' = srv /\ stored' = stored /\ pc[r] = "idle" /\ pc'[r] = "pick" /\ todo'[r] = Hosts
        /\ (q # r => pc'[q] = pc[q] /\ ~ Active(q)) /\ low'[r] = HostIDMap
    BY <1>1, <1>c DEF ScheduleReplica, PlaceTypeOK, Active
  <2>2. CASE q = r
    <3>1. stored[r] = NoHost
      BY <2>1 DEF Once, OnceAt, PlaceTypeOK
    <3>2. /\ \A h \in low'[r] : \E p \in Names \ {r} : stored[p] = h
          /\ \A p \in Names \ {r} : stored[p] # NoHost => stored[p] \in low'[r]
      BY <2>1, <3>1 DEF HostIDMap
    <3> QED BY <1>a, <2>1, <2>2, <3>2 DEF PlacedAt
  <2>3. CASE q # r
    BY <1>a, <2>1, <2>3 DEF PlacedAt, Active
  <2> QED BY <2>2, <2>3
<1>2. ASSUME NEW r \in Names, NEW h \in Hosts, ScheduleProcess(r, h) PROVE PlacedAt(q)'
  <2>1. /\ stored' = stored /\ low' = low /\ pc[r] = "pick" /\ pc'[r] = "call" /\ at'[r] = h
        /\ (q # r => pc'[q] = pc[q] /\ at'[q] = at[q] /\ todo'[q] = todo[q])
        /\ (h \in low[r] => todo[r] \subseteq low[r])
    BY <1>2, <1>c DEF ScheduleProcess, Refuse, Priority, PlaceTypeOK
  <2>2. \A k \in Hosts : srv'[q][k] \in {srv[q][k], "create"}
    BY <1>2, <1>c, Served, SMT DEF ScheduleProcess, Refuse, States
  <2>3. PlacedAt(q) /\ \A k \in Hosts : srv'[q][k] \notin {"clean", "error"}
    BY <1>a, <2>2 DEF PlacedAt
  <2>4. CASE q # r
    BY <2>1, <2>3, <2>4, PlacedKept
  <2>5. CASE q = r
    <3>1. h \in low[q] => Hosts \subseteq low[q]
      BY <2>1, <2>3, <2>5 DEF PlacedAt
    <3> QED BY <2>1, <2>3, <2>5, <3>1 DEF PlacedAt, Active
  <2> QED BY <2>4, <2>5
<1>3. ASSUME NEW r \in Names, NoSuitableHost(r) PROVE PlacedAt(q)'
  <2>1. srv' = srv /\ stored' = stored /\ low' = low /\ todo' = todo /\ at' = at
        /\ pc'[r] = "failed" /\ (q # r => pc'[q] = pc[q])
    BY <1>3 DEF NoSuitableHost, PlaceTypeOK
  <2>2. PlacedAt(q) /\ \A k \in Hosts : srv'[q][k] \notin {"clean", "error"}
    BY <1>a, <2>1 DEF PlacedAt
  <2> QED BY <2>1, <2>2, PlacedKept
<1>4. ASSUME NEW r \in Names, Response(r) PROVE PlacedAt(q)'
  <2>1. /\ stored' = stored /\ low' = low /\ todo' = todo /\ at[r] \in Hosts
        /\ (q # r => pc'[q] = pc[q] /\ at'[q] = at[q])
        /\ (srv[r][at[r]] = "ok" => pc'[r] = "done") /\ srv[r][at[r]] \in {"ok", "error"}
    BY <1>4 DEF Response, PlaceTypeOK
  <2>2. pc'[r] = "done"
    BY <1>a, <2>1 DEF PlacedAt
  <2>3. \A k \in Hosts : srv'[q][k] \in {srv[q][k], "none"}
    <3>1. Serve(r, at[r], "none") /\ "none" \in States
      BY <1>4 DEF Response, States
    <3> QED BY <2>1, <3>1, Served, SMT
  <2>4. PlacedAt(q) /\ \A k \in Hosts : srv'[q][k] \notin {"clean", "error"}
    BY <1>a, <2>3 DEF PlacedAt
  <2> QED BY <2>1, <2>2, <2>4, PlacedKept
<1>5. ASSUME NEW r \in Names, LoseResponse(r) PROVE PlacedAt(q)'
  BY <1>0, <1>5, SMT DEF LoseResponse
<1>6. ASSUME NEW r \in Names, NEW h \in Hosts, ServerStep(r, h) PROVE PlacedAt(q)'
  <2>0. PICK s \in States : Serve(r, h, s)
    BY <1>6 DEF ServerStep, Container, GetMetadata, SetMetadata, CleanUp, States, NotStored
  <2>1. pc' = pc /\ at' = at /\ todo' = todo /\ low' = low
    BY <1>6 DEF ServerStep, Container, GetMetadata, SetMetadata, CleanUp, client
  <2>2. srv[r][h] \notin {"clean", "error"} /\ srv'[r][h] \notin {"clean", "error"}
    <3>1. srv[r][h] \notin {"clean", "error"}
      BY <1>a DEF PlacedAt
    <3>2. failures' # failures + 1
      BY <1>b, SMT
    <3> QED BY <1>0, <1>6, <1>c, <3>1, <3>2, ServerFails
  <2>3. \A k \in Hosts : srv'[q][k] \notin {"clean", "error"}
    <3> SUFFICES ASSUME NEW k \in Hosts PROVE srv'[q][k] \notin {"clean", "error"}
      OBVIOUS
    <3>1. srv[q][k] \notin {"clean", "error"}
      BY <1>a DEF PlacedAt
    <3>2. q # r \/ k # h => srv'[q][k] = srv[q][k]
      BY <2>0, Served, SMT
    <3> QED BY <2>2, <3>1, <3>2
  <2>4. Active(r)
    BY <1>0, <1>6, <1>c DEF Alone, AloneAt, Active, ServerStep, Container, GetMetadata, SetMetadata, CleanUp
  <2>5. \A p \in Names \ {r} : stored'[p] = stored[p]
    BY <1>6 DEF ServerStep, Container, GetMetadata, SetMetadata, CleanUp, PlaceTypeOK
  <2>6. Active(q) => q = r
    BY <2>4 DEF OneActive
  <2>7. PlacedAt(q)
    BY <1>a
  <2> QED BY <2>1, <2>3, <2>5, <2>6, <2>7, PlacedKept
<1>7. CASE UNCHANGED placeVars
  BY <1>a, <1>7 DEF placeVars, client, PlacedAt, Active
<1> QED
  BY <1>1, <1>2, <1>3, <1>4, <1>5, <1>6, <1>7 DEF PlaceNext, ClientStep, PlaceRest

LEMMA NextSpread ==
  PlaceTypeOK /\ Once /\ Alone /\ Unsure /\ Placed /\ Spread /\ [PlaceNext]_placeVars => Spread'
<1> SUFFICES ASSUME PlaceTypeOK, Once, Alone, Unsure, Placed, Spread, [PlaceNext]_placeVars, failures' = 0, lost' = 0,
                    NEW p \in Names, NEW q \in Names, p # q,
                    stored'[p] # NoHost, stored'[p] = stored'[q], NEW g \in Hosts
             PROVE \E r \in Names : stored'[r] = g
  BY DEF Spread
<1> USE SchedulerAssumption
<1>0. lost = 0
  BY Counters
<1>b. failures = 0
  BY Counters
<1>1. CASE stored' = stored
  BY <1>0, <1>b, <1>1 DEF Spread
<1>2. ASSUME NEW r \in Names, NEW h \in Hosts, SetMetadata(r, h), stored' = [stored EXCEPT ![r] = h]
      PROVE \E k \in Names : stored'[k] = g
  <2>1. stored'[r] = h /\ \A k \in Names \ {r} : stored'[k] = stored[k]
    BY <1>2 DEF PlaceTypeOK
  <2>2. pc[r] = "call" /\ at[r] = h /\ stored[r] = NoHost
    <3>1. AloneAt(r, h) /\ OnceAt(r, h) /\ (stored[r] # NoHost => AloneAt(r, stored[r]))
      BY <1>0, <1>b DEF Alone, Once, Unsure, PlaceTypeOK
    <3> QED BY <1>2, <1>b, <3>1 DEF AloneAt, OnceAt, SetMetadata, Unsure
  <2>3. PlacedAt(r)
    BY <1>0, <1>b DEF Placed
  <2>4. CASE p # r /\ q # r
    <3>1. PICK k \in Names : stored[k] = g
      BY <1>0, <1>b, <2>1, <2>4 DEF Spread
    <3> QED BY <2>1, <2>2, <3>1
  <2>5. CASE p = r \/ q = r
    <3>1. h \in low[r]
      BY <2>1, <2>2, <2>3, <2>5, SMT DEF PlacedAt, Active
    <3>2. g \in low[r]
      BY <2>2, <2>3, <3>1 DEF PlacedAt
    <3> QED BY <2>1, <2>2, <2>3, <3>2 DEF PlacedAt, Active
  <2> QED BY <2>4, <2>5
<1>3. stored' = stored \/ \E r \in Names, h \in Hosts : SetMetadata(r, h)
  BY DEF PlaceNext, placeVars, ScheduleReplica, ClientStep, ScheduleProcess, NoSuitableHost,
     Response, LoseResponse, ServerStep, Container, GetMetadata, CleanUp, PlaceRest
<1>4. ASSUME NEW r \in Names, NEW h \in Hosts, SetMetadata(r, h)
      PROVE  stored' = stored \/ stored' = [stored EXCEPT ![r] = h]
  BY <1>4 DEF SetMetadata
<1> QED BY <1>1, <1>2, <1>3, <1>4
----------------------------------------------------------------------------
LEMMA InitPlace == PlaceInit => PlaceInv
<1> SUFFICES ASSUME PlaceInit PROVE PlaceInv
  OBVIOUS
<1> USE SchedulerAssumption
<1>1. PlaceTypeOK
  BY InitTypes
<1>2. \A r \in Names, h \in Hosts :
        srv[r][h] = "none" /\ pc[r] = "idle" /\ stored[r] = NoHost /\ cont = {} /\ leaked = {}
  BY DEF PlaceInit
<1>3. Once /\ Alone
  BY <1>2, SMT DEF Once, OnceAt, Alone, AloneAt
<1>4. Failing /\ OneActive
  BY DEF PlaceInit, Failing, TriedFailed, OneActive, Active
<1>5. Placed
  BY <1>2 DEF PlaceInit, Placed, PlacedAt, Active
<1>6. Spread /\ Unsure
  BY DEF PlaceInit, Spread, Unsure
<1> QED BY <1>1, <1>3, <1>4, <1>5, <1>6 DEF PlaceInv

LEMMA NextPlace == PlaceInv /\ [PlaceNext]_placeVars => PlaceInv'
BY NextTypes, NextOnce, NextAlone, NextFailing, NextUnsure, NextOneActive, NextPlaced, NextSpread DEF PlaceInv

LEMMA Placing == PlaceSpec => []PlaceInv
BY InitPlace, NextPlace, PTL DEF PlaceSpec

\* What is stored as a replica has its container, however many hosts fail and
\* connections break: a host that cleans up has not stored the replica, and is
\* not called for it again (ScheduleProcess, ProcessSchedule).  A write that took
\* effect and failed for its caller is the exception.
THEOREM StoredHasContainerHolds == PlaceSpec => []StoredHasContainer
<1>1. PlaceInv => StoredHasContainer
  BY DEF PlaceInv, PlaceTypeOK, Once, OnceAt, StoredHasContainer
<1> QED BY <1>1, Placing, PTL

\* While connections hold, a request that has ended leaves the container that is
\* stored and no other, except where the cleanup itself has failed or a write
\* took effect and failed for its caller.
THEOREM StoredIsContainerHolds == PlaceSpec => []StoredIsContainer
<1>1. PlaceInv => StoredIsContainer
  <2> SUFFICES ASSUME PlaceInv, lost = 0, NEW r \in Names \ timedOut, Ended(r)
               PROVE {h \in Hosts : <<r, h>> \in cont \ leaked} = {stored[r]} \ {NoHost}
    BY DEF StoredIsContainer
  <2>1. \A h \in Hosts : AloneAt(r, h) /\ OnceAt(r, h)
    BY DEF PlaceInv, Alone, Once
  <2>2. stored[r] \in Hosts \cup {NoHost}
    BY DEF PlaceInv, PlaceTypeOK
  <2>3. \A h \in Hosts : <<r, h>> \in cont \ leaked <=> stored[r] = h
    BY <2>1 DEF AloneAt, OnceAt, Ended
  <2> QED BY <2>2, <2>3, SchedulerAssumption
<1> QED BY <1>1, Placing, PTL

\* While connections hold, a request that could list the hosts fails only after
\* every host has failed for it (Schedule tries "another one" after each).
THEOREM FailsOnlyIfAllFailHolds == PlaceSpec => []FailsOnlyIfAllFail
<1>1. PlaceInv => FailsOnlyIfAllFail
  BY DEF PlaceInv, PlaceTypeOK, Failing, TriedFailed, FailsOnlyIfAllFail
<1> QED BY <1>1, Placing, PTL

\* Without failures, replicas share a host only when every host has one: the
\* priorities that were read at the start of a request are still true when its
\* replica is stored.
THEOREM SpreadHolds == PlaceSpec => []Spread
<1>1. PlaceInv => Spread
  BY DEF PlaceInv
<1> QED BY <1>1, Placing, PTL
=============================================================================
