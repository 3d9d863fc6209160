------------------------------ MODULE Registry ------------------------------
(***************************************************************************)
(* The registry of controllers of one manager (controller/controller.go).  *)
(*                                                                         *)
(* The goroutine holdControllers keeps one controller object per attached  *)
(* volume.  The object owns the queue of background tasks with its two     *)
(* goroutines, the purge queue and the purge lock, so what these promise   *)
(* holds for a volume only as far as its requests share one object.        *)
(* Objects are made by Get and released by Cleanup, both requests on the   *)
(* unbuffered channel reqCh; only Get waits for an answer.                 *)
(*                                                                         *)
(* Get is called with a volume that was read from the store before; every  *)
(* request reads it (man.Get).  Cleanup is called when a monitor is closed *)
(* (manager/monitor.go), with the manager's lock held.  Other managers     *)
(* attach and detach volumes without a word to this registry.              *)
(***************************************************************************)
EXTENDS Naturals, Sequences

CONSTANTS Volumes,   \* names of volumes
          Requests,  \* goroutines that serve requests
          Addrs,     \* addresses docker gives to controllers
          Local,     \* those of controllers on this host
          None,      \* no address, no request
          MaxReqs,   \* bound on the requests made
          MaxAttach  \* bound on the controllers started

ASSUME RegistryAssumption ==
  /\ Local \subseteq Addrs
  /\ None \notin Addrs \cup Requests
  /\ MaxReqs \in Nat /\ MaxAttach \in Nat

VARIABLES
  addr,      \* the address of each volume's running controller in the store
  ctrls,     \* the controller objects made so far: name, url, queue open
  cs,        \* the map of holdControllers: an index of ctrls, 0 for nil
  serving,   \* the request holdControllers blocks on in `r.result <- c`
  pc, kind,  \* where each request is and what it does
  vol,       \* the volume as the request knows it: name and address
  left,      \* calls of getController still to make
  lock,      \* the request that holds the manager's lock
  monitors,  \* the volumes in man.monitors
  reqs, attaches,
  replaced   \* history: the objects taken out of cs without Cleanup

holder == <<ctrls, cs, serving, replaced>>
client == <<pc, kind, vol, left>>
man == <<lock, monitors>>
store == <<addr, attaches>>
vars == <<holder, client, man, store, reqs>>

Kinds == {"get", "attach", "detach"}

\* "reattach" is the rest of an attach once it has called Detach.
Places == {"idle", "get", "wait", "served", "read", "stop", "cleanup", "halt", "create", "start"}

TypeOK ==
  /\ addr \in [Volumes -> Addrs \cup {None}]
  /\ ctrls \in Seq([name : Volumes, url : Addrs, open : BOOLEAN])
  /\ cs \in [Volumes -> 0..Len(ctrls)]
  /\ serving \in Requests \cup {None}
  /\ pc \in [Requests -> Places] /\ kind \in [Requests -> Kinds \cup {"reattach"}]
  /\ vol \in [Requests -> [name : Volumes, address : Addrs \cup {None}]]
  /\ left \in [Requests -> 0..2]
  /\ lock \in Requests \cup {None} /\ monitors \subseteq Volumes
  /\ reqs \in Nat /\ attaches \in Nat
  /\ replaced \subseteq 1..Len(ctrls)

Init ==
  /\ addr = [v \in Volumes |-> None]
  /\ ctrls = <<>> /\ cs = [v \in Volumes |-> 0] /\ serving = None
  /\ pc = [r \in Requests |-> "idle"] /\ kind = [r \in Requests |-> "get"]
  /\ vol \in [Requests -> {[name |-> v, address |-> None] : v \in Volumes}]
  /\ left = [r \in Requests |-> 0]
  /\ lock = None /\ monitors = {}
  /\ reqs = 0 /\ attaches = 0 /\ replaced = {}

Goto(r, p) == pc' = [pc EXCEPT ![r] = p] /\ UNCHANGED <<kind, vol, left>>

\* The request ends and forgets what it has read.
Return(r) ==
  /\ pc' = [pc EXCEPT ![r] = "idle"] /\ kind' = [kind EXCEPT ![r] = "get"]
  /\ vol' = [vol EXCEPT ![r].address = None] /\ left' = [left EXCEPT ![r] = 0]
----------------------------------------------------------------------------
(* A request reads the volume and, while its controller runs, calls        *)
(* getController for the endpoint.                                         *)

\* Mutant: the request is sent whether or not the controller runs.
CallGetAlways(a) == TRUE

\* Get returns nil at once for a volume without a running controller.
CallGet(a) == a # None

ManGet(r, k, v) ==
  /\ kind' = [kind EXCEPT ![r] = k]
  /\ vol' = [vol EXCEPT ![r] = [name |-> v, address |-> addr[v]]]
  /\ IF CallGet(addr[v])
     THEN pc' = [pc EXCEPT ![r] = "get"] /\ left' = [left EXCEPT ![r] = 1]
     ELSE pc' = [pc EXCEPT ![r] = "read"] /\ left' = [left EXCEPT ![r] = 0]

Begin(r, k, v) ==
  /\ pc[r] = "idle" /\ reqs < MaxReqs
  /\ reqs' = reqs + 1
  /\ ManGet(r, k, v)
  /\ UNCHANGED <<holder, man, store>>
----------------------------------------------------------------------------
(* The goroutine holdControllers.                                          *)

\* The volume in the request: Cleanup sends a copy without a controller.
Sent(r) == IF pc[r] = "cleanup" THEN None ELSE vol[r].address

Receive(r) == serving = None /\ pc[r] \in {"get", "cleanup"}

\* Mutant: the entry goes without its queue being closed.
ReleaseOnly(v) ==
  cs' = [cs EXCEPT ![v] = 0] /\ UNCHANGED ctrls

\* The queue of the volume's controller is closed and the entry deleted.
Release(v) ==
  /\ ctrls' = IF cs[v] = 0 THEN ctrls ELSE [ctrls EXCEPT ![cs[v]].open = FALSE]
  /\ cs' = [cs EXCEPT ![v] = 0]

\* No running controller in the request: nothing is answered.  The caller of
\* Cleanup does not wait for an answer, and stopMonitoring goes on to delete
\* the monitor and to unlock.
HoldRelease(r) ==
  /\ Receive(r) /\ Sent(r) = None
  /\ Release(vol[r].name)
  /\ IF pc[r] = "cleanup"
     THEN /\ Goto(r, "halt")
          /\ monitors' = monitors \ {vol[r].name} /\ lock' = None
     ELSE Goto(r, "wait") /\ UNCHANGED man
  /\ UNCHANGED <<serving, replaced, store, reqs>>

\* Mutant: an entry is used whatever its address.
KnownByName(r) == cs[vol[r].name] # 0

Known(r) == LET c == cs[vol[r].name] IN c # 0 /\ ctrls[c].url = vol[r].address

\* A new controller, its queue and its runner replace the entry of the volume
\* unless that has the same address.  An entry with another address is left
\* as it is, with its queue open.
HoldGet(r) ==
  /\ Receive(r) /\ Sent(r) # None
  /\ LET v == vol[r].name IN
       IF Known(r) THEN UNCHANGED <<ctrls, cs, replaced>>
       ELSE /\ ctrls' = Append(ctrls, [name |-> v, url |-> vol[r].address, open |-> TRUE])
            /\ cs' = [cs EXCEPT ![v] = Len(ctrls) + 1]
            /\ replaced' = IF cs[v] = 0 THEN replaced ELSE replaced \cup {cs[v]}
  /\ serving' = r
  /\ Goto(r, "served")
  /\ UNCHANGED <<man, store, reqs>>

\* `r.result <- c`: Get returns.  The monitor calls it twice, with the lock
\* held, and is then registered.
Answer(r) ==
  /\ pc[r] = "served"
  /\ serving' = None
  /\ IF left[r] > 1
     THEN /\ pc' = [pc EXCEPT ![r] = "get"] /\ left' = [left EXCEPT ![r] = left[r] - 1]
          /\ UNCHANGED <<kind, vol, man>>
     ELSE IF lock = r
     THEN Return(r) /\ monitors' = monitors \cup {vol[r].name} /\ lock' = None
     ELSE Goto(r, "read") /\ UNCHANGED man
  /\ UNCHANGED <<ctrls, cs, replaced, store, reqs>>
----------------------------------------------------------------------------
(* The rest of a request.                                                  *)

\* A request that only reads is done.  Detach stops the monitor.  Attach starts
\* the monitor of a volume that runs here already, makes a controller for one
\* that is detached, and calls Detach, which reads it again, for another.  The
\* attach fails when that read does.
Proceed(r) ==
  /\ pc[r] = "read"
  /\ LET a == vol[r].address IN
       CASE kind[r] = "get" -> Return(r)
         [] kind[r] = "attach" /\ a \in Local -> Goto(r, "start")
         [] kind[r] = "attach" /\ a = None -> Goto(r, "create")
         [] kind[r] = "attach" /\ a \notin Local \cup {None} ->
              ManGet(r, "reattach", vol[r].name) \/ Return(r)
         [] kind[r] \in {"detach", "reattach"} -> Goto(r, "stop")
  /\ UNCHANGED <<holder, man, store, reqs>>

\* stopMonitoring: under the lock a registered monitor is closed, which calls
\* Cleanup.
StopMonitoringLocks(r) ==
  /\ pc[r] = "stop" /\ lock = None
  /\ IF vol[r].name \in monitors
     THEN lock' = r /\ Goto(r, "cleanup")
     ELSE Goto(r, "halt") /\ UNCHANGED lock
  /\ UNCHANGED <<holder, monitors, store, reqs>>

\* doDetach stops and removes the controller it has read.  The request fails when
\* the store has another by now or the controller cannot be stopped, and, with the
\* controller stopped, when a replica cannot be stopped or the controller removed.
StopController(r) ==
  /\ pc[r] = "halt"
  /\ LET v == vol[r].name IN
       \/ vol[r].address # None /\ Return(r) /\ UNCHANGED addr
       \/ /\ vol[r].address \in {None, addr[v]}
          /\ addr' = IF vol[r].address = None THEN addr ELSE [addr EXCEPT ![v] = None]
          /\ Return(r) \/ (kind[r] = "reattach" /\ Goto(r, "create"))
  /\ UNCHANGED <<holder, man, attaches, reqs>>

Unused(a) == \A v \in Volumes : addr[v] # a

\* doAttach: a controller is started on this host; the request fails when the
\* store has one or anything that it starts or stops fails.
CreateController(r) ==
  /\ pc[r] = "create"
  /\ \/ Return(r) /\ UNCHANGED store
     \/ \E a \in Local : LET v == vol[r].name IN
          /\ addr[v] = None /\ attaches < MaxAttach /\ Unused(a)
          /\ addr' = [addr EXCEPT ![v] = a] /\ attaches' = attaches + 1
          /\ vol' = [vol EXCEPT ![r].address = a]
          /\ pc' = [pc EXCEPT ![r] = "start"]
          /\ UNCHANGED <<kind, left>>
  /\ UNCHANGED <<holder, man, reqs>>

\* startMonitoring: nothing for a volume that has a monitor.
StartMonitoringLocks(r) ==
  /\ pc[r] = "start" /\ lock = None
  /\ IF vol[r].name \in monitors
     THEN Return(r) /\ UNCHANGED lock
     ELSE /\ lock' = r
          /\ pc' = [pc EXCEPT ![r] = "get"] /\ left' = [left EXCEPT ![r] = 2]
          /\ UNCHANGED <<kind, vol>>
  /\ UNCHANGED <<holder, monitors, store, reqs>>

\* The attach and the detach of another manager, also of a volume attached here.
AttachElsewhere(v) ==
  /\ addr[v] = None /\ attaches < MaxAttach
  /\ \E a \in Addrs \ Local : Unused(a) /\ addr' = [addr EXCEPT ![v] = a]
  /\ attaches' = attaches + 1
  /\ UNCHANGED <<holder, client, man, reqs>>

DetachElsewhere(v) ==
  /\ addr[v] # None
  /\ addr' = [addr EXCEPT ![v] = None]
  /\ UNCHANGED <<holder, client, man, attaches, reqs>>

Step(r) ==
  \/ HoldRelease(r) \/ HoldGet(r) \/ Answer(r) \/ Proceed(r)
  \/ StopMonitoringLocks(r) \/ StopController(r)
  \/ CreateController(r) \/ StartMonitoringLocks(r)

Next ==
  \/ \E r \in Requests, k \in Kinds, v \in Volumes : Begin(r, k, v)
  \/ \E r \in Requests : Step(r)
  \/ \E v \in Volumes : AttachElsewhere(v) \/ DetachElsewhere(v)

Spec == Init /\ [][Next]_vars

\* Goroutines run; a sender on reqCh and a waiter for the lock get their turn.
FairSpec == Spec /\ \A r \in Requests : SF_vars(Step(r))
----------------------------------------------------------------------------
(* Properties.                                                             *)

\* Get answers with the registered controller of the volume it was asked for, at
\* the address in the request, and with an open queue (controller.go:55-62),
\* whatever was attached and released between the read of the volume and the
\* answer.  The object may be one of an earlier attachment at the same address.
GetMatches ==
  \A r \in Requests : pc[r] = "served" =>
    LET c == cs[vol[r].name] IN
      c # 0 /\ ctrls[c] = [name |-> vol[r].name, url |-> vol[r].address, open |-> TRUE]

\* The registry knows every controller whose goroutines still run, so that a
\* Cleanup ends them and requests share one queue and one lock: the queue of
\* a registered controller is open, and an open queue belongs to a registered
\* controller or to one that another address has pushed out
\* (controller.go:48-52, 57-60).
OpenIsRegistered ==
  /\ \A v \in Volumes : cs[v] # 0 => ctrls[cs[v]].open
  /\ \A c \in DOMAIN ctrls :
       ctrls[c].open => cs[ctrls[c].name] = c \/ c \in replaced

\* No request waits for ever, neither for the registry nor for the manager's
\* lock that the callers of Cleanup and the monitor's Get hold meanwhile.
RequestsReturn == \A r \in Requests : pc[r] # "idle" ~> pc[r] = "idle"
----------------------------------------------------------------------------
(* What tests, comments and messages lead one to expect and the code does  *)
(* not keep: TLC finds a counterexample to each (see the README).          *)

\* A controller that starts has an object of its own, not the queue, the lock and
\* the tasks of the one that had the address before it.
NewController ==
  [][\A v \in Volumes : addr'[v] \notin {None, addr[v]} =>
       cs[v] = 0 \/ ctrls[cs[v]].url # addr'[v]]_vars

\* A detached volume leaves no queue and no goroutines behind.
DetachedIsReleased ==
  (\A r \in Requests : pc[r] = "idle") =>
    \A c \in DOMAIN ctrls : ctrls[c].open => addr[ctrls[c].name] # None

\* The background tasks of an engine are run by one runner.
OneRunner ==
  \A c, d \in DOMAIN ctrls :
    ctrls[c].open /\ ctrls[d].open /\ ctrls[c].name = ctrls[d].name
      /\ ctrls[c].url = ctrls[d].url => c = d
=============================================================================
