----------------------------- MODULE Scheduler -----------------------------
(***************************************************************************)
(* The placement of a volume's new replicas (scheduler/, CreateReplica and *)
(* ProcessSchedule of orch/docker/instance.go): the scheduler tries the    *)
(* hosts one after the other, those without a replica of the volume first, *)
(* with a call to the manager of a remote host.  That manager creates the  *)
(* container and stores it, and does so to the end also when the caller    *)
(* has lost the connection.                                                *)
(***************************************************************************)
EXTENDS Naturals, FiniteSets

CONSTANTS
  Hosts,      \* the registered hosts
  Local,      \* the host of the scheduler
  Names,      \* the names of the replicas to create, each used once
  NoHost,
  MaxFailures,  \* bound on the failures of hosts, containers and the store
  MaxLost       \* bound on the connections that break

ASSUME SchedulerAssumption ==
  /\ IsFiniteSet(Hosts) /\ Local \in Hosts /\ NoHost \notin Hosts
  /\ MaxFailures \in Nat /\ MaxLost \in Nat

VARIABLES
  pc,      \* where the request for a replica is
  low,     \* policy.HostIDMap of the request
  todo,    \* the hosts that it has not tried
  at,      \* the host that it is calling
  srv,     \* where a host is with the call for a replica
  cont,    \* the containers, as pairs of a replica and a host
  stored,  \* the host in the replica's metadata
  failures, lost,
  \* history:
  leaked,   \* the containers whose cleanup failed
  refused,  \* the hosts where a call for the replica failed
  timedOut  \* the replicas whose write failed for the caller and took effect

client == <<pc, low, todo, at>>
history == <<leaked, refused, timedOut>>
placeVars == <<client, srv, cont, stored, failures, lost, history>>

PlaceTypeOK ==
  /\ pc \in [Names -> {"idle", "unread", "pick", "call", "done", "failed"}]
  /\ low \in [Names -> SUBSET Hosts] /\ todo \in [Names -> SUBSET Hosts]
  /\ at \in [Names -> Hosts \cup {NoHost}]
  /\ \A r \in Names : pc[r] = "call" => at[r] \notin todo[r] \cup {NoHost}
  /\ srv \in [Names -> [Hosts -> {"none", "create", "get", "set", "clean", "ok", "error"}]]
  /\ cont \subseteq Names \X Hosts /\ leaked \subseteq cont
  /\ stored \in [Names -> Hosts \cup {NoHost}]
  /\ failures \in 0..MaxFailures /\ lost \in 0..MaxLost
  /\ refused \in [Names -> SUBSET Hosts] /\ timedOut \subseteq Names

PlaceInit ==
  /\ pc = [r \in Names |-> "idle"]
  /\ low = [r \in Names |-> {}] /\ todo = [r \in Names |-> {}]
  /\ at = [r \in Names |-> NoHost]
  /\ srv = [r \in Names |-> [h \in Hosts |-> "none"]]
  /\ cont = {} /\ stored = [r \in Names |-> NoHost]
  /\ failures = 0 /\ lost = 0
  /\ leaked = {} /\ refused = [r \in Names |-> {}] /\ timedOut = {}

Failure == failures < MaxFailures /\ failures' = failures + 1

\* Something fails at host h, where it is tried to create r.
Refuse(r, h) == Failure /\ refused' = [refused EXCEPT ![r] = @ \cup {h}]

Serve(r, h, s) == srv' = [srv EXCEPT ![r][h] = s]
----------------------------------------------------------------------------
(* The scheduler.                                                          *)

\* prepareCreateReplicaPolicy: the hosts that have a replica of the volume.
HostIDMap == {stored[q] : q \in Names} \ {NoHost}

\* CreateReplica reads the volume, and Schedule lists the hosts; the request
\* ends when one of them cannot be read.  The replicas of a volume are created
\* one after the other (manager.go:64-69, 519-531).
ScheduleReplica(r) ==
  /\ pc[r] = "idle" /\ \A q \in Names : pc[q] \notin {"pick", "call"}
  /\ \/ /\ pc' = [pc EXCEPT ![r] = "pick"]
        /\ low' = [low EXCEPT ![r] = HostIDMap] /\ todo' = [todo EXCEPT ![r] = Hosts]
        /\ UNCHANGED failures
     \/ Failure /\ pc' = [pc EXCEPT ![r] = "unread"] /\ UNCHANGED <<low, todo>>
  /\ UNCHANGED <<at, srv, cont, stored, lost, history>>

\* Mutant: hosts are taken in any order.
PriorityAny(r, h) == h \in todo[r]

\* priorityList: any host of normal priority before those of low priority.
Priority(r, h) == h \in todo[r] /\ (h \in low[r] => todo[r] \subseteq low[r])

ScheduleProcess(r, h) ==
  /\ pc[r] = "pick" /\ Priority(r, h) /\ todo' = [todo EXCEPT ![r] = @ \ {h}]
  /\ \/ /\ pc' = [pc EXCEPT ![r] = "call"] /\ at' = [at EXCEPT ![r] = h]
        /\ Serve(r, h, "create") /\ UNCHANGED <<failures, refused>>
     \/ Refuse(r, h) /\ UNCHANGED <<pc, at, srv>>   \* the host cannot be reached
  /\ UNCHANGED <<low, cont, stored, lost, leaked, timedOut>>

NoSuitableHost(r) ==
  /\ pc[r] = "pick" /\ todo[r] = {} /\ pc' = [pc EXCEPT ![r] = "failed"]
  /\ UNCHANGED <<low, todo, at, srv, cont, stored, failures, lost, history>>

\* Mutant: the request ends with the first host that fails.
AfterErrorStop == "failed"

\* After an error the next host is tried.
AfterError == "pick"

Response(r) ==
  /\ pc[r] = "call" /\ srv[r][at[r]] \in {"ok", "error"}
  /\ pc' = [pc EXCEPT ![r] = IF srv[r][at[r]] = "ok" THEN "done" ELSE AfterError]
  /\ at' = [at EXCEPT ![r] = NoHost] /\ Serve(r, at[r], "none")
  /\ UNCHANGED <<low, todo, cont, stored, failures, lost, history>>

\* The connection breaks: an error for the caller, and the host goes on.
LoseResponse(r) ==
  /\ pc[r] = "call" /\ at[r] # Local /\ lost < MaxLost /\ lost' = lost + 1
  /\ pc' = [pc EXCEPT ![r] = AfterError] /\ at' = [at EXCEPT ![r] = NoHost]
  /\ UNCHANGED <<low, todo, srv, cont, stored, failures, history>>

ClientStep(r) ==
  (\E h \in Hosts : ScheduleProcess(r, h)) \/ NoSuitableHost(r) \/ Response(r)
----------------------------------------------------------------------------
(* The manager of a host (ProcessSchedule).                                *)

\* createReplica: an error is one before the container exists, or one that
\* cleans it up.
Container(r, h) ==
  /\ srv[r][h] = "create"
  /\ \/ /\ Serve(r, h, "get") /\ cont' = cont \cup {<<r, h>>}
        /\ UNCHANGED <<failures, refused>>
     \/ Refuse(r, h) /\ Serve(r, h, "error") /\ UNCHANGED cont
     \/ Refuse(r, h) /\ Serve(r, h, "clean") /\ cont' = cont \cup {<<r, h>>}
  /\ UNCHANGED <<client, stored, lost, leaked, timedOut>>

\* updateInstanceMetadata: the metadata of another host are a conflict.
GetMetadata(r, h) ==
  /\ srv[r][h] = "get"
  /\ \/ /\ Serve(r, h, IF stored[r] \in {NoHost, h} THEN "set" ELSE "clean")
        /\ UNCHANGED <<failures, refused>>
     \/ Refuse(r, h) /\ Serve(r, h, "clean")
  /\ UNCHANGED <<client, cont, stored, lost, leaked, timedOut>>

\* Mutant: a replica that could not be stored is left as it is.
NotStoredKept == "error"

\* An error of the store is cleaned up after.
NotStored == "clean"

\* A write that fails may have taken effect: etcd has a second to answer.
SetMetadata(r, h) ==
  /\ srv[r][h] = "set"
  /\ \/ /\ Serve(r, h, "ok") /\ stored' = [stored EXCEPT ![r] = h]
        /\ UNCHANGED <<failures, refused, timedOut>>
     \/ Refuse(r, h) /\ Serve(r, h, NotStored) /\ UNCHANGED <<stored, timedOut>>
     \/ /\ Refuse(r, h) /\ Serve(r, h, NotStored)
        /\ stored' = [stored EXCEPT ![r] = h] /\ timedOut' = timedOut \cup {r}
  /\ UNCHANGED <<client, cont, lost, leaked>>

\* Mutant: the containers of that name are removed wherever they are.
CleanUpByName(r, h) ==
  /\ srv[r][h] = "clean" /\ Serve(r, h, "error")
  /\ cont' = cont \ ({r} \X Hosts)
  /\ UNCHANGED <<client, stored, failures, lost, history>>

\* removeInstance, the error of which is dropped.
CleanUp(r, h) ==
  /\ srv[r][h] = "clean" /\ Serve(r, h, "error")
  /\ \/ cont' = cont \ {<<r, h>>} /\ UNCHANGED <<leaked, failures>>
     \/ Failure /\ leaked' = leaked \cup {<<r, h>>} /\ UNCHANGED cont
  /\ UNCHANGED <<client, stored, lost, refused, timedOut>>

ServerStep(r, h) ==
  Container(r, h) \/ GetMetadata(r, h) \/ SetMetadata(r, h) \/ CleanUp(r, h)
----------------------------------------------------------------------------
Ended(r) ==
  pc[r] \in {"done", "unread", "failed"} /\ \A h \in Hosts : srv[r][h] \in {"none", "ok", "error"}

PlaceRest == (\A r \in Names : Ended(r)) /\ UNCHANGED placeVars

PlaceNext ==
  \/ \E r \in Names : ScheduleReplica(r) \/ ClientStep(r) \/ LoseResponse(r)
  \/ \E r \in Names, h \in Hosts : ServerStep(r, h)
  \/ PlaceRest

PlaceSpec == PlaceInit /\ [][PlaceNext]_placeVars
----------------------------------------------------------------------------
(* Properties.  Two of them need connections that hold (lost = 0): after   *)
(* one has broken, the next host may work on a replica that the first      *)
(* stores.  Three need that no write took effect that failed for its       *)
(* caller: its host cleans up the container, and what is stored is a       *)
(* conflict for the other hosts.  TLC finds a counterexample to each       *)
(* without its conditions.                                                 *)

\* A request that has ended leaves the container that is stored and no other,
\* the one whose cleanup failed excepted: a failure at any step of any host is
\* "cleaning up" (instance.go:90, 328), and what succeeded is stored.
StoredIsContainer ==
  lost = 0 => \A r \in Names \ timedOut : Ended(r) =>
    {h \in Hosts : <<r, h>> \in cont \ leaked} = {stored[r]} \ {NoHost}

\* What is stored as a replica has its container, also when connections break and
\* two hosts work on the same replica: the one that finds the metadata of the
\* other cleans up its own container only.
StoredHasContainer ==
  \A r \in Names \ timedOut : stored[r] # NoHost => <<r, stored[r]>> \in cont

\* A request that could list the hosts fails only when every one of them has
\* failed for it, at whatever step: "trying on another one" (scheduler.go:69).
FailsOnlyIfAllFail ==
  lost = 0 => \A r \in Names \ timedOut : pc[r] = "failed" => refused[r] = Hosts

\* Replicas share a host only when no host is without one, or one has failed
\* (the soft anti-affinity of scheduler.go:45-61).
Spread ==
  failures = 0 /\ lost = 0 => \A q, r \in Names :
    q # r /\ stored[q] # NoHost /\ stored[q] = stored[r]
      => \A h \in Hosts : \E p \in Names : stored[p] = h
----------------------------------------------------------------------------
(* What tests, comments and messages lead one to expect and the code does  *)
(* not keep: TLC finds a counterexample to each (see the README).          *)

\* A replica that failed to be created is cleaned up after (instance.go:90),
\* and so not in the store without a container.
NothingStoredWithout == \A r \in Names : stored[r] # NoHost => <<r, stored[r]>> \in cont
=============================================================================
