------------------------------ MODULE Metadata ------------------------------
(***************************************************************************)
(* What the managers keep in etcd, and how they read and change it:        *)
(* kvstore/volume.go, kvstore/kvstore.go, the metadata operations of       *)
(* orch/docker/docker.go, UpdateRecurring of manager/manager.go and the    *)
(* settings handlers of api/settings.go.                                   *)
(*                                                                         *)
(* One call of etcd is one step, and nothing ties two calls together: a    *)
(* volume is read key by key, and a record is changed by reading it,       *)
(* changing a field of the copy and writing the copy back.                 *)
(*                                                                         *)
(* The clients are requests and monitors on any of the managers.  The keys *)
(* of a volume's instances are written by the operations of VolumeManager  *)
(* and Scheduler; here they change at any time.                            *)
(***************************************************************************)
EXTENDS HostRegistration, FiniteSets

CONSTANTS Clients,
          Reps,      \* names of replicas
          Jobs,      \* lists of recurring jobs
          NoJobs,    \* the list of a new volume
          Values,    \* values of settings
          Default    \* the value of a setting nobody has set

ASSUME MetadataAssumption ==
  /\ Reps \cap {"base", "controller", "settings"} = {}
  /\ NoJobs \in Jobs /\ Default \in Values
  /\ Nil \notin Jobs \cup [{"backupTarget", "engineImage"} -> Values]

Instances == {"controller"} \cup Reps
VolumeKeys == {"base"} \cup Instances
Keys == VolumeKeys \cup {"settings"}
Fields == {"backupTarget", "engineImage"}

\* The values of a key: recurring jobs, the state of an instance, settings.
ValuesOf(k) == CASE k = "base" -> Jobs
                 [] k \in Instances -> {"stopped", "running"}
                 [] k = "settings" -> [Fields -> Values]

\* A request: its kind and, for a change, the new value.
Requests ==
  [kind : {"get", "create", "delete", "mark"}, arg : {Nil}]
    \cup [kind : {"recurring"}, arg : Jobs] \cup [kind : Fields, arg : Values]

VARIABLES
  kv,      \* the value of each key, Nil for none
  pc, req, \* where each client is, and its request
  got,     \* what it has read
  todo,    \* the replica keys it has listed and not read
  \* history:
  seen,    \* the values each key has had since a client began to read
  acked,   \* the jobs and the settings as the last request set them
  stale    \* a copy was written back although the record had changed

client == <<pc, req, got, todo>>
ghost == <<acked, stale>>
vars == <<hvars, ops, kv, client, seen, ghost>>

Nothing == [k \in Keys |-> Nil]
NoRequest == [kind |-> "get", arg |-> Nil]
Reading == {"base", "controller", "keys", "replicas", "read"}

TypeOK ==
  /\ HostTypeOK
  /\ \A k \in Keys : kv[k] \in ValuesOf(k) \cup {Nil}
  /\ pc \in [Clients -> Reading \cup {"idle", "check", "update", "set", "remove",
                                      "settings", "change", "panic"}]
  /\ req \in [Clients -> Requests]
  /\ \A c \in Clients, k \in Keys : got[c][k] \in ValuesOf(k) \cup {Nil}
  /\ todo \in [Clients -> SUBSET Reps]
  /\ stale \in BOOLEAN

\* A detached volume with its replicas.
SomeVolume ==
  [k \in Keys |-> IF k = "base" THEN NoJobs ELSE IF k \in Reps THEN "stopped" ELSE Nil]

Init ==
  /\ HostInit
  /\ kv \in {Nothing, SomeVolume}
  /\ pc = [c \in Clients |-> "idle"] /\ req = [c \in Clients |-> NoRequest]
  /\ got = [c \in Clients |-> Nothing] /\ todo = [c \in Clients |-> {}]
  /\ seen = [c \in Clients |-> [k \in Keys |-> {}]]
  /\ acked = [f \in Fields \cup {"jobs"} |-> IF f = "jobs" THEN NoJobs ELSE Default]
  /\ stale = FALSE
----------------------------------------------------------------------------
(* etcd, one step per call, and the helpers of the steps.                  *)

Set(k, x) == kv' = [kv EXCEPT ![k] = x]

Delete(ks) == kv' = [k \in Keys |-> IF k \in ks THEN Nil ELSE kv[k]]

\* A key that is not found reads as nil.
Get(c, k) == got' = [got EXCEPT ![c][k] = kv[k]]

Goto(c, p) == pc' = [pc EXCEPT ![c] = p] /\ UNCHANGED req

\* The request ends and forgets what it has read.
Return(c) ==
  /\ pc' = [pc EXCEPT ![c] = "idle"] /\ req' = [req EXCEPT ![c] = NoRequest]
  /\ got' = [got EXCEPT ![c] = Nothing] /\ todo' = [todo EXCEPT ![c] = {}]

\* A replica is marked by the monitor of a volume.
Begin(c, q) ==
  /\ pc[c] = "idle" /\ ops < MaxOps
  /\ q.kind = "mark" => kv["base"] # Nil
  /\ ops' = ops + 1
  /\ req' = [req EXCEPT ![c] = q]
  /\ pc' = [pc EXCEPT ![c] = IF q.kind \in Fields THEN "settings" ELSE "base"]
  /\ UNCHANGED <<kv, got, todo, ghost>>
----------------------------------------------------------------------------
(* getVolumeByKey.                                                         *)

\* A volume without base is nil.  Create goes on; the handler of the recurring
\* jobs dereferences it, which the HTTP server recovers from; MarkBadReplica
\* does so in a goroutine of its own, which ends the manager.
GetBase(c) ==
  /\ pc[c] = "base"
  /\ Get(c, "base")
  /\ Goto(c, CASE kv["base"] # Nil -> "controller"
               [] kv["base"] = Nil /\ req[c].kind = "create" -> "check"
               [] kv["base"] = Nil /\ req[c].kind = "mark" -> "panic"
               [] OTHER -> "read")
  /\ UNCHANGED <<kv, todo, ops, ghost>>

GetController(c) ==
  /\ pc[c] = "controller"
  /\ Get(c, "controller") /\ Goto(c, "keys")
  /\ UNCHANGED <<kv, todo, ops, ghost>>

\* b.Keys: the names of the replicas at this moment.
ListReplicas(c) ==
  /\ pc[c] = "keys"
  /\ todo' = [todo EXCEPT ![c] = {r \in Reps : kv[r] # Nil}]
  /\ Goto(c, "replicas")
  /\ UNCHANGED <<kv, got, ops, ghost>>

\* Mutant: a replica that is gone by now ends the loop.
RemainingWhileFound(c, r) == IF kv[r] = Nil THEN {} ELSE todo[c] \ {r}

Remaining(c, r) == todo[c] \ {r}

GetReplica(c, r) ==
  /\ pc[c] = "replicas" /\ r \in todo[c]
  /\ Get(c, r)
  /\ todo' = [todo EXCEPT ![c] = Remaining(c, r)]
  /\ UNCHANGED <<kv, pc, req, ops, ghost>>

VolumeRead(c) ==
  /\ pc[c] = "replicas" /\ todo[c] = {}
  /\ Goto(c, "read")
  /\ UNCHANGED <<kv, got, todo, ops, ghost>>

\* What the request does with the volume: Create fails when there is one, the
\* others end when there is none.
UseVolume(c) ==
  /\ pc[c] = "read"
  /\ IF req[c].kind \in {"get", "create"} \/ got[c]["base"] = Nil
     THEN Return(c)
     ELSE /\ Goto(c, IF req[c].kind = "delete" THEN "remove" ELSE "update")
          /\ UNCHANGED <<got, todo>>
  /\ UNCHANGED <<kv, ops, ghost>>
----------------------------------------------------------------------------
(* CreateVolume, UpdateVolume, DeleteVolume and the instances.             *)

\* CreateVolume looks for the base again, and goes on when there is none and when
\* it cannot be read.
CreateCheck(c) ==
  /\ pc[c] = "check"
  /\ \/ kv["base"] # Nil /\ Return(c)
     \/ Goto(c, "set") /\ UNCHANGED <<got, todo>>
  /\ UNCHANGED <<kv, ops, ghost>>

\* UpdateVolume reads the base and looks at the error alone, which is nil
\* also when there is none.
UpdateCheck(c) ==
  /\ pc[c] = "update"
  /\ Goto(c, "set")
  /\ UNCHANGED <<kv, got, todo, ops, ghost>>

\* Mutant: the jobs are left out together with the instances.
BaseOnly(c) == IF req[c].kind = "recurring" THEN req[c].arg ELSE NoJobs

\* The base that is written: that of a new volume, the copy with the new jobs,
\* or the copy, as the mark is in a replica and is left out.
Base(c) ==
  CASE req[c].kind = "create" -> NoJobs
    [] req[c].kind = "recurring" -> req[c].arg
    [] req[c].kind = "mark" -> got[c]["base"]

SetVolumeBase(c) ==
  /\ pc[c] = "set"
  /\ Set("base", Base(c))
  /\ acked' = IF req[c].kind = "mark" THEN acked
              ELSE [acked EXCEPT !["jobs"] = IF req[c].kind = "create" THEN NoJobs ELSE req[c].arg]
  /\ stale' = (stale \/ got[c]["base"] # kv["base"])
  /\ Return(c)
  /\ UNCHANGED ops

\* The recursive delete of the volume's directory.
DeleteVolume(c) ==
  /\ pc[c] = "remove"
  /\ Delete(VolumeKeys)
  /\ Return(c)
  /\ UNCHANGED <<ops, ghost>>

\* SetVolumeController, SetVolumeReplica and their deletes.
ChangeInstance(k) ==
  /\ ops < MaxOps
  /\ (\E x \in ValuesOf(k) : Set(k, x)) \/ Delete({k})
  /\ kv'[k] # kv[k]
  /\ ops' = ops + 1
  /\ UNCHANGED <<client, ghost>>
----------------------------------------------------------------------------
(* The handler that changes a setting.                                     *)

Settings == IF kv["settings"] = Nil THEN [f \in Fields |-> Default] ELSE kv["settings"]

GetSettings(c) ==
  /\ pc[c] = "settings"
  /\ got' = [got EXCEPT ![c]["settings"] = Settings]
  /\ Goto(c, "change")
  /\ UNCHANGED <<kv, todo, ops, ghost>>

Changed(c) == [got[c]["settings"] EXCEPT ![req[c].kind] = req[c].arg]

SetSettings(c) ==
  /\ pc[c] = "change"
  /\ Set("settings", Changed(c))
  /\ acked' = [acked EXCEPT ![req[c].kind] = req[c].arg]
  /\ stale' = (stale \/ got[c]["settings"] # Settings)
  /\ Return(c)
  /\ UNCHANGED ops
----------------------------------------------------------------------------
\* Any other call of etcd that fails ends the request; one that fails for the
\* caller and took effect is the step it would have been.
CallFails(c) ==
  /\ \/ pc[c] \in {"base", "controller", "keys", "update", "set", "remove", "settings", "change"}
     \/ pc[c] = "replicas" /\ todo[c] # {}
  /\ Return(c)
  /\ UNCHANGED <<kv, ops, ghost>>

Step(c) ==
  \/ GetBase(c) \/ GetController(c) \/ ListReplicas(c)
  \/ (\E r \in Reps : GetReplica(c, r)) \/ VolumeRead(c) \/ UseVolume(c)
  \/ CreateCheck(c) \/ UpdateCheck(c) \/ SetVolumeBase(c) \/ DeleteVolume(c)
  \/ GetSettings(c) \/ SetSettings(c) \/ CallFails(c)

\* History: a client that reads may see every value stored meanwhile.
Remember ==
  seen' = [c \in Clients |-> [k \in Keys |->
             IF pc'[c] \in Reading THEN seen[c][k] \cup {kv'[k]} ELSE {}]]

Next ==
  \/ /\ \/ \E c \in Clients : Step(c) \/ \E q \in Requests : Begin(c, q)
        \/ \E k \in Instances : ChangeInstance(k)
     /\ Remember /\ UNCHANGED hvars
  \/ /\ \E m \in Machines : HostStep(m)
     /\ UNCHANGED <<kv, client, seen, ghost>>

Spec == Init /\ [][Next]_vars
----------------------------------------------------------------------------
(* Properties.                                                             *)

\* A volume is read key by key (volume.go:164-181, 243-272), and yet: when the
\* read is done, each key has a value it really had in the meantime, so that
\* an instance that was there all along is in the result, as it was, and one
\* that was not there is not.
ReadIsRegular ==
  \A c \in Clients : pc[c] = "read" =>
    \A k \in (IF got[c]["base"] = Nil THEN {"base"} ELSE VolumeKeys) :
      got[c][k] \in seen[c][k]

\* The jobs of the volume and the settings are those the last request for each
\* has set, whatever other fields and marks were written since, as long as no
\* client wrote back a copy of a record that had changed (manager.go:445-455,
\* docker.go:230, 249, api/settings.go:59-72).
KeptUnlessOverlapped ==
  stale \/ /\ kv["base"] # Nil => kv["base"] = acked["jobs"]
           /\ \A f \in Fields : Settings[f] = acked[f]
----------------------------------------------------------------------------
(* What tests, comments and messages lead one to expect and the code does  *)
(* not keep: TLC finds a counterexample to each (see the README).          *)

\* "cannot update volume %v because it doesn't exists" (docker.go:228): an
\* update writes no base where there is none.
UpdateNeedsVolume ==
  [][\A c \in Clients : pc[c] = "set" /\ pc'[c] = "idle" /\ req[c].kind # "create" =>
       kv["base"] # Nil \/ kv' = kv]_vars

\* "volume %v already exists" (docker.go:209): Create replaces no volume.
CreateNeedsNone ==
  [][\A c \in Clients : pc[c] = "set" /\ pc'[c] = "idle" /\ req[c].kind = "create" =>
       kv["base"] = Nil \/ kv' = kv]_vars

\* MarkBadReplica has an error for a volume that cannot be read (docker.go:240)
\* and none for one that is gone.
NoPanic == \A c \in Clients : pc[c] # "panic"

\* A setting has the value the last request has set (test_basic.py:46-49).
SettingsKept == \A f \in Fields : Settings[f] = acked[f]
=============================================================================
