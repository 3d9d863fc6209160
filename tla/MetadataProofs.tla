--------------------------- MODULE MetadataProofs ---------------------------
(***************************************************************************)
(* Proofs about the metadata in etcd, for any number of clients, replicas, *)
(* machines and requests.                                                  *)
(***************************************************************************)
EXTENDS Metadata, TLAPS

\* Most leaves are first-order and Zenon takes them; SMT takes those that cite
\* it.
USE Zenon

(* The registration of hosts.                                              *)

\* While a machine is about to write its file, it has a new UUID, and it has not
\* been registered unless it could not read its file (docker.go:120-134).
Fresh(m) == mpc[m] \in {"create", "write"}

\* The UUIDs a machine has or had, the empty one aside.
Holds(m, x) == x # 0 /\ (x = file[m] \/ x = uuid[m] \/ x \in names[m])

HostAt(m) ==
  /\ \A x \in Nat : Holds(m, x) => x <= ops
  /\ Fresh(m) => uuid[m] # 0 /\ (m \notin misread => names[m] = {})
  /\ mpc[m] = "write" => file[m] = 0
  /\ mpc[m] = "register" => uuid[m] = file[m]
  /\ m \notin misread => names[m] \subseteq {file[m]}
  /\ file[m] = 0 => mpc[m] = "write" \/ m \in cut
  /\ 0 \in names[m] => m \in cut

HostInv ==
  /\ HostTypeOK
  /\ \A m \in Machines : HostAt(m)
  /\ \A m, n \in Machines, x \in Nat : Holds(m, x) /\ Holds(n, x) => m = n

LEMMA HostInitInv == HostInit => HostInv
BY HostAssumption, SMT DEF HostInit, HostInv, HostTypeOK, HostAt, Holds, Fresh

\* Between the steps of the hosts the count of operations may only grow.
LEMMA HostKept ==
  ASSUME HostInv, UNCHANGED hvars, ops' \in Nat, ops' >= ops
  PROVE  HostInv'
<1>1. /\ file' = file /\ mpc' = mpc /\ uuid' = uuid /\ hosts' = hosts
      /\ names' = names /\ misread' = misread /\ cut' = cut
  BY DEF hvars, hostHistory
<1>2. HostTypeOK' /\ \A m \in Machines, x \in Nat : Holds(m, x)' <=> Holds(m, x)
  BY <1>1 DEF HostInv, HostTypeOK, Holds
<1>3. \A m \in Machines, x \in Nat : Holds(m, x) => x <= ops'
  BY SMT DEF HostInv, HostAt, HostTypeOK
<1> QED BY <1>1, <1>2, <1>3 DEF HostInv, HostAt, Fresh

\* A step of machine m, which gets no UUID but a new one: it is enough to look
\* at m.
LEMMA HostStepAt ==
  ASSUME HostInv, HostTypeOK', NEW m \in Machines, ops' \in {ops, ops + 1},
         \A n \in Machines \ {m} : /\ file'[n] = file[n] /\ mpc'[n] = mpc[n] /\ uuid'[n] = uuid[n]
                                   /\ names'[n] = names[n]
                                   /\ (n \in misread' <=> n \in misread) /\ (n \in cut' <=> n \in cut),
         \A x \in Nat : Holds(m, x)' => Holds(m, x) \/ (x = ops' /\ ops' = ops + 1),
         HostAt(m)'
  PROVE  HostInv'
<1>0. ops \in Nat /\ ops' \in Nat /\ \A x \in Nat : x <= ops => x <= ops' /\ (ops' = ops + 1 => x # ops')
  BY SMT DEF HostInv, HostTypeOK
<1>1. \A n \in Machines \ {m}, x \in Nat : Holds(n, x)' <=> Holds(n, x)
  BY DEF Holds
<1>2. \A n \in Machines \ {m} : HostAt(n)'
  <2> SUFFICES ASSUME NEW n \in Machines \ {m} PROVE HostAt(n)'
    OBVIOUS
  <2>1. HostAt(n) /\ \A x \in Nat : Holds(n, x)' => x <= ops'
    BY <1>0, <1>1 DEF HostInv, HostAt
  <2>2. /\ file'[n] = file[n] /\ mpc'[n] = mpc[n] /\ uuid'[n] = uuid[n] /\ names'[n] = names[n]
        /\ (n \in misread' <=> n \in misread) /\ (n \in cut' <=> n \in cut)
    OBVIOUS
  <2> QED BY <2>1, <2>2 DEF HostAt, Fresh
<1>3. \A n \in Machines \ {m}, x \in Nat : Holds(n, x)' => Holds(n, x) /\ ~ Holds(m, x)'
  BY <1>0, <1>1 DEF HostInv, HostAt
<1>4. \A k, n \in Machines, x \in Nat : Holds(k, x)' /\ Holds(n, x)' => k = n
  BY <1>1, <1>3 DEF HostInv
<1> QED BY <1>2, <1>4 DEF HostInv

LEMMA HostStepInv ==
  ASSUME HostInv, NEW m \in Machines, HostStep(m)
  PROVE  HostInv'
<1> USE HostAssumption
<1>0. HostTypeOK /\ HostAt(m)
  BY DEF HostInv
<1>t. HostTypeOK'
  BY <1>0, SMT DEF HostStep, ReadFile, CreateFile, WriteFile, SetHost, Kill, HostTypeOK, hostHistory
<1>o. ops' \in {ops, ops + 1}
  BY DEF HostStep, ReadFile, CreateFile, WriteFile, SetHost, Kill
<1>n. \A n \in Machines \ {m} : /\ file'[n] = file[n] /\ mpc'[n] = mpc[n] /\ uuid'[n] = uuid[n]
                                /\ names'[n] = names[n]
                                /\ (n \in misread' <=> n \in misread) /\ (n \in cut' <=> n \in cut)
  BY <1>0, SMT DEF HostStep, ReadFile, CreateFile, WriteFile, SetHost, Kill, HostTypeOK, hostHistory
<1> SUFFICES /\ \A x \in Nat : Holds(m, x)' => Holds(m, x) \/ (x = ops' /\ ops' = ops + 1)
             /\ HostAt(m)'
  BY <1>t, <1>o, <1>n, HostStepAt
<1> USE DEF HostAt, Holds, Fresh, HostTypeOK, hostHistory
<1>1. CASE ReadFile(m)
  BY <1>0, <1>1, SMT DEF ReadFile
<1>2. CASE CreateFile(m)
  BY <1>0, <1>2, SMT DEF CreateFile
<1>3. CASE WriteFile(m)
  BY <1>0, <1>3, SMT DEF WriteFile
<1>4. CASE SetHost(m)
  BY <1>0, <1>4, SMT DEF SetHost
<1>5. CASE Kill(m)
  BY <1>0, <1>5, SMT DEF Kill
<1> QED BY <1>1, <1>2, <1>3, <1>4, <1>5 DEF HostStep

\* The operations on the metadata leave the hosts alone.
LEMMA ClientKeepsHosts ==
  ASSUME HostInv, [Next]_vars, ~(\E m \in Machines : HostStep(m))
  PROVE  HostInv'
<1>1. UNCHANGED hvars /\ (ops' = ops \/ ops' = ops + 1)
  <2>1. ASSUME NEW c \in Clients, Step(c) PROVE ops' = ops
    BY <2>1 DEF Step, GetBase, GetController, ListReplicas, GetReplica, VolumeRead,
       UseVolume, CreateCheck, UpdateCheck, SetVolumeBase, DeleteVolume, GetSettings, SetSettings,
       CallFails
  <2> QED BY <2>1 DEF Next, vars, Begin, ChangeInstance
<1> QED BY <1>1, HostKept, SMT DEF HostInv, HostTypeOK

LEMMA HostInvariant == Spec => []HostInv
<1>1. Init => HostInv
  BY HostInitInv DEF Init
<1>2. HostInv /\ [Next]_vars => HostInv'
  BY HostStepInv, ClientKeepsHosts
<1> QED BY <1>1, <1>2, PTL DEF Spec

\* However often the managers are killed while they start, a machine whose file
\* could be read whenever it was there is registered under one UUID, and two
\* machines share a UUID only when both were killed before they had written
\* theirs (docker.go:120-134, 176).
THEOREM HostsKeepTheirNames == Spec => []OneName
<1>1. HostInv => OneName
  <2> SUFFICES ASSUME HostInv PROVE OneName
    OBVIOUS
  <2>1. ASSUME NEW m \in Machines, NEW n \in Machines, m # n, NEW x \in names[m] \cap names[n]
        PROVE  {m, n} \subseteq cut
    <3>1. x \in Nat
      BY DEF HostInv, HostTypeOK
    <3>2. x = 0
      BY <2>1, <3>1 DEF HostInv, Holds
    <3> QED BY <3>2 DEF HostInv, HostAt
  <2> QED BY <2>1 DEF HostInv, HostAt, OneName
<1> QED BY <1>1, HostInvariant, PTL
----------------------------------------------------------------------------
(* The types, which also tell the values of the keys apart.                *)

AllSettings == [Fields -> Values]

Stored == Jobs \cup {"stopped", "running", Nil} \cup AllSettings

\* A value of each kind under its key, or none.
Record(f) ==
  /\ f \in [Keys -> Stored]
  /\ f["base"] \in Jobs \cup {Nil}
  /\ f["settings"] \in AllSettings \cup {Nil}

GotTypes == got \in [Clients -> [Keys -> Stored]] /\ \A c \in Clients : Record(got[c])

Places ==
  Reading \cup {"idle", "check", "update", "set", "remove", "settings", "change", "panic"}

\* What a request of kind k may be doing at p, with what it has read.
KindAt(p, k, g) ==
  /\ p \in Reading => k \notin Fields
  /\ p = "check" => k = "create"
  /\ p = "update" => k \in {"recurring", "mark"}
  /\ p = "set" => k \in {"create", "recurring", "mark"}
  /\ p \in {"settings", "change"} => k \in Fields
  /\ p = "change" => g["settings"] # Nil

MetaTypes ==
  /\ Record(kv) /\ GotTypes
  /\ pc \in [Clients -> Places]
  /\ req \in [Clients -> Requests]
  /\ todo \in [Clients -> SUBSET Reps]
  /\ \A c \in Clients : KindAt(pc[c], req[c].kind, got[c])

LEMMA KeyFacts ==
  /\ {"base", "controller", "settings"} \subseteq Keys /\ Reps \subseteq Keys
  /\ Reps \cap {"base", "controller", "settings"} = {}
  /\ Nil \notin Jobs /\ Nil \notin AllSettings
BY MetadataAssumption DEF Keys, VolumeKeys, Instances, Fields, AllSettings

LEMMA NothingIsRecord == Record(Nothing)
BY KeyFacts DEF Record, Nothing, Stored

\* Putting a value under its key.
LEMMA PutRecord ==
  ASSUME NEW f, Record(f), NEW k \in Keys, NEW x \in Stored,
         k = "base" => x \in Jobs \cup {Nil},
         k = "settings" => x \in AllSettings \cup {Nil}
  PROVE  Record([f EXCEPT ![k] = x])
BY KeyFacts DEF Record

LEMMA RequestFacts ==
  ASSUME NEW q \in Requests
  PROVE  /\ q.kind \in {"get", "create", "delete", "mark", "recurring"} \cup Fields
         /\ q.kind = "recurring" => q.arg \in Jobs
         /\ q.kind \in Fields => q.arg \in Values
BY DEF Requests, Fields

\* A client reads a value under its key.
LEMMA GetTypes ==
  ASSUME GotTypes, NEW c \in Clients, NEW k \in Keys, NEW x,
         Record([got[c] EXCEPT ![k] = x]),
         got' = [got EXCEPT ![c][k] = x]
  PROVE  /\ GotTypes' /\ got'[c][k] = x
         /\ \A d \in Clients \ {c} : got'[d] = got[d]
         /\ \A j \in Keys \ {k} : got'[c][j] = got[c][j]
<1>1. got' = [got EXCEPT ![c] = [got[c] EXCEPT ![k] = x]]
  OBVIOUS
<1>2. Record([got[c] EXCEPT ![k] = x])
  OBVIOUS
<1>3. [got[c] EXCEPT ![k] = x] \in [Keys -> Stored]
  BY <1>2 DEF Record
<1>4. got' \in [Clients -> [Keys -> Stored]] /\ \A d \in Clients : Record(got'[d])
  BY <1>1, <1>2, <1>3 DEF GotTypes
<1> QED BY <1>1, <1>4 DEF GotTypes

\* The value of a key that is read.
LEMMA KvTypes ==
  ASSUME MetaTypes, NEW c \in Clients, NEW k \in Keys, Get(c, k)
  PROVE  /\ GotTypes' /\ got'[c][k] = kv[k]
         /\ \A d \in Clients \ {c} : got'[d] = got[d]
         /\ \A j \in Keys \ {k} : got'[c][j] = got[c][j]
<1>1. kv[k] \in Stored /\ kv["base"] \in Jobs \cup {Nil} /\ kv["settings"] \in AllSettings \cup {Nil}
  BY DEF MetaTypes, Record
<1>2. GotTypes /\ got' = [got EXCEPT ![c][k] = kv[k]]
  BY DEF MetaTypes, Get
<1>3. Record([got[c] EXCEPT ![k] = kv[k]])
  BY <1>1, <1>2, PutRecord DEF GotTypes
<1> QED BY <1>2, <1>3, GetTypes

\* The settings, which are the defaults when none are stored.
LEMMA SettingsTypes ==
  ASSUME MetaTypes, NEW c \in Clients, got' = [got EXCEPT ![c]["settings"] = Settings]
  PROVE  /\ GotTypes' /\ got'[c]["settings"] = Settings
         /\ \A d \in Clients \ {c} : got'[d] = got[d]
<1>1. Settings \in AllSettings /\ Settings \in Stored /\ "settings" \in Keys
  BY MetadataAssumption, KeyFacts DEF MetaTypes, Settings, Record, AllSettings, Stored
<1>2. GotTypes
  BY DEF MetaTypes
<1>3. PICK k \in Keys : k = "settings"
  BY <1>1
<1>4. PICK x : x = Settings
  OBVIOUS
<1>5. Record([got[c] EXCEPT ![k] = x])
  BY <1>1, <1>2, <1>3, <1>4, KeyFacts DEF GotTypes, Record
<1>6. got' = [got EXCEPT ![c][k] = x]
  BY <1>3, <1>4
<1>7. /\ GotTypes' /\ got'[c][k] = x
      /\ \A d \in Clients \ {c} : got'[d] = got[d]
      /\ \A j \in Keys \ {k} : got'[c][j] = got[c][j]
  BY <1>2, <1>5, <1>6, GetTypes
<1> QED BY <1>3, <1>4, <1>7

\* A request that ends.
LEMMA ReturnTypes ==
  ASSUME MetaTypes, NEW c \in Clients, Return(c), Record(kv')
  PROVE  MetaTypes'
<1>1. NoRequest \in Requests
  BY DEF NoRequest, Requests
<1>2. GotTypes'
  BY NothingIsRecord DEF MetaTypes, GotTypes, Return, Record
<1>3. /\ pc' \in [Clients -> Places] /\ req' \in [Clients -> Requests]
      /\ todo' \in [Clients -> SUBSET Reps] /\ pc'[c] = "idle"
      /\ \A d \in Clients \ {c} : pc'[d] = pc[d] /\ req'[d] = req[d] /\ got'[d] = got[d]
  <2>1. /\ pc' = [pc EXCEPT ![c] = "idle"] /\ req' = [req EXCEPT ![c] = NoRequest]
        /\ got' = [got EXCEPT ![c] = Nothing] /\ todo' = [todo EXCEPT ![c] = {}]
    BY DEF Return
  <2>2. pc' \in [Clients -> Places] /\ req' \in [Clients -> Requests] /\ pc'[c] = "idle"
    BY <1>1, <2>1 DEF MetaTypes, Places
  <2>3. todo' \in [Clients -> SUBSET Reps]
    BY <2>1 DEF MetaTypes
  <2>4. \A d \in Clients \ {c} : pc'[d] = pc[d] /\ req'[d] = req[d] /\ got'[d] = got[d]
    BY <2>1 DEF MetaTypes, GotTypes
  <2> QED BY <2>2, <2>3, <2>4
<1>4. \A d \in Clients : KindAt(pc'[d], req'[d].kind, got'[d])
  BY <1>3 DEF MetaTypes, KindAt, Reading
<1> QED BY <1>2, <1>3, <1>4 DEF MetaTypes

\* A request that goes on: what has to be shown of its new place.
LEMMA GotoTypes ==
  ASSUME MetaTypes, NEW c \in Clients, NEW p \in Places, Goto(c, p),
         Record(kv'), GotTypes', todo' \in [Clients -> SUBSET Reps],
         \A d \in Clients \ {c} : got'[d] = got[d],
         KindAt(p, req[c].kind, got'[c])
  PROVE  MetaTypes'
<1>1. /\ pc' \in [Clients -> Places] /\ req' \in [Clients -> Requests]
      /\ \A d \in Clients \ {c} : pc'[d] = pc[d] /\ req'[d] = req[d]
  BY DEF MetaTypes, Goto
<1>2. \A d \in Clients : KindAt(pc'[d], req'[d].kind, got'[d])
  <2>1. pc'[c] = p /\ req'[c] = req[c]
    BY DEF MetaTypes, Goto
  <2> QED BY <1>1, <2>1 DEF MetaTypes
<1> QED BY <1>1, <1>2 DEF MetaTypes

\* The steps of a client.
LEMMA StepTypes ==
  ASSUME MetaTypes, NEW c \in Clients, Step(c)
  PROVE  MetaTypes'
<1>0. /\ Record(kv) /\ GotTypes /\ todo \in [Clients -> SUBSET Reps] /\ KindAt(pc[c], req[c].kind, got[c])
      /\ req[c] \in Requests /\ pc[c] \in Places
      /\ pc \in [Clients -> Places] /\ req \in [Clients -> Requests]
  BY DEF MetaTypes
<1>1. CASE GetBase(c)
  <2>1. PICK p \in {"controller", "check", "panic", "read"} :
          Goto(c, p) /\ (p = "check" => req[c].kind = "create")
    BY <1>1 DEF GetBase
  <2>2. GotTypes' /\ \A d \in Clients \ {c} : got'[d] = got[d]
    BY <1>1, KvTypes, KeyFacts DEF GetBase
  <2>3. KindAt(p, req[c].kind, got'[c])
    BY <1>0, <1>1, <2>1 DEF GetBase, KindAt, Goto, Reading
  <2> QED BY <1>0, <1>1, <2>1, <2>2, <2>3, GotoTypes DEF Places, Reading, GetBase
<1>2. CASE GetController(c)
  <2>1. GotTypes' /\ \A d \in Clients \ {c} : got'[d] = got[d]
    BY <1>2, KvTypes, KeyFacts DEF GetController
  <2>2. KindAt("keys", req[c].kind, got'[c])
    BY <1>0, <1>2 DEF GetController, KindAt, Goto, Reading
  <2> QED BY <1>0, <1>2, <2>1, <2>2, GotoTypes DEF Places, Reading, GetController
<1>3. CASE ListReplicas(c)
  <2>1. todo' \in [Clients -> SUBSET Reps]
    BY <1>0, <1>3 DEF ListReplicas
  <2>2. KindAt("replicas", req[c].kind, got'[c]) /\ GotTypes'
    BY <1>0, <1>3 DEF ListReplicas, KindAt, Goto, Reading, GotTypes
  <2> QED BY <1>0, <1>3, <2>1, <2>2, GotoTypes DEF Places, Reading, ListReplicas
<1>4. ASSUME NEW r \in Reps, GetReplica(c, r) PROVE MetaTypes'
  <2>1. GotTypes' /\ (\A d \in Clients \ {c} : got'[d] = got[d]) /\ got'[c]["settings"] = got[c]["settings"]
    BY <1>4, KvTypes, KeyFacts, SMT DEF GetReplica
  <2>2. todo' \in [Clients -> SUBSET Reps] /\ UNCHANGED <<kv, pc, req>>
    BY <1>0, <1>4 DEF GetReplica, Remaining
  <2>3. \A d \in Clients : KindAt(pc'[d], req'[d].kind, got'[d])
    BY <2>1, <2>2 DEF MetaTypes, KindAt
  <2> QED BY <1>0, <2>1, <2>2, <2>3 DEF MetaTypes
<1>5. CASE VolumeRead(c)
  <2>1. KindAt("read", req[c].kind, got'[c]) /\ GotTypes'
    BY <1>0, <1>5 DEF VolumeRead, KindAt, Goto, Reading, GotTypes
  <2> QED BY <1>0, <1>5, <2>1, GotoTypes DEF Places, Reading, VolumeRead
<1>6. CASE UseVolume(c)
  <2>1. CASE Return(c)
    BY <1>0, <1>6, <2>1, ReturnTypes DEF UseVolume
  <2>2. CASE ~Return(c)
    <3>1. /\ Goto(c, IF req[c].kind = "delete" THEN "remove" ELSE "update")
          /\ req[c].kind \notin {"get", "create"} /\ UNCHANGED <<got, todo, kv>>
          /\ pc[c] = "read"
      BY <1>6, <2>2 DEF UseVolume
    <3>2. KindAt(IF req[c].kind = "delete" THEN "remove" ELSE "update", req[c].kind, got'[c])
      BY <1>0, <3>1, RequestFacts DEF KindAt, Goto, Reading
    <3> QED BY <1>0, <3>1, <3>2, GotoTypes DEF Places, Reading, GotTypes
  <2> QED BY <2>1, <2>2
<1>7. CASE CreateCheck(c)
  <2>1. CASE Return(c)
    BY <1>0, <1>7, <2>1, ReturnTypes DEF CreateCheck
  <2>2. CASE ~Return(c)
    <3>1. Goto(c, "set") /\ pc[c] = "check" /\ UNCHANGED <<got, todo, kv>>
      BY <1>7, <2>2 DEF CreateCheck
    <3>2. KindAt("set", req[c].kind, got'[c])
      BY <1>0, <3>1 DEF KindAt, Goto, Reading
    <3> QED BY <1>0, <3>1, <3>2, GotoTypes DEF Places, Reading, GotTypes
  <2> QED BY <2>1, <2>2
<1>8. CASE UpdateCheck(c)
  <2>1. KindAt("set", req[c].kind, got'[c]) /\ GotTypes'
    BY <1>0, <1>8 DEF UpdateCheck, KindAt, Goto, Reading, GotTypes
  <2> QED BY <1>0, <1>8, <2>1, GotoTypes DEF Places, Reading, UpdateCheck
<1>9. CASE SetVolumeBase(c)
  <2>1. Base(c) \in Jobs \cup {Nil}
    BY <1>0, <1>9, RequestFacts, MetadataAssumption
    DEF SetVolumeBase, Base, KindAt, GotTypes, Record
  <2>2. Record(kv')
    BY <1>0, <1>9, <2>1, PutRecord, KeyFacts DEF SetVolumeBase, Set, Stored
  <2> QED BY <1>9, <2>2, ReturnTypes DEF SetVolumeBase
<1>10. CASE DeleteVolume(c)
  <2>1. Record(kv')
    BY <1>0, <1>10, KeyFacts DEF DeleteVolume, Delete, Record, Stored
  <2> QED BY <1>10, <2>1, ReturnTypes DEF DeleteVolume
<1>11. CASE GetSettings(c)
  <2>1. Settings \in AllSettings
    BY <1>0, MetadataAssumption DEF Settings, Record, AllSettings
  <2>2. GotTypes' /\ (\A d \in Clients \ {c} : got'[d] = got[d]) /\ got'[c]["settings"] = Settings
    BY <1>11, SettingsTypes DEF GetSettings
  <2>3. KindAt("change", req[c].kind, got'[c])
    BY <1>0, <1>11, <2>1, <2>2, KeyFacts DEF GetSettings, KindAt, Goto, Reading
  <2> QED BY <1>0, <1>11, <2>2, <2>3, GotoTypes DEF Places, Reading, GetSettings
<1>12. CASE SetSettings(c)
  <2>1. Changed(c) \in AllSettings
    BY <1>0, <1>12, RequestFacts DEF SetSettings, Changed, KindAt, GotTypes, Record, AllSettings
  <2>2. Record(kv')
    BY <1>0, <1>12, <2>1, PutRecord, KeyFacts DEF SetSettings, Set, Stored
  <2> QED BY <1>12, <2>2, ReturnTypes DEF SetSettings
<1>13. CASE CallFails(c)
  BY <1>0, <1>13, ReturnTypes DEF CallFails
<1> QED BY <1>1, <1>2, <1>3, <1>4, <1>5, <1>6, <1>7, <1>8, <1>9, <1>10, <1>11, <1>12, <1>13 DEF Step

LEMMA MetaTypesInit == Init => MetaTypes
<1> SUFFICES ASSUME Init PROVE MetaTypes
  OBVIOUS
<1>1. NoRequest \in Requests
  BY DEF NoRequest, Requests
<1>2. Record(SomeVolume)
  BY KeyFacts, MetadataAssumption DEF SomeVolume, Record, Stored
<1>3. Record(kv) /\ GotTypes
  BY <1>2, NothingIsRecord DEF Init, GotTypes, Record
<1>4. /\ pc \in [Clients -> Places] /\ req \in [Clients -> Requests]
      /\ todo \in [Clients -> SUBSET Reps]
  BY <1>1 DEF Init, Places
<1>5. \A c \in Clients : KindAt(pc[c], req[c].kind, got[c])
  BY DEF Init, KindAt, Reading
<1> QED BY <1>3, <1>4, <1>5 DEF MetaTypes

LEMMA BeginTypes ==
  ASSUME MetaTypes, NEW c \in Clients, NEW q \in Requests, Begin(c, q)
  PROVE  MetaTypes'
<1>1. PICK p \in {"settings", "base"} :
        /\ pc' = [pc EXCEPT ![c] = p] /\ (q.kind \in Fields <=> p = "settings")
        /\ req' = [req EXCEPT ![c] = q] /\ UNCHANGED <<kv, got, todo>>
  BY DEF Begin
<1>2. /\ pc' \in [Clients -> Places] /\ req' \in [Clients -> Requests]
      /\ pc'[c] = p /\ req'[c] = q
      /\ \A d \in Clients \ {c} : pc'[d] = pc[d] /\ req'[d] = req[d]
  BY <1>1 DEF MetaTypes, Places, Reading
<1>3. KindAt(p, q.kind, got[c])
  BY <1>1 DEF KindAt, Reading
<1>4. \A d \in Clients : KindAt(pc'[d], req'[d].kind, got'[d])
  BY <1>1, <1>2, <1>3 DEF MetaTypes
<1>5. Record(kv') /\ GotTypes' /\ todo' \in [Clients -> SUBSET Reps]
  BY <1>1 DEF MetaTypes, GotTypes
<1> QED BY <1>2, <1>4, <1>5 DEF MetaTypes

LEMMA ChangeTypes ==
  ASSUME MetaTypes, NEW k \in Instances, ChangeInstance(k)
  PROVE  MetaTypes'
<1>1. k \in Keys /\ k \notin {"base", "settings"}
  BY KeyFacts DEF Instances, Keys, VolumeKeys
<1>2. ValuesOf(k) \subseteq Stored
  BY <1>1 DEF ValuesOf, Stored
<1>3. Record(kv')
  <2>1. CASE Delete({k})
    BY <1>1, <2>1, KeyFacts DEF MetaTypes, Record, Delete, Stored
  <2>2. CASE \E x \in ValuesOf(k) : Set(k, x)
    BY <1>1, <1>2, <2>2, SMT DEF MetaTypes, Record, Set
  <2> QED BY <2>1, <2>2 DEF ChangeInstance
<1>4. UNCHANGED <<pc, req, got, todo>>
  BY DEF ChangeInstance, client
<1> QED BY <1>3, <1>4 DEF MetaTypes, GotTypes

LEMMA MetaTypesNext == MetaTypes /\ [Next]_vars => MetaTypes'
<1> SUFFICES ASSUME MetaTypes, [Next]_vars PROVE MetaTypes'
  OBVIOUS
<1>1. CASE UNCHANGED <<kv, client>>
  BY <1>1 DEF client, MetaTypes, GotTypes
<1> QED BY <1>1, StepTypes, BeginTypes, ChangeTypes DEF Next, vars
----------------------------------------------------------------------------
(* Reading a volume key by key.                                            *)

\* What a client at p has collected in g, with the replicas td still to read,
\* sn the values seen since it began: each key it is done with has a value the
\* key had, and the replicas it has not listed are left out (volume.go:164-181,
\* 243-272).
Collected(p, g, td, sn) ==
  /\ p \in {"controller", "keys", "replicas"} => g["base"] \in sn["base"]
  /\ p \in {"keys", "replicas"} => g["controller"] \in sn["controller"]
  /\ p \in {"idle", "base", "controller", "keys"} => \A r \in Reps : g[r] = Nil
  /\ p = "replicas" => \A r \in Reps \ td : g[r] \in sn[r]
  /\ p = "read" => \A k \in (IF g["base"] = Nil THEN {"base"} ELSE VolumeKeys) : g[k] \in sn[k]

ReadInv ==
  /\ MetaTypes
  /\ \A c \in Clients : Collected(pc[c], got[c], todo[c], seen[c])
  /\ \A c \in Clients : pc[c] \in Reading => \A k \in Keys : kv[k] \in seen[c][k]

\* More values seen do no harm.
LEMMA MoreSeen ==
  ASSUME NEW p, NEW g, NEW td, NEW sn, NEW more,
         Collected(p, g, td, sn),
         p \in Reading => \A k \in Keys : sn[k] \subseteq more[k]
  PROVE  Collected(p, g, td, more)
BY KeyFacts DEF Collected, Reading, VolumeKeys, Keys, Instances

\* The values seen after a step: they include those of before and the present.
LEMMA Seen ==
  ASSUME Remember, NEW c \in Clients, pc'[c] \in Reading
  PROVE  \A k \in Keys : kv'[k] \in seen'[c][k] /\ seen[c][k] \subseteq seen'[c][k]
BY DEF Remember

\* A step of client c: it is enough to look at what c itself has collected.
LEMMA ReadStep ==
  ASSUME ReadInv, MetaTypes', Remember, NEW c \in Clients,
         \A d \in Clients \ {c} : pc'[d] = pc[d] /\ got'[d] = got[d] /\ todo'[d] = todo[d],
         Collected(pc'[c], got'[c], todo'[c], seen'[c])
  PROVE  ReadInv'
<1>1. \A d \in Clients \ {c} : Collected(pc'[d], got'[d], todo'[d], seen'[d])
  BY MoreSeen, Seen DEF ReadInv
<1>2. \A d \in Clients : pc'[d] \in Reading => \A k \in Keys : kv'[k] \in seen'[d][k]
  BY Seen
<1> QED BY <1>1, <1>2 DEF ReadInv

\* The step of a client that leaves what the others have read alone.
LEMMA OthersKept ==
  ASSUME MetaTypes, NEW c \in Clients, Step(c)
  PROVE  \A d \in Clients \ {c} : pc'[d] = pc[d] /\ got'[d] = got[d] /\ todo'[d] = todo[d]
<1> USE DEF MetaTypes, GotTypes, Goto, Return, Get
<1>1. CASE GetBase(c) \/ GetController(c) \/ ListReplicas(c) \/ VolumeRead(c) \/ UpdateCheck(c)
  BY <1>1 DEF GetBase, GetController, ListReplicas, VolumeRead, UpdateCheck
<1>2. ASSUME NEW r \in Reps, GetReplica(c, r)
      PROVE  \A d \in Clients \ {c} : pc'[d] = pc[d] /\ got'[d] = got[d] /\ todo'[d] = todo[d]
  BY <1>2 DEF GetReplica
<1>3. CASE UseVolume(c) \/ CreateCheck(c) \/ SetVolumeBase(c) \/ DeleteVolume(c)
  BY <1>3 DEF UseVolume, CreateCheck, SetVolumeBase, DeleteVolume
<1>4. CASE GetSettings(c) \/ SetSettings(c) \/ CallFails(c)
  BY <1>4 DEF GetSettings, SetSettings, CallFails
<1> QED BY <1>1, <1>2, <1>3, <1>4 DEF Step

LEMMA StepReads ==
  ASSUME ReadInv, NEW c \in Clients, Step(c), Remember
  PROVE  ReadInv'
<1> DEFINE Goal == Collected(pc'[c], got'[c], todo'[c], seen'[c])
<1>0. /\ MetaTypes /\ Collected(pc[c], got[c], todo[c], seen[c])
      /\ pc[c] \in Reading => \A k \in Keys : kv[k] \in seen[c][k]
      /\ pc \in [Clients -> Places] /\ todo \in [Clients -> SUBSET Reps]
  BY DEF ReadInv, MetaTypes
<1>s. pc'[c] \in Reading => \A k \in Keys : kv'[k] \in seen'[c][k] /\ seen[c][k] \subseteq seen'[c][k]
  BY Seen
<1> SUFFICES Goal
  BY <1>0, StepTypes, OthersKept, ReadStep
<1>r. ASSUME Return(c) PROVE Goal
  BY <1>0, <1>r DEF Return, Collected, MetaTypes, GotTypes, Nothing, Reading, Keys, VolumeKeys, Instances
<1>q. ASSUME pc'[c] \notin Reading \cup {"idle"} PROVE Goal
  BY <1>q DEF Collected, Reading
<1>1. CASE GetBase(c)
  <2>1. /\ got'[c]["base"] = kv["base"] /\ (\A j \in Keys \ {"base"} : got'[c][j] = got[c][j])
        /\ UNCHANGED kv /\ pc[c] = "base"
    BY <1>0, <1>1, KvTypes, KeyFacts DEF GetBase
  <2>2. pc'[c] = (CASE kv["base"] # Nil -> "controller"
                  [] kv["base"] = Nil /\ req[c].kind = "create" -> "check"
                  [] kv["base"] = Nil /\ req[c].kind = "mark" -> "panic"
                  [] OTHER -> "read")
    BY <1>0, <1>1 DEF GetBase, Goto
  <2>3. \A r \in Reps : got'[c][r] = Nil
    BY <1>0, <2>1, KeyFacts DEF Collected
  <2>4. CASE pc'[c] = "controller"
    BY <1>s, <2>1, <2>3, <2>4, KeyFacts DEF Collected, Reading
  <2>5. CASE pc'[c] = "read" /\ kv["base"] = Nil
    BY <1>s, <2>1, <2>5, KeyFacts DEF Collected, Reading
  <2> QED BY <1>q, <2>2, <2>4, <2>5 DEF Reading
<1>2. CASE GetController(c)
  <2>1. /\ got'[c]["controller"] = kv["controller"] /\ UNCHANGED kv
        /\ \A j \in Keys \ {"controller"} : got'[c][j] = got[c][j]
    BY <1>0, <1>2, KvTypes, KeyFacts DEF GetController
  <2>2. pc'[c] = "keys" /\ pc[c] = "controller"
    BY <1>0, <1>2 DEF GetController, Goto
  <2> QED BY <1>0, <1>s, <2>1, <2>2, KeyFacts DEF Collected, Reading
<1>3. CASE ListReplicas(c)
  <2>1. /\ pc'[c] = "replicas" /\ pc[c] = "keys" /\ UNCHANGED <<kv, got>>
        /\ todo'[c] = {r \in Reps : kv[r] # Nil}
    BY <1>0, <1>3 DEF ListReplicas, Goto
  <2> QED BY <1>0, <1>s, <2>1, KeyFacts DEF Collected, Reading
<1>4. ASSUME NEW r \in Reps, GetReplica(c, r) PROVE Goal
  <2>1. /\ got'[c][r] = kv[r] /\ UNCHANGED <<kv, pc>> /\ pc[c] = "replicas"
        /\ \A j \in Keys \ {r} : got'[c][j] = got[c][j]
    BY <1>0, <1>4, KvTypes, KeyFacts DEF GetReplica
  <2>2. todo'[c] = todo[c] \ {r}
    BY <1>0, <1>4 DEF GetReplica, Remaining
  <2> QED BY <1>0, <1>s, <2>1, <2>2, KeyFacts DEF Collected, Reading
<1>5. CASE VolumeRead(c)
  <2>1. pc'[c] = "read" /\ pc[c] = "replicas" /\ UNCHANGED <<kv, got>> /\ todo[c] = {}
    BY <1>0, <1>5 DEF VolumeRead, Goto
  <2> QED BY <1>0, <1>s, <2>1, KeyFacts DEF Collected, Reading, VolumeKeys, Instances
<1>6. CASE UseVolume(c) \/ CreateCheck(c) \/ UpdateCheck(c) \/ SetVolumeBase(c) \/ DeleteVolume(c)
           \/ GetSettings(c) \/ SetSettings(c) \/ CallFails(c)
  <2>1. Return(c) \/ \E p \in {"remove", "update", "set", "change"} : Goto(c, p)
    BY <1>6 DEF UseVolume, CreateCheck, UpdateCheck, SetVolumeBase, DeleteVolume, GetSettings, SetSettings,
       CallFails
  <2>2. Return(c) \/ pc'[c] \in {"remove", "update", "set", "change"}
    BY <1>0, <2>1 DEF Goto
  <2> QED BY <1>r, <1>q, <2>2 DEF Reading
<1> QED BY <1>1, <1>2, <1>3, <1>4, <1>5, <1>6 DEF Step

LEMMA ReadInvInit == Init => ReadInv
BY MetaTypesInit, KeyFacts, SMT DEF Init, ReadInv, Collected, Nothing, Reading

LEMMA ReadInvNext == ReadInv /\ [Next]_vars => ReadInv'
<1> SUFFICES ASSUME ReadInv, [Next]_vars PROVE ReadInv'
  OBVIOUS
<1>0. MetaTypes'
  BY MetaTypesNext DEF ReadInv
<1>1. CASE UNCHANGED <<kv, client, seen>>
  BY <1>0, <1>1 DEF client, ReadInv
<1>2. ASSUME NEW c \in Clients, NEW q \in Requests, Begin(c, q), Remember PROVE ReadInv'
  <2>1. /\ pc[c] = "idle" /\ pc'[c] \in {"settings", "base"} /\ UNCHANGED <<got, todo>>
        /\ \A d \in Clients \ {c} : pc'[d] = pc[d]
    BY <1>2 DEF Begin, ReadInv, MetaTypes
  <2>2. Collected(pc'[c], got'[c], todo'[c], seen'[c])
    BY <2>1 DEF ReadInv, Collected
  <2> QED BY <1>0, <1>2, <2>1, <2>2, ReadStep
<1>3. ASSUME NEW k \in Instances, ChangeInstance(k), Remember PROVE ReadInv'
  <2>1. UNCHANGED <<pc, got, todo>>
    BY <1>3 DEF ChangeInstance, client
  <2>2. \A c \in Clients : Collected(pc'[c], got'[c], todo'[c], seen'[c])
    BY <1>3, <2>1, MoreSeen, Seen DEF ReadInv
  <2>3. \A c \in Clients : pc'[c] \in Reading => \A j \in Keys : kv'[j] \in seen'[c][j]
    BY <1>3, Seen
  <2> QED BY <1>0, <2>2, <2>3 DEF ReadInv
<1> QED BY <1>1, <1>2, <1>3, StepReads DEF Next, vars

\* Whatever the other clients and managers write while a volume is read key by
\* key, every part of the result is a value its key had during the read
\* (volume.go:164-181, 243-272).
THEOREM VolumeReadIsRegular == Spec => []ReadIsRegular
<1>1. ReadInv => ReadIsRegular
  BY DEF ReadInv, Collected, ReadIsRegular
<1> QED BY <1>1, ReadInvInit, ReadInvNext, PTL DEF Spec
----------------------------------------------------------------------------
(* Changing a record by writing back a copy.                               *)

KeptInv ==
  /\ MetaTypes
  /\ acked \in [Fields \cup {"jobs"} -> Jobs \cup Values]
  /\ KeptUnlessOverlapped

LEMMA KeptStep ==
  ASSUME KeptInv, MetaTypes', NEW c \in Clients, Step(c)
  PROVE  KeptInv'
<1>0. /\ MetaTypes /\ Record(kv) /\ GotTypes /\ KindAt(pc[c], req[c].kind, got[c])
      /\ req[c] \in Requests /\ KeptUnlessOverlapped
      /\ acked \in [Fields \cup {"jobs"} -> Jobs \cup Values]
  BY DEF KeptInv, MetaTypes
<1>1. CASE UNCHANGED <<kv, ghost>>
  BY <1>1 DEF KeptInv, KeptUnlessOverlapped, Settings, ghost
<1>2. CASE SetVolumeBase(c)
  <2>1. /\ kv' = [kv EXCEPT !["base"] = Base(c)] /\ "base" \in Keys
        /\ kv'["base"] = Base(c) /\ kv'["settings"] = kv["settings"]
    BY <1>0, <1>2, KeyFacts DEF SetVolumeBase, Set, Record
  <2>2. Settings' = Settings
    BY <2>1 DEF Settings
  <2>3. /\ \A f \in Fields : acked'[f] = acked[f]
        /\ acked' \in [Fields \cup {"jobs"} -> Jobs \cup Values]
    BY <1>0, <1>2, RequestFacts, MetadataAssumption DEF SetVolumeBase, Fields, KindAt
  <2>4. stale' \/ (kv'["base"] # Nil => kv'["base"] = acked'["jobs"])
    BY <1>0, <1>2, <2>1 DEF SetVolumeBase, Base, KindAt, KeptUnlessOverlapped
  <2>5. stale => stale'
    BY <1>2 DEF SetVolumeBase
  <2> QED BY <1>0, <2>2, <2>3, <2>4, <2>5 DEF KeptInv, KeptUnlessOverlapped
<1>3. CASE DeleteVolume(c)
  <2>1. /\ kv'["base"] = Nil /\ kv'["settings"] = kv["settings"] /\ UNCHANGED ghost
    BY <1>0, <1>3, KeyFacts DEF DeleteVolume, Delete, VolumeKeys, Instances
  <2> QED BY <1>0, <2>1 DEF KeptInv, KeptUnlessOverlapped, Settings, ghost
<1>4. CASE SetSettings(c)
  <2>1. /\ kv'["settings"] = Changed(c) /\ kv'["base"] = kv["base"]
    BY <1>0, <1>4, KeyFacts DEF SetSettings, Set, Record
  <2>2. /\ got[c]["settings"] \in [Fields -> Values] /\ req[c].kind \in Fields
    BY <1>0, <1>4 DEF SetSettings, KindAt, GotTypes, Record, AllSettings
  <2>3. Changed(c) \in AllSettings
    BY <2>2, <1>0, RequestFacts DEF Changed, AllSettings
  <2>4. Settings' = Changed(c)
    BY <2>1, <2>3, KeyFacts DEF Settings
  <2>5. /\ acked' = [acked EXCEPT ![req[c].kind] = req[c].arg]
        /\ stale' = (stale \/ got[c]["settings"] # Settings)
    BY <1>4 DEF SetSettings
  <2>6. acked' \in [Fields \cup {"jobs"} -> Jobs \cup Values] /\ acked'["jobs"] = acked["jobs"]
    BY <1>0, <2>2, <2>5, RequestFacts DEF Fields
  <2>7. ~stale' => \A f \in Fields : Settings'[f] = acked'[f]
    BY <1>0, <2>2, <2>4, <2>5 DEF KeptUnlessOverlapped, Changed
  <2> QED BY <1>0, <2>1, <2>5, <2>6, <2>7 DEF KeptInv, KeptUnlessOverlapped
<1> QED
  BY <1>1, <1>2, <1>3, <1>4
  DEF Step, GetBase, GetController, ListReplicas, GetReplica, VolumeRead, UseVolume,
      CreateCheck, UpdateCheck, GetSettings, CallFails

LEMMA KeptInit == Init => KeptInv
<1> SUFFICES ASSUME Init PROVE KeptInv
  OBVIOUS
<1>1. /\ acked \in [Fields \cup {"jobs"} -> Jobs \cup Values]
      /\ acked["jobs"] = NoJobs /\ \A f \in Fields : acked[f] = Default
  BY MetadataAssumption DEF Init, Fields
<1>2. kv["base"] \in {Nil, NoJobs} /\ kv["settings"] = Nil
  BY KeyFacts DEF Init, Nothing, SomeVolume
<1>3. Settings = [f \in Fields |-> Default]
  BY <1>2 DEF Settings
<1> QED BY <1>1, <1>2, <1>3, MetaTypesInit DEF KeptInv, KeptUnlessOverlapped

LEMMA KeptNext == KeptInv /\ [Next]_vars => KeptInv'
<1> SUFFICES ASSUME KeptInv, [Next]_vars PROVE KeptInv'
  OBVIOUS
<1>0. MetaTypes'
  BY MetaTypesNext DEF KeptInv
<1>1. CASE UNCHANGED <<kv, ghost>>
  BY <1>0, <1>1 DEF KeptInv, KeptUnlessOverlapped, Settings, ghost
<1>2. ASSUME NEW k \in Instances, ChangeInstance(k) PROVE KeptInv'
  <2>1. k \notin {"base", "settings"} /\ {"base", "settings"} \subseteq Keys
    BY KeyFacts DEF Instances
  <2>2. kv'["base"] = kv["base"] /\ kv'["settings"] = kv["settings"] /\ UNCHANGED ghost
    BY <1>2, <2>1 DEF ChangeInstance, Set, Delete, KeptInv, MetaTypes, Record
  <2> QED BY <1>0, <2>2 DEF KeptInv, KeptUnlessOverlapped, Settings, ghost
<1> QED BY <1>0, <1>1, <1>2, KeptStep DEF Next, vars, Begin

\* Nobody's jobs and settings are lost as long as no two changes of a record
\* overlap (manager.go:445-455, docker.go:230, 249, api/settings.go:59-72).
THEOREM ChangesAreKept == Spec => []KeptUnlessOverlapped
<1>1. KeptInv => KeptUnlessOverlapped
  BY DEF KeptInv
<1> QED BY <1>1, KeptInit, KeptNext, PTL DEF Spec
=============================================================================
