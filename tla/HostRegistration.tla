-------------------------- MODULE HostRegistration --------------------------
(***************************************************************************)
(* How a manager finds out who it is and registers (orch/docker/docker.go: *)
(* Register, getCurrentHost; kvstore/kvstore.go: SetHost).  A machine is   *)
(* known by a UUID that it keeps in a file: instances are recorded with    *)
(* it, so a machine that came back under another would lose them.          *)
(*                                                                         *)
(* A manager may be killed at any step and started again.  WriteFile first *)
(* makes or empties the file and then writes it.                           *)
(***************************************************************************)
EXTENDS Naturals

CONSTANTS Machines,
          Nil,     \* no file
          MaxOps   \* bound on starts of managers, requests and changes

ASSUME HostAssumption == MaxOps \in Nat /\ Nil \notin Nat

VARIABLES
  file,   \* the content of hostUUIDFile; 0 when it is empty
  mpc,    \* where the start of each machine's manager is
  uuid,   \* host.UUID of the manager that starts or runs
  hosts,  \* the key hosts: absent, a directory or a plain key
  ops,    \* those so far; also the last UUID generated
  \* history:
  names,    \* the UUIDs under which each machine was registered
  misread,  \* the machines whose file was there and could not be read
  cut       \* those whose manager was killed between making and writing it

hostHistory == <<names, misread, cut>>
hvars == <<file, mpc, uuid, hosts, hostHistory>>

HostTypeOK ==
  /\ file \in [Machines -> Nat \cup {Nil}]
  /\ mpc \in [Machines -> {"off", "create", "write", "register", "up"}]
  /\ uuid \in [Machines -> Nat]
  /\ hosts \in {"absent", "directory", "key"}
  /\ names \in [Machines -> SUBSET Nat]
  /\ misread \subseteq Machines /\ cut \subseteq Machines
  /\ ops \in Nat

\* New machines, and some whose manager was killed before it had written the file.
HostInit ==
  /\ cut \in SUBSET Machines /\ file = [m \in Machines |-> IF m \in cut THEN 0 ELSE Nil]
  /\ mpc = [m \in Machines |-> "off"]
  /\ uuid = [m \in Machines |-> 0] /\ hosts = "absent"
  /\ names = [m \in Machines |-> {}] /\ misread = {} /\ ops = 0

\* Mutant: a new UUID is not written to the file.
ReadFileOnly(m) ==
  /\ mpc[m] = "off" /\ ops < MaxOps
  /\ ops' = ops + 1
  /\ uuid' = [uuid EXCEPT ![m] = IF file[m] = Nil THEN ops + 1 ELSE file[m]]
  /\ mpc' = [mpc EXCEPT ![m] = "register"]
  /\ UNCHANGED <<file, hosts, hostHistory>>

\* getCurrentHost: the UUID in the file.  Any error of reading it is taken for a
\* file that does not exist, and a new UUID is made.
ReadFile(m) ==
  /\ mpc[m] = "off" /\ ops < MaxOps
  /\ ops' = ops + 1
  /\ \/ /\ file[m] # Nil
        /\ uuid' = [uuid EXCEPT ![m] = file[m]] /\ mpc' = [mpc EXCEPT ![m] = "register"]
        /\ UNCHANGED misread
     \/ /\ uuid' = [uuid EXCEPT ![m] = ops + 1] /\ mpc' = [mpc EXCEPT ![m] = "create"]
        /\ misread' = IF file[m] = Nil THEN misread ELSE misread \cup {m}
  /\ UNCHANGED <<file, hosts, names, cut>>

CreateFile(m) ==
  /\ mpc[m] = "create"
  /\ file' = [file EXCEPT ![m] = 0] /\ mpc' = [mpc EXCEPT ![m] = "write"]
  /\ UNCHANGED <<uuid, hosts, hostHistory, ops>>

WriteFile(m) ==
  /\ mpc[m] = "write"
  /\ file' = [file EXCEPT ![m] = uuid[m]] /\ mpc' = [mpc EXCEPT ![m] = "register"]
  /\ UNCHANGED <<uuid, hosts, hostHistory, ops>>

\* SetHost sets the key hosts/<UUID>, with an empty UUID the key hosts itself.
\* etcd makes the directories of a key, and refuses to set a directory or a
\* key below a plain key: the manager ends.
SetHost(m) ==
  /\ mpc[m] = "register"
  /\ LET kind == IF uuid[m] = 0 THEN "key" ELSE "directory"
         done == IF uuid[m] = 0 THEN hosts # "directory" ELSE hosts # "key" IN
       IF done
       THEN /\ hosts' = kind /\ mpc' = [mpc EXCEPT ![m] = "up"]
            /\ names' = [names EXCEPT ![m] = @ \cup {uuid[m]}]
       ELSE mpc' = [mpc EXCEPT ![m] = "off"] /\ UNCHANGED <<hosts, names>>
  /\ UNCHANGED <<file, uuid, misread, cut, ops>>

\* The manager is killed, or ends as the directory or the file cannot be written.
Kill(m) ==
  /\ mpc[m] # "off"
  /\ mpc' = [mpc EXCEPT ![m] = "off"]
  /\ cut' = IF mpc[m] = "write" THEN cut \cup {m} ELSE cut
  /\ UNCHANGED <<file, uuid, hosts, names, misread, ops>>

HostStep(m) ==
  ReadFile(m) \/ CreateFile(m) \/ WriteFile(m) \/ SetHost(m) \/ Kill(m)

HostSpec == HostInit /\ [][\E m \in Machines : HostStep(m)]_<<hvars, ops>>
-----------------------------------------------------------------------------
\* A machine keeps its name: however often its manager is killed while it
\* starts, it is registered under one UUID, that of the file, unless a file that
\* was there could not be read; and two machines are registered under the same
\* UUID, the empty one, only when both were killed between the making and the
\* writing of the file (docker.go:120-134, 176).
OneName ==
  /\ \A m \in Machines \ misread : names[m] \subseteq {file[m]}
  /\ \A m, n \in Machines : m # n /\ names[m] \cap names[n] # {} => {m, n} \subseteq cut
----------------------------------------------------------------------------
(* What tests, comments and messages lead one to expect and the code does  *)
(* not keep: TLC finds a counterexample to each (see the README).          *)

\* The hosts are listed from the directory hosts (ListHosts, Keys).
HostsIsDirectory == hosts # "key"

\* "file doesn't exists, generate new UUID for the host" (docker.go:126): a machine
\* that has a name is not given another.
NameIsKept == \A m \in Machines : names[m] \subseteq {file[m]}

\* The UUID of a host tells it from the others (GetHost, kvstore.go).
NamesDiffer == \A m, n \in Machines : m # n => names[m] \cap names[n] = {}
=============================================================================
