# Longhorn manager: specifications, model checks and proofs

The longhorn manager runs on every host of a cluster. It creates, attaches,
detaches and deletes replicated volumes, whose controllers and replicas are
docker containers; it keeps the metadata in etcd, monitors attached volumes,
replaces lost replicas, and runs recurring snapshots and backups.

## The system and its parts

| Part | Source | Module |
| --- | --- | --- |
| life of a volume: create, also from a backup, attach, detach, delete, start | `manager/manager.go`, `manager/monitor.go` | `VolumeManager` |
| instances and their metadata | `orch/docker/instance.go`, `kvstore/volume.go` | `VolumeManager`, `Scheduler` |
| check of the controller, rebuild of replicas | `manager/manager.go`, `controller/controller.go` | `ReplicaRebuild` |
| queue of background tasks | `controller/queue.go` | `TaskQueue`, abstractly `TaskFIFO` |
| running and listing background tasks | `controller/bgtasks.go`, `api/volume.go` | `BgTasks` (extends `TaskQueue`) |
| tickers, loops and `RunJobs` of a monitor | `manager/event.go`, `monitor.go`, `cron.go` | `Monitor` |
| snapshots a recurring job retains | `manager/cron.go` | `Retention` |
| purge of snapshots | `controller/snapshots.go` | `Purge` |
| placement of replicas | `scheduler/`, `api/internal.go` | `Scheduler` |
| registry of controllers | `controller/controller.go` | `Registry` |
| metadata in etcd: volumes, settings | `kvstore/`, `orch/docker/docker.go`, `api/settings.go` | `Metadata` |
| registration of hosts | `orch/docker/docker.go`, `kvstore/kvstore.go` | `HostRegistration` (extended by `Metadata`) |
| API resources, backups, utilities, memory backend | `api/`, `backups/`, `util/`, `main.go`, `kvstore/memory.go` | not modelled, see the end |

A manager serves every request in a goroutine of its own, and no lock is held
across a request. The hosts meet in etcd, which is read and written key by key,
and in docker. `PROJECT.json` lists the hazards this brings, each at its line
with the properties that cover it, and maps every definition to its lines.

## The modules

**TaskQueue** has one action per receive and send of `runQueue`, and per step of
its clients; channels are unbuffered. **TaskFIFO** is what it promises: tasks
leave in the order in which they came. **BgTasks** composes the queue with the
runner, those that put tasks, and the API request that lists them in two reads.

**VolumeManager** has threads, the requests and the monitors, each working on
the volume as it read it. Every instance call is a container operation, a check
of the metadata, and a write; any thread may move in between. Calls fail,
engines die and managers are killed within bounds. A creation from a backup is
one request that creates, attaches, restores and detaches, and turns into a
delete when one of the last three fails (`Fail`). Whether a volume exists is
checked one step before it is written (`CreateCheck`), and a replica that cannot be
created on one host is tried on the next (`TryNextHost`). Abstractions: a volume is
read in one step (`Metadata` reads it key by key); the inspection of a container goes with the read of its
metadata; remote calls of a killed manager are dropped; replicas are placed by
a constant function (`Scheduler` places them); replicas neither fail nor are rebuilt, which is
`ReplicaRebuild`'s subject; no `BadTimestamp` is ever stored. Addresses are not
reused.

**ReplicaRebuild** is an attached volume: the check acts on modes read earlier,
goroutines add replicas, and users remove some. When nothing good is left the check
shuts the volume down, and after an error of the controller or too many failed checks
the monitor closes its channel and detaches the volume (`giveup`). Both stop the
controller and then the replicas, and each call may fail, after which the monitor has
ended, or the manager with it, where the channel is closed a second time. A killed
`longhorn add` leaves its replica in mode WO. The engine is external. The
cleanup of bad replicas is left out, as it acts only on a `BadTimestamp`.

**Monitor** is one life of a monitor. A ticker is a timer, its channel and the
goroutine `tick`; the loop stops and starts the timer around each check. Requests
start, update and close the monitor under the manager's lock.

**Retention** has the runs of one job, which overlap because cron starts each in
a goroutine, and the task objects they share. A snapshot is the number of its
creation; that snapshots of the same second sort in any order is left out.
`Retain` takes values that the API accepts, also 0 and a negative one.

**Purge** has callers, the queue of two places and the lock. A command that is
killed at its timeout ends, while the engine goes on with what it was told
(`working`). **Scheduler** has the client's list of hosts and the hosts' side of
each call, which goes on when the connection breaks. A request ends before any host
is tried when the volume or the hosts cannot be read. A `Set` that times out may have
taken effect.

**Registry** has the goroutine `holdControllers`, its map and the objects it has
made, each with a queue that is open or closed; the requests that call `Get` with
a volume they have read before, and `Cleanup` with the manager's lock held; and
other managers, which move volumes without telling this registry. What `BgTasks`
and `Purge` promise is about one object, so it is this module that says how far a
volume has one.

**Metadata** has one step per call of etcd. Clients read a volume key by key, and
change records by reading, changing and writing back: Create, the recurring jobs,
the mark of a bad replica, the settings. The keys of instances, written by the
operations of `VolumeManager` and `Scheduler`, change at any time. The variables
`seen`, `acked` and `stale` are history. **HostRegistration**, which it extends,
has the start of a manager up to its registration: the file with the UUID, made
empty and then written, and the key `hosts`, a directory or not. Any error of reading
the file is taken for a file that does not exist. Some machines begin with a file that
an earlier kill has left empty.

`MC*` modules give the constants their values; `*Proofs` modules hold theorems. In
most of these, leaves are first-order and go to Zenon (`USE Zenon`); those that need
arithmetic or records cite SMT.

## What the runs show

Properties that hold, safety and liveness together:

| Run | Shows |
| --- | --- |
| `MCBgTasks` | the queue with its users: no loss, refinement of the FIFO queue, calls return; tasks are listed in order; each is run; closing ends the runner |
| `MCVolumeOneHost` | attach, detach and restore in turn on one host: attached means monitored, store and containers agree, a dead engine is noticed |
| `MCVolumeTwoHosts` | attach, detach, delete and restore in turn on two hosts: one engine; delete leaves no container, also the one that cleans up after a failed restore |
| `MCVolumeConcurrent` | concurrent requests, a failure, a crash: one live monitor on a host |
| `MCRebuild` | accounting of added replicas, used ones kept, detach only without good ones; a volume heals or its monitor gives up |
| `MCPurge` | no leaked place, purged is gone; calls return |
| `MCMonitor` | ticks arrive and checks go on; an update replaces the jobs; the loops of a closed monitor end; requests return while the settings can be read |
| `MCRetention` | the oldest is deleted; no more are kept than are to be, and not many fewer; cleanups end unless `Retain` is negative |
| `MCScheduler` | a stored replica has its container; while connections hold, no container is left over, a replica is given up only when every host has refused it, replicas are spread |
| `MCRegistry` | `Get` answers with an open controller of the volume and address asked for; an open queue is registered or was pushed out by another address; requests return although the registry and the manager's lock wait for each other's holders |
| `MCMetadata` | a volume read key by key has values that each key had during the read; jobs and settings are kept unless a stale copy is written back; a machine keeps its name, although its manager is killed while it starts, unless its file cannot be read, and two share one only when both files were left empty |

The type invariants of the modules without a proof about their types are not
listed in the configurations; they hold on the same instances.

One run ends in a counterexample, to what the code's own message says:
`MCVolumeConflict`, where two hosts that attach at once both pass the check for a
"metadata conflict", and one controller replaces the other in the store.

The modules state more such expectations, under a heading of their own, which no
run lists. To see a counterexample, name the property in the configuration given
here (a state predicate as an INVARIANT), with the change given here:

| Property | Configuration | What happens |
| --- | --- | --- |
| `NoOrphanController` | `MCVolumeConflict`, one request, `MaxFaults = 1` | an attach fails after the controller was started; the cleanup cannot remove a running container |
| `MonitorStopsItsOwn` | `MCVolumeTwoHosts` | a monitor detaches by name a volume that another host has attached since |
| `NoPanic` | `MCVolumeOneHost` | a monitor that gives up closes a channel that a detach has closed |
| `DeletedMeansNoMetadata` | `MCVolumeConcurrent` | a late stop stores an instance of a deleted volume |
| `MarkedIsBad`, `NoSurplus` | `MCRebuild` | the mark of a bad replica is not stored; a check before the late increment of `addingReplicas` adds one too many |
| `ListingHasNoGap`, `RecurringIsBackedUp` | `MCBgTasks` | a task taken between two reads is not listed; a recurring backup is put in a form the runner does not know |
| `NoPanic`, `GivenUpIsDetached` of `ReplicaRebuild` | `MCRebuild` | a call fails in the detach of the check, and the monitor closes the channel again; a failed detach leaves the volume attached without a monitor |
| `NoAbandoned` | `MCRebuild`, `MaxFaults = 2` | a killed `longhorn add` leaves a replica in mode WO whose container cannot be stopped either: every check waits for it, and nothing rebuilds it |
| `SkippedIsCovered`, `EnginePurgesAlone` | `MCPurge` | a purge is skipped although the only other one has begun; a purge command starts while the engine works on for a killed one |
| `TickersEnd`, `StoredJobsRun` | `MCMonitor` | `tick` waits for ever on the stopped timer of a closed monitor; an update stored between the read of an attach and its `startMonitoring` finds no monitor, and its jobs do not run |
| `NothingStoredWithout` | `MCScheduler` | a `Set` that timed out has taken effect, and the container of the stored replica is removed |
| `FailedCreateIsCleanedUp` | `MCVolumeOneHost` | the engine dies during a restore; the monitor's detach and the cleanup's delete get into each other's way, and the volume stays |
| `RecordedExists` | `MCVolumeTwoHosts`, `MaxFaults = 1` | a container is removed and its key is not; every later delete fails on the container |
| `KeepsRetained` | `MCRetention` | overlapping runs count one snapshot twice, and the cleanup keeps fewer than `Retain` |
| `AnyCleanupReturns` | `MCRetention` | with a negative `Retain` the cleanup goes on when nothing is left |
| `DetachedIsReleased`, `OneRunner`, `NewController` | `MCRegistry` | a controller pushed out by another address keeps its goroutines; a request that has read the volume before its detach makes a released object again; a controller that gets the address of an earlier one finds the object of that one |
| `UpdateNeedsVolume`, `CreateNeedsNone` | `MCMetadata` | the checks look at a key that changes before the write; an update does not look at it at all |
| `NoPanic` of `Metadata` | `MCMetadata` | a replica is marked in a volume that is gone |
| `SettingsKept` | `MCMetadata` | two settings changed at once, and one change is lost |
| `HostsIsDirectory`, `NamesDiffer` | `MCMetadata` | a manager killed while it writes its UUID registers with an empty one; so does another |
| `NameIsKept` | `MCMetadata` | a file that is there and cannot be read is overwritten with a new UUID |

Some properties carry a condition that the code needs, and fail without it:
`AttachedIsMonitored` (no engine has died), `MonitorRequestsReturn` (the
settings could be read; otherwise an update holds the manager's lock for ever),
`StoredIsContainer`, `FailsOnlyIfAllFail` and `Spread` (`lost = 0`: no connection
broke), the first two and `StoredHasContainer` (no `Set` for the replica timed out
after it took effect), `Heals` (no replica is abandoned), `OneName` (the histories `misread` and `cut`),
`KeptUnlessOverlapped` (no stale copy was written back) and `CleanupReturns`
(`Retain` is not negative). All these are counterexamples of the models, checked
against the source by reading; none has been reproduced on a running manager.

### Bounds

Two hosts, two requests and two monitors are what the conflicts between hosts
take. Three callers fill the purge queue of two and are skipped. Retention makes
more snapshots than twice what is retained, so that the list is read again.
`MCRebuild` has one name more than the volume has replicas, and as many of them may
stop, so that a check finds nothing good; `Heals` admits that the names run out, which
they never do in the code. `MCScheduler` has one replica more than hosts, so that
some must share one. `MCMonitor` has the loop of
the monitor alone, as the two loops share nothing but the close, and the
theorem about ticks is for both. `MCRegistry` has one volume, as the registry
keeps volumes apart and the theorems are for any number, two requests at a time
and four in all, enough for a late `Get`, a `Cleanup` and an attach elsewhere.
`MCMetadata` counts starts, requests and changes together: three suffice for two
overlapping requests and a writer, and for two machines with an empty file. In
`VolumeManager` another host for a replica takes a name of its own, and names are kept
for the other requests. Restores are in the runs with one request at a
time; with concurrent ones TLC did not finish, and only the theorem about monitors
covers them. The bounds named `Max...` are guards of the models. The constraint `AllAlive` of `MCVolumeTwoHosts` stops at the end of a
manager, after which its properties say nothing. `MCMonitor` does not check for
deadlock: after a failed read of the settings the manager really may stop. Nor do
`MCRegistry` and `MCMetadata`, where nobody has to make another request.

### Fairness

Goroutines go on (weak fairness of their steps), timers expire, and external
calls return or fail. Strong fairness is used for `sync.Mutex` in `Purge`
and `Retention`, where callers come back again and again, and in `Registry` for
the manager's lock and for the senders on `reqCh`: go's mutexes do not starve
waiters, and senders on a channel queue up in order. Requests are never
forced to arrive, and nothing is assumed about a killed manager starting again.

## What is proved

For every value of the constants, under the named assumptions of the modules:

- `BgTasksProofs`, the queue: types, order, no loss, no task beside a waiting
  client, and the refinement of `TaskFIFO`. The invariant `QueueInv` adds where a
  task is while it is handed over, between the receive and the send.
- `BgTasksProofs`, the tasks: the composition implements `TaskFIFO` too, since each of its
  steps is a step of the queue or leaves its variables alone; tasks finish, and
  are listed, in order. `BgInv` adds that the finished, the running and the
  queued tasks have rising numbers, and bounds what a listing has read by them.
- `VolumeManagerProofs`: types, and one live monitor on a host. `MonitorInv`
  relates the registered monitor, the open channels and the threads' places. The
  two modules that follow extend this one.
- `EngineProofs`: `OneEngine` and `DeleteLeavesNothing`, for one request at a time
  (`OneRequest`) and no failing call (`MaxFaults = 0`), with any number of hosts,
  replicas, monitors and dying engines. A monitor that has found its engine dead
  detaches the volume by name while a request is under way, so the invariants are
  about all threads at once. `EngineInv` follows the controller: from the place where
  a request has seen to it that there is none until it makes one, there is none
  (`ClearInv`); nobody else knows the one it has made until it is stored
  (`MakingInv`); and what a thread has read of a controller is of one that was
  created (`KnownThread`). `CallsInv`: replica calls are under way only at the places
  that make them. `DeleteInv` follows the replicas: a container is stored or about
  to be, and a delete has read all that it has to remove.
- `SerialProofs`: `StoreMatchesContainers` and `AttachedIsMonitored`, for one manager
  (`OneHost`), one request at a time and no failing call, with any number of replicas
  and monitors. `SerialInv` says, for every place where the request can be, what the
  store, the containers and the open channels are (`Begins`, `Unmonitors`,
  `StopsEngine` and so on, together `Phase`); beside it a monitor only watches, as
  its engine lives, or ends. It holds until a manager ends or an engine dies, after
  which the two properties say nothing.
- `SnapshotProofs`, the purge: one command at a time, no leaked place, and purged is gone.
  `PurgeInv` adds that the lock is held from `Lock` to `Unlock`, and that what a
  caller wants stays marked until some purge takes it away. `PlaceInv` counts the
  callers under way, one more at `Enter` and one less at `Leave`.
- `SnapshotProofs`, the cleanup: `DeletesOldest`, `NotTooMany` and `KeepsMost`. The
  first rests on `ListInv`: a list, however old, is sorted, a snapshot that is left
  and not on it is younger than all that are, and a run that deletes holds the lock
  of its task. The other two count: `CountInv` says that the count and the runs that
  wait for the lock add up to no less than the snapshots left, and to more by at most
  the number of the other runs.
- `ReplicaProofs`, the rebuild: `NoLeakedCount`, `KeepsUsedReplicas` and
  `DetachOnlyWithoutGood`. `RebuildInv` adds why what a check has read is still
  true when it acts: a replica it is about to remove stays in mode ERR (`CallsInv`),
  and when it has seen no good replica none becomes good (`DetachInv`).
- `ControllerProofs`, the monitor: a tick is on its way, and `JobsOfAnUpdate`.
  `TickInv` adds that `tick` ends only after the channel is closed and that channels are opened once;
  `JobsInv` adds that the attach starts `RunJobs` once, before any update, and that it
  runs what it was given last.
- `ReplicaProofs`, the placement: the four properties of `Scheduler`. `PlaceInv` adds
  that a host is called once for a replica (`Once`), also when connections break; that,
  while they hold, only the host called works for it (`Alone`) and each host left
  has refused it (`Failing`); and that, without failures, one request at a time is
  placed and the priorities it has read stay true (`OneActive`, `Placed`).
- `ControllerProofs`, the registry: `GetMatches` and `OpenIsRegistered`. `RegInv` adds
  that an entry of the map belongs to its volume and is open, and that the goroutine of the
  registry, while it waits to hand over an answer, changes nothing.
- `MetadataProofs`: `OneName`, from `HostInv`, which says where the UUID of a start
  comes from, and that an empty one is that of a file cut short; `ReadIsRegular`, from one that says that what was read so far was seen and
  that a replica left out of the list was seen absent; `KeptUnlessOverlapped`.

Every safety property that a passing run checks is proved, four of them under
hypotheses on the constants: `EngineProofs` and `SerialProofs` take one request at a
time and no failing call, and `SerialProofs` one manager, as the runs
`MCVolumeTwoHosts` and `MCVolumeOneHost` do. None of these can be dropped. With
`Ops = {o1, o2}`, and with `MaxFaults = 1`, TLC finds a counterexample to each of the
four in these configurations, since overlapping requests work on copies of the volume
that are out of date, and an attach that fails leaves its controller behind. With
two hosts, `MaxReqs = 4`, three monitors and deletes instead of restores it finds one
to each of the two of `SerialProofs`: a detach does not stop the monitor of another
host, which later detaches by name what was attached since (`MonitorStopsItsOwn`).

Only model-checked is liveness, which needs fairness and ENABLED: `PutAndListReturn`,
`PutIsRun`, `CloseStopsRunner`, `DeadEngineNoticed`, `RequestsReturn` of
`Registry`, `MonitorRequestsReturn`, `Heals`, `PurgeReturns`,
`KeepsChecking`, `LoopsEnd` and `CleanupReturns`.

## Not modelled

- The memory backend: unit tests alone construct it.
- `ListVolumes` and the other plain reads: reads of the kind `Metadata` has.
- The cleanups of backup jobs: same scheme as `Retention`, and never reached, as
  `RecurringIsBackedUp` shows.
- The cleanup of bad replicas: it acts on a `BadTimestamp` that is never stored
  (`MarkedIsBad`).
- `backups/`, and the snapshot commands besides purge: single commands to the engine
  and the parsing of their output.
- The API beside forwarding, listing of tasks and settings: requests turned into
  calls, values turned into resources.
- `main.go` beside the start of a manager, and `util/`: command line, servers,
  formatting.

Rebuild is not composed with attach and detach on two hosts: `ReplicaRebuild` takes
one attachment, and `VolumeManager` without rebuild already has 1.8 million states
on two hosts with one request at a time.
