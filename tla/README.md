# A TLA+ verification project for android-cuttlefish

Cuttlefish runs virtual Android devices on a host. This project models the host
code that owns the life cycle of a device: the `cvd` command line tool, which
creates, starts, stops and removes groups of devices, and `run_cvd`, the process
that runs one device with its dozens of host processes, from its boot to its end.
It also models two services of the Go front end that have a concurrent core of
their own: the operator, which connects devices and browsers, and the user
artifacts of the host orchestrator. Paths below are relative to
`src/base/cvd/cuttlefish/host/`, those of the Go code to `src/frontend/src/`;
`PROJECT.json` maps every definition to its lines.

## 1. Inventory

### The parts modelled

**Instance database** (`commands/cvd/instances/instance_database.cpp`,
`data_viewer.{h,cpp}`). *State*: one protobuf file with the instance groups, each
with a name, a home directory, and instances with an id and a state. *Operations*:
add, update (by name), remove, clear, find. Every operation opens and locks
the file, reads it all, runs a task and, for a write, truncates and writes it
again. *Shared with*: every other `cvd` process on the host. *Hard*: lost updates,
readers between truncate and write, SIGKILL anywhere. *Correct when*: every
operation behaves as one step.

**Instance manager and instance locks** (`instance_manager.cpp`,
`instances/lock/*.cpp`, `instances/stop.cpp` and the command handlers that call
them). *State*: the database; per instance id a lock file with a `flock` and an
in-use byte; the running devices. *Operations*: create, start, stop, remove,
clear, reset. *Interaction*: a process takes lock files, adds its group, marks the
lock files in use, drops the locks, and later works on a *copy* of the group that
it writes back by name. *Hard*: lock files unlinked by path while open elsewhere,
stale copies, one step of several failing. *Correct when*: an id
belongs to one group, ids are not lost, and what the database says of running
devices can be relied upon.

**cvd load and cvd start** (`cli/commands/load_configs.cpp`, `start.cpp`,
`utils/subprocess_waiter.cpp`). *State*: the state of the group in the database
and in two in-memory copies, the launcher process, the stack of interrupt
listeners. *Interaction*: the listener runs on its own thread, writes the same
group object, signals the launcher and aborts the process. *Correct when*: the
recorded state is true of the device and is one that can be acted upon.

**Interrupt listener** (`utils/interrupt_listener.cpp`). *State*: the stack of
listeners, a socket pair, an atomic variable with its write end, the runner
thread. *Operations*: push and pop of listeners; the signal handler, which may run
on several threads at once. *Correct when*: the write end is closed exactly once,
no signal is lost, and stopping ends.

**Process monitor** (`libs/process_monitor/process_monitor.cc`). `run_cvd` forks
a monitor process, which starts all host processes and then has two threads: one
blocks in `wait(2)` and handles exits (restart, forget, or end the device), the
other serves stop, suspend and resume requests on a socket. *State*: the entries,
an atomic flag, the socket, the children. *Hard*: each thread blocks in a system
call that the other has to interrupt; a child is reaped before its entry is
updated; restarts race with suspends. *Correct when*: a clean exit leaves nothing
alive, requests take effect and are answered.

**run_cvd server loop** (`commands/run_cvd/server_loop_impl.cpp`,
`server_loop_impl_snapshot.cpp`). *State*: `device_status_`, whether it watches
the monitor, the client being served. *Operations*: stop, fail, restart,
powerwash, status, suspend, resume, snapshot; noticing that the monitor exited.
*Interaction*: calls the process monitor and blocks until it answers. *Correct
when*: what a client is told is true, and every client is answered.

**run_cvd boot state machine** (`commands/run_cvd/boot_state_machine.cc`). *State*:
the flags of `state_`, the two pipes an exit code is due on (the foreground
launcher's and the one of a reboot), `timeout_done_`. *Threads*: one polls boot
events, a restore pipe and the launcher, one waits for the boot timeout, one sees a
restore through, and the main thread sets up and then serves requests.
*Interaction*: a failed boot or an expired timeout sends `kFail` to the server loop
of the same process; the end of the launcher ends `run_cvd`. *Hard*: the timeout
against the event that cancels it, contradicting events, a thread that blocks in
the middle of an event. *Correct when*: what is reported is what the guest said,
whoever waits is answered, and a failed boot is acted upon.

**kernel_log_monitor** (`commands/kernel_log_monitor/`). Reads the guest's console
from a FIFO and writes the events it finds to the pipe of every subscriber in turn,
with blocking writes. *Hard*: a subscriber that does not read stops all others and
the guest; a death between the two writes of an event leaves half of it in the pipe.

**Operator** (`liboperator/operator/devices.go`, `clients.go`, `operator.go`).
*State*: pre-registrations and registered devices, each with its clients; polled
connections; web sockets with two pumps and a bounded channel each. *Operations*:
pre-register and its cancellation, register, unregister, connect, send. Every
connection is a goroutine; four mutexes. *Hard*: channels that must not be used
after they were closed, a device that ends while clients look it up, a lock kept
while a full channel is written to. *Correct when*: no channel is misused, nobody
who should hear of something is forgotten, and the pool is unlocked again.

**User artifacts of the host orchestrator**
(`host_orchestrator/orchestrator/userartifacts.go`). A file is uploaded in chunks by
concurrent requests, possibly through several orchestrators that share a directory;
`chunkState` tracks which bytes came; a file that is complete is hashed and renamed
into place. *Hard*: the question whether it is complete is asked under a read lock
and acted upon under the write lock; overlapping chunks; restarts. *Correct when*:
what is published under a checksum has it for good, and what is all there gets
published.

### Not modelled

`PROJECT.json` lists all parts with the reason. The repository has some 275,000
lines in 1,800 files, of which most are vendored programs (adb, fastboot, f2fs,
linux headers, libwebrtc), generated files, parsers of flags and configurations,
and code that builds one command line or one disk image after another. That code is
sequential and has no shared state, so a model would only repeat it; it accounts
for why the map covers a small share of all lines. The launch features,
`assemble_cvd`, selectors and thin clients are of this kind; fetch, downloads,
WebRTC and the modem simulator are I/O or services independent of the life cycle of
a device. `allocd`, the suspend protocol inside `secure_env`, the confirmation UI
and the operations of the host orchestrator have state worth modelling and are left
for later.

## 2. Modules

| module | models | based on |
|---|---|---|
| `InstanceDatabase` | groups and the database tasks, as operators | |
| `AtomicDatabase` | abstract: one task, one step, for any `Task(_, _)` | |
| `DataViewer` | the file protocol; refines `AtomicDatabase` | `InstanceDatabase` |
| `InstanceManager` | `cvd` commands over the database and the lock files | `InstanceDatabase` |
| `CvdLoad` | one `cvd load` or `cvd start` process, its interrupt thread and its log viewer | `InstanceDatabase` |
| `InterruptListener` | signal handler, runner, push and pop | |
| `ProcessMonitor` | the monitor's two threads, its children, its parent's calls | |
| `ServerLoop` | `run_cvd`'s loop on top of `ProcessMonitor` | `ProcessMonitor` |
| `KernelLogMonitor` | the guest's console, the monitor, the subscribers' pipes | |
| `BootStateMachine` | the threads of the boot state machine and the launcher | `KernelLogMonitor` |
| `DevicePool` | the operator's pool with its controllers and devices | |
| `Operator` | polled and web socket clients; implements `DevicePool` | `DevicePool` |
| `ChunkState` | `chunkState`, as operators | |
| `UserArtifacts` | uploads, publication, extraction | `ChunkState` |
| `InstanceManagerProofs`, `DataViewerProofs`, `CvdLoadProofs`, `InterruptListenerProofs`, `ServerLoopProofs`, `BootStateMachineProofs`, `OperatorProofs`, `UserArtifactsProofs` | theorems | the module of that name and those it is based on |
| `MCDataViewer`, `MCInstanceManager`, `MCInterruptListener`, `MCBootStateMachine`, `MCOperator`, `MCUserArtifacts` | sets and model values for TLC | |

The other modules need no MC module: their constants are sets of numbers and
strings given in the cfg. Operators such as `TruncateForgotten` or
`HandleRestartUntracked` are not part of any specification: each is a plausible
mistake in the operator it precedes, kept to show that the property named in
`PROJECT.json` would notice it.

**InstanceDatabase.** A group is `[name, home, inst]`. Name `n` stands for the
generated name `cvd_n`. The home directory carries the creation time in the code,
hence it identifies the group for ever, and the model uses it for that. Instance
names are left out: they are subject to the same checks as ids.

**DataViewer.** `Call`, `LockBackingFile`, `LoadData`, the task, `Truncate`,
`StoreData`, `Return` are steps of one process; `Killed` may happen at any of
them. `LoadData` is the first read and `ReadOn` the later ones, until one returns
nothing: a process that shares the lock may rewrite the file in between. Groups differ
in size (`Size`: `start.cpp:461` adds the start time), so that a read which goes on
after a rewrite may begin inside a group, as may the tail of the old content that a
write at offset 0 leaves behind it (`TailFrom`, `Overwrite`). Such bytes are `Junk`,
at which parsing stops; `LoadData` ignores the result of `ParseFromString` and keeps
the groups before (`Parsed`). The lock modes are the ones the code passes to
`flock`: `WithExclusiveLock` passes `LOCK_SH` (see 4).

**InstanceManager.** Each database operation is one step, as `AtomicDatabase`
promises; this is an assumption about concurrent writers that the code does not meet
(see 4), made so that the rest can be examined on its own. A lock file
is a directory entry, an inode, a `flock` holder and the in-use byte. `cvd create`
is `OpenRequested`/`AcquireLock` for ids that were asked for (blocking),
`OpenCandidate`/`TryAcquireLock` for ids left to `cvd` (not blocking), `Build`,
`AddGroup`, `MarkInUse`, `ReturnGroup`, `RecordCreated`. Starting, stopping,
removing, clearing and resetting work on a copy of a group read when the command
began.

**CvdLoad.** The main thread and the listener thread each have a program counter.
`Signal` may come at any time; the runner calls the listener on top of the stack.
`launcher` is `cvd_internal_start`, which may never end. `cvd start` runs
in the background (the only way `cvd load` uses it), in the foreground, where a third
thread (`viewer`, in `MonitorLogs`) shows the logs and the device is stopped when
that ends, or for one instance of a group whose first instance runs, without a
listener. While no listener is installed a signal kills the process (`Killed`); a
listener is popped after what was received before is delivered (`CanPop`, which is
what the runs of `InterruptListener` show). The database calls do not fail here;
`FetchStatus` may, after RUNNING was recorded, and `cvd load` then records BOOT_FAILED.

**InterruptListener.** A descriptor is the number of the session it was created
for, so use after close is visible although the system reuses numbers. `Take`,
`Send`, `Give`, `Check`, `Close` are the handler's steps between the atomic
exchanges. `socketpair(2)` and thread creation are taken not to fail.

**ProcessMonitor.** A child is absent, running, suspended, a zombie (`exited` or
`crashed`) or reaped. Children 0 and -1 are the decoy that `kStop` forks to wake
up `wait(2)` and an orphan that the subreaper adopted. The
mutex is implied by where the comms thread is (`MutexFree`). `StopEntry` is one
iteration of `StopSubprocesses`, `SignalEntry` one of `SuspendResumeImpl`.
`fork(2)` is taken not to fail, and a socket message fits the buffer.

**ServerLoop.** Extends `ProcessMonitor`; the loop's blocking calls are the parent
calls of that module, so a request is served in as many steps as the monitor
needs. The hooks and `crosvm` invocations of a suspend or resume succeed or fail,
as `Faults` allows; `halfway` remembers that a resume failed after it had woken up
the host processes and that none has succeeded since.

**KernelLogMonitor.** Only lines with an event matter; of the ones `run_cvd` ignores
the one that makes two events (`kHibernationExitMessage` is twice in `kStageTable`)
stands for all. `run_cvd` holds both ends of the pipes, hence a write blocks
rather than fails, no reader ever sees the end of a file, and the branches for
`POLLHUP` and EOF are left out. `MonitorDies` may leave a `Torn` event, whose
reader takes bytes of the next event for its body. A write to the log file that
fails drops the line.

**BootStateMachine.** `Poll`, `OnBootEvtReceived`, `OnRestoreComplete`, `HandlerFails`,
`DrainPoll` and `DrainBootEventPipe` are the event thread; a poll and the read it
leads to are separate steps, because the read blocks. `restoreReady` is the
part of the poll's answer that is used after the event was handled. `conf` is chosen
initially. The server loop is reduced to `ServeFail` and `ServeStop`: either way
the process ends (by `exit`, or by the `CHECK` of the thread whose `kFail` was refused).

**DevicePool, Operator.** A step of `PreRegister`, `Register` or
`CancelPreRegistration` is atomic, since it runs under `preDevicesMtx`;
`Unregister` keeps `devicesMtx` (`devMtx`) over several steps. `regCh` is the
channel of one announcement, `devCh` the channel that collects registrations for a
controller. A handler's lookup (`GetDevice`), the registration of its client and
what follows are separate steps, as are the two calls of a `readPump` that ends,
`Device.Unregister` (`ReadPump`) and `Close` (`ReadPumpCloses`). A message to the
device (`Forward`) blocks until the device reads it (`ForwardRead`) or has closed its
connection (`left`); `JSONUnix.Send` has no deadline. Whatever a controller sends
after its announcement (`SpeakAgain`) makes `Recv` fail, as its end does (`CloseSeen`).
The messages of polled clients, which the operator only keeps or passes on, are left
out.

**ChunkState, UserArtifacts.** The B-tree of items is two sets of offsets. A file is a
sequence of bytes that are right, wrong or missing, and `Genuine` stands for the
checksum. `writeChunk` writes byte by byte, so every interleaving of chunks and every
partial write occurs. Any call of `moveArtifactIfNeeded` may fail
(`MoveArtifactFails`), which like a failed write is remembered in `broken`. A restarted orchestrator has a new working directory. The
directory is known by the orchestrator that owns it, wherever it was renamed to.

## 3. Runs

All passing runs take less than 2 minutes each with two workers.

| run | shows | bounds |
|---|---|---|
| `db_one_writer` | One writer, two readers, kills anywhere: the protocol implements `AtomicDatabase` (`RefinesAtomicDatabase`) | 3 processes, 5 calls: enough to add two groups, update and remove one and be read across the rewrites |
| `ids_create` | Concurrent creations, explicit ids and automatic ones, and stops: chosen ids are free in the database (`AutoIdsAreFree`), locks are waited for in the order of the requests only (`WaitsInRequestOrder`), all commands end but for two creations that ask for the same ids in opposite orders (`CommandsEnd`) | 2 processes, 3 commands, explicit ids 1,2 and 2,1 and 2,2, 6 ids, so that a probe meets held, used and free ids |
| `manager_sequential` | One command after another with every failure and one kill: `GroupsDisjoint`, `NoLeakedIds`, `RunningIsRecorded`, `RemovalNeedsStopped` | 5 commands: two groups created, one started, stopped and removed |
| `monitor_threads` | `TypeOK`, `CleanExitMeansAllDead`, `SuspendTakesEffect`, `CriticalExitEnds` | 3 host processes: a critical secure_env, a critical VMM, one that is neither; with and without restarts |
| `server_loop` | `StopMeansDead`, `SuspendedMeansFrozen`, `StopAnswered` | 2 host processes, both critical and one of them the VMM, any sequence of requests, any of the four programs of a suspend or resume failing |
| `cvd_load` | `RunningMeansOn`, `NoSignalToReaped`, `LeftSettled`, `InterruptEnds` | one process, all four forms of the commands, 2 signals: one that ends the viewer and one that meets the stop after it |
| `interrupt_listener` | `WriteEndNotMisused`, `RunnerFindsListener`, `SignalsHeard`, `StopHandlingReturns` | 2 threads in the handler, 3 signals, 2 sessions, 2 listeners: a handler of one session can outlive it and meet the next |
| `boot` | What is reported is what the guest said first (`VerdictIsTheGuests`); a launcher of a device with a timeout is answered whatever is dead or stuck (`LauncherAnswered`); a booted guest is not stuck on its console (`BootedGuestRunsOn`); `FailFastBringsDown`, `CancelledLaunchEnds` | 4 configurations, 3 console lines, pipes of one event so that they fill up, one death of the monitor or lost line |
| `operator` | `AnnouncedOrTaken`, `AnnouncementsHaveOwners`, `RegisteredIsServed` of the pool; announced registrations are reported (`RegistrationReported`); the end of a device reaches its clients (`LeftBehindWereLate`), closed sockets are forgotten (`ClosedMeansForgotten`), the pool is unlocked again (`UnregistrationEnds`) | 6 casts: 2 controllers and a device that compete for an id, a controller with 2 ids or with 2 devices, a device with 2 polled clients and a web socket with a channel of one message, 2 devices in turn with a client of either kind |
| `artifacts` | `PublishedIsGenuine`, `PublishedIsImmutable`, `CompletedIsExact`, `WholeIsPublished`, `UploadsEnd` | a file of 3 bytes, 3 uploads that overlap, are wrong, have a wrong size or another name, 2 orchestrators, one restart, 2 extractions |

`TypeOK` (or `ServerTypeOK`) states the types of each module's variables; it is a
property of a run in `monitor_threads` only, where it says more than types: the
entries that are walked are entries. It is proved for `ProcessMonitor`, `ServerLoop`,
`InterruptListener`, the pool, `Operator` and `UserArtifacts`; the invariants of the
other proof modules contain the types they need.
`CHECK_DEADLOCK FALSE` is used where the system may rest: bounds are used up,
the command has ended, or `run_cvd` has exited. `monitor_threads` and `boot` check
for deadlock (in `boot`, `Ended` is the rest after the end of `run_cvd`).

**Bounds.** `MaxCalls`, `MaxKills`, `MaxSignals`, `MaxSessions`, `MaxListeners`, `MaxLines`,
`MaxFaults` and `MaxRestarts` are the only caps; everything else is finite by itself.
Sizes of pipes and channels are parameters (`FifoSize`, `PipeSize`, `QueueSize`) and
set to 1, the smallest that can be full and empty. The casts of `operator` leave out combinations of which neither part sees the other:
announcements need no clients, and clients no controllers. Its properties of the pool are
proved for any number of each.

**Fairness.** Weak fairness for each thread and each process, since the kernel
schedules a runnable thread. Strong fairness for `Handle` in `ProcessMonitor`:
the main thread waits for a mutex that the comms thread releases again and again,
and a waiting thread does get a mutex that keeps becoming free; a comms thread fed with requests without
end could otherwise be argued to starve it. In `BootStateMachine` the timer counts
as a thread (time passes), the restart of the monitor is fair if restarts are
configured, and the other subscribers read their pipes; the guest owes nothing. In
`Operator` the goroutines are fair and a write to a web socket ends, because
it has a deadline; a read pump that waits for its peer has to end only once its
connection is closed, and one that waits for the device only once the device has closed
its own. Strong fairness for `EndSeen`: a device that has closed its connection has sent
only so many messages before, so the goroutine that reads them gets to the end.
Nothing is assumed of clients, signals, the launcher, or of host processes exiting.

## 4. Where the code and what it says disagree

Each of these is a run that TLC must find violated.

* `db_two_writers`: `WithExclusiveLock` takes `LOCK_SH`. Two writers load the empty
  database and add a group each; both calls succeed and the file holds one group, which
  no order of the two additions gives (`SerialOutcome`).
* `suspend_unanswered`: a suspend that meets a process already reaped by the main
  thread, which is waiting for the mutex to handle it, ends the comms thread
  without an answer; the caller expects `kFailure` and blocks (`SuspendAnswered`).

Other behaviour met while modelling, for which no run is kept. The first four also go
against a comment or a message of the code:

* Since writers share the lock with readers, a reader can load the file between the
  truncation and the write of an update and find an empty database, although "write access
  is blocked" while it reads (`data_viewer.h:47-49`) and "Others can't access the data
  concurrently" with a writer (63-64). One that is overtaken between two of its reads can
  get the head of one database and the tail of another, or lose the groups after a piece
  that does not parse. No property of readers is checked, because the code keeps none
  worth stating.
* A resume whose post-resume hook fails leaves the guest running and the device recorded
  as suspended, one whose `crosvm resume` fails leaves the host processes running. A
  snapshot is then taken of a running guest, though "The device is not suspended, and
  snapshot cannot be taken" (`server_loop_impl.cpp:236`); the suspend that
  `--auto_suspend` sends first is answered with success and does nothing. It is an
  exception of `SuspendedMeansFrozen` (`halfway`).
* The goroutine that is to "Wait until socket closes or produces another error"
  (`operator.go:345`) hands `Recv` a nil interface, into which nothing can be parsed. Any
  further message of a controller that stays connected cancels its announcements and ends
  its connection: the exception `spoke` of `RegistrationReported`.
* The comment at `interrupt_listener.cpp:78-81` says that the runner "could" find the stack
  empty "if the provided interrupt listener is disabled after the signal is received".
  It cannot: the last listener is popped only after the runner was joined, so a signal
  received before is still given to that listener, and the branch that delivers it again is dead.
  `RunnerFindsListener` states this, against the comment; since the comment only says
  what may happen there is no run that it fails.
* `cvd remove` decides on its copy of the group that nothing runs; a `cvd start` in
  between is removed from the database while it runs. `RemovalNeedsStopped` is
  therefore checked for commands that run one after another.
* Two creations that ask for the same explicit ids in opposite orders
  (`--instance_nums=1,2` and `2,1`, which `num_instances_parser.cpp:104-111` accepts)
  lock them in the order of the request (`instance_manager.cpp:136`) and wait for each
  other for ever. `ids_create` meets this; it is the exception `CommandsEnd` names, and
  `WaitsInRequestOrder` says that creations wait in a circle in no other way.
* When a monitor fails while it starts the host processes it exits without stopping the
  ones it started (they are sent SIGHUP when it is gone). The first stop is then answered
  with an error and the second, for which `run_cvd` has no monitor any more, with
  `kSuccess`: the exception of `StopMeansDead`, named `StartFailed`.
* `cvd start` that fails in `FetchStatus` (`start.cpp:522`, `663`) has recorded RUNNING
  before; in `cvd load` that becomes BOOT_FAILED of a device that runs.
* A critical process that is not the VMM exits while the device is suspended: until the
  monitor has been shut down a resume still wakes up the other host processes and is
  then refused, so that the device stays recorded as suspended. `SuspendedMeansFrozen`
  is about monitors that are not shutting down; the attempt to prove it without that
  condition found this.
* After the listener of `cvd start` recorded CANCELLED the main thread can still
  record STARTING before the abort (`LeftSettled` asks less of interrupted commands).
* In the foreground `cvd start` returns without recording anything when the logs
  cannot be listed (`start.cpp:472`) and STARTING stays; when standard input is no
  terminal `MonitorLogs` fails at once and the device is stopped as soon as it has
  booted. A signal between the two listeners (`start.cpp:502`), or while the device
  is being stopped, kills the command.
* A start of a single instance that fails calls `CvdResetGroup`, which kills the other
  instances of the group as well; they stay recorded as running. Interrupted, it
  leaves STARTING, since it has no listener.
* The boot timeout may expire just before the event that cancels it is handled: the
  launcher is told of a success and the device is brought down by `kFail`.
* After a boot that failed without `fail_fast` the event thread ends without
  draining ("run_cvd will get shut down anyway", `boot_state_machine.cc:554`), but
  `run_cvd` stays; the pipes fill and the guest gets stuck on its console.
* A torn event keeps the event thread inside `ReadEvent`, where it notices neither
  a cancelled launcher nor, in the destructor, the interrupt.
* `PreRegister` returns without cancelling when its response cannot be sent, and
  the ids stay announced for ever. A controller that leaves while a registration
  waits in `devCh` cancels by id, possibly what another controller announced since.
* `Unregister` can keep the pool locked for ever. A web socket's `writePump` has ended and
  its channel is full; its `readPump` is blocked in `Device.Send` (`clients.go:273`,
  without a deadline) to a device that does not read but stays connected, and sends
  what cannot be parsed. `OnDeviceDisconnected` then waits for room in the channel with
  `devicesMtx` held; nobody empties it, the `readPump` would have to close the client,
  and the operator closes the device's connection only after `Unregister`. It is the
  exception of `UnregistrationEnds`; `PoolIsGivenBackHolds` says that there is no other.
* A client whose handler looked the device up in time and registered after
  `DisconnectClients` is never told; a web socket that closes before `clientId` is
  assigned stays registered with the device. "Device disconnected" may be dropped.
* The chunk state keeps the file size of the first chunk: after one that is too
  large the upload is never complete until a restart (`WholeIsPublished` is proved for
  uploads that agree on the size). An empty file is never
  complete. Chunks under two names get published together, and no extraction of
  that artifact succeeds any more.
* With removals, `UpdateInstanceGroup` can write a stale copy over a new group
  that got the same generated name, and an id ends up in two groups. Hence
  `GroupsDisjoint` is proved for processes that remove nothing and for sequential
  commands, and checked for the latter.
* Two `cvd remove` of the same group, with a creation in between that gets its generated
  name: the slower one removes the new group from the database, whose ids stay marked in
  use. `NoLeakedIds` is therefore about commands that run one after another.
* A creation killed before it marked its lock files, a start that fails (which deletes
  them) and a removal whose directory cannot be deleted leave a group in the database
  whose ids look unused; a creation that chooses them fails in `AddInstanceGroup`.
  `AutoIdsAreFree` is about processes that do none of these.
* A host process that exits by itself between the stop request and the end of
  `MonitorLoop` is reaped but keeps its entry, so `StopSubprocesses` reports
  "Didn't stop all subprocesses" and the monitor exits with code 1 although all
  are dead.
* `StopMonitoredProcesses` forgets the monitor before it knows how the stop ended.
  After a stop that failed, the loop's own call on the closed pipe returns
  success, and `kGuestOff` is recorded as after a graceful exit.
* A failed fetch is recorded as PREPARE_FAILED by `LoadGroup` and then as
  BOOT_FAILED by `Handle`, which looks for PREPARING.
* A handler may find `FD_IN_USE` while handling is on, which the comment at
  `interrupt_listener.cpp:94` rules out; re-sending the signal is
  still right, as `SignalsHeard` shows.
* A `cvd clear` killed after it emptied the database leaves lock files marked in
  use that no group owns (`NoLeakedIds` excludes kills for that reason).

## 5. Proofs

Every safety property of the passing runs, invariant or action property, is also a
theorem, for every value of the constants that meets the assumptions named here. Each
was checked by TLC, together with the inductive invariant it rests on, before it was
proved. In the proof modules an invariant is a conjunction of named parts, there is
one lemma per action or group of actions that keeps it, and the theorems come last.

**`InstanceManagerProofs`**, for any ids, inodes, requests, names, commands and kills
(`ConstAssumption`: ids are numbers, a request is a sequence of them that is not
empty):

* `IdsBelongToOneGroup` (`GroupsDisjoint`), assuming `Orderly`: one process at a time,
  or any number of processes none of which takes a group out of the database.
* `AutoIdsFree` (`AutoIdsAreFree`), for any number of processes, assuming
  `NoUnlinking`: they create and stop groups and are not killed.
* `RunningRecorded` (`RunningIsRecorded`), `IdsNotLeaked` (`NoLeakedIds`),
  `RemovalOfStopped` (`RemovalNeedsStopped`, of steps), for one process at a time.
* `LocksWaitInRequestOrder` (`WaitsInRequestOrder`), for any number of processes, requests,
  commands and kills. Who waits in `flock` waits for a process that waits for nobody, or
  for one that waits for an id which its own request names after the one it holds. A
  circle therefore takes requests that disagree on the order of ids.

The assumptions of the others are the conditions under which the code keeps the property; without
them TLC refutes it (section 4). A command works on a *copy* of a group and writes it
back by name. The strengthening for the first theorem is that the database has a group
of that name with the same home and ids (`Copied`), that a group being added has
exactly the ids whose locks are held (`Built`), and that a lock file that is open is
the one of the id it was opened for, if there still is a path to it (`OpenedFor`).
For automatic ids, `MarkInv` says that ids in the database are marked in use from the
moment their locks are dropped (`Marked`), that a lock which is held is that of the
file at the path (`Locked`), and that what was chosen is not marked by anybody else
(`Unmarked`). For one process `AloneInv` follows a running device through a command:
homes are new (`Homes`, `NewHome`), what runs is recorded as active in the database
and in the copy until it is known to be stopped (`Records`, `Stopping`, `Starting`),
and an id in use belongs to a group or is among those the command still has to free
(`Freed`, `Unlinking`).
For the waits `OrderInv` says that whoever opened or locked an inode did so for the same
id, although lock files are unlinked and made anew (`OneId`), that a process which still
locks explicit ids knows of all its locks (`Holds`), and that these are of ids that its
request names before the one it locks next (`InOrder`); that automatic ids come after all explicit ones
is a counting argument over the request (`LastAsked`).

**`DataViewerProofs`**, for any readers, operations of the five kinds
(`OpsAssumption`), calls and kills, assuming `OneWriter`, which is what an exclusive
lock would give:

* `OneWriterIsAtomic`: `Spec => RefinesAtomicDatabase`, step by step.

The strengthening (`WriterSeesFile`): what the writer has read is all of the file, with
an offset at its end, so that its read in several pieces comes out whole; and once it has
truncated the file there is nothing a tail could be left of. Nothing is claimed of what
readers see, who may read anything in between (section 4).

**`CvdLoadProofs`**, for any number of signals (`SignalsAssumption`): `RunningIsOn`
(`RunningMeansOn`), `ReapedNotSignalled` (`NoSignalToReaped`), `CommandLeavesSettled`
(`LeftSettled`). `LoadInv` lists which listeners are on the stack where
(`Stack`, `Roles`), what the launcher and the waiter's `subprocess_` can be (`Launching`)
and, for each place of the main thread, which states the database and its copy may
hold, whatever the listener stored in between (`Stored`).

**`InterruptListenerProofs`**, for every set of threads and signals and every bound
(`SigAssumption`, `BoundsAssumption`: `Sig` is not empty, at least one listener fits):
`TypeCorrect`, `NeverMisused` (`WriteEndNotMisused`), `ClosedAtRest` (`WriteEndClosed`),
`RunnerHasListener` (`RunnerFindsListener`). The strengthening is one of ownership: an
open write end is in the atomic variable or in the hands of one thread in the handler,
every exchange moves it from one to the other (`Ownership`), and all open write ends are
of the current session because a session starts only after the last runner was joined
(`OneSession`).
`StopNeverStuck` (`StopIsNotStuck`) is about the wake-up of the runner: while
`StopHandling` waits in `join`, the write end is closed already, or a thread in the
handler is going to close it, or a signal that came late is about to end the process.
`StopInv` says in whose hands the write end is until then, and that nobody who gives it
up forgets to close it.

**`ServerLoopProofs`**, for every set of commands (`CmdAssumption`: commands are positive
numbers, the VMMs are critical). Of the process monitor:

* `TypeCorrect`: `Spec => []TypeOK`. Not a formality: `toStop` and `toSignal` stay
  subsets of `entries`, that is, neither walk over the entries ever holds one that
  `MonitorLoop` has erased.
* `CleanExit` (`CleanExitMeansAllDead`). The property speaks of the last state only and
  is not inductive. The strengthening follows a live process through the shutdown: while
  the loop runs it has an entry; what was reaped and is being handled is still
  reaped, so erasing its entry loses nobody; from the moment `StopSubprocesses`
  starts, what is alive is still to be stopped (`AliveIsKnown`); and no other
  thread can wake up a process then, because the comms thread was joined (`Walks`).
* `SuspendEffect` (`SuspendTakesEffect`), from `SuspendInv`: there is one request at a
  time (`OneRequest`), the entries already passed by the walk are in the state it puts
  them in (`WalkEffect`), and they stay so until the next request (`AnswerEffect`).

* `WakeUpsArrive` (`NoLostWakeUp`), from `WakeInv`: once the monitor is told to stop,
  `MonitorLoop` is not in `wait` without a child to reap or a decoy that will be forked,
  the comms thread does not read from an open socket when it is joined, and a request to
  stop stays in the socket until the flag is cleared.

Of the server loop, which is shown to use its monitor only through the monitor's calls
(`MonitorInvariantsHold`), so that all of the above holds under it: `ServerTypeCorrect`,
`StopIsDeath` (`StopMeansDead`; `StopWaits` says what a stop that is under way waits
for, and that no request to stop is answered before the monitor has exited) and `SuspendedIsFrozen` (`SuspendedMeansFrozen`), whichever programs fail.

**`BootStateMachineProofs`**, for every list of subscribers that `run_cvd` is one of,
every size of FIFO and pipe, number of lines and losses, and configuration
(`KernelLogAssumption`, `MeAssumption`, `ConfsAssumption`): `BootVerdict`
(`VerdictIsTheGuests`). The first event that decides travels through the FIFO, the hands
of the monitor and the pipe. `BootInv` says that what is in them, in this order, begins
with what the guest said first as far as it decides and nothing was lost (`Unread`), that what
`run_cvd` has made of it is in `state` (`Told`), and that a `state` that decided once
does not change, because afterwards events are drained only (`Decided`).

**`OperatorProofs`**, for every set of ids, controllers, connections and clients
(`PoolAssumption`, `OperatorAssumption`: `None` is none of them, and polled and web
socket clients are not the same):

* `OperatorImplementsPool`: `Spec => PoolSpec`: each step of the composed system is a
  step of `DevicePool` or leaves it alone. What is proved of the pool alone
  therefore holds of the operator: `AnnouncedOrTakenHolds`,
  `AnnouncementsHaveOwnersHolds`, `RegisteredIsServedHolds`.
* `OperatorTypeOK`, `LeftBehindWereLateHolds`, `ClosedMeansForgottenHolds`.
* `PoolIsGivenBackHolds` (`PoolIsGivenBack`), from `WaitInv`: a device is unregistered
  with the lock of the pool held, and its goroutine may then wait for the lock of the
  clients or for room in a queue. Who holds that lock or empties that queue never waits
  for the pool, and is not blocked itself but for one case, which the statement names: a
  `readPump` in `Device.Send` to the very device that is being unregistered and is still
  connected.

The strengthening for the pool: a channel is made once per controller and id
(`ChannelsAreNew`); who announced an id still has it in its `idSet`, so it will cancel
it (`AnnouncedIsInIdSet`); connections and registrations correspond in both directions
(`OneConnectionPerDevice`). For the clients it follows each of them from the lookup of
the device to its end (`SocketLife`, `InListOrTold`), and says for each place whether the
client is in the device's set, among those still to be told, was told, or is a web socket
that its own `readPump` has taken out of the set and goes on to close.

**`UserArtifactsProofs`**, for every number of orchestrators, uploads, names and every
size:

* `UpdateIsExact` (if the items are the borders of a set of bytes, after `Update` they
  are those of its union with the range) and `IsCompletedIsExact`. `Tracks` reads
  membership of a byte off the nearest item below and off the nearest item above;
  keeping both makes it inductive without an induction over the items.
* `TypesHold`, `PublishedIsGenuineHolds`, `CompletedIsExactHolds`,
  `PublishedIsImmutableHolds` (of steps). The strengthening is about the read-write
  lock: who writes holds it for reading, who renames holds it alone (`Locks`); what is
  being renamed is genuine since it was validated, and nobody of the orchestrator whose
  directory was published holds the lock (`OnDisk`); `Tracking` ties the chunk state to
  the bytes reported.
* `WholeIsPublishedHolds` (`WholeIsPublished`), assuming `AgreedSize`: the uploads state
  the same size, which is not 0. Every byte on disk was reported or is about to be
  (`Accounted`), so whoever writes the last byte of a genuine file, or anybody who
  reported after it, finds it complete and looks at it (`Attended`). Without the
  assumption it is false: a chunk [1,3) that claims a file of 4 bytes leaves a file that
  is whole and a chunk state that waits for a byte that does not come.
* `HoldersWorkHolds` (`HoldersWork`): the read-write lock of an orchestrator is held only
  by requests that write, ask or move; one that waits for it, is over or was lost holds
  nothing, so requests do not wait for each other in a circle.

**Only model-checked**: the liveness properties `CommandsEnd`, `CriticalExitEnds`,
`StopAnswered`, `InterruptEnds`, `SignalsHeard`, `StopHandlingReturns`,
`LauncherAnswered`, `BootedGuestRunsOn`, `FailFastBringsDown`, `CancelledLaunchEnds`,
`RegistrationReported`, `UnregistrationEnds` and `UploadsEnd`, since the prover handles
neither fairness nor ENABLED; and the two runs that expect a violation. For five of them
the safety part of the argument, that nobody waits for what cannot come or in a circle,
is a theorem for all values of the constants: `LocksWaitInRequestOrder` for `CommandsEnd`,
`WakeUpsArrive` for `CriticalExitEnds`, `StopNeverStuck` for `StopHandlingReturns`,
`PoolIsGivenBackHolds` for `UnregistrationEnds` and `HoldersWorkHolds` for `UploadsEnd`.
That the steps are then taken is what the fairness of those runs adds.

## 6. Plan

1. Proofs: `IdsBelongToOneGroup` with removals among processes that do not reuse
   generated names; which of the properties of one process carry over to processes that
   work on different groups.
2. Hazards without a property yet: lock files unlinked by path while another
   process holds the old inode (`instance_lock.cpp:64`); `cvd clear`, which empties
   the database before it stops the devices (`instance_manager.cpp:269`);
   `stop_cvd` retried without `--instance_nums` (`stop.cpp:278`); failures of `socketpair` and `fork`
   (`interrupt_listener.cpp:180`, `process_monitor.cc:320`); what a failed start of the
   host processes leaves running (`process_monitor.cc:300`).
3. The suspend protocol of `secure_env` behind `AskSecureEnv`; the resource pool of
   `allocd`; the operations of the host orchestrator.
