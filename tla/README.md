# A TLA+ model of the Cuttlefish host side

Cuttlefish runs virtual Android devices on a Linux host. The logic that decides
whether devices start, stop, suspend and boot correctly is spread over several
processes that talk through sockets, pipes, signals and files. This directory
models that core, checks it with TLC on small instances and proves the central
invariants with TLAPS for every instance.

Paths below are relative to `base/cvd/cuttlefish/host` unless they start at the
root of the repository.

## 1. Inventory

### The parts and how they interact

    cvd process(es) --flock/read/write--> instance database (one file per user)
        |  launcher monitor socket
        v
    run_cvd: server loop thread -- API --> process monitor (parent side)
        |       ^ kFail                        | socket pair
        |   boot state machine thread          v
        |       ^ event pipe               monitor process: main thread
        |       |                                         + socket thread
        |   kernel_log_monitor  <--starts, restarts, freezes, stops--+
        v                                                            |
    crosvm control sockets, adb            VMM, secure_env, log_tee, ...

| part | state | operations | hard behaviour |
|---|---|---|---|
| process monitor (`libs/process_monitor`) | vector of entries, `running`, `properties_mutex_`, the pids | start, suspend, resume, stop; reaping and restarting | two threads and a parent; `wait()` without timeout; failures half way |
| server loop (`commands/run_cvd/server_loop_impl*.cpp`) | `device_status_`, the current client, `monitor_` | stop, fail, status, powerwash, restart, suspend, resume, snapshot, screen requests | chains of external steps; clients that leave; run_cvd replaces itself by `execv` |
| launcher clients (`libs/command_util`, `cvd/instances/local_instance.cpp`) | a socket | `RunLauncherAction`, `WaitForRead`, `ReadExitCode` | timeouts, EOF, interrupts |
| boot state machine (`run_cvd/boot_state_machine.cc`) | `state_`, two notification descriptors, the event pipe | poll loop, drain loop, notification, destructor | four descriptors that become ready in any order; torn messages |
| kernel log monitor (`commands/kernel_log_monitor`) | its subscribers | `WriteEvent` | dies inside a message; blocks when the pipe is full |
| instance database (`cvd/instances`) | one file | add, update, remove, clear, find | concurrent processes, `SIGKILL`, truncate-then-write |
| instance locks, instance manager, cvd group commands (`cvd/instances`, `cvd/cli/commands`) | lock files, group directories, instance states | create, start, stop, remove, clear, reset | lock files unlinked under waiters, copies of groups that grow stale, interrupts and kills |
| secure_env (`commands/secure_env`) | TPM resources, worker threads | keymint, gatekeeper, oemlock; suspend and resume | one handler and four workers that exchange bytes; a resume nobody acknowledges |
| host orchestrator user artifacts (`frontend/src/host_orchestrator`, Go) | working directories, chunk states, a lock per checksum | upload a chunk, publish, extract | concurrent requests, several orchestrators over one directory, restarts |
| other handlers of the host orchestrator, operator (`frontend/src`, Go) | operations, image directories, device pool | HTTP and WebSocket handlers | concurrent requests |
| everything else | listed in `PROJECT.json` with the reason it is left out | | |

### What makes each part correct

* process monitor: a stop that succeeds has reaped every process, a stop ends
  and attends to every entry in reverse start order, an acknowledged suspend
  has frozen the host, and the two threads never see the vector change under them;
* server loop: host processes are frozen only under frozen guests, run_cvd starts
  over only from a clean state, every request is answered, the death of the
  process monitor is noticed, a client cannot take the device down, and
  `device_status_` says what the device does;
* boot state machine: one verdict, the same for everyone, delivered; the event
  pipe is drained; the thread can be stopped;
* instance database: no update is lost, names, home directories and instance ids are
  unique, and the file behaves as a set of groups that changes in single steps;
* instance locks and manager: an id is never lost, creators do not block each other
  for ever, no group is stuck in a state nobody works on, and no device outlives its
  entry in the database;
* secure_env: after an acknowledged suspend nothing moves and nothing is pending;
  requests of run_cvd and of the guest are served; no byte arrives out of turn;
* user artifacts: what is published has its checksum and never changes, what is
  extracted is what was checked, a complete upload is published, every request ends.

The hazards behind these, each with its line, are the `hazards` of `PROJECT.json`.

## 2. The modules

Every module `X` has an `MCX` with the instances TLC uses; `XProofs` has its
theorems. Definitions named `Mutant of D` are deliberately wrong variants of `D`;
no specification uses them. They document which slip each property guards against.

### ProcessMonitor

`process_monitor.cc` as four kinds of steps: the parent's API calls
(`StartAndMonitorProcesses`, `SendRequest`/`ReceiveResponse`,
`StopMonitoredProcesses`/`MonitorReaped`), the main thread (`StartSubprocess`,
`MonitorLoopCheck`, `WaitEntry`, `WaitStray`, `HandleExit`, `JoinSocketThread`,
`StopSubprocess`, ...), the socket thread (`ReceiveMessage`, `ForkWakeUpChild`,
`LockEntries`, `SignalEntry`, `SendSuccess`, ...) and the surroundings (processes
that exit, orphans that are re-parented to the monitor, secure_env answering). A
subprocess is its position in `entries_`; `proc[i]` is its life in the kernel,
`monitored` the entries still in the vector. `mutex` is `properties_mutex_`. The
main thread holds it only inside one step (`HandleExit`), so only the socket
thread's ownership is visible. `wait()` and the handling of what it returned are
separate steps: the window between them is where most of the hazards are.

Two things can spoil the stop loop, and both are there. An entry whose restart failed
is `Subprocess(-1, {})`
(`base/cvd/cuttlefish/common/libs/utils/subprocess.cpp:457-469`): its stopper is
empty, calling it throws, and the monitor aborts (`StopAborts`). A nice stopper first
talks to the process it is to stop (`launch/modem.cpp:36-63`); when a suspend has
frozen that process the conversation does not end (`Conversing`, `StopBlocked`).

### ServerLoop

The loop of run_cvd and the clients of the launcher monitor socket. A request is read
(`ReadRequest`, whose `Dispatch` is the switch of `HandleActionWithNoData` and
`HandleExtended`), executed step by step (`step`: hook, access point VM, device VM,
host processes; stop, powerwash, exec), and answered (`Reply`, `ReplyAndExit`). Each
external step succeeds or fails, and crosvm may fail after it had its effect. The
process monitor is seen through its API: a request succeeds, fails because `monitor_`
is -1, or is never answered (`server = "hung"`: `RequestsAnswered` of ProcessMonitor
names the cases). A client can leave at any point (`GiveUp`); `hup` records that the
server still has its end of such a connection, and writing to it is `Sigpipe`.
`RestartRunCvd` is `execv`: everything but the duplicate of the requesting client's
descriptor is closed, and the boot state machine of the new process reports to it
(`NotifyBoot`). `fifos` tells the FIFOs `DeleteFifos` names from those it does not
(jcardsim, `log_tee`, the adbd FIFO of a restore): the latter survive a restart, and
`SharedFD::Fifo` removes the old file before it makes the new one. On EOF the client
reads an uninitialized response (`util.cc:167-170`): both outcomes are taken.

### BootStateMachine

`ThreadLoop`, with `ready` the descriptors one `poll()` reported and that are not
handled yet, in the order of the code; `DrainBootEventPipe`, with the blocking read
as a step of its own (`DrainPoll`, then `DrainEvent`); `MaybeWriteNotification`
with the SIGPIPE of a recipient that left; the restore thread and the destructor.
The pipe holds whole messages and `"Torn"` ones. run_cvd keeps the write ends of
the event pipe (`launch/kernel_log_monitor.cpp:114`), so POLLHUP never comes, and
a torn message is completed by the start of the next one, which does not parse.
A failed boot asks the server loop of the same process to stop the device
(`RequestFail`) and waits without a time limit (`failWait`); `FailAction` is the
answer, which only comes as long as the server loop has not returned (`interrupt`).

### InstanceDatabase

`DataViewer` (lock, load, truncate, store, release) and the functors of
`InstanceDatabase`. `flock()` modes are modelled with their compatibility;
`WithExclusiveLock` takes the mode the code passes, `LOCK_SH`. The file is a sequence
of cells, each a serialized group or `Junk` (bytes that are no group). `ReadMore` is
one `read()` of the loop in `ReadAll`, `WriteMore` a part of the write of `WriteAll`
from the offset of the writer's own file description (`Written` overlays what another
writer left and fills a gap with a hole), and readers and writers take these steps
between those of others. `ParseFromString` keeps the cells before the first that does
not parse, since its result is ignored. `BreakOff` is a failed truncate, seek or write,
or a `SIGKILL`, at any point; the last group written may be `Cut` at any field.
A writer goes on with the group it added or updated (`KeptCopy`), as `cvd start` does
over its updates, so its next update may be made from a copy that others have
overtaken. `serial` is a history variable: the groups as they would be if every task
had run alone. Group names are numbers, `i` for `cvd_i`.

### AbstractDatabase

What callers take the database for: a set of groups that `AddInstanceGroup`,
`UpdateInstanceGroup`, `RemoveInstanceGroup` and `Clear` change in one step, or of
which a write that breaks off keeps some, and of one more a part (`Damage`).
`InstanceDatabase` with one writer implements it; the refinement mapping
(`Committed`) takes a change as made when its writer truncates the file, and the
groups to be in that writer's buffer until they are stored.

### InstanceManager

The group commands of several cvd processes over one database, the lock files and the
devices. Since the lock of the database excludes nobody, an operation that writes it is
two steps: it loads (`LoadForUpdate`, `AddGroup`, `LoadForErase`, `Clear`,
`LoadForCancel`) into `data[p]` or, in the thread of the listener, `cancel[p]`, and
later stores (`StoreData`), whatever others have stored in between. `Readable` is what a
load may find: the groups, or only some of them while another process is between its
load and its store. A lock file is a name (`link[i]`) that may or may not refer to an
inode; `flock()` holds inodes, the byte `kInUse` is in the inode (`inUse`), and an inode
lives as long as it has a name or an open file. `OpenRequested`/`AcquireLock` block, in
the order in which the ids were asked for; `OpenUnused`/`TryAcquireLock` do not;
`Unlink` removes a name whoever has the file open, or fails and is ignored. Every
command works on `copy[p]`, the group as it was when the command looked it up, as the
code does. `Interrupt`, `LoadForCancel`, `Cancel` and `Abort` are the listener of
`cvd start`, which runs beside the command from its registration on. `Exit` is the end
of a command and also the death of its process: both close every descriptor.
Groups get the first free generated name, which removed groups leave for reuse.

What goes wrong is recorded in two history variables, each change of which is one of a
few stated accidents. `stray` has the ids whose group another's write dropped from the
database, whose lock file could not be removed, or which a killed `clear` had yet to
treat. `left` has the homes of groups whose creator or starter was killed, was
interrupted before `STARTING` was stored (`start.cpp:473-496`), did not find the group
at its last update, or whose state another's write put back.

The abstractions: a torn read or write keeps or loses whole groups (what is left of a
cut group is in `InstanceDatabase`); a store that fails without a kill is there too;
the listener's update writes the state it is about, not one that the command's thread
may have set in the shared object.

### SecureEnv

`SnapshotCommandHandler` (one thread) writes a byte to each worker, waits for the
acknowledgements of a suspend and answers run_cvd; a worker selects on the guest and
the handler (`Select`), and what it saw there is acted on in a later step
(`ProcessMessage`, `FailMessage` or `ReadSuspendRequest`). Worker 1 is the Rust
KeyMint TA. A message that is too long or breaks off, or an answer that cannot be
written, makes its thread return and closes its snapshot socket (`"ended"`), while a
C++ worker resets its responder and goes on. An unexpected byte makes the Rust thread
return too (`"gone"`) and is `LOG(FATAL)` for a C++ worker (`Unexpected`). The other
end of the channel is run_cvd with `device_status_`, seen through the process monitor:
it resumes again after a resume whose later step failed.

### UserArtifacts

One artifact of `userartifacts.go`. Orchestrators have a working directory, an RWMutex
and a `chunkState` each and share the target of `os.Rename`. Bytes are good or bad and
are written one at a time while other requests write the same file. `getItemOrPrev`,
`getItemOrNext` and `Update` are the tree of boundaries; the tree itself is a set.
Every step that does I/O can fail (`RequestFails`); the client is told.
`doubt` is a history variable: a client misled this orchestrator about name or length,
or a request failed. `SingleFile` is the condition under which `ExtractFile` unpacks the
published directory. A waiting `Lock()` keeps new readers out, as in Go.

## 3. What is checked

| run | instance | properties |
|---|---|---|
| `pm_all` | 4 entries, one each exempt, critical and secure_env, one with a conversing stopper, with and without restarts, failing starts, 1 orphan | TypeOK, SuspendFreezesHost, StoppedMeansReaped, OrderlyStop, StopInReverse, EntriesStableWhileLocked, StopTerminates, RequestsAnswered |
| `sl_all` | 2 clients that may leave, all 11 requests, access point VM, overlay | TypeOK, GuestBeforeHost, ActiveMeansHostRuns, CleanRestart, RequestAnswered, MonitorExitNoticed |
| `bs_boot` | a pipe of 3 messages, a restore, 1 torn message, every set of recipients | TypeOK, OneVerdict, VerdictDelivered, CancelNoticed, GuestNotBlocked, InterruptEndsThread |
| `db_single` | 1 writer, 1 reader, 3 candidate groups, kills and failed writes anywhere | TypeOK, UniqueGroups, ImplementsAbstract |
| `im_ids` | 2 processes, 3 events (commands of all 6 kinds and signals), 2 ids, 3 groups, from an empty database or one group; kills, interrupts, failing stops and unlinks | TypeOK, NoLeakedId, NoCircularWait, Settles |
| `se_all` | 3 workers, good and bad messages, messages sent in halves, 1 failed resume | TypeOK, QuietWhileSuspended, NoSurprise, RequestAnswered, GuestServed |
| `ua_all` | 2 orchestrators, 2 requests, 5 kinds of chunk, I/O errors, 1 restart | TypeOK, PublishedIntact, ExtractedIntact, ChunkStateExact, NotForgotten, PublishedImmutable, RequestEnds |
| `pm_critical`, `sl_sigpipe`, `bs_blocked`, `db_lost`, `im_remove` | | violated by the code, see section 5 |

What the less obvious ones say:

* `OrderlyStop`: a stop leaves a process to the death signal that follows the exit of
  the monitor only if it met an entry whose restart failed, and only a process that
  was started before that entry.
* `StopTerminates`: except in `StopBlocked`, where a suspended device is stopped and a
  nice stopper waits for a frozen process.
* `RequestsAnswered` (process monitor): a suspend or resume is answered unless the
  socket thread met an error (a process that is gone, secure_env that does not
  answer), in which case the code sends nothing at all, or the monitor is in
  `StopBlocked`.
* `ActiveMeansHostRuns`: a suspend that failed half way leaves `kActive`, and then the
  host processes do run. The guest VM may stay suspended; a following resume request
  answers success without touching it. No text in the repository says otherwise.
* `CleanRestart` is about the FIFOs that `DeleteFifos` names.
* `InterruptEndsThread`: except inside a torn message and where the thread waits for the
  answer to its own `kFail` from a server loop that has returned.
* `NoLeakedId`: holds although `remove`, a failed start and `reset` unlink lock files
  that others have open, because a creator marks the inode it locked, which then has
  no name any more; and although generated names are used again. Ids are lost only by
  the accidents that `stray` records.
* `NoCircularWait`: the ids a user asks for are locked in the order given. Two creators
  with descending ids do block each other; every circle has such a process, whatever
  lock files are unlinked under those who wait.
* `Settles`: a group is `PREPARING` or `STARTING`, states in which it cannot be started,
  only while its creator or starter works on it, or by an accident that `left` records.
  The comment at `start.cpp:487-489` thinks only of a group that becomes RUNNING before
  the abort; it may also become STARTING then (an early interrupt, in `left`).
* `NoSurprise` is about resumes that are not repeated. A repeated one does send
  `kResume` to workers that expect `kSuspend`, and secure_env ends; that no further
  harm follows (`RequestAnswered`, `GuestServed` with their exceptions) is checked.
  Without one, only a write to a Rust worker that a bad message ended kills secure_env.
* `RequestAnswered` (secure_env) names the two cases in which run_cvd waits for ever:
  half a message of a suspended guest, and a suspend that finds the Rust worker in a
  message that makes it return, so that the handler thread ends at the missing
  acknowledgement while the process lives.
* `ExtractedIntact`: the checksum is computed of one file, and the whole directory is
  published. Other files may lie beside it; that nothing but the checked file is ever
  extracted depends on `getFilePath` insisting on a single file.
* `ChunkStateExact` compares `Update` and `IsCompleted` with the set of uploaded bytes
  of a fresh chunk state for every sequence of three ranges of a file of five bytes
  (`ChunkStateProofs` removes the bound).

### Why the bounds are enough

* Four entries have a first, two middle ones and a last one, of different kinds: the
  signalling loop can have passed one, be at one and not have reached one, and the same
  for the stop loop. One orphan is enough to have `wait()` return a pid of no entry.
  The theorems remove the bound on the entries.
* Two clients: one is served or waits for its reboot while the other is queued,
  sends or leaves. Further clients only lengthen the queue.
* Three messages: a full pipe with a torn message, its completion and one event
  more.
* Two groups that ask for the same instance id and one without a name are enough
  for every conflict `AddInstanceGroup` looks for; one of them has the name that
  would be generated. Two groups in the file give a read and a write a beginning and an
  end between which others step; a longer file adds nothing a functor distinguishes.
* Two cvd processes with three commands and signals between them, from an empty database
  or from one with a stopped or running group (the states after a create, and a start):
  two commands that overlap, and one that meets what they left or a signal that hits
  one. Two ids let a creator without explicit ids pass one that is taken or locked, and
  two creators ask for both in opposite orders. The theorems remove the bounds.
* Three workers: the Rust one and two C++ ones, so that one worker can be ahead of the
  handler and another behind. The theorems hold for any number.
* Two bytes and two requests: each byte can be written first, last, twice, damaged or
  not at all, and two requests can complete a file between them. The second orchestrator
  only gets whole files.

`CHECK_DEADLOCK FALSE` is used where the program ends: run_cvd exits, the monitor
exits, the bound on cvd commands is used up, secure_env dies. The database and the
orchestrators never stop and are checked for deadlock.

### Fairness

Weak fairness, and only of steps that a scheduler owes: both threads of the
monitor and the parent's return from a blocking call; the steps of the server loop
(external commands end), of a connected client (it writes its request right away
and reads what arrives) and of the boot thread; secure_env answering while it
lives. Nothing is assumed of processes exiting, users asking, clients staying or
leaving, kernel_log_monitor writing, or a restore completing. In `ServerLoop`
fairness of `NotifyStep` says that a restarted device boots or fails to. In `SecureEnv`
the handler and each worker are scheduled; neither a request nor the second half of a
message is owed. In `UserArtifacts` the goroutine of a request runs, no failure is owed
(`RequestFails`), and `OpenChunk` is
strongly fair: Go's `Unlock` admits the readers that wait, so one of them is not passed
over for ever. `InstanceManager` and `InstanceDatabase` state no liveness.

## 4. What is proved

The theorems hold for every value of the constants. The modules' named assumptions
(`ConstantsAssumption`, `ServerLoopAssumption`, `BootAssumption`,
`DatabaseAssumption`, `InstanceManagerAssumption`, ...) give the constants their types
and keep model values apart; TLC evaluates them in every run. Where a theorem needs
more it says so in an `ASSUME` of its own: only two theorems about the database do.
Every invariant a passing run checks is proved,
and so are the action properties and the refinement.

Each component has one inductive invariant (or one per theme), and its proof has a
lemma per action that says what the action does to it.

* `ProcessMonitorProofs`: `TypeCorrect`, `StopReaps`, `StopOrderly`, `StopReversed`,
  `SuspendCorrect` (without restarts) and `LockCorrect`, from
  `IInv == TypeOK /\ LockInv /\ ThreadInv /\ ReapInv /\ StopInv /\ ProtocolInv /\ FreezeInv`.
  StoppedMeansReaped needs that the exit code is 0 only when no stop failed and that
  the stop loop leaves nothing alive above its cursor (`StopInv`), which needs that an
  entry outside the vector was reaped (`ReapInv`) and that the stop loop starts only
  after the socket thread has ended (`ThreadInv`). SuspendFreezesHost needs the
  alternation of requests and responses (`ProtocolInv`): otherwise an answer to an
  earlier request could be taken for this one's.
* `ServerLoopProofs`: `GuestBeforeHostHolds`, `ActiveMeansHostRunsHolds` and
  `CleanRestartHolds` from
  `SInv == DeviceTypes /\ ControlInv /\ GuestInv /\ StopInv`, which says step by step
  what a handler may rely on: for instance that at `suspendHost` every VM is
  suspended, and that after a stop whose monitor was reaped the host is stopped.
  It holds for any number of clients because steps of clients touch sockets only
  (`ClientsOnly`, `Untouched`). `ServerLoopTypes` is about the sockets: that no client
  ever has more than two unread responses needs to know who is accepted, queued,
  waiting for its boot or gone (`Connection`), that nothing is written before the
  request was read (`Silent`, `Unread`), and that a connection is queued once
  (`Backlog`).
* `BootStateMachineProofs`: `OneVerdictHolds` from
  `BInv == NoticeTypes /\ Undecided /\ OneVerdict`; `Undecided` says that nobody is
  told before the loop is left. `BootTypes`: the types are inductive, and with them the
  bound on the pipe.
* `SecureEnvProofs`: `SecureEnvTypes`, `QuietWhileSuspendedHolds` and `NoSurpriseHolds`
  from `SEInv`, which couples run_cvd, channel and handler (`Coupled`) and says of each
  worker, by what the handler sent it last, which bytes are before it and which
  acknowledgement is due (`WorkerInv`: `Resuming`, `SuspendSent`, `Acknowledging`,
  `Suspended`). The bytes before a worker are any number of resumes and at most one
  suspend, which is last. Only the Rust worker returns because of a message (`RustOnly`).
* `ChunkStateProofs`: the range record, for every record and every range. `Paired` is
  the representation invariant (the items are pairs of a start and the next end);
  `UpdateExact` says that `Update` keeps it and adds exactly the bytes of the range,
  `CompletedExact` that `IsCompleted` is right to look at two items only. By `NoItems`
  and repeated use of `UpdateExact` the record is exact after any sequence of updates.
* `UserArtifactsProofs`: `UserArtifactsTypes`, `PublishedIntactHolds`,
  `PublishedImmutableHolds`, `ExtractedIntactHolds`, `ChunkStateExactHolds` and
  `NotForgottenHolds` from `UAInv`. ExtractedIntact needs that the published directory,
  once it has a single file, stays as it is while a request unpacks it (`ExtractInv`,
  `PublishedStays`).
  `ContentInv` says that a file between its checksum and its rename is the artifact,
  which holds because nobody else is in the lock (`LockInv`). NotForgotten needs
  `UploadInv`: every good byte is recorded or is being written by a request that will
  record it, so the request that records last finds the record complete.
* `InstanceDatabaseProofs`: `DatabaseTypes` for any processes, however their reads and
  writes overlap. `UniqueGroupsHolds` and `DatabaseImplementsAbstract` assume
  `SingleWriter` (at most one process changes the database; any number read, and anyone
  is killed or fails to write anywhere): with two, run `db_lost` shows what happens. The
  refinement also assumes `AllNames`, since a finite set of names, as TLC needs it, may
  not have the one that is generated. `DBInv` says that the copy a writer keeps is still
  in the file when its task runs, that what it has read is the beginning of the file
  (`Begins`), and that after the truncation the file is the beginning of its buffer, as
  long as `pos`. The lemmas `AppendIs`, `UpdateIs`, `RemoveIs`, `ParseIs`, `WrittenIs`
  and `CutIs` say what each operation does to the cells; the refinement takes each
  concrete step to an abstract step or a stutter.
* `InstanceManagerProofs`, for any number of processes, ids, groups and commands, any
  requests and any faults, without hypotheses:
  * `InstanceManagerTypes`, with `Exclusive` (one open file per locked inode) and
    `Shape` (what a process at each place has in hand).
  * `NoCircularWaitHolds`. `WaitInv`: an inode has one name for ever (`OneName`), and a
    creator does not wait for an id it has (`WaitsForOther`). Of the processes of a circle
    take one that waits for the greatest id: whoever it waits for has that id and waits
    for another one, which is smaller.
  * `SettlesHolds`. `KnownInv` says of all groups that anyone knows of, in the file, in a
    copy or in what is about to be stored, that a home has one name and one set of ids
    (`HomesInv`), and what the data of each place contain (`DataInv`). With it `SettleInv`
    names the process that will move an unfinished group on (`Settling`), and every write
    that takes this from it is in `left`.
  * `NoLeakedIdHolds`. `LeakInv` says it of lock files that a creator has locked and will
    mark as well (`Claimed`). It has a witness `own`, the home for which an inode was last
    marked: a claimed id is in the group of that home (`Owned`), so a `remove` that has
    unlinked an id and finds it taken again drops another group than its owner. `Fresh`:
    nobody else knows a group that is being added.

What stays with TLC: liveness and `ENABLED` (`StopTerminates`, `RequestsAnswered`,
`RequestAnswered`, `MonitorExitNoticed`, `VerdictDelivered`, `CancelNoticed`,
`GuestNotBlocked`, `InterruptEndsThread`, `GuestServed`, `RequestEnds`), which is out of
the proof system's reach. That `LockOrder`, a `SelectSeq`, yields a sequence of ids is an
assumption on `Requests` which TLC evaluates: it would need an induction over
sequences.

Two habits of these proofs have a reason. Choices by case are written with disjoint
guards or `IF`, since a `CASE` whose guards overlap leaves its value open to the
provers. Intersections of two enumerated sets are avoided: the prover compares their
elements as expressions, not as values.

## 5. Where the code and its own words disagree

* `db_lost`: `WithExclusiveLock` locks with `LOCK_SH` (`data_viewer.h:72`), against
  "Others can't access the data concurrently with this one". Two cvd processes lose
  an update. For the same reason a process can load the file while another is
  writing it, and find none or some of the groups; `NoLeakedId` and `Settles` take that
  into account.
* `pm_critical`: the exit of a critical process ends `MonitorLoop`, which then waits
  for the socket thread, which waits for a request: nothing is stopped until
  somebody asks.
* `sl_sigpipe`: run_cvd does not ignore SIGPIPE and dies when it answers a client
  that timed out.
* `bs_blocked`: with `fail_fast` off, a device whose boot failed keeps running and
  nobody drains its event pipe.
* `im_remove`: `cvd remove` decides on an old copy of the group whether there is a
  device to stop. One that `cvd start` launches meanwhile loses its directory and its
  database entry and keeps running, against "Running devices are stopped first".

Properties that name an exception (`StopBlocked`, `InsideTornMessage`, `failWait`,
`crashes > 0`, `server = "hung"`, `failures = 0`, half a message, a Rust worker that has
ended, `stray`, `left`, `doubt`) do so because the code really ends up there.

With restarts, `SuspendFreezesHost` does not hold either: `MonitorLoop` restarts a
process that exited around the suspend, and the new one runs. It is checked, and
proved, for `restart_subprocesses = false`.

## 6. What is not modelled

`PROJECT.json` lists every part with its reason. In the modelled parts: command
lines, strace and sandbox wrappers of the process monitor; the contents of
messages; the daemonizing of run_cvd before the boot thread starts; the
recognition of events in the kernel log; the selection filters of the database and
its conversion from an older format; `cvd load`, the commands on single instances
and the status commands; what keymint, gatekeeper and oemlock compute; the contents of
archives; time (a timeout is a step that may happen).

## 7. Further work

1. A refinement of what `InstanceManager` promises of an id (free, locked, used), and of
   its loads and stores by the steps of `InstanceDatabase`.
2. An abstract process monitor (the API as `ServerLoop` sees it), shown to be
   implemented by `ProcessMonitor`.
3. The operations of the host orchestrator with their waiters, and the operator's
   device pool.
