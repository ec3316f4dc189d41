--------------------------- MODULE InstanceManager --------------------------
(***************************************************************************)
(* Groups of instances as several cvd processes create, start, stop,       *)
(* remove and reset them (host/commands/cvd/instances/instance_manager.cpp *)
(* and the commands in cli/commands), with the lock files that hand out    *)
(* instance ids (instances/lock/).                                         *)
(*                                                                         *)
(* A lock file is a name, local-instance-<id>.lock, that may refer to an   *)
(* inode.  A process opens the name, creating it if needed, and then locks *)
(* the inode; another may remove the name in between.  The byte in the     *)
(* inode says whether the id is in use.                                    *)
(*                                                                         *)
(* An operation that writes the database is two steps, load and store,     *)
(* between which other processes may store: its lock excludes nobody       *)
(* (module InstanceDatabase has the file, its locks and its bytes).  Two   *)
(* history variables, stray and left, say what was lost that way.          *)
(***************************************************************************)
EXTENDS Integers, Sequences, FiniteSets, FiniteSetsExt

CONSTANTS
  Procs,          \* cvd processes, each of which runs one command after another
  Commands,       \* the commands they run
  Requests,       \* what create may ask for: the ids, AnyId for one left open
  MaxId,          \* bound: ids that are tried
  MaxGroups,      \* bound: group directories ever made
  MaxEvents,      \* bound: commands ever run and signals ever sent
  Faults          \* what may go wrong: "kill", "interrupt", "stop", "unlink"

AnyId   == 0
NoInode == 0
Id      == 1 .. MaxId
Home    == 1 .. MaxGroups
Inode   == 1 .. MaxId + Cardinality(Procs) * Max({Len(r) : r \in Requests})

InstanceState == {"PREPARING", "STARTING", "RUNNING", "STOPPED", "BOOT_FAILED",
                  "CANCELLED"}
Group   == [name : Home, home : Home, ids : SUBSET Id, state : InstanceState]
NoGroup == [name |-> 0, home |-> 0, ids |-> {}, state |-> "STOPPED"]
NoLock  == [id |-> 0, ino |-> NoInode]

\* Requested ids are locked first, in the order they were given.
LockOrder(r) == SelectSeq(r, LAMBDA i : i # AnyId) \o SelectSeq(r, LAMBDA i : i = AnyId)

\* Places of start at which its interrupt listener is registered.
Listening == {"starting", "launch", "unlink", "bootFailed", "launched"}

ASSUME InstanceManagerAssumption ==
  /\ IsFiniteSet(Procs)
  /\ MaxId \in Nat /\ MaxGroups \in Nat /\ MaxEvents \in Nat
  /\ Commands \subseteq {"create", "start", "stop", "remove", "clear", "reset"}
  /\ \A r \in Requests : r # <<>> /\ LockOrder(r) \in Seq(Id \cup {AnyId})
  /\ Faults \subseteq {"kill", "interrupt", "stop", "unlink"}

VARIABLES
  groups,   \* the instance database, as it is in its file
  stray,    \* history: ids that lost their group by accident, or kept their lock file
  left,     \* history: the homes of groups whose state nobody may correct any more
  link,     \* link[i]: the inode of the lock file of id i, NoInode if none
  inUse,    \* the inodes whose byte is kInUse
  cmd,      \* the command the process runs
  pc,       \* what it is about to do
  todo,     \* the locks a creator still needs, by id or AnyId
  trying,   \* the lock file it has opened, or tried last
  locks,    \* the lock files it holds an flock() on
  copy,     \* the LocalInstanceGroup it works with
  rest,     \* ids whose lock files it still has to mark or to remove
  pending,  \* groups that clear has yet to treat
  data,     \* what the process has loaded and changed: {} or {groups to be stored}
  cancel,   \* the same for the interrupt listener of a start
  sig,      \* how far the interrupt listener of a start has come
  device,   \* running devices: the home and the ids of their group
  dirs,     \* the group directories that exist
  made,     \* how many were ever made
  events    \* how many commands were begun and signals sent

dbVars    == <<groups, stray, left>>
fileVars  == <<link, inUse>>
procVars  == <<cmd, pc, sig, events>>
loadVars  == <<data, cancel>>
allocVars == <<todo, trying, locks>>
workVars  == <<copy, rest, pending>>
worldVars == <<device, dirs, made>>
vars == <<dbVars, fileVars, procVars, loadVars, allocVars, workVars, worldVars>>

IsActive(g) == g.state \in {"PREPARING", "STARTING", "RUNNING"}

Init ==
  /\ groups = {} /\ stray = {} /\ left = {}
  /\ data = [p \in Procs |-> {}] /\ cancel = [p \in Procs |-> {}]
  /\ link = [i \in Id |-> NoInode] /\ inUse = {}
  /\ cmd = [p \in Procs |-> "none"] /\ pc = [p \in Procs |-> "idle"]
  /\ sig = [p \in Procs |-> "none"]
  /\ todo = [p \in Procs |-> <<>>] /\ trying = [p \in Procs |-> NoLock]
  /\ locks = [p \in Procs |-> {}]
  /\ copy = [p \in Procs |-> NoGroup] /\ rest = [p \in Procs |-> {}]
  /\ pending = [p \in Procs |-> {}]
  /\ device = {} /\ dirs = {} /\ made = 0 /\ events = 0

Begin(p, c) ==
  /\ pc[p] = "idle" /\ c \in Commands /\ events < MaxEvents
  /\ events' = events + 1
  /\ cmd' = [cmd EXCEPT ![p] = c]

Go(p, where) == pc' = [pc EXCEPT ![p] = where]

\* The command returns, or its process dies: every descriptor is closed, and
\* with it every lock is dropped.
Exit(p) ==
  /\ cmd' = [cmd EXCEPT ![p] = "none"] /\ Go(p, "idle")
  /\ sig' = [sig EXCEPT ![p] = "none"]
  /\ data' = [data EXCEPT ![p] = {}] /\ cancel' = [cancel EXCEPT ![p] = {}]
  /\ todo' = [todo EXCEPT ![p] = <<>>] /\ trying' = [trying EXCEPT ![p] = NoLock]
  /\ locks' = [locks EXCEPT ![p] = {}]
  /\ copy' = [copy EXCEPT ![p] = NoGroup] /\ rest' = [rest EXCEPT ![p] = {}]
  /\ pending' = [pending EXCEPT ![p] = {}]

Finish(p) == Exit(p) /\ UNCHANGED events

-----------------------------------------------------------------------------
(* The database.                                                           *)

Names(db) == {g.name : g \in db}
Homes(db) == {g.home : g \in db}

Conflicts(g, db) ==
  \E h \in db : h.name = g.name \/ h.home = g.home \/ h.ids \cap g.ids # {}

\* What a process may load: while another one is in the middle of a write, the
\* file holds only some of the groups.
Readable ==
  {groups} \cup {db \in SUBSET groups : \E p \in Procs : data[p] # {} \/ cancel[p] # {}}

\* The task of UpdateInstanceGroup, with all instances of the copy in one state.
Updated(db, g, state) == {h \in db : h.name # g.name} \cup {[g EXCEPT !.state = state]}

\* The ids of groups that a write drops, and the homes of those it puts back as
\* they were, other than the ones it is about.
Dropped(new, mine)  == UNION {g.ids : g \in {h \in groups : h.home \notin mine \cup Homes(new)}}
Reverted(new, mine) == Homes({h \in new \ groups : h.home \notin mine})

\* StoreData: what was loaded and changed replaces whatever the file holds.
StoreData(loaded, mine) ==
  \E new \in loaded : /\ groups' = new
                      /\ stray' = stray \cup Dropped(new, mine)
                      /\ left' = left \cup Reverted(new, mine)

\* "Group not found": nothing is stored.
NotFound(p, loaded) ==
  /\ loaded = {} /\ \E db \in Readable : copy[p].name \notin Names(db)
  /\ UNCHANGED <<groups, stray>>

\* The end of an update whose result is the group's last state.
Settle(p, loaded) ==
  \/ StoreData(loaded, {copy[p].home})
  \/ NotFound(p, loaded) /\ left' = left \cup {copy[p].home}

\* The updates of the commands, by the place they are made at.
Updates ==
  {<<"created", "STOPPED">>, <<"starting", "STARTING">>, <<"bootFailed", "BOOT_FAILED">>,
   <<"launched", "RUNNING">>, <<"stopped", "STOPPED">>}

LoadForUpdate(p) ==
  /\ data[p] = {}
  /\ \E u \in Updates, db \in Readable :
       /\ pc[p] = u[1] /\ copy[p].name \in Names(db)
       /\ data' = [data EXCEPT ![p] = {Updated(db, copy[p], u[2])}]
  /\ UNCHANGED <<dbVars, fileVars, procVars, cancel, allocVars, workVars, worldVars>>

-----------------------------------------------------------------------------
(* Lock files.                                                             *)

Locked(n) == \E p \in Procs : \E l \in locks[p] : l.ino = n
Opened(n) == Locked(n) \/ \E p \in Procs : trying[p].ino = n

\* An inode is free again once it has neither a name nor an open file.
IsFree(n)      == ~Opened(n) /\ \A i \in Id : link[i] # n
IsFirstFree(n) == IsFree(n) /\ \A m \in Inode : m < n => ~IsFree(m)

\* open() with O_CREAT: a name without an inode gets an empty file.
OpenLockFile(p, i) ==
  \E n \in Inode :
     /\ IF link[i] = NoInode THEN IsFirstFree(n) ELSE n = link[i]
     /\ link' = [link EXCEPT ![i] = n]
     /\ inUse' = IF link[i] = NoInode THEN inUse \ {n} ELSE inUse
     /\ trying' = [trying EXCEPT ![p] = [id |-> i, ino |-> n]]

\* The lock is one of the group's: on to the next one.
Keep(p) ==
  /\ locks' = [locks EXCEPT ![p] = @ \cup {trying[p]}]
  /\ trying' = [trying EXCEPT ![p] = NoLock]
  /\ todo' = [todo EXCEPT ![p] = Tail(@)]
  /\ Go(p, "alloc")

\* RemoveLockFile; an error is logged and every caller goes on.
RemoveLockFile(p) ==
  \E i \in rest[p] :
     /\ rest' = [rest EXCEPT ![p] = @ \ {i}]
     /\ \/ link' = [link EXCEPT ![i] = NoInode] /\ stray' = stray \ {i}
        \/ "unlink" \in Faults /\ UNCHANGED link /\ stray' = stray \cup {i}

-----------------------------------------------------------------------------
(* cvd create.                                                             *)

Create(p) ==
  /\ Begin(p, "create") /\ Go(p, "alloc")
  /\ \E r \in Requests : todo' = [todo EXCEPT ![p] = LockOrder(r)]
  /\ UNCHANGED <<dbVars, fileVars, sig, loadVars, trying, locks, workVars, worldVars>>

Requested(p) == {l.id : l \in locks[p]}

\* Mutant of IsRepeated: a repeated id is locked a second time.
NeverRepeated(p) == FALSE

IsRepeated(p) == Head(todo[p]) \in Requested(p)

\* "Requested instance ids must be distinct".
RejectRepeated(p) ==
  /\ pc[p] = "alloc" /\ todo[p] # <<>> /\ Head(todo[p]) # AnyId /\ IsRepeated(p)
  /\ Finish(p)
  /\ UNCHANGED <<dbVars, fileVars, worldVars>>

OpenRequested(p) ==
  /\ pc[p] = "alloc" /\ todo[p] # <<>> /\ Head(todo[p]) # AnyId /\ ~IsRepeated(p)
  /\ OpenLockFile(p, Head(todo[p]))
  /\ Go(p, "lock")
  /\ UNCHANGED <<dbVars, cmd, sig, events, loadVars, todo, locks, workVars, worldVars>>

\* Mutant of AcquireLock: the id is marked as soon as it is locked.
AcquireLockAndMark(p) ==
  /\ pc[p] = "lock" /\ ~Locked(trying[p].ino)
  /\ Keep(p)
  /\ inUse' = inUse \cup {trying[p].ino}
  /\ UNCHANGED <<dbVars, link, cmd, sig, events, loadVars, workVars, worldVars>>

\* Mutant of AcquireLock: the lock is taken whoever holds it.
AcquireLockAnyway(p) ==
  /\ pc[p] = "lock"
  /\ Keep(p)
  /\ UNCHANGED <<dbVars, fileVars, cmd, sig, events, loadVars, workVars, worldVars>>

\* flock(LOCK_EX), which blocks.  The byte is not looked at.
AcquireLock(p) ==
  /\ pc[p] = "lock" /\ ~Locked(trying[p].ino)
  /\ Keep(p)
  /\ UNCHANGED <<dbVars, fileVars, cmd, sig, events, loadVars, workVars, worldVars>>

OpenUnused(p) ==
  /\ pc[p] = "alloc" /\ todo[p] # <<>> /\ Head(todo[p]) = AnyId
  /\ trying[p].id < MaxId
  /\ OpenLockFile(p, trying[p].id + 1)
  /\ Go(p, "try")
  /\ UNCHANGED <<dbVars, cmd, sig, events, loadVars, todo, locks, workVars, worldVars>>

\* Bound: the code would try the next id.
OutOfIds(p) ==
  /\ pc[p] = "alloc" /\ todo[p] # <<>> /\ Head(todo[p]) = AnyId
  /\ trying[p].id = MaxId
  /\ Finish(p)
  /\ UNCHANGED <<dbVars, fileVars, worldVars>>

IsUnused(n) == ~Locked(n) /\ n \notin inUse

\* flock(LOCK_EX | LOCK_NB), which a lock of one's own makes fail too, and
\* Status: the file is closed and the next id tried unless both say it is free.
TryAcquireLock(p) ==
  /\ pc[p] = "try"
  /\ IF IsUnused(trying[p].ino)
       THEN Keep(p)
       ELSE /\ trying' = [trying EXCEPT ![p].ino = NoInode]
            /\ Go(p, "alloc")
            /\ UNCHANGED <<todo, locks>>
  /\ UNCHANGED <<dbVars, fileVars, cmd, sig, events, loadVars, workVars, worldVars>>

\* GenUniqueGroupName: the first "cvd_i" that no group has.
IsNewName(n, db) == n \notin Names(db) /\ \A m \in Home : m < n => m \in Names(db)

NewGroup(p, name) ==
  [name |-> name, home |-> made + 1, ids |-> Requested(p), state |-> "PREPARING"]

\* Build, the directories, and AddInstanceGroup as far as its task.
AddGroup(p) ==
  /\ pc[p] = "alloc" /\ todo[p] = <<>> /\ data[p] = {} /\ made < MaxGroups
  /\ Cardinality(Requested(p)) = Cardinality(locks[p])
  /\ \E db \in Readable, n \in Home :
       /\ IsNewName(n, db) /\ ~Conflicts(NewGroup(p, n), db)
       /\ copy' = [copy EXCEPT ![p] = NewGroup(p, n)]
       /\ data' = [data EXCEPT ![p] = {db \cup {NewGroup(p, n)}}]
  /\ made' = made + 1 /\ dirs' = dirs \cup {made'}
  /\ UNCHANGED <<dbVars, fileVars, procVars, cancel, allocVars, rest, pending, device>>

Added(p) ==
  /\ pc[p] = "alloc" /\ StoreData(data[p], {copy[p].home})
  /\ data' = [data EXCEPT ![p] = {}]
  /\ rest' = [rest EXCEPT ![p] = Requested(p)]
  /\ Go(p, "mark")
  /\ UNCHANGED <<fileVars, cmd, sig, events, cancel, allocVars, copy, pending, worldVars>>

\* One id twice (its lock file was removed in between), a directory that
\* cannot be made, or a group with that name or one of the ids.
CreateFails(p) ==
  /\ pc[p] = "alloc" /\ todo[p] = <<>> /\ data[p] = {}
  /\ Finish(p)
  /\ UNCHANGED <<dbVars, fileVars, worldVars>>

\* Status(kInUse), one lock file after the other, on the inode that is locked.
MarkInUse(p) ==
  /\ pc[p] = "mark"
  /\ \E l \in locks[p] : /\ l.id \in rest[p]
                         /\ inUse' = inUse \cup {l.ino}
                         /\ rest' = [rest EXCEPT ![p] = @ \ {l.id}]
  /\ UNCHANGED <<dbVars, link, procVars, loadVars, allocVars, copy, pending, worldVars>>

\* CreateInstanceGroup returns and drops the locks.
Created(p) ==
  /\ pc[p] = "mark" /\ rest[p] = {}
  /\ locks' = [locks EXCEPT ![p] = {}]
  /\ Go(p, "created")
  /\ UNCHANGED <<dbVars, fileVars, cmd, sig, events, loadVars, todo, trying, workVars, worldVars>>

\* Whether the update succeeds is not looked at.  With --start the process
\* goes on with the start command, which looks the group up again.
CreateReturns(p) ==
  /\ pc[p] = "created"
  /\ Settle(p, data[p])
  /\ Finish(p)
  /\ UNCHANGED <<fileVars, worldVars>>

-----------------------------------------------------------------------------
(* cvd start.                                                              *)

Start(p) ==
  /\ Begin(p, "start") /\ Go(p, "starting")
  /\ \E g \in groups : ~IsActive(g) /\ copy' = [copy EXCEPT ![p] = g]
  /\ UNCHANGED <<dbVars, fileVars, sig, loadVars, allocVars, rest, pending, worldVars>>

\* The listener is registered before the group becomes STARTING.
Starting(p) ==
  /\ pc[p] = "starting"
  /\ \/ /\ StoreData(data[p], {copy[p].home})
        /\ data' = [data EXCEPT ![p] = {}]
        /\ Go(p, "launch")
        /\ UNCHANGED <<cmd, sig, events, cancel, allocVars, workVars>>
     \/ NotFound(p, data[p]) /\ UNCHANGED left /\ Finish(p)
  /\ UNCHANGED <<fileVars, worldVars>>

DeviceOf(g) == [home |-> g.home, ids |-> g.ids]

\* The launcher runs from the group's directory.
LaunchSucceeds(p) ==
  /\ pc[p] = "launch" /\ sig[p] = "none" /\ copy[p].home \in dirs
  /\ device' = device \cup {DeviceOf(copy[p])}
  /\ Go(p, "launched")
  /\ UNCHANGED <<dbVars, fileVars, cmd, sig, events, loadVars, allocVars, workVars, dirs, made>>

\* CvdResetGroup: every run_cvd group with that id is killed, the one just
\* launched if it came that far, and its lock files are removed.
LaunchFails(p) ==
  /\ pc[p] = "launch"
  /\ \E i \in copy[p].ids :
     \E launched \in SUBSET {DeviceOf(copy[p])} :
       LET found == {d \in device \cup launched : i \in d.ids}
       IN  /\ device' = device \ found
           /\ rest' = [rest EXCEPT ![p] = UNION {d.ids : d \in found}]
  /\ Go(p, "unlink")
  /\ UNCHANGED <<dbVars, fileVars, cmd, sig, events, loadVars, allocVars, copy, pending, dirs, made>>

\* The launcher is not started at all: an interrupt forbids it, or fork() fails.
SetupFails(p) ==
  /\ pc[p] = "launch"
  /\ Go(p, "bootFailed")
  /\ UNCHANGED <<dbVars, fileVars, cmd, sig, events, loadVars, allocVars, workVars, worldVars>>

\* Mutant of BootFailed: the database is not told.
BootFailedSilently(p) ==
  /\ pc[p] = "bootFailed"
  /\ Finish(p)
  /\ UNCHANGED <<dbVars, fileVars, worldVars>>

BootFailed(p) ==
  /\ pc[p] = "bootFailed"
  /\ Settle(p, data[p])
  /\ Finish(p)
  /\ UNCHANGED <<fileVars, worldVars>>

Launched(p) ==
  /\ pc[p] = "launched"
  /\ Settle(p, data[p])
  /\ Finish(p)
  /\ UNCHANGED <<fileVars, worldVars>>

\* The listener, in its own thread: stop the launcher, or forbid it to start,
\* then update the database, then abort.  The command goes on meanwhile.
Interrupt(p) ==
  /\ "interrupt" \in Faults /\ events < MaxEvents
  /\ cmd[p] = "start" /\ pc[p] \in Listening /\ sig[p] = "none"
  /\ sig' = [sig EXCEPT ![p] = "caught"]
  /\ left' = IF pc[p] = "starting" THEN left \cup {copy[p].home} ELSE left
  /\ events' = events + 1
  /\ UNCHANGED <<groups, stray, fileVars, cmd, pc, loadVars, allocVars, workVars, worldVars>>

LoadForCancel(p) ==
  /\ sig[p] = "caught" /\ cancel[p] = {}
  /\ \E db \in Readable :
       /\ copy[p].name \in Names(db)
       /\ cancel' = [cancel EXCEPT ![p] = {Updated(db, copy[p], "CANCELLED")}]
  /\ UNCHANGED <<dbVars, fileVars, procVars, data, allocVars, workVars, worldVars>>

Cancel(p) ==
  /\ sig[p] = "caught"
  /\ Settle(p, cancel[p])
  /\ cancel' = [cancel EXCEPT ![p] = {}]
  /\ sig' = [sig EXCEPT ![p] = "cancelled"]
  /\ UNCHANGED <<fileVars, cmd, pc, events, data, allocVars, workVars, worldVars>>

Abort(p) ==
  /\ sig[p] = "cancelled"
  /\ Finish(p)
  /\ UNCHANGED <<dbVars, fileVars, worldVars>>

-----------------------------------------------------------------------------
(* cvd stop, remove, clear and reset.                                      *)

Stop(p) ==
  /\ Begin(p, "stop") /\ Go(p, "stopcvd")
  /\ \E g \in groups : IsActive(g) /\ copy' = [copy EXCEPT ![p] = g]
  /\ UNCHANGED <<dbVars, fileVars, sig, loadVars, allocVars, rest, pending, worldVars>>

\* What remove and clear do with a group: stop it if its copy says that it is
\* active, then remove its lock files.
Drop(p, g) ==
  /\ copy' = [copy EXCEPT ![p] = g]
  /\ rest' = [rest EXCEPT ![p] = g.ids]
  /\ Go(p, IF IsActive(g) THEN "stopcvd" ELSE "unlink")

Remove(p) ==
  /\ Begin(p, "remove")
  /\ \E g \in groups : Drop(p, g)
  /\ UNCHANGED <<dbVars, fileVars, sig, loadVars, allocVars, pending, worldVars>>

\* stop_cvd, whose failure only leaves a warning.
StopCvd(p) ==
  /\ pc[p] = "stopcvd"
  /\ \/ device' = {d \in device : d.home # copy[p].home}
     \/ "stop" \in Faults /\ UNCHANGED device
  /\ Go(p, "stopped")
  /\ UNCHANGED <<dbVars, fileVars, cmd, sig, events, loadVars, allocVars, workVars, dirs, made>>

\* StopBin does not find the program.  Only clear goes on: stop returns the
\* error, and remove refuses a group that is still active.
StopBinFails(p) ==
  /\ "stop" \in Faults /\ pc[p] = "stopcvd"
  /\ IF cmd[p] \in {"stop", "remove"}
       THEN Finish(p)
       ELSE Go(p, "unlink") /\ UNCHANGED <<cmd, sig, events, loadVars, allocVars, workVars>>
  /\ UNCHANGED <<dbVars, fileVars, worldVars>>

\* The result of the update is not looked at.
Stopped(p) ==
  /\ pc[p] = "stopped"
  /\ \/ StoreData(data[p], {copy[p].home})
     \/ NotFound(p, data[p]) /\ UNCHANGED left
  /\ IF cmd[p] = "stop"
       THEN Finish(p)
       ELSE /\ data' = [data EXCEPT ![p] = {}]
            /\ Go(p, "unlink")
            /\ UNCHANGED <<cmd, sig, events, cancel, allocVars, workVars>>
  /\ UNCHANGED <<fileVars, worldVars>>

Unlink(p) ==
  /\ pc[p] = "unlink" /\ RemoveLockFile(p)
  /\ UNCHANGED <<groups, left, inUse, procVars, loadVars, allocVars, copy, pending, worldVars>>

\* The lock files are removed: a start that failed goes on, a reset is done.
Unlinked(p) ==
  /\ pc[p] = "unlink" /\ rest[p] = {}
  /\ \/ /\ cmd[p] = "start" /\ Go(p, "bootFailed")
        /\ UNCHANGED <<cmd, sig, events, loadVars, allocVars, workVars>>
     \/ cmd[p] = "reset" /\ copy[p] = NoGroup /\ Finish(p)
  /\ UNCHANGED <<dbVars, fileVars, worldVars>>

AfterDirectory(p) ==
  /\ Go(p, IF cmd[p] = "remove" THEN "erase" ELSE "next")
  /\ UNCHANGED <<cmd, sig, events, loadVars, allocVars, workVars>>

RemoveGroupDirectory(p) ==
  /\ pc[p] = "unlink" /\ rest[p] = {} /\ cmd[p] # "start" /\ copy[p] # NoGroup
  /\ dirs' = dirs \ {copy[p].home}
  /\ AfterDirectory(p)
  /\ UNCHANGED <<dbVars, fileVars, device, made>>

\* An error that ends remove and that clear ignores.
RemoveDirectoryFails(p) ==
  /\ pc[p] = "unlink" /\ rest[p] = {} /\ cmd[p] # "start" /\ copy[p] # NoGroup
  /\ IF cmd[p] = "remove" THEN Finish(p) ELSE AfterDirectory(p)
  /\ UNCHANGED <<dbVars, fileVars, worldVars>>

LoadForErase(p) ==
  /\ pc[p] = "erase" /\ data[p] = {}
  /\ \E db \in Readable :
       data' = [data EXCEPT ![p] = {{h \in db : h.name # copy[p].name}}]
  /\ UNCHANGED <<dbVars, fileVars, procVars, cancel, allocVars, workVars, worldVars>>

Erase(p) ==
  /\ pc[p] = "erase"
  /\ StoreData(data[p], {copy[p].home})
  /\ Finish(p)
  /\ UNCHANGED <<fileVars, worldVars>>

\* Clear empties the database before it treats the groups that were in it.
Clear(p) ==
  /\ Begin(p, "clear") \/ Begin(p, "reset")
  /\ \E db \in Readable : pending' = [pending EXCEPT ![p] = db]
  /\ data' = [data EXCEPT ![p] = {{}}]
  /\ Go(p, "clear")
  /\ UNCHANGED <<dbVars, fileVars, sig, cancel, allocVars, copy, rest, worldVars>>

Emptied(p) ==
  /\ pc[p] = "clear"
  /\ StoreData(data[p], Homes(pending[p]))
  /\ data' = [data EXCEPT ![p] = {}]
  /\ Go(p, "next")
  /\ UNCHANGED <<fileVars, cmd, sig, events, cancel, allocVars, workVars, worldVars>>

NextGroup(p) ==
  /\ pc[p] = "next"
  /\ \E g \in pending[p] : /\ Drop(p, g)
                           /\ pending' = [pending EXCEPT ![p] = @ \ {g}]
  /\ UNCHANGED <<dbVars, fileVars, cmd, sig, events, loadVars, allocVars, worldVars>>

Cleared(p) ==
  /\ pc[p] = "next" /\ pending[p] = {} /\ cmd[p] = "clear"
  /\ Finish(p)
  /\ UNCHANGED <<dbVars, fileVars, worldVars>>

\* KillAllCuttlefishInstances: every device is stopped, and every lock file of
\* the user is removed, held or not.
KillAll(p) ==
  /\ pc[p] = "next" /\ pending[p] = {} /\ cmd[p] = "reset"
  /\ device' = {}
  /\ copy' = [copy EXCEPT ![p] = NoGroup]
  /\ rest' = [rest EXCEPT ![p] = {i \in Id : link[i] # NoInode}]
  /\ Go(p, "unlink")
  /\ UNCHANGED <<dbVars, fileVars, cmd, sig, events, loadVars, allocVars, pending, dirs, made>>

-----------------------------------------------------------------------------

\* What p leaves behind when it dies: lock files of groups that clear has taken
\* out of the database, and the group that it was creating or starting.
Unlinking(p) ==
  {i \in Id : cmd[p] \in {"clear", "reset"} /\ (i \in rest[p] \/ \E g \in pending[p] : i \in g.ids)}
Unsettled(p) ==
  {h \in Home : cmd[p] \in {"create", "start"} /\ h = copy[p].home}

\* SIGKILL, which in the middle of a write leaves some of the groups.
Kill(p) ==
  /\ "kill" \in Faults /\ events < MaxEvents /\ pc[p] # "idle"
  /\ \E new \in {groups} \cup UNION {SUBSET d : d \in data[p] \cup cancel[p]} :
       /\ groups' = new
       /\ stray' = stray \cup Dropped(new, {}) \cup Unlinking(p)
       /\ left' = left \cup Reverted(new, {}) \cup Unsettled(p)
  /\ Exit(p) /\ events' = events + 1
  /\ UNCHANGED <<fileVars, worldVars>>

Step(p) ==
  \/ RejectRepeated(p) \/ OpenRequested(p) \/ OpenUnused(p) \/ OutOfIds(p)
  \/ TryAcquireLock(p) \/ AddGroup(p) \/ Added(p) \/ CreateFails(p)
  \/ MarkInUse(p) \/ Created(p) \/ CreateReturns(p) \/ LoadForUpdate(p)
  \/ Starting(p) \/ LaunchSucceeds(p) \/ LaunchFails(p) \/ SetupFails(p)
  \/ BootFailed(p) \/ Launched(p) \/ LoadForCancel(p) \/ Cancel(p) \/ Abort(p)
  \/ StopCvd(p) \/ StopBinFails(p) \/ Stopped(p) \/ Unlink(p) \/ Unlinked(p)
  \/ RemoveGroupDirectory(p) \/ RemoveDirectoryFails(p) \/ LoadForErase(p) \/ Erase(p)
  \/ Emptied(p) \/ NextGroup(p) \/ Cleared(p) \/ KillAll(p)

Command(p) == Create(p) \/ Start(p) \/ Stop(p) \/ Remove(p) \/ Clear(p)

Next == \E p \in Procs : Command(p) \/ Step(p) \/ AcquireLock(p) \/ Interrupt(p) \/ Kill(p)

Spec == Init /\ [][Next]_vars

-----------------------------------------------------------------------------
(* Properties.                                                             *)

\* Besides the types: flock() gives an inode to one open file at a time.
TypeOK ==
  /\ groups \subseteq Group /\ stray \subseteq Id /\ left \subseteq Home
  /\ data \in [Procs -> SUBSET SUBSET Group] /\ cancel \in [Procs -> SUBSET SUBSET Group]
  /\ link \in [Id -> Inode \cup {NoInode}] /\ inUse \subseteq Inode
  /\ pc \in [Procs -> Listening \cup {"idle", "alloc", "lock", "try", "mark", "created",
                                      "stopcvd", "stopped", "erase", "clear", "next"}]
  /\ \A p, q \in Procs : \A l \in locks[p], m \in locks[q] :
        l.ino = m.ino => p = q /\ l = m
  /\ device \subseteq [home : Home, ids : SUBSET Id] /\ dirs \subseteq Home

\* Instance ids are not lost: a lock file that says kInUse belongs to a group
\* of the database, or clear is about to remove it.  Otherwise no create
\* without explicit ids would ever use that id again.  It holds although
\* remove, a failed start and clear remove lock files that others have open.
\* The exceptions are in stray: another's write dropped the group from the
\* database, the lock file could not be removed, or clear was killed.
NoLeakedId ==
  \A i \in Id :
     link[i] \in inUse =>
       \/ \E g \in groups : i \in g.ids
       \/ \E p \in Procs : i \in Unlinking(p)
       \/ i \in stray

Blocks(q, p) == pc[p] = "lock" /\ \E l \in locks[q] : l.ino = trying[p].ino

\* Creators wait for each other in a circle only if one of them was asked for
\* ids that descend, and waits for an id below one that it has.  The check for
\* repeated ids "avoids a possible deadlock", and lock files that others remove
\* under those who wait, ids that are left open and kills add none.
NoCircularWait ==
  \A W \in (SUBSET Procs) \ {{}} :
     (\A p \in W : \E q \in W : Blocks(q, p)) =>
       \E p \in W : \E l \in locks[p] : l.id > trying[p].id

\* A group is PREPARING or STARTING, states in which it cannot be started, only
\* while some command works on it: failures, interrupts and the commands of
\* others do not leave it there.  The exceptions are in left: its creator or
\* starter was killed, or interrupted before the group was STARTING, or its last
\* update was lost because two processes wrote the database at once.
Settles ==
  \A g \in groups : g.state \in {"PREPARING", "STARTING"} =>
     \/ \E p \in Procs : cmd[p] \in {"create", "start"} /\ copy[p].home = g.home
     \/ g.home \in left

\* "Running devices are stopped first": the devices of a group that is not in
\* the database any more, and that no command is working on, do not run.
NoUntrackedDevice ==
  \A d \in device : \/ \E g \in groups : g.home = d.home
                    \/ \E p \in Procs : pc[p] # "idle" /\ copy[p].home = d.home
=============================================================================
