-------------------------- MODULE InstanceDatabase --------------------------
(***************************************************************************)
(* The instance database of cvd                                            *)
(* (host/commands/cvd/instances/instance_database.cpp on top of            *)
(* data_viewer.{h,cpp}): a file that every cvd process of a user opens,    *)
(* locks with flock(), reads whole, changes in memory and writes back.     *)
(*                                                                         *)
(* The file is a sequence of cells: serialized groups, and Junk, bytes     *)
(* that are no group.  It is read cell by cell, as ReadAll loops over      *)
(* read(), and, once truncated, written cell by cell from offset 0 of the  *)
(* writer's own file description: a process that the lock does not keep    *)
(* out sees, and leaves, any mixture of the two.                           *)
(***************************************************************************)
EXTENDS Integers, Sequences, FiniteSets, FiniteSetsExt

CONSTANTS
  Writers,     \* processes that call Add, Update, Remove, Clear and FindGroups
  Readers,     \* processes that only look (IsEmpty, InstanceGroups) and keep no group
  Candidates,  \* groups that may be created: [name, home, ids, state]
  States,      \* values of cvd::InstanceState that an update may set
  GroupNames,  \* the names there are
  Faults,      \* whether a process can be killed, or fail to write, inside a method
  MaxGroups    \* bound: the groups in the file when one more is added

\* Group names are numbers: i stands for "cvd_i", Unnamed for an empty name.
Unnamed == 0
NoGroup == [name |-> Unnamed, home |-> "none", ids |-> {}, state |-> "none"]
Junk    == [NoGroup EXCEPT !.state = "junk"]

ASSUME DatabaseAssumption ==
  /\ Writers \cap Readers = {}
  /\ Faults \in BOOLEAN
  /\ MaxGroups \in Nat
  /\ GroupNames \subseteq Nat \ {Unnamed}
  /\ "none" \notin States /\ "junk" \notin States
  /\ \A g \in Candidates :
       /\ g \in [name : Nat, home : STRING, ids : SUBSET (Nat \ {0}), state : States]
       /\ g.name # Unnamed => g.name \in GroupNames
       /\ g.home # "none" /\ g.ids # {}

Client == Writers \cup Readers

VARIABLES
  file,    \* the cells of the backing file
  flock,   \* flock[c]: "none", "SH" or "EX", the lock c holds on the file
  pc,      \* "idle", "load", "write" or "store"
  task,    \* task[c]: the functor c passed to the viewer
  buf,     \* buf[c]: what c has read so far, then the cvd::PersistentData
  pos,     \* pos[c]: how many cells of buf[c] have been written
  copy,    \* copy[c]: the LocalInstanceGroup c works with
  serial   \* history: the groups if every task had run alone, in load order

vars == <<file, flock, pc, task, buf, pos, copy, serial>>

Groups(data) == {data[i] : i \in 1 .. Len(data)}
Names(data)  == {g.name : g \in Groups(data)}

Init ==
  /\ file = <<>> /\ serial = <<>>
  /\ flock = [c \in Client |-> "none"]
  /\ pc = [c \in Client |-> "idle"]
  /\ task = [c \in Client |-> [kind |-> "none"]]
  /\ buf = [c \in Client |-> <<>>]
  /\ pos = [c \in Client |-> 0]
  /\ copy = [c \in Client |-> NoGroup]

-----------------------------------------------------------------------------
(* The functors.                                                           *)

\* The smallest i such that "cvd_i" is free.
GenUniqueGroupName(data) ==
  Min({i \in 1 .. Cardinality(Names(data)) + 1 : i \notin Names(data)})

\* Mutant of Named: a group without a name is stored without one.
NamedNever(g, data) == g

Named(g, data) ==
  IF g.name = Unnamed THEN [g EXCEPT !.name = GenUniqueGroupName(data)] ELSE g

\* Mutant of Conflicts: instance ids are not compared.
ConflictsNoIds(g, data) ==
  \E h \in Groups(data) : h.name = g.name \/ h.home = g.home

Conflicts(g, data) ==
  \E h \in Groups(data) :
     h.name = g.name \/ h.home = g.home \/ h.ids \cap g.ids # {}

AddInstanceGroup(g, data) == Append(data, Named(g, data))

\* The index of the first group of that name.
Position(name, data) == Min({i \in 1 .. Len(data) : data[i].name = name})

UpdateInstanceGroup(g, data) == [data EXCEPT ![Position(g.name, data)] = g]

RemoveInstanceGroup(name, data) ==
  IF name \in Names(data)
    THEN LET p == Position(name, data)
         IN  SubSeq(data, 1, p - 1) \o SubSeq(data, p + 1, Len(data))
    ELSE data

\* Whether the functor returns a value or an error.
TaskOk(t, data) ==
  CASE t.kind = "add"    -> ~Conflicts(Named(t.group, data), data)
    [] t.kind = "update" -> t.group.name \in Names(data)
    [] t.kind = "clear"  -> \A g \in Groups(data) : g.ids # {}
    [] OTHER             -> TRUE

TaskResult(t, data) ==
  CASE t.kind = "add"    -> AddInstanceGroup(t.group, data)
    [] t.kind = "update" -> UpdateInstanceGroup(t.group, data)
    [] t.kind = "remove" -> RemoveInstanceGroup(t.name, data)
    [] t.kind = "clear"  -> <<>>
    [] OTHER             -> data

-----------------------------------------------------------------------------
(* DataViewer.                                                             *)

\* flock(): a shared lock conflicts with exclusive ones only.
CanLock(c, mode) ==
  \A d \in Client \ {c} :
     flock[d] = "none" \/ (mode = "SH" /\ flock[d] = "SH")

\* The operation each of the two methods passes to LockBackingFile.
WithSharedLockMode    == "SH"
WithExclusiveLockMode == "SH"

LockBackingFile(c, mode, t) ==
  /\ pc[c] = "idle"
  /\ CanLock(c, mode)
  /\ flock' = [flock EXCEPT ![c] = mode]
  /\ task' = [task EXCEPT ![c] = t]
  /\ pc' = [pc EXCEPT ![c] = "load"]
  /\ UNCHANGED <<file, buf, pos, copy, serial>>

Add(c)    == /\ Len(file) < MaxGroups
             /\ \E g \in Candidates :
                  LockBackingFile(c, WithExclusiveLockMode, [kind |-> "add", group |-> g])
Update(c) == /\ copy[c] # NoGroup
             /\ \E s \in States \ {copy[c].state} :
                  LockBackingFile(c, WithExclusiveLockMode,
                     [kind |-> "update", group |-> [copy[c] EXCEPT !.state = s]])
Remove(c) == /\ copy[c] # NoGroup
             /\ LockBackingFile(c, WithExclusiveLockMode,
                     [kind |-> "remove", name |-> copy[c].name])
Clear(c)  == LockBackingFile(c, WithExclusiveLockMode, [kind |-> "clear"])
Find(c)   == LockBackingFile(c, WithSharedLockMode, [kind |-> "find"])

\* The method returns: closing the file descriptor drops the lock.  The caller
\* goes on with group g; a command whose operation failed ends without one.
Release(c, g) ==
  /\ flock' = [flock EXCEPT ![c] = "none"]
  /\ pc' = [pc EXCEPT ![c] = "idle"]
  /\ task' = [task EXCEPT ![c] = [kind |-> "none"]]
  /\ buf' = [buf EXCEPT ![c] = <<>>]
  /\ pos' = [pos EXCEPT ![c] = 0]
  /\ copy' = [copy EXCEPT ![c] = g]

\* One read() of ReadAll.  Where the file has changed since the last one, the
\* bytes at the offset need not be the beginning of a group.
ReadMore(c) ==
  LET next == Len(buf[c]) + 1
  IN  /\ pc[c] = "load" /\ next <= Len(file)
      /\ \/ buf' = [buf EXCEPT ![c] = Append(@, file[next])]
         \/ /\ buf[c] # SubSeq(file, 1, next - 1)
            /\ buf' = [buf EXCEPT ![c] = Append(@, Junk)]
      /\ UNCHANGED <<file, flock, pc, task, pos, copy, serial>>

\* read() returns 0.
ReadDone(c) == pc[c] = "load" /\ Len(buf[c]) >= Len(file)

\* ParseFromString fails at the first byte that does not fit; its result is
\* ignored, and what it has parsed until then is kept.
ParseFromString(cells) ==
  LET bad == {i \in 1 .. Len(cells) : cells[i] = Junk}
  IN  IF bad = {} THEN cells ELSE SubSeq(cells, 1, Min(bad) - 1)

\* WithSharedLock after the last read: the functor.  The caller of FindGroups
\* keeps a copy of one match, if there is any; one without instances fails
\* the validation of LocalInstanceGroup::Create, which ends the process.
LoadShared(c) ==
  /\ ReadDone(c) /\ task[c].kind = "find"
  /\ \E g \in {NoGroup} \cup {h \in Groups(ParseFromString(buf[c])) : h.ids # {}} :
       /\ c \in Readers => g = NoGroup
       /\ Release(c, g)
  /\ UNCHANGED <<file, serial>>

\* WithExclusiveLock up to the functor's return; on an error nothing is written.
LoadExclusive(c) ==
  /\ ReadDone(c) /\ task[c].kind # "find"
  /\ serial' = IF TaskOk(task[c], serial) THEN TaskResult(task[c], serial) ELSE serial
  /\ LET data == ParseFromString(buf[c])
     IN  IF TaskOk(task[c], data)
           THEN /\ buf' = [buf EXCEPT ![c] = TaskResult(task[c], data)]
                /\ pc' = [pc EXCEPT ![c] = "write"]
                /\ UNCHANGED <<flock, task, pos, copy>>
           ELSE Release(c, NoGroup)
  /\ UNCHANGED file

\* Mutant of Truncate: the old contents stay in place.
NoTruncate(c) ==
  /\ pc[c] = "write"
  /\ pc' = [pc EXCEPT ![c] = "store"]
  /\ UNCHANGED <<file, flock, task, buf, pos, copy, serial>>

Truncate(c) ==
  /\ pc[c] = "write"
  /\ file' = <<>>
  /\ pc' = [pc EXCEPT ![c] = "store"]
  /\ UNCHANGED <<flock, task, buf, pos, copy, serial>>

\* A file after a write of one cell at offset i: beyond its end, after another
\* process has truncated it, the write leaves a hole of zeros.
Written(cells, i, g) ==
  [j \in 1 .. (IF i > Len(cells) THEN i ELSE Len(cells)) |->
     IF j = i THEN g ELSE IF j <= Len(cells) THEN cells[j] ELSE Junk]

\* A part of the write of WriteAll, from offset pos[c] on.
WriteMore(c) ==
  /\ pc[c] = "store" /\ pos[c] < Len(buf[c])
  /\ file' = Written(file, pos[c] + 1, buf[c][pos[c] + 1])
  /\ pos' = [pos EXCEPT ![c] = @ + 1]
  /\ UNCHANGED <<flock, pc, task, buf, copy, serial>>

\* The group the caller has in its hands after an operation that succeeded.
KeptCopy(t, data) ==
  CASE t.kind = "add"    -> data[Len(data)]
    [] t.kind = "update" -> t.group
    [] OTHER             -> NoGroup

StoreData(c) ==
  /\ pc[c] = "store" /\ pos[c] = Len(buf[c])
  /\ Release(c, KeptCopy(task[c], buf[c]))
  /\ UNCHANGED <<file, serial>>

\* What ParseFromString makes of a group whose bytes are cut: its fields come
\* in the order name, home directory, instances.
Cut(g) ==
  {NoGroup, [NoGroup EXCEPT !.name = g.name]} \cup {[g EXCEPT !.ids = s] : s \in SUBSET g.ids}

\* Truncate, LSeek or WriteAll fails, or SIGKILL, which SignalMasker cannot
\* block, ends the process.  What is in the file then, and maybe the beginning
\* of the next group, is what the others go on with.
BreakOff(c) ==
  /\ Faults /\ pc[c] # "idle"
  /\ \/ file' = file
     \/ /\ pc[c] = "store" /\ pos[c] < Len(buf[c])
        /\ \E g \in Cut(buf[c][pos[c] + 1]) : file' = Written(file, pos[c] + 1, g)
  /\ serial' = IF pc[c] = "load" THEN serial ELSE ParseFromString(file')
  /\ Release(c, NoGroup)

Next ==
  \/ \E c \in Client : Find(c) \/ ReadMore(c) \/ LoadShared(c) \/ BreakOff(c)
  \/ \E c \in Writers :
       \/ Add(c) \/ Update(c) \/ Remove(c) \/ Clear(c)
       \/ LoadExclusive(c) \/ Truncate(c) \/ WriteMore(c) \/ StoreData(c)

Spec == Init /\ [][Next]_vars

-----------------------------------------------------------------------------
(* Properties.                                                             *)

\* What a process that opens the file now finds in it.
Stored == ParseFromString(file)

\* A stored group has a name, unless it was cut before its name was written;
\* a process holds a lock exactly while it is in a method.
TypeOK ==
  /\ \A g \in Groups(Stored) :
       /\ g.name \in Nat /\ g.state \in States \cup {"none"}
       /\ g.name = Unnamed => g = NoGroup
  /\ flock \in [Client -> {"none", "SH", "EX"}]
  /\ pc \in [Client -> {"idle", "load", "write", "store"}]
  /\ \A c \in Client : (pc[c] = "idle") <=> (flock[c] = "none")

\* "Guarantees atomic access to the information stored in the backing file":
\* when no process is in the middle of a change, the file holds what the
\* tasks produce when each of them runs alone.
NoLostUpdate ==
  (\A c \in Client : pc[c] \in {"idle", "load"}) => Stored = serial

\* AddInstanceGroup rejects a name, a home directory or an instance id that
\* is taken: no two groups of the database share one, whatever additions,
\* updates, removals and writes that broke off led there, as far as what is
\* left of a group still has a name and a home directory.
Unique(data) ==
  \A i, j \in 1 .. Len(data) :
     i # j => /\ data[i].name # Unnamed => data[i].name # data[j].name
              /\ data[i].home # "none" => data[i].home # data[j].home
              /\ data[i].ids \cap data[j].ids = {}

UniqueGroups == Unique(Stored)

\* What the database holds: a change counts from the moment its writer has
\* truncated the file, and is in that writer's hands until it is stored.
Committed ==
  IF \E c \in Client : pc[c] = "store"
    THEN UNION {Groups(buf[c]) : c \in {d \in Client : pc[d] = "store"}}
    ELSE Groups(Stored)

\* The groups that are added or updated: candidates with a name, and with
\* those of their instances that a write that broke off has left.
Variants(g) ==
  {[g EXCEPT !.name = n, !.ids = i, !.state = s] :
     n \in GroupNames, i \in SUBSET g.ids, s \in States}
StorableGroups == UNION {Variants(g) : g \in Candidates}

Abstract == INSTANCE AbstractDatabase WITH Group <- StorableGroups, groups <- Committed

\* As long as only one process writes, the file behind the database is not
\* seen: the groups change as by single steps that add, update or remove one,
\* or that, when a write breaks off, lose some of them and cut at most one.
ImplementsAbstract == Abstract!Spec
=============================================================================
