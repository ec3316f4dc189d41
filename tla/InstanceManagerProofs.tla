----------------------- MODULE InstanceManagerProofs -----------------------
(***************************************************************************)
(* The type invariant (with the exclusion of flock()), NoCircularWait,     *)
(* Settles and NoLeakedId, for any number of cvd processes, commands, ids  *)
(* and groups, whatever is killed, interrupted or fails.                   *)
(***************************************************************************)
EXTENDS InstanceManager, SequenceTheorems, FiniteSetTheorems, NaturalsInduction,
        WellFoundedInduction, TLAPS

Places == Listening \cup {"idle", "alloc", "lock", "try", "mark", "created",
                          "stopcvd", "stopped", "erase", "clear", "next"}

CommandNames == {"create", "start", "stop", "remove", "clear", "reset"}

Handle == [id : Id, ino : Inode]

ProcTypes ==
  /\ cmd \in [Procs -> CommandNames \cup {"none"}]
  /\ pc \in [Procs -> Places]
  /\ sig \in [Procs -> {"none", "caught", "cancelled"}]
  /\ todo \in [Procs -> Seq(Id \cup {AnyId})]
  /\ trying \in [Procs -> [id : Id \cup {0}, ino : Inode \cup {NoInode}]]
  /\ locks \in [Procs -> SUBSET Handle]
  /\ copy \in [Procs -> Group \cup {NoGroup}]
  /\ rest \in [Procs -> SUBSET Id]
  /\ pending \in [Procs -> SUBSET Group]
  /\ data \in [Procs -> SUBSET SUBSET Group]
  /\ cancel \in [Procs -> SUBSET SUBSET Group]

DbTypes ==
  /\ groups \in SUBSET Group
  /\ stray \in SUBSET Id
  /\ left \in SUBSET Home

WorldTypes ==
  /\ link \in [Id -> Inode \cup {NoInode}]
  /\ inUse \in SUBSET Inode
  /\ device \in SUBSET [home : Home, ids : SUBSET Id]
  /\ dirs \in SUBSET Home
  /\ made \in 0 .. MaxGroups

\* Where each command can be, and what it holds there.
Shape(p) ==
  /\ pc[p] = "idle" <=> cmd[p] = "none"
  /\ pc[p] \in {"alloc", "lock", "try", "mark", "created"} => cmd[p] = "create"
  /\ pc[p] \in {"starting", "launch", "bootFailed", "launched"} => cmd[p] = "start"
  /\ pc[p] \in {"stopcvd", "stopped"} => cmd[p] \in {"stop", "remove", "clear", "reset"}
  /\ pc[p] = "unlink" => cmd[p] \in {"start", "remove", "clear", "reset"}
  /\ pc[p] = "erase" => cmd[p] = "remove"
  /\ pc[p] \in {"clear", "next"} => cmd[p] \in {"clear", "reset"}
  /\ sig[p] # "none" => cmd[p] = "start"
  /\ pc[p] \in {"lock", "try"} => trying[p] \in Handle /\ todo[p] # <<>>
  /\ pc[p] \in {"idle", "erase", "clear", "next"} => rest[p] = {}
  /\ pc[p] = "idle" => locks[p] = {}
  /\ pc[p] \in {"mark", "created", "stopcvd", "stopped", "erase"} => copy[p] \in Group
  /\ cmd[p] = "start" => copy[p] \in Group
  /\ cmd[p] = "reset" /\ pc[p] = "unlink" /\ copy[p] = NoGroup => pending[p] = {}
  /\ data[p] # {} => pc[p] \in {"alloc", "created", "starting", "bootFailed", "launched",
                               "stopped", "erase", "clear"}
  /\ data[p] # {} /\ pc[p] = "alloc" => todo[p] = <<>> /\ copy[p] \in Group
  /\ cancel[p] # {} => sig[p] = "caught"

Sound   == ProcTypes /\ WorldTypes /\ \A p \in Procs : Shape(p)
IMTypes == Sound /\ DbTypes

\* flock(): an inode is locked by one open file.
Exclusive ==
  \A p, q \in Procs : \A l \in locks[p], m \in locks[q] :
     l.ino = m.ino => p = q /\ l = m

-----------------------------------------------------------------------------
(* Inodes and ids.                                                         *)

\* The files a process has open.
Handles(p) == locks[p] \cup ({trying[p]} \cap Handle)

\* While a file is open its inode is not used again, so whoever opened it did
\* it by the same name, and only that name can still refer to it.
OneName ==
  /\ \A i, j \in Id : link[i] = link[j] /\ link[i] # NoInode => i = j
  /\ \A p \in Procs : \A l \in Handles(p) : \A i \in Id : link[i] = l.ino => i = l.id
  /\ \A p, q \in Procs : \A l \in Handles(p), m \in Handles(q) :
       l.ino = m.ino => l.id = m.id

\* A creator that waits for an id does not have it already.
WaitsForOther(p) == pc[p] = "lock" => \A l \in locks[p] : l.id # trying[p].id

WaitInv == OneName /\ \A p \in Procs : WaitsForOther(p)

-----------------------------------------------------------------------------
(* Groups, in the database and in the memory of the processes.             *)

\* The groups that p knows of, and those that anyone does.
KnownTo(p) == {copy[p]} \cup pending[p] \cup (UNION data[p]) \cup (UNION cancel[p])
Known      == groups \cup UNION {KnownTo(p) : p \in Procs}

\* A group keeps its home, its name and its ids, and homes are never used again.
HomesInv ==
  /\ \A g \in Known : g.home \in 0 .. made
  /\ \A g, h \in Known : g.home = h.home => g.name = h.name /\ g.ids = h.ids

\* The places of the updates that end a command's work on its group, and of
\* those whose result has the group in it.
Settled  == {"created", "bootFailed", "launched", "stopped", "erase"}
Updating == {"alloc", "created", "starting", "bootFailed", "launched", "stopped"}

Unfinished == {"PREPARING", "STARTING"}

SettledIn(d, home) == \A g \in d : g.home = home => g.state \notin Unfinished

\* What p is about to store.
DataInv(p) ==
  /\ pc[p] \in Settled => \A d \in data[p] : SettledIn(d, copy[p].home)
  /\ pc[p] \in Updating => \A d \in data[p] : copy[p].home \in Homes(d)
  /\ pc[p] = "clear" => \A d \in data[p] : d = {}
  /\ \A d \in cancel[p] : SettledIn(d, copy[p].home) /\ copy[p].home \in Homes(d)

KnownInv == HomesInv /\ \A p \in Procs : DataInv(p)

\* p will still move the group with that home out of PREPARING or STARTING.
Settling(p, home) ==
  /\ copy[p].home = home
  /\ \/ cmd[p] = "create" /\ pc[p] \in {"mark", "created"}
     \/ /\ cmd[p] = "start" /\ sig[p] # "cancelled"
        /\ pc[p] \in {"launch", "unlink", "bootFailed", "launched"}

SettleInv ==
  /\ KnownInv
  /\ \A p \in Procs : pc[p] = "starting" /\ sig[p] # "none" => copy[p].home \in left
  /\ \A g \in groups : g.state \in Unfinished =>
       (\E p \in Procs : Settling(p, g.home)) \/ g.home \in left

-----------------------------------------------------------------------------
(* Instance ids.                                                           *)

\* The lock file of i is marked, or a creator that has it locked will mark it.
Claimed(i) ==
  \/ link[i] \in inUse
  \/ \E p \in Procs : pc[p] = "mark" /\ \E l \in locks[p] : l.ino = link[i]

\* clear will remove the lock file of i, or i is lost.
Lost(i) == i \in stray \/ \E p \in Procs : i \in Unlinking(p)

\* Nobody but p knows of the group that p is about to add, which is that of the
\* ids it has locked.
Fresh(p) ==
  pc[p] = "alloc" /\ data[p] # {} =>
    /\ copy[p].home # 0 /\ copy[p].ids = Requested(p)
    /\ \A g \in groups : g.home # copy[p].home
    /\ \A q \in Procs \ {p} : \A g \in KnownTo(q) : g.home # copy[p].home

\* With own, the home of the group for which an inode was last marked: an id
\* that is claimed belongs to that group, and one that remove has unlinked, not
\* to the group that it removes.
Owned(own) ==
  /\ \A i \in Id : Claimed(i) =>
       Lost(i) \/ \E g \in groups : g.home = own[link[i]] /\ i \in g.ids
  /\ \A q \in Procs : cmd[q] = "remove" =>
       \A i \in copy[q].ids \ rest[q] : Claimed(i) => Lost(i) \/ own[link[i]] # copy[q].home

LeakInv ==
  /\ OneName /\ KnownInv
  /\ \A p \in Procs : Fresh(p)
  /\ \E own \in [Inode -> Home \cup {0}] : Owned(own)

-----------------------------------------------------------------------------
(* Types.                                                                  *)

\* Inodes are positive numbers.
LEMMA InodeNat == Inode \subseteq Nat \ {NoInode}
BY DEF Inode, NoInode

\* NoGroup is not a group.
LEMMA NoGroupIsNone == NoGroup \notin Group
BY DEF Group, NoGroup, Home

\* Whose variables a step changes.
Others(p) ==
  \A q \in Procs \ {p} :
     /\ cmd'[q] = cmd[q] /\ pc'[q] = pc[q] /\ sig'[q] = sig[q]
     /\ todo'[q] = todo[q] /\ trying'[q] = trying[q] /\ locks'[q] = locks[q]
     /\ copy'[q] = copy[q] /\ rest'[q] = rest[q] /\ pending'[q] = pending[q]
     /\ data'[q] = data[q] /\ cancel'[q] = cancel[q]

\* What is left of a command that has returned.
Gone(p) ==
  /\ cmd'[p] = "none" /\ pc'[p] = "idle" /\ sig'[p] = "none"
  /\ todo'[p] = <<>> /\ trying'[p] = NoLock /\ locks'[p] = {}
  /\ copy'[p] = NoGroup /\ rest'[p] = {} /\ pending'[p] = {}
  /\ data'[p] = {} /\ cancel'[p] = {}

\* A step that only moves on, with what it has loaded or without.
Moves(p, where) ==
  /\ pc'[p] = where /\ data'[p] = {}
  /\ UNCHANGED <<cmd, sig, todo, trying, locks, copy, rest, pending, cancel>>

\* A step of p does not change what the other processes are in the middle of.
LEMMA ShapeOthers ==
  ASSUME IMTypes, NEW p \in Procs, Others(p), Shape(p)'
  PROVE  \A q \in Procs : Shape(q)'
<1>1. ASSUME NEW q \in Procs, q # p
      PROVE  Shape(q)'
  <2>1. Shape(q)
    BY DEF IMTypes, Sound
  <2> QED BY <1>1, <2>1 DEF Others, Shape
<1> QED BY <1>1

\* A process that has ended keeps nothing.
LEMMA ExitTypes ==
  ASSUME IMTypes, NEW p \in Procs, Exit(p)
  PROVE  /\ ProcTypes' /\ Gone(p) /\ Others(p)
         /\ \A q \in Procs : Shape(q)'
<1>1. ProcTypes
  BY DEF IMTypes, Sound
<1>2. /\ cmd' = [cmd EXCEPT ![p] = "none"]
      /\ pc' = [pc EXCEPT ![p] = "idle"]
      /\ sig' = [sig EXCEPT ![p] = "none"]
      /\ todo' = [todo EXCEPT ![p] = <<>>]
      /\ trying' = [trying EXCEPT ![p] = NoLock]
      /\ locks' = [locks EXCEPT ![p] = {}]
      /\ copy' = [copy EXCEPT ![p] = NoGroup]
      /\ rest' = [rest EXCEPT ![p] = {}]
      /\ pending' = [pending EXCEPT ![p] = {}]
      /\ data' = [data EXCEPT ![p] = {}]
      /\ cancel' = [cancel EXCEPT ![p] = {}]
  BY DEF Exit, Go
<1>3. NoLock \in [id : Id \cup {0}, ino : Inode \cup {NoInode}] /\ <<>> \in Seq(Id \cup {AnyId})
  BY DEF NoLock
<1>4. Gone(p) /\ Others(p)
  BY <1>1, <1>2 DEF ProcTypes, Gone, Others
<1>5. ProcTypes'
  BY <1>1, <1>2, <1>3 DEF ProcTypes, Places
<1>6. Shape(p)'
  BY <1>4 DEF Shape, Gone
<1> QED BY <1>4, <1>5, <1>6, ShapeOthers

\* A command that ends without touching the files or the devices.
LEMMA ExitStep ==
  ASSUME IMTypes, NEW p \in Procs, Exit(p), UNCHANGED <<link, inUse, device, dirs, made>>
  PROVE  Sound' /\ Others(p) /\ Gone(p)
BY ExitTypes DEF IMTypes, Sound, WorldTypes

\* The ids of the copy that a command works with are ids.
LEMMA CopyIds ==
  ASSUME IMTypes, NEW p \in Procs
  PROVE  copy[p].ids \in SUBSET Id
<1>1. copy[p] \in Group \cup {NoGroup}
  BY DEF IMTypes, Sound, ProcTypes
<1>2. CASE copy[p] \in Group
  BY <1>2 DEF Group
<1>3. CASE copy[p] = NoGroup
  BY <1>3 DEF NoGroup
<1> QED BY <1>1, <1>2, <1>3

\* A process loads groups of the database.
LEMMA ReadableAre ==
  ASSUME IMTypes, NEW db \in Readable
  PROVE  db \in SUBSET groups /\ db \in SUBSET Group
BY DEF Readable, IMTypes, DbTypes

\* The group of an update, among the others that were loaded.
LEMMA UpdatedIs ==
  ASSUME IMTypes, NEW g \in Group, NEW db \in Readable, NEW state \in InstanceState
  PROVE  /\ Updated(db, g, state) \in SUBSET Group
         /\ \E u \in Group : /\ u.name = g.name /\ u.home = g.home /\ u.ids = g.ids
                             /\ u.state = state
                             /\ Updated(db, g, state) = {h \in db : h.name # g.name} \cup {u}
<1> DEFINE u == [g EXCEPT !.state = state]
<1>1. u \in Group /\ u.name = g.name /\ u.home = g.home /\ u.ids = g.ids /\ u.state = state
  BY DEF Group
<1>2. Updated(db, g, state) = {h \in db : h.name # g.name} \cup {u}
  BY DEF Updated
<1> HIDE DEF u
<1> QED BY <1>1, <1>2, ReadableAre

\* A command is begun.
LEMMA BeginTypes ==
  ASSUME IMTypes, NEW p \in Procs, NEW c \in CommandNames, NEW where \in Places,
         Begin(p, c), Go(p, where), sig' = sig
  PROVE  /\ cmd[p] = "none" /\ pc[p] = "idle" /\ sig[p] = "none"
         /\ data[p] = {} /\ cancel[p] = {} /\ rest[p] = {}
         /\ cmd' \in [Procs -> CommandNames \cup {"none"}] /\ cmd'[p] = c
         /\ pc' \in [Procs -> Places] /\ pc'[p] = where
         /\ sig' \in [Procs -> {"none", "caught", "cancelled"}] /\ sig'[p] = "none"
         /\ \A q \in Procs \ {p} : cmd'[q] = cmd[q] /\ pc'[q] = pc[q] /\ sig'[q] = sig[q]
BY DEF IMTypes, Sound, ProcTypes, Shape, Begin, Go

\* create begins with the requested ids in the order of LockOrder.
LEMMA CreateTypes ==
  ASSUME IMTypes, NEW p \in Procs, Create(p)
  PROVE  Sound' /\ Others(p) /\ pc[p] = "idle" /\ pc'[p] = "alloc"
<1>1. PICK r \in Requests : todo' = [todo EXCEPT ![p] = LockOrder(r)]
  BY DEF Create
<1>2. /\ Begin(p, "create") /\ Go(p, "alloc")
      /\ UNCHANGED <<link, inUse, sig, trying, locks, copy, rest, pending, data, cancel,
                     device, dirs, made>>
  BY DEF Create, fileVars, workVars, loadVars, worldVars
<1>3. /\ cmd' \in [Procs -> CommandNames \cup {"none"}] /\ cmd'[p] = "create"
      /\ pc' \in [Procs -> Places] /\ pc[p] = "idle" /\ pc'[p] = "alloc"
      /\ sig' \in [Procs -> {"none", "caught", "cancelled"}] /\ sig'[p] = "none"
      /\ data[p] = {} /\ cancel[p] = {}
      /\ \A q \in Procs \ {p} : cmd'[q] = cmd[q] /\ pc'[q] = pc[q] /\ sig'[q] = sig[q]
  BY <1>2, BeginTypes DEF Places, CommandNames
<1>4. LockOrder(r) \in Seq(Id \cup {AnyId})
  BY InstanceManagerAssumption
<1>5. /\ todo' \in [Procs -> Seq(Id \cup {AnyId})]
      /\ \A q \in Procs \ {p} : todo'[q] = todo[q]
  BY <1>1, <1>4 DEF IMTypes, Sound, ProcTypes
<1>6. ProcTypes' /\ WorldTypes' /\ Others(p)
  BY <1>2, <1>3, <1>5 DEF IMTypes, Sound, ProcTypes, WorldTypes, Others
<1>7. Shape(p)'
  BY <1>2, <1>3 DEF Shape
<1> QED BY <1>3, <1>6, <1>7, ShapeOthers DEF Sound

\* start and stop read a group.
LEMMA StartStopTypes ==
  ASSUME IMTypes, NEW p \in Procs, Start(p) \/ Stop(p)
  PROVE  Sound' /\ Others(p) /\ pc[p] = "idle" /\ sig'[p] = "none"
<1>1. PICK g \in groups : copy' = [copy EXCEPT ![p] = g]
  BY DEF Start, Stop
<1>2. /\ \/ Begin(p, "start") /\ Go(p, "starting")
         \/ Begin(p, "stop") /\ Go(p, "stopcvd")
      /\ UNCHANGED <<link, inUse, sig, todo, trying, locks, rest, pending, data, cancel,
                     device, dirs, made>>
  BY DEF Start, Stop, fileVars, allocVars, loadVars, worldVars
<1>3. /\ cmd' \in [Procs -> CommandNames \cup {"none"}]
      /\ pc' \in [Procs -> Places] /\ pc[p] = "idle"
      /\ sig' \in [Procs -> {"none", "caught", "cancelled"}] /\ sig'[p] = "none"
      /\ data[p] = {} /\ cancel[p] = {}
      /\ \/ cmd'[p] = "start" /\ pc'[p] = "starting"
         \/ cmd'[p] = "stop" /\ pc'[p] = "stopcvd"
      /\ \A q \in Procs \ {p} : cmd'[q] = cmd[q] /\ pc'[q] = pc[q] /\ sig'[q] = sig[q]
  BY <1>2, BeginTypes DEF Places, CommandNames, Listening
<1>4. /\ copy' \in [Procs -> Group \cup {NoGroup}] /\ copy'[p] = g /\ g \in Group
      /\ \A q \in Procs \ {p} : copy'[q] = copy[q]
  BY <1>1 DEF IMTypes, Sound, ProcTypes, DbTypes
<1>5. ProcTypes' /\ WorldTypes' /\ Others(p)
  BY <1>2, <1>3, <1>4 DEF IMTypes, Sound, ProcTypes, WorldTypes, Others
<1>6. Shape(p)'
  BY <1>2, <1>3, <1>4 DEF Shape
<1> QED BY <1>3, <1>5, <1>6, ShapeOthers DEF Sound

\* remove, or the next group of clear.
LEMMA DropTypes ==
  ASSUME IMTypes, NEW p \in Procs, NEW g \in Group, Drop(p, g)
  PROVE  /\ copy' \in [Procs -> Group \cup {NoGroup}] /\ copy'[p] = g
         /\ rest' \in [Procs -> SUBSET Id] /\ rest'[p] = g.ids
         /\ pc' \in [Procs -> Places] /\ pc'[p] \in {"stopcvd", "unlink"}
         /\ g # NoGroup
         /\ \A q \in Procs \ {p} : copy'[q] = copy[q] /\ rest'[q] = rest[q] /\ pc'[q] = pc[q]
<1>1. g.ids \in SUBSET Id /\ g # NoGroup
  BY DEF Group, NoGroup, Home
<1> QED BY <1>1 DEF Drop, Go, IMTypes, Sound, ProcTypes, Places, Listening

\* remove begins with a copy of one group.
LEMMA RemoveTypes ==
  ASSUME IMTypes, NEW p \in Procs, Remove(p)
  PROVE  Sound' /\ Others(p) /\ pc[p] = "idle" /\ pc'[p] \in {"stopcvd", "unlink"}
<1>1. PICK g \in groups : Drop(p, g)
  BY DEF Remove
<1>2. g \in Group
  BY DEF IMTypes, DbTypes
<1>3. /\ pc[p] = "idle" /\ cmd' = [cmd EXCEPT ![p] = "remove"]
      /\ UNCHANGED <<link, inUse, sig, todo, trying, locks, pending, data, cancel,
                     device, dirs, made>>
  BY DEF Remove, Begin, fileVars, allocVars, loadVars, worldVars
<1>4. ProcTypes' /\ WorldTypes' /\ Others(p)
  BY <1>1, <1>2, <1>3, DropTypes DEF IMTypes, Sound, ProcTypes, WorldTypes, Others, CommandNames
<1>5. cmd'[p] = "remove" /\ sig'[p] = "none" /\ data'[p] = {} /\ cancel'[p] = {}
  BY <1>3 DEF IMTypes, Sound, ProcTypes, Shape
<1>6. Shape(p)'
  BY <1>1, <1>2, <1>3, <1>5, DropTypes DEF Shape
<1> QED BY <1>1, <1>2, <1>3, <1>4, <1>6, DropTypes, ShapeOthers DEF Sound

\* clear and reset take up the next group.
LEMMA NextGroupTypes ==
  ASSUME IMTypes, NEW p \in Procs, NextGroup(p)
  PROVE  Sound' /\ Others(p) /\ pc'[p] \in {"stopcvd", "unlink"}
<1>1. PICK g \in pending[p] : /\ Drop(p, g)
                              /\ pending' = [pending EXCEPT ![p] = @ \ {g}]
  BY DEF NextGroup
<1>2. g \in Group
  BY DEF IMTypes, Sound, ProcTypes
<1>3. /\ pc[p] = "next"
      /\ UNCHANGED <<link, inUse, cmd, sig, todo, trying, locks, data, cancel, device, dirs, made>>
  BY DEF NextGroup, fileVars, allocVars, loadVars, worldVars
<1>4. ProcTypes' /\ WorldTypes' /\ Others(p)
  BY <1>1, <1>2, <1>3, DropTypes DEF IMTypes, Sound, ProcTypes, WorldTypes, Others
<1>5. cmd'[p] \in {"clear", "reset"} /\ sig'[p] = "none" /\ data'[p] = {} /\ cancel'[p] = {}
  BY <1>3 DEF IMTypes, Sound, ProcTypes, Shape
<1>6. Shape(p)'
  BY <1>1, <1>2, <1>3, <1>5, DropTypes DEF Shape
<1> QED BY <1>1, <1>2, <1>4, <1>6, DropTypes, ShapeOthers DEF Sound

\* clear and reset begin with the groups that they have loaded.
LEMMA ClearTypes ==
  ASSUME IMTypes, NEW p \in Procs, Clear(p)
  PROVE  /\ Sound' /\ Others(p) /\ pc[p] = "idle" /\ pc'[p] = "clear"
         /\ pending'[p] \in Readable /\ data'[p] = {{}} /\ rest'[p] = {}
         /\ cmd'[p] \in {"clear", "reset"} /\ UNCHANGED <<copy, cancel, made>>
<1>1. PICK db \in Readable : pending' = [pending EXCEPT ![p] = db]
  BY DEF Clear
<1>2. /\ Begin(p, "clear") \/ Begin(p, "reset")
      /\ Go(p, "clear")
      /\ data' = [data EXCEPT ![p] = {{}}]
      /\ UNCHANGED <<link, inUse, sig, todo, trying, locks, copy, rest, cancel,
                     device, dirs, made>>
  BY DEF Clear, fileVars, allocVars, worldVars
<1>3. /\ cmd' \in [Procs -> CommandNames \cup {"none"}] /\ cmd'[p] \in {"clear", "reset"}
      /\ pc' \in [Procs -> Places] /\ pc[p] = "idle" /\ pc'[p] = "clear"
      /\ sig' \in [Procs -> {"none", "caught", "cancelled"}] /\ sig'[p] = "none"
      /\ data[p] = {} /\ cancel[p] = {} /\ rest[p] = {}
      /\ \A q \in Procs \ {p} : cmd'[q] = cmd[q] /\ pc'[q] = pc[q] /\ sig'[q] = sig[q]
  BY <1>2, BeginTypes DEF Places, CommandNames
<1>4. db \in SUBSET Group /\ {{}} \in SUBSET SUBSET Group
  BY ReadableAre
<1>5. /\ pending' \in [Procs -> SUBSET Group] /\ pending'[p] = db
      /\ data' \in [Procs -> SUBSET SUBSET Group] /\ data'[p] = {{}}
      /\ \A q \in Procs \ {p} : pending'[q] = pending[q] /\ data'[q] = data[q]
  BY <1>1, <1>2, <1>4 DEF IMTypes, Sound, ProcTypes
<1>6. ProcTypes' /\ Others(p) /\ WorldTypes'
  BY <1>2, <1>3, <1>5 DEF IMTypes, Sound, ProcTypes, WorldTypes, Others
<1>7. Shape(p)'
  BY <1>2, <1>3, <1>5 DEF Shape
<1> QED BY <1>2, <1>3, <1>5, <1>6, <1>7, ShapeOthers DEF Sound

\* A step of a command that only moves on.
LEMMA GoTypes ==
  ASSUME IMTypes, NEW p \in Procs, NEW where \in Places, Go(p, where),
         UNCHANGED <<cmd, sig, todo, trying, locks, copy, rest, pending, cancel>>,
         data' = [data EXCEPT ![p] = {}] \/ (data' = data /\ data[p] = {})
  PROVE  ProcTypes' /\ Others(p) /\ Moves(p, where)
BY DEF IMTypes, Sound, ProcTypes, Go, Others, Moves


\* open() of a lock file.
LEMMA OpenTypes ==
  ASSUME IMTypes, NEW p \in Procs, NEW i \in Id, NEW where \in {"lock", "try"},
         cmd[p] = "create", pc[p] = "alloc", todo[p] # <<>>, OpenLockFile(p, i), Go(p, where),
         UNCHANGED <<cmd, sig, todo, locks, copy, rest, pending, data, cancel, device, dirs, made>>
  PROVE  /\ Sound' /\ Others(p)
         /\ \E n \in Inode :
              /\ IF link[i] = NoInode THEN IsFree(n) ELSE n = link[i]
              /\ link' = [link EXCEPT ![i] = n]
              /\ inUse' = IF link[i] = NoInode THEN inUse \ {n} ELSE inUse
              /\ trying'[p] = [id |-> i, ino |-> n]
         /\ pc'[p] = where
<1>1. PICK n \in Inode :
        /\ IF link[i] = NoInode THEN IsFree(n) ELSE n = link[i]
        /\ link' = [link EXCEPT ![i] = n]
        /\ inUse' = IF link[i] = NoInode THEN inUse \ {n} ELSE inUse
        /\ trying' = [trying EXCEPT ![p] = [id |-> i, ino |-> n]]
  BY DEF OpenLockFile, IsFirstFree
<1> DEFINE h == [id |-> i, ino |-> n]
<1>2. h \in Handle /\ h \in [id : Id \cup {0}, ino : Inode \cup {NoInode}]
  BY DEF Handle
<1> HIDE DEF h
<1>3. /\ trying' \in [Procs -> [id : Id \cup {0}, ino : Inode \cup {NoInode}]]
      /\ trying'[p] = h
      /\ \A q \in Procs \ {p} : trying'[q] = trying[q]
  BY <1>1, <1>2 DEF IMTypes, Sound, ProcTypes, h
<1>4. /\ pc' \in [Procs -> Places] /\ pc'[p] = where
      /\ \A q \in Procs \ {p} : pc'[q] = pc[q]
  BY DEF Go, IMTypes, Sound, ProcTypes, Places
<1>5. WorldTypes'
  BY <1>1 DEF IMTypes, Sound, WorldTypes
<1>6. ProcTypes' /\ Others(p)
  BY <1>3, <1>4 DEF IMTypes, Sound, ProcTypes, Others
<1>7. Shape(p)'
  BY <1>2, <1>3, <1>4 DEF IMTypes, Sound, Shape
<1>8. Sound'
  BY <1>5, <1>6, <1>7, ShapeOthers DEF IMTypes, Sound
<1> QED BY <1>1, <1>3, <1>4, <1>6, <1>8 DEF h

\* The next request is an id or any id.
LEMMA HeadTodo ==
  ASSUME IMTypes, NEW p \in Procs, todo[p] # <<>>
  PROVE  Head(todo[p]) \in Id \cup {AnyId}
<1>1. todo[p] \in Seq(Id \cup {AnyId})
  BY DEF IMTypes, Sound, ProcTypes
<1> HIDE DEF Id, AnyId
<1> QED BY <1>1, HeadTailProperties

\* open() of the lock file of a requested id, which creates it if there is none.
LEMMA OpenRequestedTypes ==
  ASSUME IMTypes, NEW p \in Procs, OpenRequested(p)
  PROVE  /\ Head(todo[p]) \in Id /\ cmd[p] = "create"
         /\ Sound' /\ Others(p) /\ pc'[p] = "lock"
         /\ \E n \in Inode : LET i == Head(todo[p]) IN
              /\ IF link[i] = NoInode THEN IsFree(n) ELSE n = link[i]
              /\ link' = [link EXCEPT ![i] = n]
              /\ inUse' = IF link[i] = NoInode THEN inUse \ {n} ELSE inUse
              /\ trying'[p] = [id |-> i, ino |-> n]
<1>1. /\ pc[p] = "alloc" /\ todo[p] # <<>> /\ Head(todo[p]) # AnyId
      /\ OpenLockFile(p, Head(todo[p])) /\ Go(p, "lock")
      /\ UNCHANGED <<cmd, sig, todo, locks, copy, rest, pending, data, cancel, device, dirs, made>>
  BY DEF OpenRequested, workVars, loadVars, worldVars
<1>2. Head(todo[p]) \in Id
  BY <1>1, HeadTodo
<1>3. cmd[p] = "create"
  BY <1>1 DEF IMTypes, Sound, Shape
<1> QED BY <1>1, <1>2, <1>3, OpenTypes

\* open() of the next lock file in the search for an unused id.
LEMMA OpenUnusedTypes ==
  ASSUME IMTypes, NEW p \in Procs, OpenUnused(p)
  PROVE  /\ trying[p].id + 1 \in Id /\ cmd[p] = "create"
         /\ Sound' /\ Others(p) /\ pc'[p] = "try"
         /\ \E n \in Inode : LET i == trying[p].id + 1 IN
              /\ IF link[i] = NoInode THEN IsFree(n) ELSE n = link[i]
              /\ link' = [link EXCEPT ![i] = n]
              /\ inUse' = IF link[i] = NoInode THEN inUse \ {n} ELSE inUse
              /\ trying'[p] = [id |-> i, ino |-> n]
<1>1. /\ pc[p] = "alloc" /\ todo[p] # <<>> /\ trying[p].id < MaxId
      /\ OpenLockFile(p, trying[p].id + 1) /\ Go(p, "try")
      /\ UNCHANGED <<cmd, sig, todo, locks, copy, rest, pending, data, cancel, device, dirs, made>>
  BY DEF OpenUnused, workVars, loadVars, worldVars
<1>2. trying[p].id \in Id \cup {0}
  BY DEF IMTypes, Sound, ProcTypes
<1>3. trying[p].id + 1 \in Id
  BY <1>1, <1>2, InstanceManagerAssumption DEF Id
<1>4. cmd[p] = "create"
  BY <1>1 DEF IMTypes, Sound, Shape
<1> QED BY <1>1, <1>3, <1>4, OpenTypes

\* An acquired lock is kept, and the next id is sought.
LEMMA KeepTypes ==
  ASSUME IMTypes, NEW p \in Procs, pc[p] \in {"lock", "try"}, Keep(p),
         todo[p] # <<>>,
         UNCHANGED <<link, inUse, cmd, sig, copy, rest, pending, data, cancel, device, dirs, made>>
  PROVE  /\ Sound' /\ Others(p)
         /\ trying[p] \in Handle
         /\ locks'[p] = locks[p] \cup {trying[p]} /\ trying'[p] = NoLock
         /\ todo'[p] = Tail(todo[p]) /\ pc'[p] = "alloc"
<1>1. trying[p] \in Handle /\ cmd[p] = "create"
  BY DEF IMTypes, Sound, Shape
<1>2. todo[p] \in Seq(Id \cup {AnyId})
  BY DEF IMTypes, Sound, ProcTypes
<1>3. Tail(todo[p]) \in Seq(Id \cup {AnyId})
  <2> HIDE DEF Id, AnyId
  <2> QED BY <1>2, HeadTailProperties
<1>4. NoLock \in [id : Id \cup {0}, ino : Inode \cup {NoInode}]
  BY DEF NoLock
<1>5. /\ locks' \in [Procs -> SUBSET Handle] /\ locks'[p] = locks[p] \cup {trying[p]}
      /\ trying' \in [Procs -> [id : Id \cup {0}, ino : Inode \cup {NoInode}]]
      /\ trying'[p] = NoLock
      /\ todo' \in [Procs -> Seq(Id \cup {AnyId})] /\ todo'[p] = Tail(todo[p])
      /\ pc' \in [Procs -> Places] /\ pc'[p] = "alloc"
      /\ \A q \in Procs \ {p} : /\ locks'[q] = locks[q] /\ trying'[q] = trying[q]
                                /\ todo'[q] = todo[q] /\ pc'[q] = pc[q]
  BY <1>1, <1>3, <1>4 DEF IMTypes, Sound, ProcTypes, Keep, Go, Places
<1>6. ProcTypes' /\ WorldTypes' /\ Others(p)
  BY <1>5 DEF IMTypes, Sound, ProcTypes, WorldTypes, Others
<1>7. Shape(p)'
  BY <1>1, <1>5 DEF IMTypes, Sound, Shape
<1> QED BY <1>1, <1>5, <1>6, <1>7, ShapeOthers DEF IMTypes, Sound

\* The blocking flock() of a requested id.
LEMMA AcquireLockTypes ==
  ASSUME IMTypes, NEW p \in Procs, AcquireLock(p)
  PROVE  /\ Sound' /\ Others(p)
         /\ trying[p] \in Handle
         /\ locks'[p] = locks[p] \cup {trying[p]} /\ trying'[p] = NoLock
         /\ todo'[p] = Tail(todo[p]) /\ pc'[p] = "alloc"
<1>1. /\ pc[p] = "lock" /\ Keep(p)
      /\ UNCHANGED <<link, inUse, cmd, sig, copy, rest, pending, data, cancel, device, dirs, made>>
  BY DEF AcquireLock, fileVars, workVars, loadVars, worldVars
<1>2. todo[p] # <<>>
  BY <1>1 DEF IMTypes, Sound, Shape
<1> QED BY <1>1, <1>2, KeepTypes

\* TryAcquireLock that fails closes the file and remembers the id.
LEMMA TryAcquireLockTypes ==
  ASSUME IMTypes, NEW p \in Procs, TryAcquireLock(p)
  PROVE  /\ Sound' /\ Others(p) /\ pc'[p] = "alloc"
         /\ \/ /\ ~Locked(trying[p].ino)
               /\ trying[p] \in Handle
               /\ locks'[p] = locks[p] \cup {trying[p]} /\ trying'[p] = NoLock
               /\ todo'[p] = Tail(todo[p])
            \/ /\ locks' = locks /\ todo' = todo
               /\ trying'[p].ino = NoInode
<1>1. /\ pc[p] = "try"
      /\ UNCHANGED <<link, inUse, cmd, sig, copy, rest, pending, data, cancel, device, dirs, made>>
  BY DEF TryAcquireLock, fileVars, workVars, loadVars, worldVars
<1>2. todo[p] # <<>> /\ cmd[p] = "create"
  BY <1>1 DEF IMTypes, Sound, Shape
<1>3. CASE IsUnused(trying[p].ino)
  <2>1. Keep(p) /\ ~Locked(trying[p].ino)
    BY <1>3 DEF TryAcquireLock, IsUnused
  <2> QED BY <1>1, <1>2, <2>1, KeepTypes
<1>4. CASE ~IsUnused(trying[p].ino)
  <2>1. /\ trying' = [trying EXCEPT ![p].ino = NoInode]
        /\ Go(p, "alloc")
        /\ UNCHANGED <<todo, locks>>
    BY <1>4 DEF TryAcquireLock
  <2>2. /\ trying' \in [Procs -> [id : Id \cup {0}, ino : Inode \cup {NoInode}]]
        /\ trying'[p].ino = NoInode
        /\ \A q \in Procs \ {p} : trying'[q] = trying[q]
    BY <2>1 DEF IMTypes, Sound, ProcTypes
  <2>3. /\ pc' \in [Procs -> Places] /\ pc'[p] = "alloc"
        /\ \A q \in Procs \ {p} : pc'[q] = pc[q]
    BY <2>1 DEF IMTypes, Sound, ProcTypes, Go, Places
  <2>4. ProcTypes' /\ WorldTypes' /\ Others(p)
    BY <1>1, <2>1, <2>2, <2>3 DEF IMTypes, Sound, ProcTypes, WorldTypes, Others
  <2>5. Shape(p)'
    BY <1>1, <1>2, <2>3 DEF IMTypes, Sound, Shape
  <2> QED BY <2>1, <2>2, <2>3, <2>4, <2>5, ShapeOthers DEF IMTypes, Sound
<1> QED BY <1>3, <1>4


\* The new group, which is not in the database yet, has the ids that were locked.
LEMMA AddGroupTypes ==
  ASSUME IMTypes, NEW p \in Procs, AddGroup(p)
  PROVE  /\ Sound' /\ Others(p) /\ pc[p] = "alloc" /\ pc'[p] = "alloc"
         /\ UNCHANGED <<cmd, pc, sig, trying, locks, rest, pending, cancel>>
         /\ made' = made + 1
         /\ \E g \in Group : \E db \in Readable :
              /\ g.home = made' /\ g.ids = Requested(p) /\ g.state = "PREPARING"
              /\ copy'[p] = g /\ data'[p] = {db \cup {g}}
<1>1. PICK db \in Readable, n \in Home :
           /\ copy' = [copy EXCEPT ![p] = NewGroup(p, n)]
           /\ data' = [data EXCEPT ![p] = {db \cup {NewGroup(p, n)}}]
  BY DEF AddGroup
<1>2. /\ pc[p] = "alloc" /\ todo[p] = <<>> /\ made < MaxGroups
      /\ made' = made + 1 /\ dirs' = dirs \cup {made'}
      /\ UNCHANGED <<link, inUse, cmd, pc, sig, todo, trying, locks, rest, pending, cancel, device>>
  BY DEF AddGroup, fileVars, procVars, allocVars
<1>3. made + 1 \in Home
  BY <1>2, InstanceManagerAssumption DEF IMTypes, Sound, WorldTypes, Home
<1>4. Requested(p) \in SUBSET Id
  BY DEF IMTypes, Sound, ProcTypes, Requested, Handle
<1> DEFINE g == NewGroup(p, n)
<1>5. g \in Group /\ g.home = made' /\ g.ids = Requested(p) /\ g.state = "PREPARING"
  BY <1>2, <1>3, <1>4 DEF NewGroup, Group, InstanceState
<1> HIDE DEF g
<1>6. {db \cup {g}} \in SUBSET SUBSET Group
  BY <1>5, ReadableAre
<1>7. /\ copy' \in [Procs -> Group \cup {NoGroup}] /\ copy'[p] = g
      /\ data' \in [Procs -> SUBSET SUBSET Group] /\ data'[p] = {db \cup {g}}
      /\ \A q \in Procs \ {p} : copy'[q] = copy[q] /\ data'[q] = data[q]
  BY <1>1, <1>5, <1>6 DEF IMTypes, Sound, ProcTypes, g
<1>8. ProcTypes' /\ Others(p)
  BY <1>2, <1>7 DEF IMTypes, Sound, ProcTypes, Others
<1>9. WorldTypes'
  <2>1. made' \in 0 .. MaxGroups
    BY <1>2, <1>3, InstanceManagerAssumption DEF Home
  <2>2. dirs' \in SUBSET Home
    BY <1>2, <1>3 DEF IMTypes, Sound, WorldTypes
  <2> QED BY <1>2, <2>1, <2>2 DEF IMTypes, Sound, WorldTypes
<1>10. Shape(p)'
  BY <1>2, <1>5, <1>7 DEF IMTypes, Sound, Shape
<1> QED BY <1>2, <1>5, <1>7, <1>8, <1>9, <1>10, ShapeOthers DEF Sound

\* create stores its group and goes on to mark its lock files.
LEMMA AddedTypes ==
  ASSUME IMTypes, NEW p \in Procs, Added(p)
  PROVE  /\ Sound' /\ Others(p) /\ pc[p] = "alloc" /\ pc'[p] = "mark" /\ data[p] # {}
         /\ cmd[p] = "create" /\ data'[p] = {}
         /\ UNCHANGED <<link, inUse, cmd, sig, trying, locks, copy, pending, cancel, made>>
<1>1. /\ pc[p] = "alloc" /\ data' = [data EXCEPT ![p] = {}]
      /\ rest' = [rest EXCEPT ![p] = Requested(p)]
      /\ Go(p, "mark")
      /\ UNCHANGED <<link, inUse, cmd, sig, todo, trying, locks, copy, pending, cancel,
                     device, dirs, made>>
  BY DEF Added, fileVars, allocVars, worldVars
<1>2. data[p] # {}
  BY DEF Added, StoreData
<1>3. Requested(p) \in SUBSET Id
  BY DEF IMTypes, Sound, ProcTypes, Requested, Handle
<1>4. /\ data' \in [Procs -> SUBSET SUBSET Group] /\ data'[p] = {}
      /\ rest' \in [Procs -> SUBSET Id]
      /\ pc' \in [Procs -> Places] /\ pc'[p] = "mark"
      /\ \A q \in Procs \ {p} : data'[q] = data[q] /\ rest'[q] = rest[q] /\ pc'[q] = pc[q]
  BY <1>1, <1>3 DEF IMTypes, Sound, ProcTypes, Go, Places
<1>5. ProcTypes' /\ WorldTypes' /\ Others(p)
  BY <1>1, <1>4 DEF IMTypes, Sound, ProcTypes, WorldTypes, Others
<1>6. cmd[p] = "create" /\ copy[p] \in Group /\ Shape(p)'
  BY <1>1, <1>2, <1>4 DEF IMTypes, Sound, Shape
<1> QED BY <1>1, <1>2, <1>4, <1>5, <1>6, ShapeOthers DEF Sound

\* The states of the updates, by the place they are made at.
LEMMA UpdatesAre ==
  ASSUME NEW u \in Updates
  PROVE  /\ u[1] \in {"created", "starting", "bootFailed", "launched", "stopped"}
         /\ u[2] \in InstanceState
         /\ u[1] # "starting" => u[2] \notin Unfinished
BY DEF Updates, InstanceState, Unfinished

\* An update is loaded and made, but not stored.
LEMMA LoadForUpdateTypes ==
  ASSUME IMTypes, NEW p \in Procs, LoadForUpdate(p)
  PROVE  /\ Sound' /\ Others(p) /\ copy[p] \in Group
         /\ UNCHANGED <<cmd, pc, sig, trying, locks, copy, rest, pending, cancel, made>>
         /\ pc[p] \in {"created", "starting", "bootFailed", "launched", "stopped"}
         /\ \E db \in Readable : \E state \in InstanceState :
              /\ pc[p] # "starting" => state \notin Unfinished
              /\ data'[p] = {Updated(db, copy[p], state)}
<1>1. PICK u \in Updates, db \in Readable :
           pc[p] = u[1] /\ data' = [data EXCEPT ![p] = {Updated(db, copy[p], u[2])}]
  BY DEF LoadForUpdate
<1>2. /\ UNCHANGED <<link, inUse, cmd, pc, sig, todo, trying, locks, copy, rest, pending, cancel,
                     device, dirs, made>>
  BY DEF LoadForUpdate, fileVars, procVars, allocVars, workVars, worldVars
<1>3. /\ pc[p] \in {"created", "starting", "bootFailed", "launched", "stopped"}
      /\ u[2] \in InstanceState /\ (pc[p] # "starting" => u[2] \notin Unfinished)
  BY <1>1, UpdatesAre
<1>4. copy[p] \in Group
  BY <1>3 DEF IMTypes, Sound, Shape
<1>5. {Updated(db, copy[p], u[2])} \in SUBSET SUBSET Group
  BY <1>3, <1>4, UpdatedIs
<1>6. /\ data' \in [Procs -> SUBSET SUBSET Group] /\ data'[p] = {Updated(db, copy[p], u[2])}
      /\ \A q \in Procs \ {p} : data'[q] = data[q]
  BY <1>1, <1>5 DEF IMTypes, Sound, ProcTypes
<1>7. ProcTypes' /\ WorldTypes' /\ Others(p)
  BY <1>2, <1>6 DEF IMTypes, Sound, ProcTypes, WorldTypes, Others
<1>8. Shape(p)'
  BY <1>2, <1>3 DEF IMTypes, Sound, Shape
<1> QED BY <1>2, <1>3, <1>4, <1>6, <1>7, <1>8, ShapeOthers DEF Sound

\* The listener does the same beside the command.
LEMMA LoadForCancelTypes ==
  ASSUME IMTypes, NEW p \in Procs, LoadForCancel(p)
  PROVE  /\ Sound' /\ Others(p) /\ copy[p] \in Group
         /\ UNCHANGED <<cmd, pc, sig, trying, locks, copy, rest, pending, data, made>>
         /\ \E db \in Readable : cancel'[p] = {Updated(db, copy[p], "CANCELLED")}
<1>1. PICK db \in Readable : cancel' = [cancel EXCEPT ![p] = {Updated(db, copy[p], "CANCELLED")}]
  BY DEF LoadForCancel
<1>2. /\ sig[p] = "caught"
      /\ UNCHANGED <<link, inUse, cmd, pc, sig, todo, trying, locks, copy, rest, pending, data,
                     device, dirs, made>>
  BY DEF LoadForCancel, fileVars, procVars, allocVars, workVars, worldVars
<1>3. copy[p] \in Group
  BY <1>2 DEF IMTypes, Sound, Shape
<1>4. {Updated(db, copy[p], "CANCELLED")} \in SUBSET SUBSET Group
  BY <1>3, UpdatedIs DEF InstanceState
<1>5. /\ cancel' \in [Procs -> SUBSET SUBSET Group]
      /\ cancel'[p] = {Updated(db, copy[p], "CANCELLED")}
      /\ \A q \in Procs \ {p} : cancel'[q] = cancel[q]
  BY <1>1, <1>4 DEF IMTypes, Sound, ProcTypes
<1>6. ProcTypes' /\ WorldTypes' /\ Others(p)
  BY <1>2, <1>5 DEF IMTypes, Sound, ProcTypes, WorldTypes, Others
<1>7. Shape(p)'
  BY <1>2 DEF IMTypes, Sound, Shape
<1> QED BY <1>2, <1>3, <1>5, <1>6, <1>7, ShapeOthers DEF Sound

\* remove takes its group out of what it has loaded.
LEMMA LoadForEraseTypes ==
  ASSUME IMTypes, NEW p \in Procs, LoadForErase(p)
  PROVE  /\ Sound' /\ Others(p) /\ pc[p] = "erase" /\ copy[p] \in Group
         /\ UNCHANGED <<cmd, pc, sig, trying, locks, copy, rest, pending, cancel, made>>
         /\ \E db \in Readable : data'[p] = {{h \in db : h.name # copy[p].name}}
<1>1. PICK db \in Readable : data' = [data EXCEPT ![p] = {{h \in db : h.name # copy[p].name}}]
  BY DEF LoadForErase
<1>2. /\ pc[p] = "erase"
      /\ UNCHANGED <<link, inUse, cmd, pc, sig, todo, trying, locks, copy, rest, pending, cancel,
                     device, dirs, made>>
  BY DEF LoadForErase, fileVars, procVars, allocVars, workVars, worldVars
<1>3. copy[p] \in Group
  BY <1>2 DEF IMTypes, Sound, Shape
<1> DEFINE d == {h \in db : h.name # copy[p].name}
<1>4. {d} \in SUBSET SUBSET Group
  BY ReadableAre
<1> HIDE DEF d
<1>5. /\ data' \in [Procs -> SUBSET SUBSET Group] /\ data'[p] = {d}
      /\ \A q \in Procs \ {p} : data'[q] = data[q]
  BY <1>1, <1>4 DEF IMTypes, Sound, ProcTypes, d
<1>6. ProcTypes' /\ WorldTypes' /\ Others(p)
  BY <1>2, <1>5 DEF IMTypes, Sound, ProcTypes, WorldTypes, Others
<1>7. Shape(p)'
  BY <1>2 DEF IMTypes, Sound, Shape
<1> QED BY <1>2, <1>3, <1>5, <1>6, <1>7, ShapeOthers DEF Sound, d

\* SetInUse writes into the inode of a lock that the process holds.
LEMMA MarkInUseTypes ==
  ASSUME IMTypes, NEW p \in Procs, MarkInUse(p)
  PROVE  /\ Sound' /\ Others(p)
         /\ \E l \in locks[p] : inUse' = inUse \cup {l.ino}
<1>1. PICK l \in locks[p] : /\ l.id \in rest[p]
                            /\ inUse' = inUse \cup {l.ino}
                            /\ rest' = [rest EXCEPT ![p] = @ \ {l.id}]
  BY DEF MarkInUse
<1>2. /\ pc[p] = "mark"
      /\ UNCHANGED <<link, cmd, pc, sig, todo, trying, locks, copy, pending, data, cancel,
                     device, dirs, made>>
  BY DEF MarkInUse, procVars, loadVars, allocVars, worldVars
<1>3. l \in Handle
  BY DEF IMTypes, Sound, ProcTypes
<1>4. WorldTypes'
  BY <1>1, <1>2, <1>3 DEF IMTypes, Sound, WorldTypes, Handle
<1>5. ProcTypes' /\ Others(p)
  BY <1>1, <1>2 DEF IMTypes, Sound, ProcTypes, Others
<1>6. Shape(p)'
  BY <1>2 DEF IMTypes, Sound, Shape
<1> QED BY <1>1, <1>4, <1>5, <1>6, ShapeOthers DEF IMTypes, Sound

\* The locks are dropped when create returns.
LEMMA CreatedTypes ==
  ASSUME IMTypes, NEW p \in Procs, Created(p)
  PROVE  /\ Sound' /\ Others(p)
         /\ locks'[p] = {} /\ pc'[p] = "created"
<1>1. /\ pc[p] = "mark"
      /\ locks' = [locks EXCEPT ![p] = {}]
      /\ Go(p, "created")
      /\ UNCHANGED <<link, inUse, cmd, sig, todo, trying, copy, rest, pending, data, cancel,
                     device, dirs, made>>
  BY DEF Created, fileVars, workVars, loadVars, worldVars
<1>2. locks'[p] = {} /\ pc'[p] = "created"
  BY <1>1 DEF IMTypes, Sound, ProcTypes, Go
<1>3. ProcTypes' /\ WorldTypes' /\ Others(p)
  BY <1>1 DEF IMTypes, Sound, ProcTypes, WorldTypes, Others, Go, Places
<1>4. Shape(p)'
  BY <1>1, <1>2 DEF IMTypes, Sound, Shape
<1> QED BY <1>2, <1>3, <1>4, ShapeOthers DEF IMTypes, Sound


\* start stores STARTING, or ends when the group is not there any more.
LEMMA StartingTypes ==
  ASSUME IMTypes, NEW p \in Procs, Starting(p)
  PROVE  /\ Sound' /\ Others(p) /\ pc[p] = "starting" /\ cmd[p] = "start"
         /\ UNCHANGED <<link, inUse, made>>
         /\ \/ Gone(p) /\ UNCHANGED dbVars
            \/ StoreData(data[p], {copy[p].home}) /\ Moves(p, "launch")
<1>1. /\ pc[p] = "starting" /\ UNCHANGED <<link, inUse, device, dirs, made>>
  BY DEF Starting, fileVars, worldVars
<1>2. WorldTypes' /\ cmd[p] = "start" /\ copy[p] \in Group
  BY <1>1 DEF IMTypes, Sound, WorldTypes, Shape
<1>3. CASE /\ StoreData(data[p], {copy[p].home})
           /\ data' = [data EXCEPT ![p] = {}] /\ Go(p, "launch")
           /\ UNCHANGED <<cmd, sig, todo, trying, locks, copy, rest, pending, cancel>>
  <2>1. ProcTypes' /\ Others(p) /\ Moves(p, "launch")
    BY <1>3, GoTypes DEF Places, Listening
  <2>2. Shape(p)'
    BY <1>1, <1>2, <2>1 DEF IMTypes, Sound, Shape, Moves
  <2> QED BY <1>1, <1>2, <1>3, <2>1, <2>2, ShapeOthers DEF Sound
<1>4. CASE UNCHANGED dbVars /\ Exit(p)
  BY <1>1, <1>2, <1>4, ExitStep
<1>5. \/ /\ StoreData(data[p], {copy[p].home})
         /\ data' = [data EXCEPT ![p] = {}] /\ Go(p, "launch")
         /\ UNCHANGED <<cmd, sig, todo, trying, locks, copy, rest, pending, cancel>>
      \/ UNCHANGED dbVars /\ Exit(p)
  BY DEF Starting, NotFound, Finish, allocVars, workVars, dbVars
<1> QED BY <1>3, <1>4, <1>5

\* The devices of the group run.
LEMMA LaunchSucceedsTypes ==
  ASSUME IMTypes, NEW p \in Procs, LaunchSucceeds(p)
  PROVE  Sound' /\ Others(p) /\ pc[p] = "launch" /\ Moves(p, "launched")
<1>1. /\ pc[p] = "launch" /\ copy[p].home \in dirs
      /\ device' = device \cup {DeviceOf(copy[p])}
      /\ Go(p, "launched")
      /\ UNCHANGED <<link, inUse, cmd, sig, todo, trying, locks, copy, rest, pending, data, cancel,
                     dirs, made>>
  BY DEF LaunchSucceeds, fileVars, allocVars, workVars, loadVars
<1>2. data[p] = {} /\ cmd[p] = "start"
  BY <1>1 DEF IMTypes, Sound, Shape
<1>3. ProcTypes' /\ Others(p) /\ Moves(p, "launched")
  BY <1>1, <1>2, GoTypes DEF Places, Listening
<1>4. DeviceOf(copy[p]) \in [home : Home, ids : SUBSET Id]
  <2>1. copy[p].home \in Home
    BY <1>1 DEF IMTypes, Sound, WorldTypes
  <2>2. copy[p].ids \in SUBSET Id
    BY CopyIds
  <2> QED BY <2>1, <2>2 DEF DeviceOf
<1>5. WorldTypes'
  BY <1>1, <1>4 DEF IMTypes, Sound, WorldTypes
<1>6. Shape(p)'
  BY <1>1, <1>2, <1>3 DEF IMTypes, Sound, Shape, Moves
<1> QED BY <1>1, <1>3, <1>5, <1>6, ShapeOthers DEF Sound

\* The launcher is not started.
LEMMA SetupFailsTypes ==
  ASSUME IMTypes, NEW p \in Procs, SetupFails(p)
  PROVE  Sound' /\ Others(p) /\ pc[p] = "launch" /\ Moves(p, "bootFailed")
<1>1. /\ pc[p] = "launch" /\ Go(p, "bootFailed")
      /\ UNCHANGED <<link, inUse, cmd, sig, todo, trying, locks, copy, rest, pending, data, cancel,
                     device, dirs, made>>
  BY DEF SetupFails, fileVars, allocVars, workVars, loadVars, worldVars
<1>2. data[p] = {} /\ cmd[p] = "start"
  BY <1>1 DEF IMTypes, Sound, Shape
<1>3. ProcTypes' /\ Others(p) /\ Moves(p, "bootFailed")
  BY <1>1, <1>2, GoTypes DEF Places, Listening
<1>4. WorldTypes'
  BY <1>1 DEF IMTypes, Sound, WorldTypes
<1>5. Shape(p)'
  BY <1>1, <1>2, <1>3 DEF IMTypes, Sound, Shape, Moves
<1> QED BY <1>1, <1>3, <1>4, <1>5, ShapeOthers DEF Sound

\* A failed launch stops what it finds of the devices of the group.
LEMMA LaunchFailsTypes ==
  ASSUME IMTypes, NEW p \in Procs, LaunchFails(p)
  PROVE  /\ Sound' /\ Others(p) /\ pc[p] = "launch" /\ pc'[p] = "unlink"
         /\ UNCHANGED <<cmd, sig, trying, locks, copy, pending, data, cancel, made>>
<1>1. PICK i \in copy[p].ids, launched \in SUBSET {DeviceOf(copy[p])} :
        LET found == {d \in device \cup launched : i \in d.ids}
        IN  /\ device' = device \ found
            /\ rest' = [rest EXCEPT ![p] = UNION {d.ids : d \in found}]
  BY DEF LaunchFails
<1> DEFINE found == {d \in device \cup launched : i \in d.ids}
<1>2. /\ pc[p] = "launch" /\ Go(p, "unlink")
      /\ UNCHANGED <<link, inUse, cmd, sig, todo, trying, locks, copy, pending, data, cancel,
                     dirs, made>>
  BY DEF LaunchFails, fileVars, allocVars, loadVars
<1>3. \A d \in found : d.ids \in SUBSET Id
  <2>1. copy[p].ids \in SUBSET Id
    BY CopyIds
  <2>2. \A d \in device : d.ids \in SUBSET Id
    BY DEF IMTypes, Sound, WorldTypes
  <2>3. DeviceOf(copy[p]).ids = copy[p].ids
    BY DEF DeviceOf
  <2>4. ASSUME NEW d \in found
        PROVE  d \in device \/ d = DeviceOf(copy[p])
    OBVIOUS
  <2> HIDE DEF found
  <2> QED BY <2>1, <2>2, <2>3, <2>4
<1>4. /\ device' = device \ found
      /\ rest' = [rest EXCEPT ![p] = UNION {d.ids : d \in found}]
  BY <1>1
<1> HIDE DEF found
<1>5. UNION {d.ids : d \in found} \in SUBSET Id
  BY <1>3
<1>6. /\ rest' \in [Procs -> SUBSET Id]
      /\ \A q \in Procs \ {p} : rest'[q] = rest[q]
  BY <1>4, <1>5 DEF IMTypes, Sound, ProcTypes
<1>7. /\ pc' \in [Procs -> Places] /\ pc'[p] = "unlink"
      /\ \A q \in Procs \ {p} : pc'[q] = pc[q]
  BY <1>2 DEF IMTypes, Sound, ProcTypes, Go, Places, Listening
<1>8. ProcTypes' /\ Others(p)
  BY <1>2, <1>6, <1>7 DEF IMTypes, Sound, ProcTypes, Others
<1>9. WorldTypes'
  BY <1>2, <1>4 DEF IMTypes, Sound, WorldTypes
<1>10. Shape(p)'
  BY <1>2, <1>7 DEF IMTypes, Sound, Shape
<1> QED BY <1>2, <1>7, <1>8, <1>9, <1>10, ShapeOthers DEF Sound

\* The signal is noted, and what it may leave behind.
LEMMA InterruptTypes ==
  ASSUME IMTypes, NEW p \in Procs, Interrupt(p)
  PROVE  /\ Sound' /\ Others(p) /\ cmd[p] = "start" /\ copy[p] \in Group
         /\ sig[p] = "none" /\ sig'[p] = "caught"
         /\ UNCHANGED <<groups, stray, link, inUse, cmd, pc, trying, locks, copy, rest, pending,
                        data, cancel, made>>
         /\ left' = IF pc[p] = "starting" THEN left \cup {copy[p].home} ELSE left
<1>1. /\ cmd[p] = "start" /\ sig[p] = "none"
      /\ sig' = [sig EXCEPT ![p] = "caught"]
      /\ UNCHANGED <<groups, stray, link, inUse, cmd, pc, todo, trying, locks, copy, rest, pending,
                     data, cancel, device, dirs, made>>
      /\ left' = IF pc[p] = "starting" THEN left \cup {copy[p].home} ELSE left
  BY DEF Interrupt, fileVars, allocVars, workVars, loadVars, worldVars
<1>2. ProcTypes' /\ WorldTypes' /\ Others(p) /\ sig'[p] = "caught"
  BY <1>1 DEF IMTypes, Sound, ProcTypes, WorldTypes, Others
<1>3. Shape(p)' /\ copy[p] \in Group
  BY <1>1, <1>2 DEF IMTypes, Sound, Shape
<1> QED BY <1>1, <1>2, <1>3, ShapeOthers DEF Sound

\* An update that is the last one is stored, or there is nothing to update.
LEMMA SettleEffect ==
  ASSUME NEW p \in Procs, NEW loaded, Settle(p, loaded)
  PROVE  \/ StoreData(loaded, {copy[p].home})
         \/ UNCHANGED <<groups, stray>> /\ left' = left \cup {copy[p].home}
BY DEF Settle, NotFound

\* The interrupt listener stores CANCELLED.
LEMMA CancelTypes ==
  ASSUME IMTypes, NEW p \in Procs, Cancel(p)
  PROVE  /\ Sound' /\ Others(p) /\ cmd[p] = "start" /\ copy[p] \in Group
         /\ sig[p] = "caught" /\ sig'[p] = "cancelled" /\ cancel'[p] = {}
         /\ UNCHANGED <<link, inUse, cmd, pc, trying, locks, copy, rest, pending, data, made>>
         /\ \/ StoreData(cancel[p], {copy[p].home})
            \/ UNCHANGED <<groups, stray>> /\ left' = left \cup {copy[p].home}
<1>1. /\ sig[p] = "caught"
      /\ sig' = [sig EXCEPT ![p] = "cancelled"] /\ cancel' = [cancel EXCEPT ![p] = {}]
      /\ UNCHANGED <<link, inUse, cmd, pc, todo, trying, locks, copy, rest, pending, data,
                     device, dirs, made>>
      /\ Settle(p, cancel[p])
  BY DEF Cancel, fileVars, allocVars, workVars, worldVars
<1>2. ProcTypes' /\ WorldTypes' /\ Others(p) /\ sig'[p] = "cancelled" /\ cancel'[p] = {}
  BY <1>1 DEF IMTypes, Sound, ProcTypes, WorldTypes, Others
<1>3. cmd[p] = "start" /\ copy[p] \in Group
  BY <1>1 DEF IMTypes, Sound, Shape
<1>4. Shape(p)'
  BY <1>1, <1>2, <1>3 DEF IMTypes, Sound, Shape
<1> QED BY <1>1, <1>2, <1>3, <1>4, ShapeOthers, SettleEffect DEF Sound

\* stop_cvd stops devices and starts none.
LEMMA StopCvdTypes ==
  ASSUME IMTypes, NEW p \in Procs, StopCvd(p)
  PROVE  Sound' /\ Others(p) /\ pc[p] = "stopcvd" /\ Moves(p, "stopped")
<1>1. /\ pc[p] = "stopcvd" /\ Go(p, "stopped")
      /\ device' \subseteq device
      /\ UNCHANGED <<link, inUse, cmd, sig, todo, trying, locks, copy, rest, pending, data, cancel,
                     dirs, made>>
  BY DEF StopCvd, fileVars, allocVars, workVars, loadVars
<1>2. data[p] = {}
  BY <1>1 DEF IMTypes, Sound, Shape
<1>3. ProcTypes' /\ Others(p) /\ Moves(p, "stopped")
  BY <1>1, <1>2, GoTypes DEF Places
<1>4. WorldTypes'
  BY <1>1 DEF IMTypes, Sound, WorldTypes
<1>5. Shape(p)'
  BY <1>1, <1>3 DEF IMTypes, Sound, Shape, Moves
<1> QED BY <1>1, <1>3, <1>4, <1>5, ShapeOthers DEF Sound

\* stop and remove end when stop_cvd is not found; clear goes on.
LEMMA StopBinFailsTypes ==
  ASSUME IMTypes, NEW p \in Procs, StopBinFails(p)
  PROVE  /\ Sound' /\ Others(p) /\ pc[p] = "stopcvd"
         /\ UNCHANGED <<groups, stray, left, link, inUse, made>>
         /\ \/ Gone(p) /\ cmd[p] \in {"stop", "remove"}
            \/ Moves(p, "unlink") /\ cmd[p] \in {"clear", "reset"}
<1>1. pc[p] = "stopcvd" /\ UNCHANGED <<groups, stray, left, link, inUse, device, dirs, made>>
  BY DEF StopBinFails, dbVars, fileVars, worldVars
<1>2. /\ WorldTypes' /\ data[p] = {} /\ copy[p] \in Group
      /\ cmd[p] \in {"stop", "remove", "clear", "reset"}
  BY <1>1 DEF IMTypes, Sound, WorldTypes, Shape
<1>3. CASE cmd[p] \in {"stop", "remove"}
  <2>1. Exit(p)
    BY <1>3 DEF StopBinFails, Finish
  <2> QED BY <1>1, <1>3, <2>1, ExitStep
<1>4. CASE cmd[p] \notin {"stop", "remove"}
  <2>1. /\ Go(p, "unlink")
        /\ UNCHANGED <<cmd, sig, todo, trying, locks, copy, rest, pending, data, cancel>>
    BY <1>4 DEF StopBinFails, allocVars, workVars, loadVars
  <2>2. ProcTypes' /\ Others(p) /\ Moves(p, "unlink")
    BY <1>2, <2>1, GoTypes DEF Places, Listening
  <2>3. Shape(p)'
    BY <1>1, <1>2, <1>4, <2>2, NoGroupIsNone DEF IMTypes, Sound, Shape, Moves
  <2> QED BY <1>1, <1>2, <1>4, <2>2, <2>3, ShapeOthers DEF Sound
<1> QED BY <1>3, <1>4

\* stop ends after its update; remove, clear and reset go on to the lock files.
LEMMA StoppedTypes ==
  ASSUME IMTypes, NEW p \in Procs, Stopped(p)
  PROVE  /\ Sound' /\ Others(p) /\ pc[p] = "stopped" /\ cmd[p] \notin {"create", "start"}
         /\ UNCHANGED <<link, inUse, made>>
         /\ StoreData(data[p], {copy[p].home}) \/ UNCHANGED dbVars
         /\ \/ Gone(p) /\ cmd[p] = "stop"
            \/ Moves(p, "unlink") /\ cmd[p] # "stop"
<1>1. /\ pc[p] = "stopped"
      /\ UNCHANGED <<link, inUse, device, dirs, made>>
      /\ StoreData(data[p], {copy[p].home}) \/ UNCHANGED dbVars
  BY DEF Stopped, NotFound, fileVars, worldVars, dbVars
<1>2. WorldTypes' /\ copy[p] \in Group /\ cmd[p] \notin {"create", "start"}
  BY <1>1 DEF IMTypes, Sound, WorldTypes, Shape
<1>3. CASE cmd[p] # "stop"
  <2>1. /\ Go(p, "unlink") /\ data' = [data EXCEPT ![p] = {}]
        /\ UNCHANGED <<cmd, sig, todo, trying, locks, copy, rest, pending, cancel>>
    BY <1>3 DEF Stopped, allocVars, workVars
  <2>2. ProcTypes' /\ Others(p) /\ Moves(p, "unlink")
    BY <2>1, GoTypes DEF Places, Listening
  <2>3. Shape(p)'
    BY <1>1, <1>2, <1>3, <2>2, NoGroupIsNone DEF IMTypes, Sound, Shape, Moves
  <2> QED BY <1>1, <1>2, <1>3, <2>2, <2>3, ShapeOthers DEF Sound
<1>4. CASE cmd[p] = "stop"
  <2>1. Exit(p)
    BY <1>4 DEF Stopped, Finish
  <2> QED BY <1>1, <1>2, <1>4, <2>1, ExitStep
<1> QED BY <1>3, <1>4

\* A lock file is unlinked, and its inode stays with those who have it open; or
\* it is not, and the id is astray.
LEMMA UnlinkTypes ==
  ASSUME IMTypes, NEW p \in Procs, Unlink(p)
  PROVE  /\ Sound' /\ Others(p) /\ pc[p] = "unlink"
         /\ UNCHANGED <<groups, left, inUse, cmd, pc, sig, trying, locks, copy, pending, data,
                        cancel, made>>
         /\ \E i \in rest[p] :
              /\ i \in Id /\ rest'[p] = rest[p] \ {i}
              /\ \/ link' = [link EXCEPT ![i] = NoInode] /\ stray' = stray \ {i}
                 \/ link' = link /\ stray' = stray \cup {i}
<1>1. PICK i \in rest[p] :
           /\ rest' = [rest EXCEPT ![p] = @ \ {i}]
           /\ \/ link' = [link EXCEPT ![i] = NoInode] /\ stray' = stray \ {i}
              \/ link' = link /\ stray' = stray \cup {i}
  BY DEF Unlink, RemoveLockFile
<1>2. /\ pc[p] = "unlink"
      /\ UNCHANGED <<groups, left, inUse, cmd, pc, sig, todo, trying, locks, copy, pending, data,
                     cancel, device, dirs, made>>
  BY DEF Unlink, procVars, allocVars, loadVars, worldVars
<1>3. i \in Id /\ rest'[p] = rest[p] \ {i}
  BY <1>1 DEF IMTypes, Sound, ProcTypes
<1>4. WorldTypes'
  BY <1>1, <1>2 DEF IMTypes, Sound, WorldTypes
<1>5. ProcTypes' /\ Others(p)
  BY <1>1, <1>2 DEF IMTypes, Sound, ProcTypes, Others
<1>6. Shape(p)'
  BY <1>2 DEF IMTypes, Sound, Shape
<1> QED BY <1>1, <1>2, <1>3, <1>4, <1>5, <1>6, ShapeOthers DEF Sound

\* A start that failed goes on; a reset is done.
LEMMA UnlinkedTypes ==
  ASSUME IMTypes, NEW p \in Procs, Unlinked(p)
  PROVE  /\ Sound' /\ Others(p) /\ pc[p] = "unlink" /\ rest[p] = {}
         /\ UNCHANGED <<groups, stray, left, link, inUse, made>>
         /\ \/ cmd[p] = "start" /\ Moves(p, "bootFailed")
            \/ cmd[p] = "reset" /\ pending[p] = {} /\ Gone(p)
<1>1. /\ pc[p] = "unlink" /\ rest[p] = {}
      /\ UNCHANGED <<groups, stray, left, link, inUse, device, dirs, made>>
  BY DEF Unlinked, dbVars, fileVars, worldVars
<1>2. WorldTypes' /\ data[p] = {}
  BY <1>1 DEF IMTypes, Sound, WorldTypes, Shape
<1>3. CASE /\ cmd[p] = "start" /\ Go(p, "bootFailed")
           /\ UNCHANGED <<cmd, sig, todo, trying, locks, copy, rest, pending, data, cancel>>
  <2>1. ProcTypes' /\ Others(p) /\ Moves(p, "bootFailed")
    BY <1>2, <1>3, GoTypes DEF Places, Listening
  <2>2. Shape(p)'
    BY <1>3, <2>1 DEF IMTypes, Sound, Shape, Moves
  <2> QED BY <1>1, <1>2, <1>3, <2>1, <2>2, ShapeOthers DEF Sound
<1>4. CASE cmd[p] = "reset" /\ copy[p] = NoGroup /\ Exit(p)
  <2>1. pending[p] = {}
    BY <1>1, <1>4 DEF IMTypes, Sound, Shape
  <2> QED BY <1>1, <1>4, <2>1, ExitStep
<1>5. \/ /\ cmd[p] = "start" /\ Go(p, "bootFailed")
         /\ UNCHANGED <<cmd, sig, todo, trying, locks, copy, rest, pending, data, cancel>>
      \/ cmd[p] = "reset" /\ copy[p] = NoGroup /\ Exit(p)
  BY DEF Unlinked, Finish, allocVars, workVars, loadVars
<1> QED BY <1>3, <1>4, <1>5

\* Both ends of the removal of a directory.
LEMMA DirectoryTypes ==
  ASSUME IMTypes, NEW p \in Procs, RemoveGroupDirectory(p) \/ RemoveDirectoryFails(p)
  PROVE  /\ Sound' /\ Others(p) /\ pc[p] = "unlink" /\ rest[p] = {}
         /\ cmd[p] \notin {"create", "start"}
         /\ UNCHANGED <<groups, stray, left, link, inUse, made>>
         /\ \/ cmd[p] = "remove" /\ Gone(p)
            \/ cmd[p] = "remove" /\ Moves(p, "erase")
            \/ cmd[p] # "remove" /\ Moves(p, "next")
<1>1. /\ pc[p] = "unlink" /\ rest[p] = {} /\ cmd[p] # "start" /\ copy[p] # NoGroup
      /\ dirs' \subseteq dirs
      /\ UNCHANGED <<groups, stray, left, link, inUse, device, made>>
  BY DEF RemoveGroupDirectory, RemoveDirectoryFails, dbVars, fileVars, worldVars
<1>2. /\ WorldTypes' /\ data[p] = {} /\ copy[p] \in Group
      /\ cmd[p] \in {"remove", "clear", "reset"}
  BY <1>1 DEF IMTypes, Sound, WorldTypes, ProcTypes, Shape
<1>3. CASE cmd[p] = "remove" /\ Exit(p)
  BY <1>1, <1>2, <1>3, ExitTypes DEF Sound
<1>4. CASE AfterDirectory(p)
  <2> DEFINE where == IF cmd[p] = "remove" THEN "erase" ELSE "next"
  <2>1. Go(p, where) /\ where \in Places
    BY <1>4 DEF AfterDirectory, Places
  <2>2. \/ where = "erase" /\ cmd[p] = "remove"
        \/ where = "next" /\ cmd[p] # "remove"
    OBVIOUS
  <2>3. UNCHANGED <<cmd, sig, todo, trying, locks, copy, rest, pending, data, cancel>>
    BY <1>4 DEF AfterDirectory, allocVars, workVars, loadVars
  <2> HIDE DEF where
  <2>4. ProcTypes' /\ Others(p) /\ Moves(p, where)
    BY <1>2, <2>1, <2>3, GoTypes
  <2>5. Shape(p)'
    BY <1>1, <1>2, <2>2, <2>4 DEF IMTypes, Sound, Shape, Moves
  <2> QED BY <1>1, <1>2, <2>2, <2>4, <2>5, ShapeOthers DEF Sound
<1>5. (cmd[p] = "remove" /\ Exit(p)) \/ AfterDirectory(p)
  BY DEF RemoveGroupDirectory, RemoveDirectoryFails, Finish
<1> QED BY <1>3, <1>4, <1>5

\* clear has emptied the database.
LEMMA EmptiedTypes ==
  ASSUME IMTypes, NEW p \in Procs, Emptied(p)
  PROVE  /\ Sound' /\ Others(p) /\ pc[p] = "clear" /\ Moves(p, "next")
         /\ cmd[p] \in {"clear", "reset"}
         /\ UNCHANGED <<link, inUse, made>>
         /\ StoreData(data[p], Homes(pending[p]))
<1>1. /\ pc[p] = "clear" /\ Go(p, "next") /\ data' = [data EXCEPT ![p] = {}]
      /\ UNCHANGED <<link, inUse, cmd, sig, todo, trying, locks, copy, rest, pending, cancel,
                     device, dirs, made>>
      /\ StoreData(data[p], Homes(pending[p]))
  BY DEF Emptied, fileVars, allocVars, workVars, worldVars
<1>2. ProcTypes' /\ Others(p) /\ Moves(p, "next")
  BY <1>1, GoTypes DEF Places
<1>3. WorldTypes' /\ cmd[p] \in {"clear", "reset"}
  BY <1>1 DEF IMTypes, Sound, WorldTypes, Shape
<1>4. Shape(p)'
  BY <1>1, <1>2, <1>3 DEF IMTypes, Sound, Shape, Moves
<1> QED BY <1>1, <1>2, <1>3, <1>4, ShapeOthers DEF Sound

\* reset kills every device and goes on to every lock file.
LEMMA KillAllTypes ==
  ASSUME IMTypes, NEW p \in Procs, KillAll(p)
  PROVE  /\ Sound' /\ Others(p) /\ copy'[p] = NoGroup /\ pc[p] = "next" /\ pc'[p] = "unlink"
         /\ cmd[p] = "reset" /\ pending[p] = {} /\ rest[p] = {}
         /\ UNCHANGED <<cmd, sig, trying, locks, pending, data, cancel, made>>
<1>1. /\ pc[p] = "next" /\ pending[p] = {} /\ cmd[p] = "reset"
      /\ device' = {}
      /\ copy' = [copy EXCEPT ![p] = NoGroup]
      /\ rest' = [rest EXCEPT ![p] = {i \in Id : link[i] # NoInode}]
      /\ Go(p, "unlink")
      /\ UNCHANGED <<link, inUse, cmd, sig, todo, trying, locks, pending, data, cancel, dirs, made>>
  BY DEF KillAll, fileVars, allocVars, loadVars
<1>2. /\ copy' \in [Procs -> Group \cup {NoGroup}] /\ copy'[p] = NoGroup
      /\ rest' \in [Procs -> SUBSET Id]
      /\ pc' \in [Procs -> Places] /\ pc'[p] = "unlink"
      /\ \A q \in Procs \ {p} : copy'[q] = copy[q] /\ rest'[q] = rest[q] /\ pc'[q] = pc[q]
  BY <1>1 DEF IMTypes, Sound, ProcTypes, Go, Places, Listening
<1>3. ProcTypes' /\ Others(p)
  BY <1>1, <1>2 DEF IMTypes, Sound, ProcTypes, Others
<1>4. WorldTypes' /\ rest[p] = {}
  BY <1>1 DEF IMTypes, Sound, WorldTypes, Shape
<1>5. Shape(p)'
  BY <1>1, <1>2 DEF IMTypes, Sound, Shape
<1> QED BY <1>1, <1>2, <1>3, <1>4, <1>5, ShapeOthers DEF Sound

\* The steps that return without having changed anything, those that return
\* after an update, and all that return or die.
Leave(p)     == RejectRepeated(p) \/ OutOfIds(p) \/ CreateFails(p) \/ Abort(p) \/ Cleared(p)
LeaveWith(p) == CreateReturns(p) \/ BootFailed(p) \/ Launched(p)
Ends(p)      == Leave(p) \/ LeaveWith(p) \/ Erase(p) \/ Kill(p)

\* Whoever ends leaves the files as they are.
LEMMA EndsTypes ==
  ASSUME IMTypes, NEW p \in Procs, Ends(p)
  PROVE  /\ Sound' /\ Others(p) /\ Gone(p) /\ UNCHANGED <<link, inUse, made>>
         /\ Leave(p) => UNCHANGED <<groups, stray, left>>
         /\ LeaveWith(p) =>
              /\ pc[p] \in {"created", "bootFailed", "launched"} /\ copy[p] \in Group
              /\ \/ StoreData(data[p], {copy[p].home})
                 \/ UNCHANGED <<groups, stray>> /\ left' = left \cup {copy[p].home}
         /\ Erase(p) => /\ pc[p] = "erase" /\ cmd[p] = "remove"
                        /\ StoreData(data[p], {copy[p].home})
<1>1. ASSUME Leave(p)
      PROVE  Sound' /\ Others(p) /\ Gone(p) /\ UNCHANGED <<link, inUse, made>>
  <2>1. Exit(p) /\ UNCHANGED <<groups, stray, left, link, inUse, device, dirs, made>>
    BY <1>1 DEF Leave, RejectRepeated, OutOfIds, CreateFails, Abort, Cleared, Finish,
       dbVars, fileVars, worldVars
  <2> QED BY <2>1, ExitStep
<1>2. ASSUME LeaveWith(p) \/ Erase(p) \/ Kill(p)
      PROVE  Sound' /\ Others(p) /\ Gone(p) /\ UNCHANGED <<link, inUse, made>>
  <2>1. Exit(p) /\ UNCHANGED <<link, inUse, device, dirs, made>>
    BY <1>2 DEF LeaveWith, CreateReturns, BootFailed, Launched, Erase, Kill, Finish,
       fileVars, worldVars
  <2> QED BY <2>1, ExitStep
<1>3. ASSUME LeaveWith(p)
      PROVE  /\ pc[p] \in {"created", "bootFailed", "launched"} /\ copy[p] \in Group
             /\ \/ StoreData(data[p], {copy[p].home})
                \/ UNCHANGED <<groups, stray>> /\ left' = left \cup {copy[p].home}
  <2>1. pc[p] \in {"created", "bootFailed", "launched"} /\ Settle(p, data[p])
    BY <1>3 DEF LeaveWith, CreateReturns, BootFailed, Launched
  <2>2. copy[p] \in Group
    BY <2>1 DEF IMTypes, Sound, Shape
  <2> QED BY <2>1, <2>2, SettleEffect
<1>4. ASSUME Erase(p)
      PROVE  pc[p] = "erase" /\ cmd[p] = "remove" /\ StoreData(data[p], {copy[p].home})
  BY <1>4 DEF Erase, IMTypes, Sound, Shape
<1>5. ASSUME Leave(p)
      PROVE  UNCHANGED <<groups, stray, left>>
  BY <1>5 DEF Leave, RejectRepeated, OutOfIds, CreateFails, Abort, Cleared, dbVars
<1>6. Sound' /\ Others(p) /\ Gone(p) /\ UNCHANGED <<link, inUse, made>>
  BY <1>1, <1>2 DEF Ends
<1> QED BY <1>3, <1>4, <1>5, <1>6

\* The steps of one process.
Acts(p) == Command(p) \/ Step(p) \/ AcquireLock(p) \/ Interrupt(p) \/ Kill(p)

\* They are these, by what they do to the invariants.
LEMMA StepCases ==
  ASSUME NEW p \in Procs, Acts(p)
  PROVE  \/ Create(p) \/ Start(p) \/ Stop(p) \/ Remove(p) \/ Clear(p)
         \/ OpenRequested(p) \/ OpenUnused(p) \/ AcquireLock(p) \/ TryAcquireLock(p)
         \/ AddGroup(p) \/ Added(p) \/ MarkInUse(p) \/ Created(p)
         \/ LoadForUpdate(p) \/ LoadForCancel(p) \/ LoadForErase(p)
         \/ Starting(p) \/ LaunchSucceeds(p) \/ LaunchFails(p) \/ SetupFails(p)
         \/ Interrupt(p) \/ Cancel(p)
         \/ StopCvd(p) \/ StopBinFails(p) \/ Stopped(p) \/ Unlink(p) \/ Unlinked(p)
         \/ RemoveGroupDirectory(p) \/ RemoveDirectoryFails(p)
         \/ Emptied(p) \/ NextGroup(p) \/ KillAll(p) \/ Ends(p)
BY Zenon DEF Acts, Command, Step, Ends, Leave, LeaveWith

\* Every step of a process keeps the types of what it works with.
LEMMA SoundStep ==
  ASSUME IMTypes, NEW p \in Procs, Acts(p)
  PROVE  Sound' /\ Others(p)
BY StepCases, CreateTypes, StartStopTypes, RemoveTypes, ClearTypes,
   OpenRequestedTypes, OpenUnusedTypes, AcquireLockTypes, TryAcquireLockTypes,
   AddGroupTypes, AddedTypes, MarkInUseTypes, CreatedTypes, LoadForUpdateTypes,
   LoadForCancelTypes, LoadForEraseTypes, StartingTypes, LaunchSucceedsTypes,
   LaunchFailsTypes, SetupFailsTypes, InterruptTypes, CancelTypes, StopCvdTypes,
   StopBinFailsTypes, StoppedTypes, UnlinkTypes, UnlinkedTypes, DirectoryTypes,
   EmptiedTypes, NextGroupTypes, KillAllTypes, EndsTypes, Zenon

\* What a step does to the database.
LEMMA DbEffects ==
  ASSUME IMTypes, NEW p \in Procs, Acts(p)
  PROVE  \/ UNCHANGED <<groups, stray, left>>
         \/ /\ pc[p] \in Updating \cup {"erase"} /\ copy[p] \in Group
            /\ StoreData(data[p], {copy[p].home})
            /\ Added(p) \/ Starting(p) \/ pc[p] \in Settled
         \/ Cancel(p) /\ copy[p] \in Group /\ StoreData(cancel[p], {copy[p].home})
         \/ pc[p] = "clear" /\ Emptied(p) /\ StoreData(data[p], Homes(pending[p]))
         \/ /\ UNCHANGED <<groups, stray>> /\ copy[p] \in Group
            /\ left' = left \cup {copy[p].home}
         \/ Unlink(p)
         \/ Kill(p)
<1> DEFINE Same == UNCHANGED <<groups, stray, left>>
           Stores == /\ pc[p] \in Updating \cup {"erase"} /\ copy[p] \in Group
                     /\ StoreData(data[p], {copy[p].home})
                     /\ Added(p) \/ Starting(p) \/ pc[p] \in Settled
           Leaves == /\ UNCHANGED <<groups, stray>> /\ copy[p] \in Group
                     /\ left' = left \cup {copy[p].home}
<1>1. CASE \/ Create(p) \/ Start(p) \/ Stop(p) \/ Remove(p) \/ Clear(p)
           \/ OpenRequested(p) \/ OpenUnused(p) \/ AcquireLock(p) \/ TryAcquireLock(p)
           \/ AddGroup(p) \/ MarkInUse(p) \/ Created(p)
  <2>1. Same
    BY <1>1 DEF Create, Start, Stop, Remove, Clear, OpenRequested, OpenUnused, AcquireLock,
       TryAcquireLock, AddGroup, MarkInUse, Created, dbVars
  <2> QED BY <2>1
<1>2. CASE \/ LoadForUpdate(p) \/ LoadForCancel(p) \/ LoadForErase(p)
           \/ LaunchSucceeds(p) \/ LaunchFails(p) \/ SetupFails(p) \/ StopCvd(p)
           \/ NextGroup(p) \/ KillAll(p)
  <2>1. Same
    BY <1>2 DEF LoadForUpdate, LoadForCancel, LoadForErase, LaunchSucceeds, LaunchFails,
       SetupFails, StopCvd, NextGroup, KillAll, dbVars
  <2> QED BY <2>1
<1>3. CASE StopBinFails(p) \/ Unlinked(p) \/ RemoveGroupDirectory(p) \/ RemoveDirectoryFails(p)
  BY <1>3, StopBinFailsTypes, UnlinkedTypes, DirectoryTypes
<1>4. CASE Added(p)
  <2>1. StoreData(data[p], {copy[p].home}) /\ pc[p] = "alloc" /\ data[p] # {}
    BY <1>4, AddedTypes DEF Added
  <2>2. copy[p] \in Group
    BY <2>1 DEF IMTypes, Sound, Shape
  <2> QED BY <1>4, <2>1, <2>2 DEF Updating
<1>5. CASE Starting(p)
  <2>1. copy[p] \in Group
    BY <1>5, StartingTypes DEF IMTypes, Sound, Shape
  <2> QED BY <1>5, <2>1, StartingTypes DEF Updating, dbVars
<1>6. CASE Stopped(p)
  <2>1. copy[p] \in Group
    BY <1>6, StoppedTypes DEF IMTypes, Sound, Shape
  <2> QED BY <1>6, <2>1, StoppedTypes DEF Updating, Settled, dbVars
<1>7. CASE Interrupt(p)
  BY <1>7, InterruptTypes
<1>8. CASE Cancel(p)
  BY <1>8, CancelTypes
<1>9. CASE Emptied(p)
  BY <1>9, EmptiedTypes
<1>10. CASE Unlink(p) \/ Kill(p)
  BY <1>10
<1>11. CASE Leave(p)
  BY <1>11, EndsTypes DEF Ends
<1>12. CASE LeaveWith(p)
  <2>1. /\ pc[p] \in {"created", "bootFailed", "launched"} /\ copy[p] \in Group
        /\ \/ StoreData(data[p], {copy[p].home})
           \/ UNCHANGED <<groups, stray>> /\ left' = left \cup {copy[p].home}
    BY <1>12, EndsTypes DEF Ends
  <2> QED BY <2>1 DEF Updating, Settled
<1>13. CASE Erase(p)
  <2>1. pc[p] = "erase" /\ StoreData(data[p], {copy[p].home})
    BY <1>13, EndsTypes DEF Ends
  <2>2. copy[p] \in Group
    BY <2>1 DEF IMTypes, Sound, Shape
  <2> QED BY <2>1, <2>2 DEF Settled
<1>14. Ends(p) => Leave(p) \/ LeaveWith(p) \/ Erase(p) \/ Kill(p)
  BY DEF Ends
<1> QED BY StepCases, <1>1, <1>2, <1>3, <1>4, <1>5, <1>6, <1>7, <1>8, <1>9, <1>10, <1>11, <1>12,
           <1>13, <1>14, Zenon

\* What a store does: its parts, for what is stored.
LEMMA StoreEffect ==
  ASSUME NEW loaded, NEW mine, StoreData(loaded, mine)
  PROVE  /\ groups' \in loaded
         /\ stray' = stray \cup Dropped(groups', mine)
         /\ left' = left \cup Reverted(groups', mine)
<1>1. PICK new \in loaded : /\ groups' = new
                            /\ stray' = stray \cup Dropped(new, mine)
                            /\ left' = left \cup Reverted(new, mine)
  BY DEF StoreData
<1>2. Dropped(groups', mine) = Dropped(new, mine) /\ Reverted(groups', mine) = Reverted(new, mine)
  BY <1>1
<1> QED BY <1>1, <1>2

\* What is dropped are ids, and what is put back has homes.
LEMMA StoreTypes ==
  ASSUME IMTypes, NEW new \in SUBSET Group, NEW mine
  PROVE  Dropped(new, mine) \in SUBSET Id /\ Reverted(new, mine) \in SUBSET Home
<1>1. \A h \in Group : h.ids \in SUBSET Id /\ h.home \in Home
  BY DEF Group
<1>2. Dropped(new, mine) \in SUBSET Id
  <2>1. groups \in SUBSET Group
    BY DEF IMTypes, DbTypes
  <2> QED BY <1>1, <2>1 DEF Dropped
<1>3. Reverted(new, mine) \in SUBSET Home
  BY <1>1 DEF Reverted, Homes
<1> QED BY <1>2, <1>3

\* What p has loaded consists of groups.
LEMMA LoadedAre ==
  ASSUME IMTypes, NEW p \in Procs, NEW d \in data[p] \cup cancel[p]
  PROVE  d \in SUBSET Group
BY DEF IMTypes, Sound, ProcTypes

\* A kill leaves the database as it is, or some of what was being stored.
LEMMA KillEffect ==
  ASSUME IMTypes, NEW p \in Procs, Kill(p)
  PROVE  /\ groups' \in SUBSET Group
         /\ groups' = groups \/ \E d \in data[p] \cup cancel[p] : groups' \in SUBSET d
         /\ stray' = stray \cup Dropped(groups', {}) \cup Unlinking(p)
         /\ left' = left \cup Reverted(groups', {}) \cup Unsettled(p)
<1>1. PICK new \in {groups} \cup UNION {SUBSET d : d \in data[p] \cup cancel[p]} :
          /\ groups' = new
          /\ stray' = stray \cup Dropped(new, {}) \cup Unlinking(p)
          /\ left' = left \cup Reverted(new, {}) \cup Unsettled(p)
  BY DEF Kill
<1>2. new = groups \/ \E d \in data[p] \cup cancel[p] : new \in SUBSET d
  OBVIOUS
<1>3. new \in SUBSET Group
  <2>1. CASE new = groups
    BY <2>1 DEF IMTypes, DbTypes
  <2>2. CASE \E d \in data[p] \cup cancel[p] : new \in SUBSET d
    BY <2>2, LoadedAre
  <2> QED BY <1>2, <2>1, <2>2
<1>4. Dropped(groups', {}) = Dropped(new, {}) /\ Reverted(groups', {}) = Reverted(new, {})
  BY <1>1
<1> QED BY <1>1, <1>2, <1>3, <1>4

\* Every step of every process keeps the types.
LEMMA TypesStep ==
  ASSUME IMTypes, NEW p \in Procs, Acts(p)
  PROVE  IMTypes' /\ Others(p)
<1>1. Sound' /\ Others(p)
  BY SoundStep
<1>2. ASSUME NEW loaded \in SUBSET (data[p] \cup cancel[p]), NEW mine, StoreData(loaded, mine)
      PROVE  DbTypes'
  <2>1. groups' \in SUBSET Group
    BY <1>2, StoreEffect, LoadedAre
  <2>2. stray' = stray \cup Dropped(groups', mine) /\ left' = left \cup Reverted(groups', mine)
    BY <1>2, StoreEffect
  <2>3. Dropped(groups', mine) \in SUBSET Id /\ Reverted(groups', mine) \in SUBSET Home
    BY <2>1, StoreTypes
  <2> QED BY <2>1, <2>2, <2>3 DEF IMTypes, DbTypes
<1>3. CASE UNCHANGED <<groups, stray, left>>
  BY <1>1, <1>3 DEF IMTypes, DbTypes
<1>4. CASE \/ StoreData(data[p], {copy[p].home})
           \/ StoreData(cancel[p], {copy[p].home})
           \/ StoreData(data[p], Homes(pending[p]))
  BY <1>1, <1>2, <1>4 DEF IMTypes
<1>5. CASE UNCHANGED <<groups, stray>> /\ copy[p] \in Group /\ left' = left \cup {copy[p].home}
  BY <1>1, <1>5 DEF IMTypes, DbTypes, Group
<1>6. CASE Unlink(p)
  <2>1. groups' = groups /\ left' = left /\ \E i \in Id : stray' \in {stray \ {i}, stray \cup {i}}
    BY <1>6, UnlinkTypes
  <2> QED BY <1>1, <2>1 DEF IMTypes, DbTypes
<1>7. CASE Kill(p)
  <2>1. /\ groups' \in SUBSET Group
        /\ stray' = stray \cup Dropped(groups', {}) \cup Unlinking(p)
        /\ left' = left \cup Reverted(groups', {}) \cup Unsettled(p)
    BY <1>7, KillEffect
  <2>2. Dropped(groups', {}) \in SUBSET Id /\ Reverted(groups', {}) \in SUBSET Home
    BY <2>1, StoreTypes
  <2>3. Unlinking(p) \in SUBSET Id /\ Unsettled(p) \in SUBSET Home
    BY DEF Unlinking, Unsettled
  <2> QED BY <1>1, <2>1, <2>2, <2>3 DEF IMTypes, DbTypes
<1> QED BY <1>3, <1>4, <1>5, <1>6, <1>7, DbEffects

\* There are no groups, lock files, devices and commands at first.
LEMMA TypesInit ==
  ASSUME Init
  PROVE  IMTypes
<1>1. NoLock \in [id : Id \cup {0}, ino : Inode \cup {NoInode}] /\ <<>> \in Seq(Id \cup {AnyId})
  BY DEF NoLock
<1>2. ProcTypes
  BY <1>1 DEF Init, ProcTypes, Places
<1>3. WorldTypes /\ DbTypes
  BY InstanceManagerAssumption DEF Init, WorldTypes, DbTypes
<1>4. \A p \in Procs : Shape(p)
  BY DEF Init, Shape
<1> QED BY <1>2, <1>3, <1>4 DEF IMTypes, Sound

\* Nothing happens to the types when nothing changes.
LEMMA TypesStutter ==
  ASSUME IMTypes, UNCHANGED vars
  PROVE  IMTypes'
BY DEF vars, dbVars, fileVars, procVars, loadVars, allocVars, workVars, worldVars,
   IMTypes, Sound, ProcTypes, DbTypes, WorldTypes, Shape

-----------------------------------------------------------------------------
(* The exclusion of flock(), and one name per inode.                       *)

\* A name without a lock is no open file.
LEMMA NoLockIsNone == NoLock \notin Handle
BY InodeNat DEF Handle, NoLock, NoInode

\* What a step does to the open files: only an open() gives a process a file it
\* did not have, and only the two ways to acquire a lock give it a lock, on an
\* inode nobody has locked.
LEMMA LockEffects ==
  ASSUME IMTypes, NEW p \in Procs, Acts(p)
  PROVE  /\ \/ OpenRequested(p)
            \/ OpenUnused(p)
            \/ /\ Handles(p)' \subseteq Handles(p)
               /\ \A i \in Id : link'[i] \in {link[i], NoInode}
         /\ \/ locks'[p] \subseteq locks[p]
            \/ ~Locked(trying[p].ino) /\ locks'[p] = locks[p] \cup {trying[p]}
<1> DEFINE Shrink == /\ Handles(p)' \subseteq Handles(p)
                     /\ \A i \in Id : link'[i] \in {link[i], NoInode}
           Fewer == locks'[p] \subseteq locks[p]
<1>1. ASSUME link' = link, trying'[p] = trying[p], locks'[p] \subseteq locks[p]
      PROVE  Shrink /\ Fewer
  BY <1>1 DEF Handles
<1>2. ASSUME link' = link, Gone(p)
      PROVE  Shrink /\ Fewer
  BY <1>2, NoLockIsNone DEF Handles, Gone
<1>3. CASE \/ Create(p) \/ Start(p) \/ Stop(p) \/ Remove(p) \/ Clear(p)
           \/ AddGroup(p) \/ Added(p) \/ MarkInUse(p)
           \/ LoadForUpdate(p) \/ LoadForCancel(p) \/ LoadForErase(p)
           \/ LaunchSucceeds(p) \/ LaunchFails(p) \/ SetupFails(p)
           \/ Interrupt(p) \/ Cancel(p) \/ StopCvd(p) \/ Emptied(p) \/ NextGroup(p) \/ KillAll(p)
  <2>1. UNCHANGED <<link, trying, locks>>
    BY <1>3 DEF Create, Start, Stop, Remove, Clear, AddGroup, Added, MarkInUse,
       LoadForUpdate, LoadForCancel, LoadForErase, LaunchSucceeds, LaunchFails, SetupFails,
       Interrupt, Cancel, StopCvd, Emptied, NextGroup, KillAll, fileVars, allocVars
  <2> QED BY <1>1, <2>1
<1>4. CASE \/ Starting(p) \/ StopBinFails(p) \/ Stopped(p) \/ Unlinked(p)
           \/ RemoveGroupDirectory(p) \/ RemoveDirectoryFails(p)
  <2>1. link' = link /\ (Gone(p) \/ UNCHANGED <<trying, locks>>)
    BY <1>4, StartingTypes, StopBinFailsTypes, StoppedTypes, UnlinkedTypes, DirectoryTypes
       DEF Moves
  <2> QED BY <1>1, <1>2, <2>1
<1>5. CASE Ends(p)
  BY <1>2, <1>5, EndsTypes
<1>6. CASE Created(p)
  <2>1. UNCHANGED <<link, trying>> /\ locks'[p] = {}
    BY <1>6, CreatedTypes DEF Created, fileVars
  <2> QED BY <1>1, <2>1
<1>7. CASE Unlink(p)
  <2>1. UNCHANGED <<trying, locks>>
    BY <1>7 DEF Unlink, allocVars
  <2>2. PICK i \in Id : link' \in {link, [link EXCEPT ![i] = NoInode]}
    BY <1>7, UnlinkTypes
  <2>3. \A j \in Id : link'[j] \in {link[j], NoInode}
    BY <2>2 DEF IMTypes, Sound, WorldTypes
  <2> QED BY <2>1, <2>3 DEF Handles
<1>8. CASE AcquireLock(p)
  <2>1. ~Locked(trying[p].ino) /\ link' = link
    BY <1>8 DEF AcquireLock, fileVars
  <2>2. /\ trying[p] \in Handle /\ trying'[p] = NoLock
        /\ locks'[p] = locks[p] \cup {trying[p]}
    BY <1>8, AcquireLockTypes
  <2> QED BY <2>1, <2>2, NoLockIsNone DEF Handles
<1>9. CASE TryAcquireLock(p)
  <2>1. link' = link
    BY <1>9 DEF TryAcquireLock, fileVars
  <2>2. CASE /\ ~Locked(trying[p].ino)
             /\ trying[p] \in Handle /\ trying'[p] = NoLock
             /\ locks'[p] = locks[p] \cup {trying[p]}
    BY <2>1, <2>2, NoLockIsNone DEF Handles
  <2>3. CASE locks' = locks /\ trying'[p].ino = NoInode
    <3>1. trying'[p] \notin Handle
      BY <2>3, InodeNat DEF Handle
    <3> QED BY <2>1, <2>3, <3>1 DEF Handles
  <2> QED BY <1>9, <2>2, <2>3, TryAcquireLockTypes
<1>10. CASE OpenRequested(p) \/ OpenUnused(p)
  <2>1. locks' = locks
    BY <1>10 DEF OpenRequested, OpenUnused
  <2> QED BY <1>10, <2>1
<1> QED BY StepCases, <1>3, <1>4, <1>5, <1>6, <1>7, <1>8, <1>9, <1>10, Zenon

\* flock() gives the lock of an inode to one open file at a time.
LEMMA ExclusiveStep ==
  ASSUME IMTypes, Exclusive, NEW p \in Procs, Acts(p)
  PROVE  Exclusive'
<1>1. \A q \in Procs \ {p} : locks'[q] = locks[q]
  BY TypesStep DEF Others
<1>2. CASE locks'[p] \subseteq locks[p]
  BY <1>1, <1>2 DEF Exclusive
<1>3. CASE ~Locked(trying[p].ino) /\ locks'[p] = locks[p] \cup {trying[p]}
  <2>1. \A q \in Procs : \A l \in locks[q] : l.ino # trying[p].ino
    BY <1>3 DEF Locked
  <2> QED BY <1>1, <1>3, <2>1 DEF Exclusive
<1> QED BY <1>2, <1>3, LockEffects

\* cvd processes that create, start, stop, remove, clear and reset groups keep
\* to the types of the database, the lock files and the devices, and no two
\* open files ever hold the lock of one inode.
THEOREM InstanceManagerTypes == Spec => []TypeOK
<1>1. Init => IMTypes /\ Exclusive
  BY TypesInit DEF Init, Exclusive
<1>2. IMTypes /\ Exclusive /\ [Next]_vars => IMTypes' /\ Exclusive'
  <2>1. ASSUME IMTypes, Exclusive, UNCHANGED vars
        PROVE  IMTypes' /\ Exclusive'
    <3>1. locks' = locks
      BY <2>1 DEF vars, allocVars
    <3> QED BY <2>1, <3>1, TypesStutter DEF Exclusive
  <2> QED BY <2>1, TypesStep, ExclusiveStep DEF Next, Acts
<1>3. IMTypes /\ Exclusive => TypeOK
  BY DEF IMTypes, Sound, ProcTypes, DbTypes, WorldTypes, Exclusive, TypeOK, Places
<1> QED BY <1>1, <1>2, <1>3, PTL DEF Spec

-----------------------------------------------------------------------------
(* One name per inode.                                                     *)

\* A process has no file open that its types do not show.
LEMMA HandlesAre ==
  ASSUME IMTypes, NEW p \in Procs
  PROVE  /\ Handles(p) \subseteq Handle
         /\ \A l \in Handles(p) : l.ino # NoInode /\ Opened(l.ino)
<1>1. Handles(p) \subseteq Handle
  BY DEF IMTypes, Sound, ProcTypes, Handles
<1>2. ASSUME NEW l \in Handles(p)
      PROVE  l.ino # NoInode /\ Opened(l.ino)
  <2>1. l.ino # NoInode
    BY <1>1, InodeNat DEF Handle
  <2>2. l \in locks[p] \/ l = trying[p]
    BY DEF Handles
  <2> QED BY <2>1, <2>2 DEF Opened, Locked
<1> QED BY <1>1, <1>2

\* Files are closed and lock files removed.
LEMMA OneNameShrinks ==
  ASSUME OneName, NEW p \in Procs, Others(p),
         Handles(p)' \subseteq Handles(p),
         \A i \in Id : link'[i] \in {link[i], NoInode},
         IMTypes'
  PROVE  OneName'
<1>1. \A q \in Procs : Handles(q)' \subseteq Handles(q)
  BY DEF Others, Handles
<1>2. \A i, j \in Id : link'[i] = link'[j] /\ link'[i] # NoInode => i = j
  BY DEF OneName
<1>3. \A q \in Procs : \A l \in Handles(q)' : l.ino # NoInode
  <2>1. ASSUME NEW q \in Procs, NEW l \in Handles(q)'
        PROVE  l.ino # NoInode
    <3>1. Handles(q)' \subseteq Handle
      BY DEF IMTypes, Sound, ProcTypes, Handles
    <3> QED BY <2>1, <3>1, InodeNat DEF Handle
  <2> QED BY <2>1
<1>4. \A q \in Procs : \A l \in Handles(q)' : \A i \in Id : link'[i] = l.ino => i = l.id
  BY <1>1, <1>3 DEF OneName
<1>5. \A q, r \in Procs : \A l \in Handles(q)', m \in Handles(r)' :
        l.ino = m.ino => l.id = m.id
  BY <1>1 DEF OneName
<1> QED BY <1>2, <1>4, <1>5 DEF OneName

\* A file is opened by the only name of its inode, or a new one is made.
LEMMA OneNameOpens ==
  ASSUME IMTypes, OneName, NEW p \in Procs, Others(p), locks'[p] = locks[p],
         NEW i \in Id, NEW n \in Inode,
         IF link[i] = NoInode THEN IsFree(n) ELSE n = link[i],
         link' = [link EXCEPT ![i] = n],
         trying'[p] = [id |-> i, ino |-> n]
  PROVE  OneName'
<1> DEFINE h == [id |-> i, ino |-> n]
<1>1. h.id = i /\ h.ino = n
  OBVIOUS
<1> HIDE DEF h
<1>2. \A q \in Procs : \A l \in Handles(q)' : l = h \/ \E r \in Procs : l \in Handles(r)
  BY DEF Others, Handles, h
<1>3. n \in Nat /\ n # NoInode
  BY InodeNat
<1>4. \A q \in Procs : \A l \in Handles(q) : l.ino = n => l.id = i
  <2>1. CASE link[i] = NoInode
    <3>1. ~Opened(n)
      BY <2>1 DEF IsFree
    <3> QED BY <3>1, HandlesAre
  <2>2. CASE link[i] # NoInode
    BY <2>2 DEF OneName
  <2> QED BY <2>1, <2>2
<1>5. \A j \in Id : link[j] = n => j = i
  BY <1>3 DEF IsFree, OneName
<1>6. /\ link'[i] = n
      /\ \A j \in Id \ {i} : link'[j] = link[j]
  BY DEF IMTypes, Sound, WorldTypes
<1>7. \A j, k \in Id : link'[j] = link'[k] /\ link'[j] # NoInode => j = k
  BY <1>5, <1>6 DEF OneName
<1>8. \A q \in Procs : \A l \in Handles(q)' : \A j \in Id : link'[j] = l.ino => j = l.id
  <2>1. \A j \in Id : link'[j] = n => j = i
    BY <1>5, <1>6
  <2>2. \A q \in Procs : \A l \in Handles(q) : \A j \in Id : link'[j] = l.ino => j = l.id
    BY <1>4, <1>6 DEF OneName
  <2> QED BY <1>1, <1>2, <2>1, <2>2
<1>9. \A q, r \in Procs : \A l \in Handles(q)', m \in Handles(r)' :
        l.ino = m.ino => l.id = m.id
  BY <1>1, <1>2, <1>4 DEF OneName
<1> QED BY <1>7, <1>8, <1>9 DEF OneName

\* An inode never gets a second name: a lock file is created with a free one.
LEMMA OneNameStep ==
  ASSUME IMTypes, OneName, NEW p \in Procs, Acts(p)
  PROVE  OneName'
<1>1. IMTypes' /\ Others(p)
  BY TypesStep
<1>2. CASE OpenRequested(p)
  <2>1. locks'[p] = locks[p]
    BY <1>2 DEF OpenRequested
  <2> DEFINE i == Head(todo[p])
  <2>2. i \in Id
    BY <1>2, OpenRequestedTypes
  <2>3. PICK n \in Inode :
           /\ IF link[i] = NoInode THEN IsFree(n) ELSE n = link[i]
           /\ link' = [link EXCEPT ![i] = n]
           /\ trying'[p] = [id |-> i, ino |-> n]
    BY <1>2, OpenRequestedTypes
  <2> HIDE DEF i
  <2> QED BY <1>1, <2>1, <2>2, <2>3, OneNameOpens
<1>3. CASE OpenUnused(p)
  <2>1. locks'[p] = locks[p]
    BY <1>3 DEF OpenUnused
  <2> DEFINE i == trying[p].id + 1
  <2>2. i \in Id
    BY <1>3, OpenUnusedTypes
  <2>3. PICK n \in Inode :
           /\ IF link[i] = NoInode THEN IsFree(n) ELSE n = link[i]
           /\ link' = [link EXCEPT ![i] = n]
           /\ trying'[p] = [id |-> i, ino |-> n]
    BY <1>3, OpenUnusedTypes
  <2> HIDE DEF i
  <2> QED BY <1>1, <2>1, <2>2, <2>3, OneNameOpens
<1>4. CASE /\ Handles(p)' \subseteq Handles(p)
           /\ \A i \in Id : link'[i] \in {link[i], NoInode}
  BY <1>1, <1>4, OneNameShrinks
<1> QED BY <1>2, <1>3, <1>4, LockEffects

\* There are no lock files at first.
LEMMA OneNameInit ==
  ASSUME Init
  PROVE  OneName
<1>1. NoLock \notin Handle
  BY InodeNat DEF Handle, NoLock
<1>2. \A p \in Procs : Handles(p) = {}
  BY <1>1 DEF Init, Handles
<1> QED BY <1>2 DEF Init, OneName

-----------------------------------------------------------------------------
(* Waiting for locks.                                                      *)

\* What the pc of p may become: only open() goes to flock(), and only Added to the
\* marks.
LEMMA PlaceEffects ==
  ASSUME IMTypes, NEW p \in Procs, Acts(p)
  PROVE  /\ pc'[p] = "lock" => OpenRequested(p)
         /\ pc'[p] = "mark" => Added(p) \/ MarkInUse(p)
<1> DEFINE Else == pc'[p] \notin {"lock", "mark"}
<1>1. CASE \/ Create(p) \/ Remove(p) \/ Clear(p) \/ OpenUnused(p) \/ AcquireLock(p)
           \/ TryAcquireLock(p) \/ AddGroup(p) \/ Created(p)
           \/ LaunchSucceeds(p) \/ LaunchFails(p) \/ SetupFails(p)
           \/ StopCvd(p) \/ Emptied(p) \/ NextGroup(p) \/ KillAll(p)
  <2>1. Else
    BY <1>1, CreateTypes, RemoveTypes, ClearTypes, OpenUnusedTypes, AcquireLockTypes,
       TryAcquireLockTypes, AddGroupTypes, CreatedTypes, LaunchSucceedsTypes, LaunchFailsTypes,
       SetupFailsTypes, StopCvdTypes, EmptiedTypes, NextGroupTypes, KillAllTypes DEF Moves
  <2> QED BY <2>1
<1>2. CASE Start(p) \/ Stop(p)
  <2>1. Go(p, "starting") \/ Go(p, "stopcvd")
    BY <1>2 DEF Start, Stop
  <2>2. Else
    BY <2>1 DEF Go, IMTypes, Sound, ProcTypes
  <2> QED BY <2>2
<1>3. CASE LoadForUpdate(p) \/ LoadForErase(p) \/ Unlink(p)
  <2>1. Else
    BY <1>3, LoadForUpdateTypes, LoadForEraseTypes, UnlinkTypes
  <2> QED BY <2>1
<1>4. CASE LoadForCancel(p) \/ Interrupt(p) \/ Cancel(p)
  <2>1. pc' = pc /\ cmd[p] = "start"
    BY <1>4, InterruptTypes, CancelTypes DEF LoadForCancel, procVars, IMTypes, Sound, Shape
  <2>2. Else
    BY <2>1 DEF IMTypes, Sound, Shape
  <2> QED BY <2>2
<1>5. CASE \/ Starting(p) \/ StopBinFails(p) \/ Stopped(p) \/ Unlinked(p)
           \/ RemoveGroupDirectory(p) \/ RemoveDirectoryFails(p) \/ Ends(p)
  <2>1. Else
    BY <1>5, StartingTypes, StopBinFailsTypes, StoppedTypes, UnlinkedTypes, DirectoryTypes,
       EndsTypes DEF Moves, Gone
  <2> QED BY <2>1
<1>6. CASE OpenRequested(p)
  BY <1>6, OpenRequestedTypes
<1>7. CASE MarkInUse(p)
  <2>1. pc'[p] = "mark"
    BY <1>7 DEF MarkInUse, procVars
  <2> QED BY <1>7, <2>1
<1>8. CASE Added(p)
  <2>1. pc'[p] = "mark"
    BY <1>8, AddedTypes
  <2> QED BY <1>8, <2>1
<1> QED BY StepCases, <1>1, <1>2, <1>3, <1>4, <1>5, <1>6, <1>7, <1>8, Zenon

\* A set of ids has a greatest element.
LEMMA Greatest ==
  ASSUME NEW S \in SUBSET Id, S # {}
  PROVE  \E x \in S : \A y \in S : y <= x
<1> DEFINE T == {MaxId - x : x \in S}
           Less == {x \in Nat \X Nat : x[1] < x[2]}
<1>1. T \in SUBSET Nat /\ T # {}
  <2>1. \A x \in S : MaxId - x \in Nat
    BY InstanceManagerAssumption DEF Id
  <2>2. PICK x \in S : TRUE
    OBVIOUS
  <2> QED BY <2>1, <2>2
<1>2. IsWellFoundedOn(Less, Nat)
  BY NatLessThanWellFounded, Zenon DEF OpToRel
<1> HIDE DEF Less
<1>3. PICK t \in T : \A u \in T : ~(<<u, t>> \in Less)
  <2> HIDE DEF T
  <2> QED BY <1>1, <1>2, WFMin
<1>4. PICK x \in S : t = MaxId - x
  OBVIOUS
<1>5. ASSUME NEW y \in S
      PROVE  y <= x
  <2>1. x \in Nat /\ y \in Nat /\ MaxId \in Nat /\ MaxId - y \in T /\ MaxId - y \in Nat /\ t \in Nat
    BY <1>1, InstanceManagerAssumption DEF Id
  <2>2. ~(MaxId - y < t)
    BY <1>3, <2>1 DEF Less
  <2> QED BY <1>4, <2>1, <2>2
<1> QED BY <1>5


\* An id that is locked already is refused before it is waited for.
LEMMA WaitStep ==
  ASSUME IMTypes, WaitInv, NEW p \in Procs, Acts(p)
  PROVE  WaitInv'
<1>1. OneName'
  BY OneNameStep DEF WaitInv
<1>2. ASSUME NEW q \in Procs
      PROVE  WaitsForOther(q)'
  <2>1. CASE q # p
    BY <2>1, TypesStep DEF Others, WaitInv, WaitsForOther
  <2>2. CASE q = p /\ OpenRequested(p)
    <3>1. Head(todo[p]) \notin Requested(p) /\ locks' = locks
      BY <2>2 DEF OpenRequested, IsRepeated
    <3>2. trying'[p].id = Head(todo[p])
      <4> DEFINE i == Head(todo[p])
      <4>1. PICK n \in Inode : trying'[p] = [id |-> i, ino |-> n]
        BY <2>2, OpenRequestedTypes
      <4> HIDE DEF i
      <4>2. trying'[p].id = i
        BY <4>1
      <4> QED BY <4>2 DEF i
    <3> QED BY <2>2, <3>1, <3>2 DEF WaitsForOther, Requested
  <2>3. CASE q = p /\ ~OpenRequested(p)
    BY <2>3, PlaceEffects DEF WaitsForOther
  <2> QED BY <2>1, <2>2, <2>3
<1> QED BY <1>1, <1>2 DEF WaitInv

\* Of those who wait in a circle, take the one that waits for the greatest id:
\* whoever has it waits for another id, and so for a smaller one.
LEMMA NoCircle ==
  ASSUME IMTypes, WaitInv
  PROVE  NoCircularWait
<1> SUFFICES ASSUME NEW W \in SUBSET Procs, W # {},
                    \A p \in W : \E q \in W : Blocks(q, p),
                    \A p \in W : \A l \in locks[p] : ~(l.id > trying[p].id)
             PROVE  FALSE
  BY DEF NoCircularWait
<1>1. \A p \in W : pc[p] = "lock"
  BY DEF Blocks
<1>2. \A p \in W : trying[p] \in Handle /\ trying[p].id \in Id
  BY <1>1 DEF IMTypes, Sound, Shape, Handle
<1> DEFINE S == {trying[p].id : p \in W}
<1>3. S \in SUBSET Id /\ S # {}
  BY <1>2
<1>4. PICK x \in S : \A y \in S : y <= x
  <2> HIDE DEF S
  <2> QED BY <1>3, Greatest
<1>5. PICK p \in W : x = trying[p].id
  OBVIOUS
<1>6. PICK q \in W : \E l \in locks[q] : l.ino = trying[p].ino
  BY DEF Blocks
<1>7. PICK l \in locks[q] : l.ino = trying[p].ino
  BY <1>6
<1>8. l.id = x
  <2>1. l \in Handles(q) /\ trying[p] \in Handles(p)
    BY <1>2 DEF Handles
  <2> QED BY <1>5, <1>7, <2>1 DEF WaitInv, OneName
<1>9. trying[q].id <= x /\ trying[q].id # x
  <2>1. trying[q].id \in S
    OBVIOUS
  <2> QED BY <1>1, <1>4, <1>8, <2>1 DEF WaitInv, WaitsForOther
<1>10. x \in Nat /\ trying[q].id \in Nat
  BY <1>2, <1>3 DEF Id
<1> QED BY <1>8, <1>9, <1>10

\* Creators wait for each other in a circle only where one of them waits for an
\* id below one that it has: for any number of processes, whatever ids they are
\* asked for, and although other commands remove the lock files under them.
THEOREM NoCircularWaitHolds == Spec => []NoCircularWait
<1>1. Init => IMTypes /\ WaitInv
  BY TypesInit, OneNameInit DEF Init, WaitInv, WaitsForOther
<1>2. IMTypes /\ WaitInv /\ [Next]_vars => IMTypes' /\ WaitInv'
  <2>1. ASSUME IMTypes, WaitInv, UNCHANGED vars
        PROVE  IMTypes' /\ WaitInv'
    <3>1. UNCHANGED <<link, pc, trying, locks>>
      BY <2>1 DEF vars, fileVars, procVars, allocVars
    <3> QED BY <2>1, <3>1, TypesStutter DEF WaitInv, WaitsForOther, OneName, Handles
  <2> QED BY <2>1, TypesStep, WaitStep DEF Next, Acts
<1>3. IMTypes /\ WaitInv => NoCircularWait
  BY NoCircle
<1> QED BY <1>1, <1>2, <1>3, PTL DEF Spec

-----------------------------------------------------------------------------
(* What the processes know of the groups.                                  *)

\* What a step of p does to its copy and to what it has loaded.
LEMMA WorkEffects ==
  ASSUME IMTypes, NEW p \in Procs, Acts(p)
  PROVE  \/ Gone(p)
         \/ UNCHANGED <<copy, pending, cancel>> /\ data'[p] = {}
         \/ UNCHANGED <<copy, pending, data, cancel, pc>>
         \/ UNCHANGED <<copy, pending, data, pc>> /\ cancel'[p] = {}
         \/ /\ copy'[p] \in groups \cup pending[p] /\ pending'[p] \subseteq pending[p]
            /\ data'[p] = {} /\ cancel'[p] = {}
         \/ copy'[p] = NoGroup /\ pending' = pending /\ data'[p] = {} /\ cancel' = cancel
         \/ Clear(p) \/ AddGroup(p) \/ LoadForUpdate(p) \/ LoadForCancel(p) \/ LoadForErase(p)
<1> DEFINE Idle == UNCHANGED <<copy, pending, cancel>> /\ data'[p] = {}
           Takes == /\ copy'[p] \in groups \cup pending[p] /\ pending'[p] \subseteq pending[p]
                    /\ data'[p] = {} /\ cancel'[p] = {}
<1>1. CASE \/ Create(p) \/ OpenRequested(p) \/ OpenUnused(p) \/ AcquireLock(p)
           \/ TryAcquireLock(p) \/ Created(p) \/ MarkInUse(p) \/ Unlink(p) \/ LaunchFails(p)
  <2>1. UNCHANGED <<copy, pending, data, cancel>>
    BY <1>1 DEF Create, OpenRequested, OpenUnused, AcquireLock, TryAcquireLock, Created, MarkInUse,
       Unlink, LaunchFails, workVars, loadVars
  <2>2. \/ pc[p] \in {"idle", "lock", "try", "mark", "unlink", "launch"}
        \/ pc[p] = "alloc" /\ todo[p] # <<>>
    BY <1>1 DEF Create, Begin, OpenRequested, OpenUnused, AcquireLock, TryAcquireLock, Created,
       MarkInUse, Unlink, LaunchFails
  <2>3. data[p] = {}
    BY <2>2 DEF IMTypes, Sound, Shape
  <2> QED BY <2>1, <2>3
<1>2. CASE Added(p)
  BY <1>2, AddedTypes
<1>3. CASE \/ Starting(p) \/ StopBinFails(p) \/ Stopped(p) \/ Unlinked(p)
           \/ RemoveGroupDirectory(p) \/ RemoveDirectoryFails(p) \/ Ends(p)
           \/ LaunchSucceeds(p) \/ SetupFails(p) \/ StopCvd(p) \/ Emptied(p)
  <2>1. Gone(p) \/ \E where \in Places : Moves(p, where)
    BY <1>3, StartingTypes, StopBinFailsTypes, StoppedTypes, UnlinkedTypes, DirectoryTypes,
       EndsTypes, LaunchSucceedsTypes, SetupFailsTypes, StopCvdTypes, EmptiedTypes
       DEF Places, Listening
  <2> QED BY <2>1 DEF Moves
<1>4. CASE Interrupt(p) \/ Cancel(p)
  BY <1>4, InterruptTypes, CancelTypes
<1>5. CASE Start(p) \/ Stop(p) \/ Remove(p)
  <2>1. /\ UNCHANGED <<pending, data, cancel>> /\ pc[p] = "idle"
        /\ \E g \in groups : copy' = [copy EXCEPT ![p] = g]
    BY <1>5 DEF Start, Stop, Remove, Drop, Begin, loadVars
  <2>2. copy'[p] \in groups
    BY <2>1 DEF IMTypes, Sound, ProcTypes
  <2>3. data[p] = {} /\ cancel[p] = {}
    BY <2>1 DEF IMTypes, Sound, Shape
  <2>4. Takes
    BY <2>1, <2>2, <2>3
  <2> QED BY <2>4
<1>6. CASE NextGroup(p)
  <2>1. PICK g \in pending[p] : /\ copy' = [copy EXCEPT ![p] = g]
                                /\ pending' = [pending EXCEPT ![p] = @ \ {g}]
    BY <1>6 DEF NextGroup, Drop
  <2>2. copy'[p] \in pending[p] /\ pending'[p] \subseteq pending[p]
    BY <2>1 DEF IMTypes, Sound, ProcTypes
  <2>3. UNCHANGED <<data, cancel>> /\ pc[p] = "next"
    BY <1>6 DEF NextGroup, loadVars
  <2>4. data[p] = {} /\ cancel[p] = {}
    BY <2>3 DEF IMTypes, Sound, Shape
  <2>5. Takes
    BY <2>2, <2>3, <2>4
  <2> QED BY <2>5
<1>7. CASE KillAll(p)
  <2>1. /\ copy'[p] = NoGroup /\ UNCHANGED <<pending, data, cancel>> /\ pc[p] = "next"
    BY <1>7, KillAllTypes
  <2>2. data[p] = {}
    BY <2>1 DEF IMTypes, Sound, Shape
  <2> QED BY <2>1, <2>2
<1>8. CASE Clear(p) \/ AddGroup(p) \/ LoadForUpdate(p) \/ LoadForCancel(p) \/ LoadForErase(p)
  BY <1>8
<1> QED BY StepCases, <1>1, <1>2, <1>3, <1>4, <1>5, <1>6, <1>7, <1>8, Zenon

\* Only a new group makes a home.
LEMMA MadeEffects ==
  ASSUME IMTypes, NEW p \in Procs, Acts(p), ~AddGroup(p)
  PROVE  made' = made
<1>1. CASE \/ Create(p) \/ Start(p) \/ Stop(p) \/ Remove(p) \/ Clear(p)
           \/ OpenRequested(p) \/ OpenUnused(p) \/ AcquireLock(p) \/ TryAcquireLock(p)
           \/ Added(p) \/ MarkInUse(p) \/ Created(p)
           \/ LoadForUpdate(p) \/ LoadForCancel(p) \/ LoadForErase(p)
  BY <1>1 DEF Create, Start, Stop, Remove, Clear, OpenRequested, OpenUnused, AcquireLock,
     TryAcquireLock, Added, MarkInUse, Created, LoadForUpdate, LoadForCancel, LoadForErase,
     worldVars
<1>2. CASE \/ LaunchSucceeds(p) \/ LaunchFails(p) \/ SetupFails(p) \/ Interrupt(p) \/ Cancel(p)
           \/ StopCvd(p) \/ Unlink(p) \/ Emptied(p) \/ NextGroup(p) \/ KillAll(p)
  BY <1>2 DEF LaunchSucceeds, LaunchFails, SetupFails, Interrupt, Cancel, StopCvd, Unlink, Emptied,
     NextGroup, KillAll, worldVars
<1>3. CASE \/ Starting(p) \/ StopBinFails(p) \/ Stopped(p) \/ Unlinked(p)
           \/ RemoveGroupDirectory(p) \/ RemoveDirectoryFails(p) \/ Ends(p)
  BY <1>3, StartingTypes, StopBinFailsTypes, StoppedTypes, UnlinkedTypes, DirectoryTypes, EndsTypes
<1> QED BY StepCases, <1>1, <1>2, <1>3, Zenon

\* What an update stores is known up to its state.
SameGroup(g, h) == g.home = h.home /\ g.name = h.name /\ g.ids = h.ids

\* The groups that p may work with.
Seen(p) == groups \cup KnownTo(p)

\* Its members.
LEMMA SeenAre ==
  ASSUME NEW p \in Procs
  PROVE  /\ groups \subseteq Seen(p) /\ copy[p] \in Seen(p) /\ pending[p] \subseteq Seen(p)
         /\ \A d \in data[p] \cup cancel[p] : d \subseteq Seen(p)
         /\ \A g \in KnownTo(p) : \/ g = copy[p] \/ g \in pending[p]
                                  \/ \E d \in data[p] \cup cancel[p] : g \in d
         /\ Seen(p) \subseteq Known
<1>1. KnownTo(p) \subseteq Seen(p) /\ groups \subseteq Seen(p) /\ Seen(p) \subseteq Known
  BY DEF Known, Seen
<1>2. /\ copy[p] \in KnownTo(p) /\ pending[p] \subseteq KnownTo(p)
      /\ UNION data[p] \subseteq KnownTo(p) /\ UNION cancel[p] \subseteq KnownTo(p)
  BY DEF KnownTo
<1>3. \A d \in data[p] \cup cancel[p] : d \subseteq KnownTo(p)
  BY <1>2
<1>4. \A g \in KnownTo(p) : \/ g = copy[p] \/ g \in pending[p]
                            \/ \E d \in data[p] \cup cancel[p] : g \in d
  BY Zenon DEF KnownTo
<1> QED BY <1>1, <1>2, <1>3, <1>4

\* The same, for all that is known.
LEMMA KnownAre ==
  ASSUME NEW p \in Procs
  PROVE  /\ groups \subseteq Known /\ copy[p] \in Known /\ pending[p] \subseteq Known
         /\ \A d \in data[p] \cup cancel[p] : d \subseteq Known
         /\ \A g \in KnownTo(p) : \/ g = copy[p] \/ g \in pending[p]
                                  \/ \E d \in data[p] \cup cancel[p] : g \in d
BY SeenAre

\* Known groups are groups, or no group.
LEMMA KnownTypes ==
  ASSUME IMTypes
  PROVE  Known \subseteq Group \cup {NoGroup}
<1>1. ASSUME NEW p \in Procs
      PROVE  KnownTo(p) \subseteq Group \cup {NoGroup}
  <2>1. copy[p] \in Group \cup {NoGroup} /\ pending[p] \subseteq Group
    BY DEF IMTypes, Sound, ProcTypes
  <2> QED BY <2>1, KnownAre, LoadedAre
<1>2. groups \subseteq Group
  BY DEF IMTypes, DbTypes
<1> QED BY <1>1, <1>2 DEF Known

\* No step makes a group up: what p and the database have afterwards they had
\* before, but for its state, or it is the group that p creates.
LEMMA SeenEffects ==
  ASSUME IMTypes, NEW p \in Procs, Acts(p)
  PROVE  \A g \in Seen(p)' : \/ g = NoGroup
                             \/ \E h \in Seen(p) : SameGroup(g, h)
                             \/ AddGroup(p) /\ g = copy'[p]
<1> DEFINE Old(g) == \/ g = NoGroup
                     \/ \E h \in Seen(p) : SameGroup(g, h)
                     \/ AddGroup(p) /\ g = copy'[p]
<1>1. \A g \in Seen(p) : Old(g)
  BY DEF SameGroup
<1>2. \A g \in groups' : Old(g)
  <2>1. ASSUME NEW loaded \in SUBSET (data[p] \cup cancel[p]), NEW mine, StoreData(loaded, mine)
        PROVE  groups' \subseteq Seen(p)
    BY <2>1, StoreEffect, SeenAre
  <2>2. ASSUME Kill(p)
        PROVE  groups' \subseteq Seen(p)
    BY <2>2, KillEffect, SeenAre
  <2>3. ASSUME Unlink(p)
        PROVE  groups' = groups
    BY <2>3, UnlinkTypes
  <2>4. groups' \subseteq Seen(p)
    BY <2>1, <2>2, <2>3, DbEffects, SeenAre
  <2> QED BY <1>1, <2>4
<1>3. ASSUME NEW g \in Group, NEW db \in Readable, NEW state \in InstanceState, g \in Seen(p)
      PROVE  \A h \in Updated(db, g, state) : Old(h)
  <2>1. PICK u \in Group : /\ u.name = g.name /\ u.home = g.home /\ u.ids = g.ids
                           /\ Updated(db, g, state) = {h \in db : h.name # g.name} \cup {u}
    BY <1>3, UpdatedIs
  <2>2. Old(u)
    BY <1>3, <2>1 DEF SameGroup
  <2>3. \A h \in db : Old(h)
    BY <1>1, ReadableAre, SeenAre
  <2> HIDE DEF Old
  <2> QED BY <2>1, <2>2, <2>3
<1>4. /\ Old(NoGroup) /\ Old(copy[p]) /\ \A g \in pending[p] : Old(g)
      /\ \A d \in data[p] \cup cancel[p] : \A g \in d : Old(g)
      /\ \A g \in groups : Old(g)
  BY <1>1, SeenAre
<1>5. \A g \in KnownTo(p)' : \/ g = copy'[p] \/ g \in pending'[p]
                             \/ \E d \in data'[p] \cup cancel'[p] : g \in d
  BY Zenon DEF KnownTo
<1>6. \A g \in KnownTo(p)' : Old(g)
  <2>1. CASE Gone(p)
    BY <1>4, <1>5, <2>1 DEF Gone
  <2>2. CASE \/ UNCHANGED <<copy, pending, cancel>> /\ data'[p] = {}
             \/ UNCHANGED <<copy, pending, data, cancel, pc>>
             \/ UNCHANGED <<copy, pending, data, pc>> /\ cancel'[p] = {}
             \/ copy'[p] = NoGroup /\ pending' = pending /\ data'[p] = {} /\ cancel' = cancel
    <3> HIDE DEF Old
    <3> QED BY <1>4, <1>5, <2>2
  <2>3. CASE /\ copy'[p] \in groups \cup pending[p] /\ pending'[p] \subseteq pending[p]
             /\ data'[p] = {} /\ cancel'[p] = {}
    <3> HIDE DEF Old
    <3> QED BY <1>4, <1>5, <2>3
  <2>4. CASE Clear(p)
    <3>1. /\ UNCHANGED <<copy, cancel>> /\ data'[p] = {{}}
          /\ \A g \in pending'[p] : g \in groups
      BY <2>4, ClearTypes, ReadableAre
    <3> HIDE DEF Old
    <3> QED BY <1>4, <1>5, <3>1
  <2>5. CASE AddGroup(p)
    <3>1. PICK g \in Group : \E db \in Readable : copy'[p] = g /\ data'[p] = {db \cup {g}}
      BY <2>5, AddGroupTypes
    <3>2. PICK db \in Readable : data'[p] = {db \cup {g}}
      BY <3>1
    <3>3. UNCHANGED <<pending, cancel>>
      BY <2>5, AddGroupTypes
    <3>4. Old(g) /\ \A h \in db : Old(h)
      BY <1>4, <2>5, <3>1, ReadableAre
    <3> HIDE DEF Old
    <3> QED BY <1>4, <1>5, <3>1, <3>2, <3>3, <3>4
  <2>6. CASE LoadForUpdate(p)
    <3>1. UNCHANGED <<copy, pending, cancel>> /\ copy[p] \in Group
      BY <2>6, LoadForUpdateTypes
    <3>2. PICK db \in Readable : \E state \in InstanceState :
                 data'[p] = {Updated(db, copy[p], state)}
      BY <2>6, LoadForUpdateTypes
    <3>3. PICK state \in InstanceState : data'[p] = {Updated(db, copy[p], state)}
      BY <3>2
    <3>4. \A h \in Updated(db, copy[p], state) : Old(h)
      BY <1>3, <3>1, SeenAre
    <3> HIDE DEF Old
    <3> QED BY <1>4, <1>5, <3>1, <3>3, <3>4
  <2>7. CASE LoadForCancel(p)
    <3>1. UNCHANGED <<copy, pending, data>> /\ copy[p] \in Group
      BY <2>7, LoadForCancelTypes
    <3>2. PICK db \in Readable : cancel'[p] = {Updated(db, copy[p], "CANCELLED")}
      BY <2>7, LoadForCancelTypes
    <3>3. \A h \in Updated(db, copy[p], "CANCELLED") : Old(h)
      BY <1>3, <3>1, SeenAre DEF InstanceState
    <3> HIDE DEF Old
    <3> QED BY <1>4, <1>5, <3>1, <3>2, <3>3
  <2>8. CASE LoadForErase(p)
    <3>1. UNCHANGED <<copy, pending, cancel>>
      BY <2>8, LoadForEraseTypes
    <3>2. PICK db \in Readable : data'[p] = {{h \in db : h.name # copy[p].name}}
      BY <2>8, LoadForEraseTypes
    <3>3. \A h \in db : Old(h)
      BY <1>4, ReadableAre
    <3> HIDE DEF Old
    <3> QED BY <1>4, <1>5, <3>1, <3>2, <3>3
  <2> QED BY <2>1, <2>2, <2>3, <2>4, <2>5, <2>6, <2>7, <2>8, WorkEffects, Zenon
<1>7. \A g \in Seen(p)' : g \in groups' \/ g \in KnownTo(p)'
  BY DEF Seen
<1> HIDE DEF Old
<1>8. \A g \in Seen(p)' : Old(g)
  BY <1>2, <1>6, <1>7
<1> QED BY <1>8 DEF Old

\* The same for all that is known, and for the homes that are made.
LEMMA KnownEffects ==
  ASSUME IMTypes, NEW p \in Procs, Acts(p)
  PROVE  /\ \A g \in Known' : \/ g = NoGroup
                              \/ \E h \in Known : SameGroup(g, h)
                              \/ AddGroup(p) /\ g = copy'[p]
         /\ AddGroup(p) => made' = made + 1 /\ copy'[p].home = made'
         /\ ~AddGroup(p) => made' = made
<1>1. ASSUME NEW q \in Procs \ {p}
      PROVE  KnownTo(q)' = KnownTo(q) /\ KnownTo(q) \subseteq Known
  <2>1. UNCHANGED <<copy[q], pending[q], data[q], cancel[q]>>
    BY TypesStep DEF Others
  <2> QED BY <2>1 DEF KnownTo, Known
<1>2. \A g \in Known' : g \in Seen(p)' \/ \E q \in Procs \ {p} : g \in KnownTo(q)'
  BY DEF Known, Seen
<1>3. Seen(p) \subseteq Known
  BY SeenAre
<1>4. \A g \in Known' : \/ g = NoGroup
                        \/ \E h \in Known : SameGroup(g, h)
                        \/ AddGroup(p) /\ g = copy'[p]
  <2>1. \A g \in Known : SameGroup(g, g)
    BY DEF SameGroup
  <2> QED BY <1>1, <1>2, <1>3, <2>1, SeenEffects
<1>5. AddGroup(p) => made' = made + 1 /\ copy'[p].home = made'
  BY AddGroupTypes
<1>6. ~AddGroup(p) => made' = made
  BY MadeEffects
<1> QED BY <1>4, <1>5, <1>6

\* Homes are never used again, and a group keeps its name and its ids.
LEMMA HomesStep ==
  ASSUME IMTypes, HomesInv, NEW p \in Procs, Acts(p)
  PROVE  HomesInv'
<1> DEFINE Old(g) == g = NoGroup \/ \E h \in Known : SameGroup(g, h)
           New(g) == AddGroup(p) /\ g = copy'[p]
<1>1. \A g \in Known' : Old(g) \/ New(g)
  BY KnownEffects
<1>2. made \in Nat /\ made' \in Nat /\ made <= made'
  BY TypesStep, KnownEffects, InstanceManagerAssumption DEF IMTypes, Sound, WorldTypes
<1>3. NoGroup.home = 0 /\ NoGroup.name = 0 /\ NoGroup.ids = {}
  BY DEF NoGroup
<1>4. \A h \in Known : h.home = 0 => h = NoGroup
  BY KnownTypes DEF Group, Home
<1>5. \A h \in Known : h.home \in 0 .. made
  BY DEF HomesInv
<1>6. ASSUME NEW g, Old(g)
      PROVE  g.home \in 0 .. made
  BY <1>2, <1>3, <1>5, <1>6 DEF SameGroup
<1>7. ASSUME NEW g, NEW h, Old(g), Old(h), g.home = h.home
      PROVE  g.name = h.name /\ g.ids = h.ids
  <2>1. CASE g = NoGroup \/ h = NoGroup
    BY <1>3, <1>4, <1>7, <2>1 DEF SameGroup
  <2>2. CASE g # NoGroup /\ h # NoGroup
    BY <1>7, <2>2 DEF SameGroup, HomesInv
  <2> QED BY <2>1, <2>2
<1>8. ASSUME NEW g, New(g)
      PROVE  g.home = made' /\ made' = made + 1
  BY <1>8, KnownEffects
<1>9. \A g, h : New(g) /\ New(h) => g = h
  OBVIOUS
<1> HIDE DEF Old, New
<1>10. \A g \in Known' : g.home \in 0 .. made'
  BY <1>1, <1>2, <1>6, <1>8
<1>11. ASSUME NEW g \in Known', NEW h \in Known', g.home = h.home
       PROVE  g.name = h.name /\ g.ids = h.ids
  <2>1. CASE Old(g) /\ Old(h)
    BY <1>7, <1>11, <2>1
  <2>2. CASE New(g) /\ New(h)
    BY <1>9, <2>2
  <2>3. CASE (New(g) /\ Old(h)) \/ (Old(g) /\ New(h))
    BY <1>2, <1>6, <1>8, <1>11, <2>3
  <2> QED BY <1>1, <2>1, <2>2, <2>3
<1> QED BY <1>10, <1>11 DEF HomesInv

\* What is stored has, or has not, the group that it is about.
LEMMA UpdatedHas ==
  ASSUME IMTypes, HomesInv, NEW p \in Procs, copy[p] \in Group, NEW db \in Readable,
         NEW state \in InstanceState
  PROVE  /\ copy[p].home \in Homes(Updated(db, copy[p], state))
         /\ state \notin Unfinished => SettledIn(Updated(db, copy[p], state), copy[p].home)
<1> DEFINE g == copy[p]
           new == Updated(db, g, state)
<1>1. PICK u \in Group : /\ u.name = g.name /\ u.home = g.home /\ u.state = state
                         /\ new = {h \in db : h.name # g.name} \cup {u}
  BY UpdatedIs
<1>2. g.home \in Homes(new)
  BY <1>1 DEF Homes
<1>3. \A h \in db : h.home = g.home => h.name = g.name
  BY ReadableAre, KnownAre DEF HomesInv
<1>4. \A h \in new : h.home = g.home => h = u
  BY <1>1, <1>3
<1>5. state \notin Unfinished => SettledIn(new, g.home)
  <2> HIDE DEF new
  <2> QED BY <1>1, <1>4 DEF SettledIn
<1> QED BY <1>2, <1>5

\* What is about to be stored is what the command is about.
LEMMA DataStep ==
  ASSUME IMTypes, HomesInv, NEW p \in Procs, DataInv(p), Acts(p)
  PROVE  DataInv(p)'
<1>1. Shape(p)'
  BY TypesStep DEF IMTypes, Sound
<1>2. ASSUME cancel'[p] = {} \/ (copy'[p] = copy[p] /\ cancel'[p] = cancel[p])
      PROVE  \A d \in cancel'[p] : SettledIn(d, copy'[p].home) /\ copy'[p].home \in Homes(d)
  BY <1>2 DEF DataInv
<1>3. CASE \/ Gone(p)
           \/ UNCHANGED <<copy, pending, cancel>> /\ data'[p] = {}
           \/ /\ copy'[p] \in groups \cup pending[p] /\ pending'[p] \subseteq pending[p]
              /\ data'[p] = {} /\ cancel'[p] = {}
  BY <1>2, <1>3 DEF DataInv, Gone, SettledIn, Homes
<1>4. CASE copy'[p] = NoGroup /\ pending' = pending /\ data'[p] = {} /\ cancel' = cancel
  <2>1. cmd'[p] # "start" => cancel'[p] = {}
    BY <1>1 DEF Shape
  <2>2. cmd'[p] # "start"
    BY <1>1, <1>4, NoGroupIsNone DEF Shape
  <2> QED BY <1>4, <2>1, <2>2 DEF DataInv
<1>5. CASE \/ UNCHANGED <<copy, pending, data, cancel, pc>>
           \/ UNCHANGED <<copy, pending, data, pc>> /\ cancel'[p] = {}
  BY <1>5 DEF DataInv, SettledIn, Homes
<1>6. CASE Clear(p)
  <2>1. pc'[p] = "clear" /\ data'[p] = {{}} /\ copy' = copy /\ cancel' = cancel
    BY <1>6, ClearTypes
  <2> QED BY <1>2, <2>1 DEF DataInv, Settled, Updating, SettledIn, Homes
<1>7. CASE AddGroup(p)
  <2>1. PICK g \in Group : \E db \in Readable : copy'[p] = g /\ data'[p] = {db \cup {g}}
    BY <1>7, AddGroupTypes
  <2>2. pc'[p] = "alloc" /\ cancel' = cancel /\ pc[p] = "alloc"
    BY <1>7, AddGroupTypes
  <2>3. cancel[p] = {}
    BY <2>2 DEF IMTypes, Sound, Shape
  <2>4. \A d \in data'[p] : copy'[p].home \in Homes(d)
    BY <2>1 DEF Homes
  <2> QED BY <2>2, <2>3, <2>4 DEF DataInv, Settled, Homes, SettledIn
<1>8. CASE LoadForUpdate(p)
  <2>1. UNCHANGED <<copy, pc, cancel>> /\ copy[p] \in Group
    BY <1>8, LoadForUpdateTypes
  <2>2. PICK db \in Readable : \E state \in InstanceState :
               /\ pc[p] # "starting" => state \notin Unfinished
               /\ data'[p] = {Updated(db, copy[p], state)}
    BY <1>8, LoadForUpdateTypes
  <2>3. PICK state \in InstanceState :
               /\ pc[p] # "starting" => state \notin Unfinished
               /\ data'[p] = {Updated(db, copy[p], state)}
    BY <2>2
  <2>4. pc[p] \in {"created", "starting", "bootFailed", "launched", "stopped"}
    BY <1>8, LoadForUpdateTypes
  <2> DEFINE new == Updated(db, copy[p], state)
  <2>5. copy[p].home \in Homes(new) /\ (pc[p] # "starting" => SettledIn(new, copy[p].home))
    BY <2>1, <2>3, UpdatedHas
  <2>6. data'[p] = {new}
    BY <2>3
  <2> HIDE DEF new
  <2>7. \A d \in cancel'[p] : SettledIn(d, copy'[p].home) /\ copy'[p].home \in Homes(d)
    BY <1>2, <2>1
  <2> QED BY <2>1, <2>4, <2>5, <2>6, <2>7 DEF DataInv, Settled, SettledIn, Homes
<1>9. CASE LoadForCancel(p)
  <2>1. UNCHANGED <<copy, pc, data>> /\ copy[p] \in Group
    BY <1>9, LoadForCancelTypes
  <2>2. PICK db \in Readable : cancel'[p] = {Updated(db, copy[p], "CANCELLED")}
    BY <1>9, LoadForCancelTypes
  <2> DEFINE new == Updated(db, copy[p], "CANCELLED")
  <2>3. copy[p].home \in Homes(new) /\ SettledIn(new, copy[p].home)
    BY <2>1, UpdatedHas DEF InstanceState, Unfinished
  <2>4. cancel'[p] = {new}
    BY <2>2
  <2> HIDE DEF new
  <2> QED BY <2>1, <2>3, <2>4 DEF DataInv, SettledIn, Homes
<1>10. CASE LoadForErase(p)
  <2>1. UNCHANGED <<copy, pc, cancel>> /\ pc[p] = "erase"
    BY <1>10, LoadForEraseTypes
  <2>2. PICK db \in Readable : data'[p] = {{h \in db : h.name # copy[p].name}}
    BY <1>10, LoadForEraseTypes
  <2>3. \A h \in db : h.home = copy[p].home => h.name = copy[p].name
    BY ReadableAre, KnownAre DEF HomesInv
  <2>4. \A d \in data'[p] : SettledIn(d, copy'[p].home)
    BY <2>1, <2>2, <2>3 DEF SettledIn
  <2>5. \A d \in cancel'[p] : SettledIn(d, copy'[p].home) /\ copy'[p].home \in Homes(d)
    BY <1>2, <2>1
  <2> QED BY <2>1, <2>4, <2>5 DEF DataInv, Updating, SettledIn, Homes
<1> QED BY <1>3, <1>4, <1>5, <1>6, <1>7, <1>8, <1>9, <1>10, WorkEffects, Zenon

\* Both hold for every process.
LEMMA KnownStep ==
  ASSUME IMTypes, KnownInv, NEW p \in Procs, Acts(p)
  PROVE  KnownInv'
<1>1. HomesInv'
  BY HomesStep DEF KnownInv
<1>2. ASSUME NEW q \in Procs
      PROVE  DataInv(q)'
  <2>1. CASE q = p
    BY <2>1, DataStep DEF KnownInv
  <2>2. CASE q # p
    <3>1. /\ pc'[q] = pc[q] /\ copy'[q] = copy[q] /\ data'[q] = data[q]
          /\ cancel'[q] = cancel[q]
      BY <2>2, TypesStep DEF Others
    <3> QED BY <3>1 DEF KnownInv, DataInv, SettledIn, Homes
  <2> QED BY <2>1, <2>2
<1> QED BY <1>1, <1>2 DEF KnownInv

\* Nothing is known at first.
LEMMA KnownInit ==
  ASSUME Init
  PROVE  KnownInv
<1>1. \A g \in Known : g = NoGroup
  <2>1. \A p \in Procs : KnownTo(p) = {NoGroup}
    BY DEF Init, KnownTo
  <2> QED BY <2>1 DEF Init, Known
<1>2. HomesInv
  <2>1. NoGroup.home = 0 /\ made = 0
    BY DEF Init, NoGroup
  <2> QED BY <1>1, <2>1 DEF HomesInv
<1>3. \A p \in Procs : DataInv(p)
  BY DEF Init, DataInv
<1> QED BY <1>2, <1>3 DEF KnownInv

-----------------------------------------------------------------------------
(* The states of the groups.                                               *)

\* What was left stays left.
LEMMA LeftGrows ==
  ASSUME IMTypes, NEW p \in Procs, Acts(p)
  PROVE  left \subseteq left'
<1>1. ASSUME NEW loaded, NEW mine, StoreData(loaded, mine)
      PROVE  left \subseteq left'
  BY <1>1, StoreEffect
<1>2. ASSUME Kill(p)
      PROVE  left \subseteq left'
  BY <1>2, KillEffect
<1>3. ASSUME Unlink(p)
      PROVE  left' = left
  BY <1>3, UnlinkTypes
<1> QED BY <1>1, <1>2, <1>3, DbEffects

\* A start stays before its first update only while it loads or is interrupted.
LEMMA StartingStays ==
  ASSUME IMTypes, NEW p \in Procs, Acts(p), pc'[p] = "starting", sig'[p] # "none"
  PROVE  /\ pc[p] = "starting" /\ copy' = copy
         /\ sig[p] # "none" \/ copy[p].home \in left'
<1>1. CASE \/ Create(p) \/ Remove(p) \/ Clear(p) \/ OpenRequested(p) \/ OpenUnused(p)
           \/ AcquireLock(p) \/ TryAcquireLock(p) \/ AddGroup(p) \/ Added(p) \/ Created(p)
           \/ LaunchSucceeds(p) \/ LaunchFails(p) \/ SetupFails(p)
           \/ StopCvd(p) \/ Emptied(p) \/ NextGroup(p) \/ KillAll(p)
  <2>1. pc'[p] # "starting"
    BY <1>1, CreateTypes, RemoveTypes, ClearTypes, OpenRequestedTypes, OpenUnusedTypes,
       AcquireLockTypes, TryAcquireLockTypes, AddGroupTypes, AddedTypes, CreatedTypes,
       LaunchSucceedsTypes, LaunchFailsTypes, SetupFailsTypes, StopCvdTypes, EmptiedTypes,
       NextGroupTypes, KillAllTypes DEF Moves
  <2> QED BY <2>1
<1>2. CASE Start(p) \/ Stop(p)
  BY <1>2, StartStopTypes
<1>3. CASE MarkInUse(p) \/ Unlink(p) \/ LoadForErase(p)
  <2>1. pc'[p] = pc[p] /\ pc[p] # "starting"
    BY <1>3, UnlinkTypes, LoadForEraseTypes DEF MarkInUse, procVars
  <2> QED BY <2>1
<1>4. CASE LoadForUpdate(p) \/ LoadForCancel(p)
  BY <1>4, LoadForUpdateTypes, LoadForCancelTypes
<1>5. CASE Interrupt(p)
  BY <1>5, InterruptTypes
<1>6. CASE Cancel(p)
  BY <1>6, CancelTypes
<1>7. CASE \/ Starting(p) \/ StopBinFails(p) \/ Stopped(p) \/ Unlinked(p)
           \/ RemoveGroupDirectory(p) \/ RemoveDirectoryFails(p) \/ Ends(p)
  <2>1. pc'[p] # "starting"
    BY <1>7, StartingTypes, StopBinFailsTypes, StoppedTypes, UnlinkedTypes, DirectoryTypes,
       EndsTypes DEF Moves, Gone
  <2> QED BY <2>1
<1> QED BY StepCases, <1>1, <1>2, <1>3, <1>4, <1>5, <1>6, <1>7, Zenon

\* p stores the last state of its group.
Corrects(p) == \/ pc[p] \in Settled /\ StoreData(data[p], {copy[p].home})
               \/ StoreData(cancel[p], {copy[p].home})

\* Then the group is not unfinished.
LEMMA CorrectsSettles ==
  ASSUME NEW p \in Procs, DataInv(p), Corrects(p)
  PROVE  SettledIn(groups', copy[p].home)
<1>1. CASE pc[p] \in Settled /\ StoreData(data[p], {copy[p].home})
  <2>1. groups' \in data[p]
    BY <1>1, StoreEffect
  <2> QED BY <1>1, <2>1 DEF DataInv
<1>2. CASE StoreData(cancel[p], {copy[p].home})
  <2>1. groups' \in cancel[p]
    BY <1>2, StoreEffect
  <2> QED BY <2>1 DEF DataInv
<1> QED BY <1>1, <1>2 DEF Corrects

\* Whoever has to settle a group does, or still has to, or leaves it for good.
LEMMA SettlingKept ==
  ASSUME IMTypes, NEW p \in Procs, Acts(p), NEW home \in Home, Settling(p, home)
  PROVE  \/ Settling(p, home)'
         \/ home \in left'
         \/ Corrects(p)
<1>1. /\ copy[p].home = home
      /\ \/ cmd[p] = "create" /\ pc[p] \in {"mark", "created"}
         \/ /\ cmd[p] = "start" /\ sig[p] # "cancelled"
            /\ pc[p] \in {"launch", "unlink", "bootFailed", "launched"}
  BY DEF Settling
<1>2. CASE \/ Create(p) \/ Start(p) \/ Stop(p) \/ Remove(p) \/ Clear(p)
           \/ OpenRequested(p) \/ OpenUnused(p) \/ AcquireLock(p) \/ TryAcquireLock(p)
           \/ AddGroup(p) \/ Added(p) \/ LoadForErase(p) \/ Starting(p)
           \/ StopCvd(p) \/ StopBinFails(p) \/ Stopped(p) \/ Emptied(p) \/ NextGroup(p) \/ KillAll(p)
  <2>1. \/ pc[p] \in {"idle", "alloc", "lock", "try", "erase", "starting"}
        \/ pc[p] \in {"stopcvd", "stopped", "clear", "next"}
    BY <1>2 DEF Create, Start, Stop, Remove, Clear, Begin, OpenRequested, OpenUnused, AcquireLock,
       TryAcquireLock, AddGroup, Added, LoadForErase, Starting, StopCvd, StopBinFails, Stopped,
       Emptied, NextGroup, KillAll
  <2> QED BY <1>1, <2>1
<1>3. CASE RemoveGroupDirectory(p) \/ RemoveDirectoryFails(p)
  <2>1. cmd[p] \notin {"create", "start"}
    BY <1>3, DirectoryTypes
  <2> QED BY <1>1, <2>1
<1>4. CASE MarkInUse(p) \/ LoadForUpdate(p) \/ LoadForCancel(p) \/ Unlink(p)
  <2>1. UNCHANGED <<cmd, pc, sig, copy>>
    BY <1>4 DEF MarkInUse, LoadForUpdate, LoadForCancel, Unlink, procVars, workVars
  <2> QED BY <1>1, <2>1 DEF Settling
<1>5. CASE Created(p)
  <2>1. UNCHANGED <<cmd, copy>> /\ pc'[p] = "created" /\ pc[p] = "mark"
    BY <1>5, CreatedTypes DEF Created, workVars
  <2> QED BY <1>1, <2>1 DEF Settling
<1>6. CASE LaunchSucceeds(p) \/ SetupFails(p)
  <2>1. pc[p] = "launch" /\ pc'[p] \in {"launched", "bootFailed"} /\ UNCHANGED <<cmd, sig, copy>>
    BY <1>6, LaunchSucceedsTypes, SetupFailsTypes DEF Moves
  <2> QED BY <1>1, <2>1 DEF Settling
<1>7. CASE LaunchFails(p)
  <2>1. pc[p] = "launch" /\ pc'[p] = "unlink" /\ UNCHANGED <<cmd, sig, copy>>
    BY <1>7, LaunchFailsTypes
  <2> QED BY <1>1, <2>1 DEF Settling
<1>8. CASE Unlinked(p)
  <2>1. pc[p] = "unlink"
    BY <1>8, UnlinkedTypes
  <2>2. pc'[p] = "bootFailed" /\ UNCHANGED <<cmd, sig, copy>>
    BY <1>1, <1>8, <2>1, UnlinkedTypes DEF Moves
  <2> QED BY <1>1, <2>1, <2>2 DEF Settling
<1>9. CASE Interrupt(p)
  <2>1. sig'[p] = "caught" /\ UNCHANGED <<cmd, pc, copy>>
    BY <1>9, InterruptTypes
  <2> QED BY <1>1, <2>1 DEF Settling
<1>10. CASE Cancel(p)
  BY <1>1, <1>10, CancelTypes DEF Corrects
<1>11. CASE LeaveWith(p)
  <2>1. /\ pc[p] \in {"created", "bootFailed", "launched"}
        /\ \/ StoreData(data[p], {copy[p].home})
           \/ left' = left \cup {copy[p].home}
    BY <1>11, EndsTypes DEF Ends
  <2> QED BY <1>1, <2>1 DEF Corrects, Settled
<1>12. CASE Leave(p) \/ Erase(p)
  <2>1. \/ pc[p] \in {"alloc", "next", "erase"}
        \/ sig[p] = "cancelled"
    BY <1>12 DEF Leave, RejectRepeated, OutOfIds, CreateFails, Abort, Cleared, Erase
  <2>2. sig[p] = "cancelled" => cmd[p] = "start"
    BY DEF IMTypes, Sound, Shape
  <2> QED BY <1>1, <2>1, <2>2
<1>13. CASE Kill(p)
  <2>1. home \in Unsettled(p)
    BY <1>1 DEF Unsettled
  <2> QED BY <1>13, <2>1, KillEffect
<1>14. Ends(p) => Leave(p) \/ LeaveWith(p) \/ Erase(p) \/ Kill(p)
  BY DEF Ends
<1> QED BY StepCases, <1>2, <1>3, <1>4, <1>5, <1>6, <1>7, <1>8, <1>9, <1>10, <1>11, <1>12, <1>13,
           <1>14, Zenon

\* A group that a write brings back as it was is left, unless it is the one that
\* is being created or started.
LEMMA BroughtBack ==
  ASSUME IMTypes, SettleInv, NEW p \in Procs, Acts(p),
         NEW g \in groups', g \notin groups, g.state \in Unfinished
  PROVE  Settling(p, g.home)' \/ g.home \in left' \/ Corrects(p)
<1>1. ASSUME NEW mine, g.home \notin mine
      PROVE  g.home \in Reverted(groups', mine)
  BY <1>1 DEF Reverted, Homes
<1>2. CASE UNCHANGED groups
  BY <1>2
<1>3. CASE /\ pc[p] \in Updating \cup {"erase"} /\ copy[p] \in Group
           /\ StoreData(data[p], {copy[p].home})
           /\ Added(p) \/ Starting(p) \/ pc[p] \in Settled
  <2>1. CASE g.home # copy[p].home
    <3>1. g.home \in Reverted(groups', {copy[p].home})
      BY <1>1, <2>1
    <3> QED BY <1>3, <3>1, StoreEffect
  <2>2. CASE g.home = copy[p].home /\ Added(p)
    <3>1. pc'[p] = "mark" /\ cmd'[p] = "create" /\ copy'[p] = copy[p]
      BY <2>2, AddedTypes
    <3> QED BY <2>2, <3>1 DEF Settling
  <2>3. CASE g.home = copy[p].home /\ Starting(p)
    <3>1. cmd[p] = "start" /\ pc[p] = "starting" /\ (Moves(p, "launch") \/ UNCHANGED groups)
      BY <2>3, StartingTypes DEF dbVars
    <3>2. CASE sig[p] # "none"
      BY <2>3, <3>1, <3>2, LeftGrows DEF SettleInv
    <3>3. CASE sig[p] = "none"
      BY <1>2, <2>3, <3>1, <3>3 DEF Settling, Moves
    <3> QED BY <3>2, <3>3
  <2>4. CASE pc[p] \in Settled
    BY <1>3, <2>4 DEF Corrects
  <2> QED BY <1>3, <2>1, <2>2, <2>3, <2>4
<1>4. CASE StoreData(cancel[p], {copy[p].home})
  BY <1>4 DEF Corrects
<1>5. CASE pc[p] = "clear" /\ StoreData(data[p], Homes(pending[p]))
  <2>1. groups' = {}
    BY <1>5, StoreEffect DEF SettleInv, KnownInv, DataInv
  <2> QED BY <2>1
<1>6. CASE Unlink(p)
  BY <1>2, <1>6, UnlinkTypes
<1>7. CASE Kill(p)
  <2>1. g.home \in Reverted(groups', {})
    BY <1>1
  <2> QED BY <1>7, <2>1, KillEffect
<1> QED BY <1>2, <1>3, <1>4, <1>5, <1>6, <1>7, DbEffects

\* A group of a store that is not about it is another one, or was left.
LEMMA CorrectsOthers ==
  ASSUME IMTypes, SettleInv, NEW p \in Procs, Acts(p), Corrects(p),
         NEW g \in groups', g.state \in Unfinished
  PROVE  g.home # copy[p].home /\ (g \in groups \/ g.home \in left')
<1>1. SettledIn(groups', copy[p].home)
  BY CorrectsSettles DEF SettleInv, KnownInv
<1>2. g.home # copy[p].home
  BY <1>1 DEF SettledIn
<1>3. left' = left \cup Reverted(groups', {copy[p].home})
  BY StoreEffect DEF Corrects
<1>4. g \notin groups => g.home \in Reverted(groups', {copy[p].home})
  BY <1>2 DEF Reverted, Homes
<1> QED BY <1>2, <1>3, <1>4

\* Every step keeps it.
LEMMA SettleStep ==
  ASSUME IMTypes, SettleInv, NEW p \in Procs, Acts(p)
  PROVE  SettleInv'
<1>1. KnownInv'
  BY KnownStep DEF SettleInv
<1>2. left \subseteq left' /\ IMTypes' /\ Others(p)
  BY LeftGrows, TypesStep
<1>3. ASSUME NEW q \in Procs, pc'[q] = "starting", sig'[q] # "none"
      PROVE  copy'[q].home \in left'
  <2>1. CASE q = p
    BY <1>2, <1>3, <2>1, StartingStays DEF SettleInv
  <2>2. CASE q # p
    BY <1>2, <1>3, <2>2 DEF Others, SettleInv
  <2> QED BY <2>1, <2>2
<1>4. ASSUME NEW g \in groups', g.state \in Unfinished
      PROVE  (\E q \in Procs : Settling(q, g.home)') \/ g.home \in left'
  <2>1. g.home \in Home
    BY <1>2 DEF IMTypes, DbTypes, Group
  <2>2. ASSUME NEW q \in Procs \ {p}, Settling(q, g.home)
        PROVE  Settling(q, g.home)'
    BY <1>2, <2>2 DEF Others, Settling
  <2>3. ASSUME g \in groups, ~Settling(p, g.home)
        PROVE  (\E q \in Procs : Settling(q, g.home)') \/ g.home \in left'
    BY <1>2, <1>4, <2>2, <2>3 DEF SettleInv
  <2>4. CASE Corrects(p)
    <3>1. g.home # copy[p].home /\ (g \in groups \/ g.home \in left')
      BY <1>4, <2>4, CorrectsOthers
    <3>2. ~Settling(p, g.home)
      BY <3>1 DEF Settling
    <3> QED BY <2>3, <3>1, <3>2
  <2>5. CASE g \in groups /\ Settling(p, g.home) /\ ~Corrects(p)
    BY <2>1, <2>5, SettlingKept
  <2>6. CASE g \notin groups /\ ~Corrects(p)
    BY <1>4, <2>6, BroughtBack
  <2> QED BY <2>3, <2>4, <2>5, <2>6
<1> QED BY <1>1, <1>3, <1>4 DEF SettleInv

\* There are no groups at first.
LEMMA SettleInit ==
  ASSUME Init
  PROVE  SettleInv
BY KnownInit DEF Init, SettleInv

\* Nothing known changes when nothing changes.
LEMMA KnownStutter ==
  ASSUME KnownInv, UNCHANGED vars
  PROVE  KnownInv'
BY DEF vars, dbVars, procVars, loadVars, workVars, worldVars,
   KnownInv, HomesInv, Known, KnownTo, DataInv, SettledIn, Homes

\* A group is PREPARING or STARTING only while its creator or a starter works on
\* it, or it was left that way by a kill, an early interrupt or a lost update:
\* for any number of processes and groups and every order of their steps.
THEOREM SettlesHolds == Spec => []Settles
<1>1. Init => IMTypes /\ SettleInv
  BY TypesInit, SettleInit
<1>2. IMTypes /\ SettleInv /\ [Next]_vars => IMTypes' /\ SettleInv'
  <2>1. ASSUME IMTypes, SettleInv, UNCHANGED vars
        PROVE  IMTypes' /\ SettleInv'
    <3>1. KnownInv'
      BY <2>1, KnownStutter DEF SettleInv
    <3>2. UNCHANGED <<groups, left, cmd, pc, sig, copy>>
      BY <2>1 DEF vars, dbVars, procVars, workVars
    <3>3. SettleInv'
      BY <2>1, <3>1, <3>2 DEF SettleInv, Settling
    <3> QED BY <2>1, <3>3, TypesStutter
  <2> QED BY <2>1, TypesStep, SettleStep DEF Next, Acts
<1>3. SettleInv => Settles
  BY DEF SettleInv, Settling, Settles, Unfinished
<1> QED BY <1>1, <1>2, <1>3, PTL DEF Spec

-----------------------------------------------------------------------------
(* The lock files and the groups they belong to.                           *)

\* What a step does to the lock files.
LEMMA FileEffects ==
  ASSUME IMTypes, NEW p \in Procs, Acts(p)
  PROVE  \/ OpenRequested(p) \/ OpenUnused(p) \/ MarkInUse(p) \/ Unlink(p)
         \/ UNCHANGED <<link, inUse>>
<1>1. CASE \/ Create(p) \/ Start(p) \/ Stop(p) \/ Remove(p) \/ Clear(p)
           \/ AcquireLock(p) \/ TryAcquireLock(p) \/ AddGroup(p) \/ Added(p) \/ Created(p)
           \/ LoadForUpdate(p) \/ LoadForCancel(p) \/ LoadForErase(p)
  BY <1>1 DEF Create, Start, Stop, Remove, Clear, AcquireLock, TryAcquireLock, AddGroup, Added,
     Created, LoadForUpdate, LoadForCancel, LoadForErase, fileVars
<1>2. CASE \/ LaunchSucceeds(p) \/ LaunchFails(p) \/ SetupFails(p) \/ Interrupt(p) \/ Cancel(p)
           \/ StopCvd(p) \/ Emptied(p) \/ NextGroup(p) \/ KillAll(p)
  BY <1>2 DEF LaunchSucceeds, LaunchFails, SetupFails, Interrupt, Cancel, StopCvd, Emptied,
     NextGroup, KillAll, fileVars
<1>3. CASE \/ Starting(p) \/ StopBinFails(p) \/ Stopped(p) \/ Unlinked(p)
           \/ RemoveGroupDirectory(p) \/ RemoveDirectoryFails(p) \/ Ends(p)
  BY <1>3, StartingTypes, StopBinFailsTypes, StoppedTypes, UnlinkedTypes, DirectoryTypes, EndsTypes
<1> QED BY StepCases, <1>1, <1>2, <1>3, Zenon

\* p has locked the inode n.
HasLocked(p, n) == \E l \in locks[p] : l.ino = n

\* An id is claimed only when a group that has it is added.
LEMMA ClaimEffects ==
  ASSUME IMTypes, OneName, NEW p \in Procs, Acts(p), NEW i \in Id, Claimed(i)'
  PROVE  /\ link'[i] \in Inode /\ link'[i] # NoInode /\ link'[i] = link[i]
         /\ Claimed(i) \/ (Added(p) /\ HasLocked(p, link[i]))
<1>1. IMTypes' /\ Others(p)
  BY TypesStep
<1>2. link'[i] \in Inode /\ link'[i] # NoInode
  <2>1. inUse' \subseteq Inode /\ \A q \in Procs : \A l \in locks'[q] : l \in Handle
    BY <1>1 DEF IMTypes, Sound, ProcTypes, WorldTypes
  <2> QED BY <2>1, InodeNat DEF Claimed, Handle
<1>3. ASSUME link'[i] = link[i], link'[i] \in inUse' => Claimed(i),
             pc'[p] = "mark" => pc[p] = "mark" /\ locks'[p] \subseteq locks[p]
      PROVE  Claimed(i)
  <2>1. CASE link'[i] \in inUse'
    BY <1>3, <2>1
  <2>2. CASE \E q \in Procs : pc'[q] = "mark" /\ \E l \in locks'[q] : l.ino = link'[i]
    <3>1. PICK q \in Procs : pc'[q] = "mark" /\ \E l \in locks'[q] : l.ino = link'[i]
      BY <2>2
    <3>2. pc[q] = "mark" /\ locks'[q] \subseteq locks[q]
      BY <1>1, <1>3, <3>1 DEF Others
    <3> QED BY <1>3, <3>1, <3>2 DEF Claimed
  <2> QED BY <2>1, <2>2 DEF Claimed
<1>4. ASSUME NEW j \in Id, NEW n \in Inode, pc'[p] # "mark", locks' = locks,
             IF link[j] = NoInode THEN IsFree(n) ELSE n = link[j],
             link' = [link EXCEPT ![j] = n],
             inUse' = IF link[j] = NoInode THEN inUse \ {n} ELSE inUse
      PROVE  Claimed(i) /\ link'[i] = link[i]
  <2>1. link'[j] = n /\ \A k \in Id \ {j} : link'[k] = link[k]
    BY <1>4 DEF IMTypes, Sound, WorldTypes
  <2>2. inUse' \subseteq inUse
    BY <1>4
  <2>3. CASE i # j \/ link[j] # NoInode
    <3>1. link'[i] = link[i]
      BY <1>4, <2>1, <2>3
    <3> QED BY <1>3, <1>4, <2>2, <3>1 DEF Claimed
  <2>4. CASE i = j /\ link[j] = NoInode
    <3>1. link'[i] = n /\ n \notin inUse' /\ ~Opened(n)
      BY <1>4, <2>1, <2>4 DEF IsFree
    <3>2. \A q \in Procs : \A l \in locks'[q] : l.ino # n
      BY <1>4, <3>1 DEF Opened, Locked
    <3> QED BY <3>1, <3>2 DEF Claimed
  <2> QED BY <2>3, <2>4
<1>5. CASE OpenRequested(p)
  <2> DEFINE j == Head(todo[p])
  <2>1. locks' = locks /\ j \in Id /\ pc'[p] = "lock"
    BY <1>5, OpenRequestedTypes DEF OpenRequested
  <2>2. PICK n \in Inode :
           /\ IF link[j] = NoInode THEN IsFree(n) ELSE n = link[j]
           /\ link' = [link EXCEPT ![j] = n]
           /\ inUse' = IF link[j] = NoInode THEN inUse \ {n} ELSE inUse
    BY <1>5, OpenRequestedTypes
  <2> HIDE DEF j
  <2> QED BY <1>2, <1>4, <2>1, <2>2
<1>6. CASE OpenUnused(p)
  <2> DEFINE j == trying[p].id + 1
  <2>1. locks' = locks /\ j \in Id /\ pc'[p] = "try"
    BY <1>6, OpenUnusedTypes DEF OpenUnused
  <2>2. PICK n \in Inode :
           /\ IF link[j] = NoInode THEN IsFree(n) ELSE n = link[j]
           /\ link' = [link EXCEPT ![j] = n]
           /\ inUse' = IF link[j] = NoInode THEN inUse \ {n} ELSE inUse
    BY <1>6, OpenUnusedTypes
  <2> HIDE DEF j
  <2> QED BY <1>2, <1>4, <2>1, <2>2
<1>7. CASE MarkInUse(p)
  <2>1. PICK l \in locks[p] : inUse' = inUse \cup {l.ino}
    BY <1>7 DEF MarkInUse
  <2>2. pc[p] = "mark" /\ link' = link /\ locks' = locks
    BY <1>7 DEF MarkInUse, allocVars
  <2>3. link'[i] \in inUse' => Claimed(i)
    BY <2>1, <2>2 DEF Claimed
  <2> QED BY <1>2, <1>3, <2>2, <2>3
<1>8. CASE Unlink(p)
  <2>1. PICK j \in Id : link' \in {link, [link EXCEPT ![j] = NoInode]}
    BY <1>8, UnlinkTypes
  <2>2. UNCHANGED <<inUse, pc, locks>>
    BY <1>8 DEF Unlink, procVars, allocVars
  <2>3. link'[i] = link[i]
    BY <1>2, <2>1 DEF IMTypes, Sound, WorldTypes
  <2>4. link'[i] \in inUse' => Claimed(i)
    BY <2>2, <2>3 DEF Claimed
  <2> QED BY <1>2, <1>3, <2>2, <2>3, <2>4
<1>9. CASE Added(p)
  <2>1. UNCHANGED <<link, inUse, locks>>
    BY <1>9, AddedTypes
  <2>2. CASE link'[i] \in inUse'
    BY <1>2, <2>1, <2>2 DEF Claimed
  <2>3. CASE \E q \in Procs : pc'[q] = "mark" /\ \E l \in locks'[q] : l.ino = link'[i]
    <3>1. PICK q \in Procs : pc'[q] = "mark" /\ \E l \in locks[q] : l.ino = link[i]
      BY <2>1, <2>3
    <3>2. CASE q # p
      BY <1>1, <1>2, <2>1, <3>1, <3>2 DEF Others, Claimed
    <3>3. CASE q = p
      BY <1>2, <1>9, <2>1, <3>1, <3>3 DEF HasLocked
    <3> QED BY <3>2, <3>3
  <2> QED BY <2>2, <2>3 DEF Claimed
<1>10. CASE UNCHANGED <<link, inUse>> /\ ~Added(p) /\ ~MarkInUse(p)
  <2>1. link'[i] \in inUse' => Claimed(i)
    BY <1>10 DEF Claimed
  <2>2. pc'[p] # "mark"
    BY <1>10, PlaceEffects
  <2> QED BY <1>2, <1>3, <1>10, <2>1, <2>2
<1> QED BY <1>5, <1>6, <1>7, <1>8, <1>9, <1>10, FileEffects

\* What is astray stays so as long as there is a lock file.
LEMMA StrayStays ==
  ASSUME IMTypes, NEW p \in Procs, Acts(p), NEW i \in Id, i \in stray, link'[i] # NoInode
  PROVE  i \in stray'
<1>1. ASSUME NEW loaded, NEW mine, StoreData(loaded, mine)
      PROVE  i \in stray'
  BY <1>1, StoreEffect
<1>2. ASSUME Kill(p)
      PROVE  i \in stray'
  BY <1>2, KillEffect
<1>3. ASSUME Unlink(p)
      PROVE  i \in stray'
  <2>1. PICK j \in Id : \/ link' = [link EXCEPT ![j] = NoInode] /\ stray' = stray \ {j}
                        \/ stray' = stray \cup {j}
    BY <1>3, UnlinkTypes
  <2>2. link' = [link EXCEPT ![j] = NoInode] => i # j
    BY DEF IMTypes, Sound, WorldTypes
  <2> QED BY <2>1, <2>2
<1> QED BY <1>1, <1>2, <1>3, DbEffects

\* A clear or reset that runs leaves no lock file out, or the id is astray.
LEMMA UnlinkingKept ==
  ASSUME IMTypes, NEW p \in Procs, Acts(p), NEW i \in Id, i \in Unlinking(p), link'[i] # NoInode
  PROVE  i \in Unlinking(p)' \/ i \in stray'
<1>1. cmd[p] \in {"clear", "reset"} /\ (i \in rest[p] \/ \E g \in pending[p] : i \in g.ids)
  BY DEF Unlinking
<1>2. pc[p] \in {"stopcvd", "stopped", "unlink", "clear", "next"} /\ sig[p] = "none"
  <2>1. Shape(p) /\ pc[p] \in Places
    BY DEF IMTypes, Sound, ProcTypes
  <2> QED BY <1>1, <2>1 DEF Shape, Places, Listening
<1>3. ASSUME UNCHANGED <<cmd, rest, pending>>
      PROVE  i \in Unlinking(p)'
  BY <1>1, <1>3 DEF Unlinking
<1>4. CASE \/ Create(p) \/ Start(p) \/ Stop(p) \/ Remove(p) \/ Clear(p)
           \/ OpenRequested(p) \/ OpenUnused(p) \/ AcquireLock(p) \/ TryAcquireLock(p)
           \/ AddGroup(p) \/ Added(p) \/ MarkInUse(p) \/ Created(p)
           \/ Starting(p) \/ LaunchSucceeds(p) \/ LaunchFails(p) \/ SetupFails(p)
           \/ LoadForErase(p)
  <2>1. pc[p] \in {"idle", "alloc", "lock", "try", "mark", "starting", "launch", "erase"}
    BY <1>4 DEF Create, Start, Stop, Remove, Clear, Begin, OpenRequested, OpenUnused, AcquireLock,
       TryAcquireLock, AddGroup, Added, MarkInUse, Created, Starting, LaunchSucceeds, LaunchFails,
       SetupFails, LoadForErase
  <2> QED BY <1>2, <2>1
<1>5. CASE Interrupt(p) \/ LoadForCancel(p) \/ Cancel(p)
  BY <1>1, <1>2, <1>5 DEF Interrupt, LoadForCancel, Cancel
<1>6. CASE LoadForUpdate(p)
  BY <1>3, <1>6, LoadForUpdateTypes
<1>7. CASE StopCvd(p) \/ Emptied(p)
  BY <1>3, <1>7, StopCvdTypes, EmptiedTypes DEF Moves
<1>8. CASE StopBinFails(p) \/ Stopped(p)
  <2>1. UNCHANGED <<cmd, rest, pending>>
    BY <1>1, <1>8, StopBinFailsTypes, StoppedTypes DEF Moves
  <2> QED BY <1>3, <2>1
<1>9. CASE RemoveGroupDirectory(p) \/ RemoveDirectoryFails(p)
  <2>1. UNCHANGED <<cmd, rest, pending>>
    BY <1>1, <1>9, DirectoryTypes DEF Moves
  <2> QED BY <1>3, <2>1
<1>10. CASE Unlink(p)
  <2>1. PICK j \in rest[p] :
           /\ j \in Id /\ rest'[p] = rest[p] \ {j}
           /\ link' = [link EXCEPT ![j] = NoInode] \/ stray' = stray \cup {j}
    BY <1>10, UnlinkTypes
  <2>2. UNCHANGED <<cmd, pending>>
    BY <1>10, UnlinkTypes
  <2>3. CASE i = j
    <3>1. link' # [link EXCEPT ![j] = NoInode]
      BY <2>3 DEF IMTypes, Sound, WorldTypes
    <3> QED BY <2>1, <2>3, <3>1
  <2>4. CASE i # j
    BY <1>1, <2>1, <2>2, <2>4 DEF Unlinking
  <2> QED BY <2>3, <2>4
<1>11. CASE Unlinked(p)
  <2>1. rest[p] = {} /\ pending[p] = {}
    BY <1>1, <1>11, UnlinkedTypes
  <2> QED BY <1>1, <2>1
<1>12. CASE NextGroup(p)
  <2>1. PICK g \in pending[p] : /\ Drop(p, g)
                                /\ pending' = [pending EXCEPT ![p] = @ \ {g}]
    BY <1>12 DEF NextGroup
  <2>2. g \in Group
    BY DEF IMTypes, Sound, ProcTypes
  <2>3. rest'[p] = g.ids
    BY <2>1, <2>2, DropTypes
  <2>4. pending'[p] = pending[p] \ {g}
    BY <2>1 DEF IMTypes, Sound, ProcTypes
  <2>5. cmd' = cmd /\ rest[p] = {}
    BY <1>12 DEF NextGroup, IMTypes, Sound, Shape
  <2> QED BY <1>1, <2>3, <2>4, <2>5 DEF Unlinking
<1>13. CASE KillAll(p)
  BY <1>1, <1>13, KillAllTypes
<1>14. CASE Leave(p) \/ LeaveWith(p) \/ Erase(p)
  <2>1. \/ pc[p] \in {"alloc", "created", "bootFailed", "launched", "erase"}
        \/ sig[p] = "cancelled" \/ (pc[p] = "next" /\ pending[p] = {})
    BY <1>14 DEF Leave, RejectRepeated, OutOfIds, CreateFails, Abort, Cleared,
       LeaveWith, CreateReturns, BootFailed, Launched, Erase
  <2>2. ~(pc[p] = "next" /\ pending[p] = {})
    BY <1>1 DEF IMTypes, Sound, Shape
  <2> QED BY <1>2, <2>1, <2>2
<1>15. CASE Kill(p)
  BY <1>15, KillEffect
<1>16. Ends(p) => Leave(p) \/ LeaveWith(p) \/ Erase(p) \/ Kill(p)
  BY DEF Ends
<1> QED BY StepCases, <1>4, <1>5, <1>6, <1>7, <1>8, <1>9, <1>10, <1>11, <1>12, <1>13, <1>14,
           <1>15, <1>16, Zenon

\* So what is lost stays lost.
LEMMA LostStays ==
  ASSUME IMTypes, NEW p \in Procs, Acts(p), NEW i \in Id, Lost(i), link'[i] # NoInode
  PROVE  Lost(i)'
<1>1. CASE i \in stray
  BY <1>1, StrayStays DEF Lost
<1>2. ASSUME NEW q \in Procs, i \in Unlinking(q)
      PROVE  Lost(i)'
  <2>1. CASE q = p
    BY <1>2, <2>1, UnlinkingKept DEF Lost
  <2>2. CASE q # p
    <3>1. cmd'[q] = cmd[q] /\ rest'[q] = rest[q] /\ pending'[q] = pending[q]
      BY <2>2, TypesStep DEF Others
    <3>2. i \in Unlinking(q)'
      BY <1>2, <3>1 DEF Unlinking
    <3> QED BY <3>2 DEF Lost
  <2> QED BY <2>1, <2>2
<1> QED BY <1>1, <1>2 DEF Lost

\* A group stays in the database, or its ids are lost, unless remove erases it.
LEMMA GroupKept ==
  ASSUME IMTypes, KnownInv, NEW p \in Procs, Acts(p), NEW g \in groups, NEW i \in g.ids,
         ~(pc[p] = "erase" /\ g.home = copy[p].home)
  PROVE  \/ \E h \in groups' : h.home = g.home /\ i \in h.ids
         \/ i \in stray'
         \/ i \in Unlinking(p)'
<1>1. IMTypes' /\ HomesInv /\ i \in Id
  BY TypesStep DEF KnownInv, IMTypes, DbTypes, Group
<1>2. ASSUME NEW new \in SUBSET Seen(p), groups' = new, g.home \in Homes(new)
      PROVE  \E h \in groups' : h.home = g.home /\ i \in h.ids
  <2>1. PICK h \in new : h.home = g.home
    BY <1>2 DEF Homes
  <2>2. h \in Known /\ g \in Known
    BY <2>1, SeenAre
  <2>3. h.ids = g.ids
    BY <1>1, <2>1, <2>2 DEF HomesInv
  <2> QED BY <1>2, <2>1, <2>3
<1>3. ASSUME NEW new, NEW mine, g.home \notin mine, g.home \notin Homes(new)
      PROVE  i \in Dropped(new, mine)
  BY <1>3 DEF Dropped
<1>4. CASE groups' = groups
  BY <1>4
<1>5. ASSUME NEW loaded \in SUBSET (data[p] \cup cancel[p]), StoreData(loaded, {copy[p].home}),
             \A d \in loaded : g.home = copy[p].home => g.home \in Homes(d)
      PROVE  (\E h \in groups' : h.home = g.home /\ i \in h.ids) \/ i \in stray'
  <2>1. PICK new \in loaded : groups' = new /\ stray' = stray \cup Dropped(new, {copy[p].home})
    BY <1>5 DEF StoreData
  <2>2. new \in SUBSET Seen(p)
    BY <2>1, SeenAre
  <2>3. CASE g.home \in Homes(new)
    BY <1>2, <2>1, <2>2, <2>3
  <2>4. CASE g.home \notin Homes(new)
    <3>1. g.home \notin {copy[p].home}
      BY <1>5, <2>1, <2>4
    <3> QED BY <1>3, <2>1, <2>4, <3>1
  <2> QED BY <2>3, <2>4
<1>6. CASE pc[p] \in Updating \cup {"erase"} /\ StoreData(data[p], {copy[p].home})
  <2>1. \A d \in data[p] : g.home = copy[p].home => g.home \in Homes(d)
    BY <1>6 DEF KnownInv, DataInv
  <2> QED BY <1>5, <1>6, <2>1
<1>7. CASE StoreData(cancel[p], {copy[p].home})
  <2>1. \A d \in cancel[p] : g.home = copy[p].home => g.home \in Homes(d)
    BY DEF KnownInv, DataInv
  <2> QED BY <1>5, <1>7, <2>1
<1>8. CASE pc[p] = "clear" /\ Emptied(p) /\ StoreData(data[p], Homes(pending[p]))
  <2>1. CASE g.home \in Homes(pending[p])
    <3>1. PICK h \in pending[p] : h.home = g.home
      BY <2>1 DEF Homes
    <3>2. h.ids = g.ids
      BY <1>1, <3>1, KnownAre DEF HomesInv
    <3>3. cmd'[p] \in {"clear", "reset"} /\ pending'[p] = pending[p]
      BY <1>8, EmptiedTypes DEF Moves
    <3>4. i \in Unlinking(p)'
      BY <1>1, <3>1, <3>2, <3>3 DEF Unlinking
    <3> QED BY <3>4
  <2>2. CASE g.home \notin Homes(pending[p])
    <3>1. PICK new \in data[p] : stray' = stray \cup Dropped(new, Homes(pending[p]))
      BY <1>8 DEF StoreData
    <3>2. new = {}
      BY <1>8, <3>1 DEF KnownInv, DataInv
    <3>3. g.home \notin Homes(new)
      BY <3>2 DEF Homes
    <3> QED BY <1>3, <2>2, <3>1, <3>3
  <2> QED BY <2>1, <2>2
<1>9. CASE Unlink(p)
  BY <1>4, <1>9, UnlinkTypes
<1>10. CASE Kill(p)
  <2>1. PICK new \in {groups} \cup UNION {SUBSET d : d \in data[p] \cup cancel[p]} :
            groups' = new /\ stray' = stray \cup Dropped(new, {}) \cup Unlinking(p)
    BY <1>10 DEF Kill
  <2>2. new \in SUBSET Seen(p)
    BY <2>1, SeenAre
  <2>3. CASE g.home \in Homes(new)
    BY <1>2, <2>1, <2>2, <2>3
  <2>4. CASE g.home \notin Homes(new)
    BY <1>3, <2>1, <2>4
  <2> QED BY <2>3, <2>4
<1> QED BY <1>4, <1>6, <1>7, <1>8, <1>9, <1>10, DbEffects

\* A creator that is about to store its group does only that, or dies.
LEMMA AllocSteps ==
  ASSUME IMTypes, NEW p \in Procs, Acts(p), pc[p] = "alloc", data[p] # {}, pc'[p] = "alloc"
  PROVE  FALSE
<1>1. cmd[p] = "create" /\ todo[p] = <<>> /\ sig[p] = "none"
  BY DEF IMTypes, Sound, Shape
<1>2. CASE \/ Create(p) \/ Start(p) \/ Stop(p) \/ Remove(p) \/ Clear(p)
           \/ OpenRequested(p) \/ OpenUnused(p) \/ AcquireLock(p) \/ TryAcquireLock(p)
           \/ AddGroup(p) \/ MarkInUse(p) \/ Created(p)
           \/ LoadForUpdate(p) \/ LoadForCancel(p) \/ LoadForErase(p)
  BY <1>1, <1>2 DEF Create, Start, Stop, Remove, Clear, Begin, OpenRequested, OpenUnused,
     AcquireLock, TryAcquireLock, AddGroup, MarkInUse, Created, LoadForUpdate, LoadForCancel,
     LoadForErase
<1>3. CASE \/ Starting(p) \/ LaunchSucceeds(p) \/ LaunchFails(p) \/ SetupFails(p)
           \/ Interrupt(p) \/ Cancel(p) \/ StopCvd(p) \/ StopBinFails(p) \/ Stopped(p)
           \/ Unlink(p) \/ Unlinked(p) \/ RemoveGroupDirectory(p) \/ RemoveDirectoryFails(p)
           \/ Emptied(p) \/ NextGroup(p) \/ KillAll(p)
  BY <1>1, <1>3 DEF Starting, LaunchSucceeds, LaunchFails, SetupFails, Interrupt, Cancel, StopCvd,
     StopBinFails, Stopped, Unlink, Unlinked, RemoveGroupDirectory, RemoveDirectoryFails, Emptied,
     NextGroup, KillAll
<1>4. CASE Added(p) \/ Ends(p)
  BY <1>4, AddedTypes, EndsTypes DEF Gone
<1> QED BY StepCases, <1>2, <1>3, <1>4, Zenon

\* Only AddGroup leaves a creator about to store its group.
LEMMA AddsOnly ==
  ASSUME IMTypes, NEW p \in Procs, Acts(p), pc'[p] = "alloc", data'[p] # {}
  PROVE  AddGroup(p)
<1>1. CASE Gone(p)
  BY <1>1 DEF Gone
<1>2. CASE UNCHANGED <<data, pc>>
  BY <1>2, AllocSteps
<1>3. CASE Clear(p)
  BY <1>3, ClearTypes
<1>4. CASE LoadForUpdate(p) \/ LoadForCancel(p) \/ LoadForErase(p)
  <2>1. UNCHANGED <<cmd, pc>> /\ pc[p] # "alloc"
    BY <1>4, LoadForUpdateTypes, LoadForEraseTypes, LoadForCancelTypes
       DEF LoadForCancel, IMTypes, Sound, Shape
  <2> QED BY <2>1
<1> QED BY <1>1, <1>2, <1>3, <1>4, WorkEffects

\* The group that is being added is known to its creator only.
LEMMA FreshStep ==
  ASSUME IMTypes, LeakInv, NEW p \in Procs, Acts(p), NEW q \in Procs
  PROVE  Fresh(q)'
<1>1. IMTypes' /\ Others(p) /\ HomesInv
  BY TypesStep DEF LeakInv, KnownInv
<1>2. made \in Nat /\ \A r \in Procs : \A g \in Seen(r) : g.home \in 0 .. made
  BY <1>1, SeenAre, InstanceManagerAssumption DEF HomesInv, IMTypes, Sound, WorldTypes
<1>3. \A r \in Procs : KnownTo(r) \subseteq Seen(r) /\ groups \subseteq Seen(r)
  BY DEF Seen
<1>4. \A r \in Procs \ {p} : KnownTo(r)' = KnownTo(r)
  BY <1>1 DEF Others, KnownTo
<1>5. SUFFICES ASSUME pc'[q] = "alloc", data'[q] # {}
               PROVE  /\ copy'[q].home # 0 /\ copy'[q].ids = Requested(q)'
                      /\ \A g \in groups' : g.home # copy'[q].home
                      /\ \A r \in Procs \ {q} : \A g \in KnownTo(r)' : g.home # copy'[q].home
  BY DEF Fresh
<1>6. CASE q = p
  <2>1. AddGroup(p)
    BY <1>5, <1>6, AddsOnly
  <2>2. /\ made' = made + 1 /\ copy'[p].home = made' /\ copy'[p].ids = Requested(p)
        /\ locks' = locks
    BY <2>1, AddGroupTypes
  <2>3. groups' = groups
    BY <2>1 DEF AddGroup, dbVars
  <2>4. \A g \in groups' : g.home # made'
    BY <1>2, <1>3, <2>2, <2>3
  <2>5. \A r \in Procs \ {p} : \A g \in KnownTo(r)' : g.home # made'
    BY <1>2, <1>3, <1>4, <2>2
  <2>6. Requested(p)' = Requested(p)
    BY <2>2 DEF Requested
  <2> QED BY <1>2, <1>6, <2>2, <2>4, <2>5, <2>6
<1>7. CASE q # p
  <2>1. /\ pc[q] = "alloc" /\ data[q] # {} /\ copy'[q] = copy[q] /\ locks'[q] = locks[q]
    BY <1>1, <1>5, <1>7 DEF Others
  <2> DEFINE home == copy[q].home
  <2>2. /\ home # 0 /\ copy[q].ids = Requested(q)
        /\ \A g \in groups : g.home # home
        /\ \A r \in Procs \ {q} : \A g \in KnownTo(r) : g.home # home
    BY <2>1 DEF LeakInv, Fresh
  <2>3. home \in 0 .. made
    BY <1>2, SeenAre
  <2>4. \A g \in Seen(p) : g.home # home
    BY <1>7, <2>2 DEF Seen
  <2>5. ASSUME NEW g \in Seen(p)'
        PROVE  g.home # home
    <3>1. CASE g = NoGroup
      BY <2>2, <3>1 DEF NoGroup
    <3>2. CASE \E h \in Seen(p) : SameGroup(g, h)
      BY <2>4, <3>2 DEF SameGroup
    <3>3. CASE AddGroup(p) /\ g = copy'[p]
      BY <1>2, <2>3, <3>3, KnownEffects
    <3> QED BY <3>1, <3>2, <3>3, SeenEffects
  <2>6. groups' \subseteq Seen(p)' /\ KnownTo(p)' \subseteq Seen(p)'
    BY DEF Seen
  <2>7. Requested(q)' = Requested(q) /\ copy'[q].home = home
    BY <2>1 DEF Requested
  <2> HIDE DEF home
  <2> QED BY <1>4, <1>7, <2>1, <2>2, <2>5, <2>6, <2>7
<1> QED BY <1>6, <1>7

\* What remove has unlinked by now it had before, unless there is no lock file
\* or it could not be removed.
LEMMA RemoveEffects ==
  ASSUME IMTypes, NEW p \in Procs, Acts(p),
         cmd'[p] = "remove", NEW i \in Id, i \in copy'[p].ids \ rest'[p], link'[i] # NoInode
  PROVE  \/ cmd[p] = "remove" /\ copy'[p] = copy[p] /\ i \notin rest[p]
         \/ i \in stray'
<1>1. ~Gone(p)
  BY DEF Gone
<1>2. ASSUME UNCHANGED <<cmd, copy, rest>>
      PROVE  cmd[p] = "remove" /\ copy'[p] = copy[p] /\ i \notin rest[p]
  BY <1>2
<1>3. CASE Create(p) \/ Start(p) \/ Stop(p) \/ Clear(p)
  <2>1. cmd'[p] \in {"create", "start", "stop", "clear", "reset"}
    BY <1>3 DEF Create, Start, Stop, Clear, Begin, IMTypes, Sound, ProcTypes
  <2> QED BY <2>1
<1>4. CASE Remove(p)
  <2>1. PICK g \in groups : Drop(p, g)
    BY <1>4 DEF Remove
  <2>2. g \in Group
    BY DEF IMTypes, DbTypes
  <2> QED BY <2>1, <2>2, DropTypes
<1>5. CASE \/ OpenRequested(p) \/ OpenUnused(p) \/ AcquireLock(p) \/ TryAcquireLock(p)
           \/ AddGroup(p) \/ Added(p) \/ MarkInUse(p) \/ Created(p)
           \/ LaunchSucceeds(p) \/ LaunchFails(p) \/ SetupFails(p) \/ Emptied(p)
           \/ NextGroup(p) \/ KillAll(p)
  <2>1. cmd' = cmd /\ pc[p] \in {"alloc", "lock", "try", "mark", "launch", "clear", "next"}
    BY <1>5 DEF OpenRequested, OpenUnused, AcquireLock, TryAcquireLock, AddGroup, Added, MarkInUse,
       Created, LaunchSucceeds, LaunchFails, SetupFails, Emptied, NextGroup, KillAll, procVars
  <2> QED BY <2>1 DEF IMTypes, Sound, Shape
<1>6. CASE \/ Interrupt(p) \/ Cancel(p) \/ StopCvd(p)
           \/ LoadForUpdate(p) \/ LoadForCancel(p) \/ LoadForErase(p)
  BY <1>2, <1>6 DEF Interrupt, Cancel, StopCvd, LoadForUpdate, LoadForCancel, LoadForErase,
     workVars, procVars
<1>7. CASE \/ Starting(p) \/ StopBinFails(p) \/ Stopped(p) \/ Unlinked(p)
           \/ RemoveGroupDirectory(p) \/ RemoveDirectoryFails(p)
  <2>1. UNCHANGED <<cmd, copy, rest>>
    BY <1>1, <1>7, StartingTypes, StopBinFailsTypes, StoppedTypes, UnlinkedTypes, DirectoryTypes
       DEF Moves
  <2> QED BY <1>2, <2>1
<1>8. CASE Unlink(p)
  <2>1. PICK j \in rest[p] :
           /\ j \in Id /\ rest'[p] = rest[p] \ {j}
           /\ link' = [link EXCEPT ![j] = NoInode] \/ stray' = stray \cup {j}
    BY <1>8, UnlinkTypes
  <2>2. UNCHANGED <<cmd, copy>>
    BY <1>8, UnlinkTypes
  <2>3. CASE i = j
    <3>1. link' # [link EXCEPT ![j] = NoInode]
      BY <2>3 DEF IMTypes, Sound, WorldTypes
    <3> QED BY <2>1, <2>3, <3>1
  <2> QED BY <2>1, <2>2, <2>3
<1>9. CASE Ends(p)
  BY <1>1, <1>9, EndsTypes
<1> QED BY StepCases, <1>3, <1>4, <1>5, <1>6, <1>7, <1>8, <1>9, Zenon

\* Every step keeps LeakInv.
LEMMA LeakStep ==
  ASSUME IMTypes, LeakInv, NEW p \in Procs, Acts(p)
  PROVE  LeakInv'
<1>1. IMTypes' /\ Others(p)
  BY TypesStep
<1>2. OneName' /\ KnownInv'
  BY OneNameStep, KnownStep DEF LeakInv
<1>3. \A q \in Procs : Fresh(q)'
  BY FreshStep
<1>4. PICK own \in [Inode -> Home \cup {0}] : Owned(own)
  BY DEF LeakInv
<1> DEFINE Mine(n) == Added(p) /\ HasLocked(p, n)
<1>5. ASSUME Added(p)
      PROVE  /\ copy[p] \in Group /\ copy[p].home \in Home /\ copy[p].ids = Requested(p)
             /\ pc[p] = "alloc" /\ data[p] # {} /\ cmd[p] = "create" /\ cmd' = cmd
             /\ \A q \in Procs \ {p} : copy[q].home # copy[p].home
  <2>1. pc[p] = "alloc" /\ data[p] # {} /\ cmd[p] = "create" /\ cmd' = cmd
    BY <1>5, AddedTypes
  <2>2. copy[p] \in Group
    BY <2>1 DEF IMTypes, Sound, Shape
  <2>3. \A q \in Procs : copy[q] \in KnownTo(q)
    BY DEF KnownTo
  <2> QED BY <2>1, <2>2, <2>3 DEF Group, LeakInv, Fresh
<1>6. PICK o \in [Inode -> Home \cup {0}] :
         \A n \in Inode : o[n] = IF Mine(n) THEN copy[p].home ELSE own[n]
  <2> DEFINE f == [n \in Inode |-> IF Mine(n) THEN copy[p].home ELSE own[n]]
  <2>1. f \in [Inode -> Home \cup {0}]
    BY <1>4, <1>5
  <2>2. \A n \in Inode : f[n] = IF Mine(n) THEN copy[p].home ELSE own[n]
    OBVIOUS
  <2> HIDE DEF f, Mine
  <2> QED BY <2>1, <2>2
<1>7. ASSUME NEW i \in Id, Claimed(i)'
      PROVE  /\ link'[i] = link[i] /\ link[i] \in Inode /\ link'[i] # NoInode
             /\ \/ Mine(link[i]) /\ o[link[i]] = copy[p].home
                \/ ~Mine(link[i]) /\ Claimed(i) /\ o[link[i]] = own[link[i]]
  <2>1. /\ link'[i] = link[i] /\ link[i] \in Inode /\ link'[i] # NoInode
        /\ Claimed(i) \/ Mine(link[i])
    BY <1>7, ClaimEffects DEF LeakInv
  <2> HIDE DEF Mine
  <2> QED BY <1>6, <2>1
<1>8. ASSUME NEW i \in Id, Claimed(i)'
      PROVE  Lost(i)' \/ \E g \in groups' : g.home = o[link'[i]] /\ i \in g.ids
  <2>1. CASE Mine(link[i]) /\ o[link[i]] = copy[p].home
    <3>1. PICK l \in locks[p] : l.ino = link[i]
      BY <2>1 DEF HasLocked
    <3>2. l \in Handles(p)
      BY <3>1 DEF Handles
    <3>3. i \in Requested(p)
      BY <3>1, <3>2 DEF LeakInv, OneName, Requested
    <3>4. StoreData(data[p], {copy[p].home})
      BY <2>1 DEF Added
    <3>5. groups' \in data[p]
      BY <3>4, StoreEffect
    <3>6. copy[p].home \in Homes(groups')
      <4>1. pc[p] \in Updating
        BY <1>5, <2>1 DEF Updating
      <4>2. \A d \in data[p] : copy[p].home \in Homes(d)
        BY <4>1 DEF LeakInv, KnownInv, DataInv
      <4>3. ASSUME NEW d \in data[p], d = groups'
            PROVE  \E g \in d : g.home = copy[p].home
        BY <4>2, <4>3 DEF Homes
      <4> QED BY <3>5, <4>3 DEF Homes
    <3>7. PICK g \in groups' : g.home = copy[p].home
      BY <3>6 DEF Homes
    <3>8. g \in Known /\ copy[p] \in Known
      BY <3>5, <3>7, KnownAre
    <3>9. g.ids = copy[p].ids
      BY <3>7, <3>8 DEF LeakInv, KnownInv, HomesInv
    <3> QED BY <1>5, <1>7, <1>8, <2>1, <3>3, <3>7, <3>9
  <2>2. CASE Claimed(i) /\ o[link[i]] = own[link[i]]
    <3>1. link'[i] = link[i] /\ link'[i] # NoInode
      BY <1>7, <1>8
    <3>2. CASE Lost(i)
      BY <3>1, <3>2, LostStays
    <3>3. CASE \E g \in groups : g.home = own[link[i]] /\ i \in g.ids
      <4>1. PICK g \in groups : g.home = own[link[i]] /\ i \in g.ids
        BY <3>3
      <4>2. CASE pc[p] = "erase" /\ g.home = copy[p].home
        <5>1. cmd[p] = "remove" /\ rest[p] = {}
          BY <4>2 DEF IMTypes, Sound, Shape
        <5>2. g.ids = copy[p].ids
          BY <4>2, KnownAre DEF LeakInv, KnownInv, HomesInv
        <5>3. Lost(i)
          BY <1>4, <2>2, <4>1, <4>2, <5>1, <5>2 DEF Owned
        <5> QED BY <3>2, <5>3
      <4>3. CASE ~(pc[p] = "erase" /\ g.home = copy[p].home)
        <5>1. \/ \E h \in groups' : h.home = g.home /\ i \in h.ids
              \/ i \in stray' \/ i \in Unlinking(p)'
          BY <4>1, <4>3, GroupKept DEF LeakInv
        <5> QED BY <2>2, <3>1, <4>1, <5>1 DEF Lost
      <4> QED BY <4>2, <4>3
    <3> QED BY <1>4, <2>2, <3>2, <3>3 DEF Owned
  <2> QED BY <1>7, <1>8, <2>1, <2>2
<1>9. ASSUME NEW q \in Procs, cmd'[q] = "remove", NEW i \in copy'[q].ids \ rest'[q], Claimed(i)'
      PROVE  Lost(i)' \/ o[link'[i]] # copy'[q].home
  <2>1. i \in Id
    <3>1. copy'[q] \in Group \cup {NoGroup}
      BY <1>1 DEF IMTypes, Sound, ProcTypes
    <3>2. copy'[q].ids \in SUBSET Id
      BY <3>1 DEF Group, NoGroup
    <3> QED BY <3>2
  <2>2. link'[i] = link[i] /\ link'[i] # NoInode
    BY <1>7, <1>9, <2>1
  <2>3. \/ cmd[q] = "remove" /\ copy'[q] = copy[q] /\ i \in copy[q].ids \ rest[q]
        \/ i \in stray'
    <3>1. CASE q = p
      BY <1>9, <2>1, <2>2, <3>1, RemoveEffects
    <3>2. CASE q # p
      BY <1>1, <1>9, <3>2 DEF Others
    <3> QED BY <3>1, <3>2
  <2>4. CASE i \in stray'
    BY <2>4 DEF Lost
  <2>5. CASE /\ cmd[q] = "remove" /\ copy'[q] = copy[q] /\ i \in copy[q].ids \ rest[q]
             /\ Mine(link[i]) /\ o[link[i]] = copy[p].home
    <3>1. q # p
      BY <1>5, <2>5
    <3> QED BY <1>5, <2>2, <2>5, <3>1
  <2>6. CASE /\ cmd[q] = "remove" /\ copy'[q] = copy[q] /\ i \in copy[q].ids \ rest[q]
             /\ Claimed(i) /\ o[link[i]] = own[link[i]]
    <3>1. Lost(i) \/ own[link[i]] # copy[q].home
      BY <1>4, <2>6 DEF Owned
    <3> QED BY <2>1, <2>2, <2>6, <3>1, LostStays
  <2>7. \/ Mine(link[i]) /\ o[link[i]] = copy[p].home
        \/ Claimed(i) /\ o[link[i]] = own[link[i]]
    BY <1>7, <1>9, <2>1
  <2> HIDE DEF Mine
  <2> QED BY <2>3, <2>4, <2>5, <2>6, <2>7
<1>10. Owned(o)'
  BY <1>8, <1>9 DEF Owned
<1> QED BY <1>2, <1>3, <1>6, <1>10 DEF LeakInv

\* No id is claimed at first.
LEMMA LeakInit ==
  ASSUME Init
  PROVE  LeakInv
<1>1. \A i \in Id : ~Claimed(i)
  BY DEF Init, Claimed
<1>2. \A p \in Procs : cmd[p] = "none" /\ data[p] = {}
  BY DEF Init
<1>3. PICK own \in [Inode -> Home \cup {0}] : TRUE
  <2>1. [n \in Inode |-> 0] \in [Inode -> Home \cup {0}]
    OBVIOUS
  <2> QED BY <2>1
<1>4. Owned(own)
  BY <1>1, <1>2 DEF Owned
<1>5. \A p \in Procs : Fresh(p)
  BY <1>2 DEF Fresh
<1> QED BY <1>4, <1>5, OneNameInit, KnownInit DEF LeakInv

\* A lock file that says kInUse belongs to a group of the database, or clear or
\* reset is about to remove it, or the id went astray because the lock file
\* could not be removed, a clear was killed or another's write dropped the
\* group: for any number of processes, ids and groups and every order of their
\* steps, although the names of removed groups are given out again.
THEOREM NoLeakedIdHolds == Spec => []NoLeakedId
<1>1. Init => IMTypes /\ LeakInv
  BY TypesInit, LeakInit
<1>2. IMTypes /\ LeakInv /\ [Next]_vars => IMTypes' /\ LeakInv'
  <2>1. ASSUME IMTypes, LeakInv, UNCHANGED vars
        PROVE  IMTypes' /\ LeakInv'
    <3>1. UNCHANGED <<groups, stray, link, inUse, cmd, pc, trying, locks, copy, rest, pending,
                      data, cancel>>
      BY <2>1 DEF vars, dbVars, fileVars, procVars, loadVars, allocVars, workVars
    <3>2. KnownInv' /\ OneName'
      BY <2>1, <3>1, KnownStutter DEF LeakInv, OneName, Handles
    <3>3. \A p \in Procs : Fresh(p)'
      BY <2>1, <3>1 DEF LeakInv, Fresh, KnownTo, Requested
    <3>4. \A i \in Id : (Claimed(i)' <=> Claimed(i)) /\ (Lost(i)' <=> Lost(i))
      BY <3>1 DEF Claimed, Lost, Unlinking
    <3>5. PICK own \in [Inode -> Home \cup {0}] : Owned(own)
      BY <2>1 DEF LeakInv
    <3>6. \A p \in Procs : copy[p].ids \subseteq Id
      BY <2>1, CopyIds
    <3>7. Owned(own)'
      BY <3>1, <3>4, <3>5, <3>6 DEF Owned
    <3> QED BY <2>1, <3>2, <3>3, <3>5, <3>7, TypesStutter DEF LeakInv
  <2> QED BY <2>1, TypesStep, LeakStep DEF Next, Acts
<1>3. LeakInv => NoLeakedId
  BY DEF LeakInv, Owned, Claimed, Lost, NoLeakedId
<1> QED BY <1>1, <1>2, <1>3, PTL DEF Spec

=============================================================================
