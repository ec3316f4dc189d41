----------------------- MODULE InstanceDatabaseProofs -----------------------
(***************************************************************************)
(* The type invariant of the instance database for any processes, and, as  *)
(* long as at most one process writes (any number may read, and any of     *)
(* them may be killed or fail to write), UniqueGroups and the refinement   *)
(* of AbstractDatabase, for any candidate groups.                          *)
(*                                                                         *)
(* Without that hypothesis the last two are false: the "exclusive" lock of *)
(* WithExclusiveLock is a shared one.                                      *)
(***************************************************************************)
EXTENDS InstanceDatabase, SequenceTheorems, FiniteSetTheorems, TLAPS

\* A group as it is stored: AddInstanceGroup has given it a name, or nothing
\* of it is left.
GroupType ==
  {g \in [name : Nat, home : STRING \cup {"none"}, ids : SUBSET (Nat \ {0}),
          state : States \cup {"none"}] :
     g.name = 0 => g = NoGroup}

Cell == GroupType \cup {Junk}

Changes == {"add", "update", "remove", "clear"}

\* The functors: what each carries.
TaskType(t) ==
  /\ t.kind \in Changes \cup {"none", "find"}
  /\ t.kind = "add" => t.group \in Candidates
  /\ t.kind = "update" => t.group \in GroupType /\ t.group.name # 0
  /\ t.kind = "remove" => t.name \in Nat \ {0}

\* A process: its place tied to its lock and its task, its data once loaded.
ProcessType(t, place, lock, data) ==
  /\ TaskType(t)
  /\ (place = "idle") <=> (lock = "none")
  /\ (place = "idle") <=> (t.kind = "none")
  /\ place \in {"write", "store"} =>
       t.kind \in Changes /\ data \in Seq(GroupType) /\ (t.kind = "add" => data # <<>>)

DBTypes ==
  /\ file \in Seq(Cell)
  /\ serial \in Seq(GroupType)
  /\ flock \in [Client -> {"none", "SH", "EX"}]
  /\ pc \in [Client -> {"idle", "load", "write", "store"}]
  /\ task = [c \in Client |-> task[c]]
  /\ buf \in [Client -> Seq(Cell)]
  /\ pos \in [Client -> Nat]
  /\ copy \in [Client -> GroupType]
  /\ \A c \in Client : ProcessType(task[c], pc[c], flock[c], buf[c])

-----------------------------------------------------------------------------

\* The hypothesis under which the database keeps its promises.
SingleWriter == \A c, d \in Writers : c = d

\* The names are not limited.
AllNames == GroupNames = Nat \ {0}

\* A database as it may be: no two groups share anything, and every group with
\* instances is what is left of a candidate.
Sound(data) ==
  /\ Unique(data)
  /\ AllNames => \A g \in Groups(data) : g.ids # {} => g \in StorableGroups

\* A task that was made from a copy of a group is about a group in the database.
TaskFits(t, data) ==
  /\ t.kind = "update" =>
       \E h \in Groups(data), s \in States : h.ids # {} /\ t.group = [h EXCEPT !.state = s]
  /\ t.kind = "remove" => t.name \in Names(data)

\* A group a process may keep: one with instances in the database.
Keepable(g, data) == g # NoGroup => g \in Groups(data) /\ g.ids # {}

\* The cells of a are the first ones of b.
Begins(a, b) == Len(a) <= Len(b) /\ \A i \in 1 .. Len(a) : a[i] = b[i]

WriterInv(w) ==
  /\ pc[w] \in {"idle", "load"} => Keepable(copy[w], file)
  /\ pc[w] \in {"load", "write"} => TaskFits(task[w], file)
  /\ pc[w] = "idle" => buf[w] = <<>>
  /\ pc[w] = "load" => Begins(buf[w], file)
  /\ pc[w] = "write" => TaskOk(task[w], file) /\ buf[w] = TaskResult(task[w], file)
  /\ pc[w] = "store" => /\ Sound(buf[w])
                        /\ Keepable(KeptCopy(task[w], buf[w]), buf[w])
                        /\ Begins(file, buf[w]) /\ Len(file) = pos[w]
  /\ pc[w] # "store" => pos[w] = 0

\* The inductive invariant for one writer: the copy the writer has is still
\* in the file when its task is run on it; what it has read is the beginning
\* of the file until the task is run, and the file is the beginning of the
\* result once it is truncated.
DBInv ==
  /\ DBTypes
  /\ file \in Seq(GroupType)
  /\ Sound(file)
  /\ \A r \in Readers : pc[r] \in {"idle", "load"} /\ task[r].kind \in {"none", "find"}
  /\ \A w \in Writers : WriterInv(w)

-----------------------------------------------------------------------------
(* The functors on any database.                                           *)

\* Min of a set of naturals that is not empty is one of them.
LEMMA MinIn ==
  ASSUME NEW S \in SUBSET Nat, S # {}
  PROVE  Min(S) \in S /\ \A y \in S : Min(S) <= y
<1> DEFINE Less == {p \in Nat \X Nat : p[1] < p[2]}
<1>0. IsWellFoundedOn(Less, Nat)
  BY NatLessThanWellFounded, Zenon DEF OpToRel
<1> HIDE DEF Less
<1>1. PICK x \in S : \A y \in S : ~(<<y, x>> \in Less)
  BY <1>0, WFMin
<1>2. ASSUME NEW y \in S
      PROVE  x <= y
  <2>1. ~(<<y, x>> \in Less) /\ x \in Nat /\ y \in Nat
    BY <1>1
  <2>2. y < x => <<y, x>> \in Less
    BY <2>1 DEF Less
  <2> QED BY <2>1, <2>2
<1> QED BY <1>2 DEF Min

\* The groups of a file are of the type of its elements.
LEMMA GroupsIn ==
  ASSUME NEW S, NEW data \in Seq(S)
  PROVE  Groups(data) \subseteq S
BY ElementOfSeq DEF Groups

\* There are finitely many names, no more than groups.
LEMMA NamesFinite ==
  ASSUME NEW data \in Seq(GroupType)
  PROVE  IsFiniteSet(Names(data)) /\ Names(data) \subseteq Nat
<1> DEFINE f == [i \in 1 .. Len(data) |-> data[i].name]
<1>1. Len(data) \in Nat
  BY LenProperties
<1>2. f \in Surjection(1 .. Len(data), Names(data))
  <2>1. \A i \in 1 .. Len(data) : f[i] \in Names(data)
    BY DEF Names, Groups
  <2>2. \A n \in Names(data) : \E i \in 1 .. Len(data) : f[i] = n
    BY DEF Names, Groups
  <2> QED BY <2>1, <2>2 DEF Surjection
<1>3. IsFiniteSet(1 .. Len(data))
  BY <1>1, FS_Interval
<1>4. IsFiniteSet(Names(data))
  BY <1>2, <1>3, FS_Surjection
<1>5. Names(data) \subseteq Nat
  <2>1. Groups(data) \subseteq GroupType
    BY GroupsIn
  <2> QED BY <2>1 DEF Names, GroupType
<1> QED BY <1>4, <1>5

\* GenUniqueGroupName finds a name, a free one, and does not go further than
\* one beyond the number of names in use.
LEMMA GenUniqueGroupNameFree ==
  ASSUME NEW data \in Seq(GroupType)
  PROVE  /\ GenUniqueGroupName(data) \in Nat \ {0}
         /\ GenUniqueGroupName(data) \notin Names(data)
         /\ Cardinality(Names(data)) \in Nat
         /\ GenUniqueGroupName(data) <= Cardinality(Names(data)) + 1
<1> DEFINE k == Cardinality(Names(data))
           F == {i \in 1 .. k + 1 : i \notin Names(data)}
<1>1. k \in Nat
  BY NamesFinite, FS_CardinalityType
<1>2. F # {}
  <2>1. SUFFICES ASSUME F = {} PROVE FALSE
    OBVIOUS
  <2>2. 1 .. k + 1 \in SUBSET Names(data)
    BY <2>1
  <2>3. Cardinality(1 .. k + 1) <= k
    BY <2>2, NamesFinite, FS_Subset
  <2>4. Cardinality(1 .. k + 1) = k + 1
    BY <1>1, FS_Interval
  <2> QED BY <1>1, <2>3, <2>4
<1>3. F \in SUBSET Nat
  BY <1>1
<1>4. GenUniqueGroupName(data) \in F
  BY <1>2, <1>3, MinIn DEF GenUniqueGroupName
<1> QED BY <1>1, <1>4

\* A group that is stored has a name, and is the candidate otherwise.
LEMMA NamedIs ==
  ASSUME NEW data \in Seq(GroupType), NEW g \in Candidates
  PROVE  /\ Named(g, data) \in GroupType
         /\ Named(g, data).home = g.home
         /\ Named(g, data).ids = g.ids
         /\ Named(g, data).name # 0
         /\ g.name # 0 => Named(g, data) = g
         /\ g.name = 0 => /\ Named(g, data).name = GenUniqueGroupName(data)
                          /\ Named(g, data) = [g EXCEPT !.name = GenUniqueGroupName(data)]
<1>1. g \in [name : Nat, home : STRING, ids : SUBSET (Nat \ {0}), state : States]
  BY DatabaseAssumption DEF Unnamed
<1>2. GenUniqueGroupName(data) \in Nat \ {0}
  BY GenUniqueGroupNameFree
<1> QED BY <1>1, <1>2 DEF Named, Unnamed, GroupType

\* AddInstanceGroup stores one group more, at the end.
LEMMA AppendIs ==
  ASSUME NEW data \in Seq(GroupType), NEW g \in GroupType
  PROVE  /\ Append(data, g) \in Seq(GroupType)
         /\ Groups(Append(data, g)) = Groups(data) \cup {g}
<1>1. Len(data) \in Nat /\ Len(Append(data, g)) = Len(data) + 1
  BY AppendProperties, LenProperties
<1>2. /\ \A i \in 1 .. Len(data) : Append(data, g)[i] = data[i]
      /\ Append(data, g)[Len(data) + 1] = g
  BY AppendProperties
<1>3. Groups(Append(data, g)) \subseteq Groups(data) \cup {g}
  BY <1>1, <1>2 DEF Groups
<1>4. Groups(data) \subseteq Groups(Append(data, g))
  BY <1>1, <1>2 DEF Groups
<1>5. g \in Groups(Append(data, g))
  BY <1>1, <1>2 DEF Groups
<1> QED BY <1>3, <1>4, <1>5, AppendProperties

\* A stored name has a position in the file.
LEMMA PositionIs ==
  ASSUME NEW data \in Seq(GroupType), NEW name \in Names(data)
  PROVE  /\ Position(name, data) \in 1 .. Len(data)
         /\ data[Position(name, data)].name = name
<1> DEFINE P == {i \in 1 .. Len(data) : data[i].name = name}
<1>1. P \in SUBSET Nat /\ P # {}
  BY DEF Names, Groups
<1>2. Position(name, data) \in P
  BY <1>1, MinIn DEF Position
<1> QED BY <1>2

\* What an update needs to keep the groups apart: the group is that of the
\* same name with another state.
LEMMA UpdateIs ==
  ASSUME NEW data \in Seq(GroupType), NEW g \in GroupType, g.name \in Names(data), g.name # 0
  PROVE  /\ UpdateInstanceGroup(g, data) \in Seq(GroupType)
         /\ Unique(data) =>
              Groups(UpdateInstanceGroup(g, data)) =
                {h \in Groups(data) : h.name # g.name} \cup {g}
         /\ \A h \in Groups(data) :
              /\ Unique(data)
              /\ h.name = g.name /\ h.home = g.home /\ h.ids = g.ids
              => Unique(UpdateInstanceGroup(g, data))
<1> DEFINE p == Position(g.name, data)
           d == UpdateInstanceGroup(g, data)
<1>1. p \in 1 .. Len(data) /\ data[p].name = g.name
  BY PositionIs
<1>2. /\ d \in Seq(GroupType)
      /\ Len(d) = Len(data)
      /\ \A j \in 1 .. Len(data) : d[j] = IF j = p THEN g ELSE data[j]
  BY <1>1, ExceptSeq DEF UpdateInstanceGroup
<1>3. ASSUME Unique(data)
      PROVE  Groups(d) = {h \in Groups(data) : h.name # g.name} \cup {g}
  <2>1. \A j \in 1 .. Len(data) : j # p => data[j].name # g.name
    BY <1>1, <1>3 DEF Unique, Unnamed
  <2> QED BY <1>1, <1>2, <2>1 DEF Groups
<1>4. ASSUME NEW h \in Groups(data), Unique(data),
             h.name = g.name, h.home = g.home, h.ids = g.ids
      PROVE  Unique(d)
  <2>1. h = data[p]
    BY <1>1, <1>4 DEF Unique, Groups, Unnamed
  <2> QED BY <1>1, <1>2, <1>4, <2>1 DEF Unique, Unnamed
<1> QED BY <1>2, <1>3, <1>4

\* RemoveInstanceGroup takes out the group of that name and no other.
LEMMA RemoveIs ==
  ASSUME NEW data \in Seq(GroupType), NEW name \in Nat \ {0}
  PROVE  /\ RemoveInstanceGroup(name, data) \in Seq(GroupType)
         /\ Unique(data) =>
              /\ Groups(RemoveInstanceGroup(name, data)) =
                   {h \in Groups(data) : h.name # name}
              /\ Unique(RemoveInstanceGroup(name, data))
<1>1. CASE name \notin Names(data)
  <2>1. RemoveInstanceGroup(name, data) = data
    BY <1>1 DEF RemoveInstanceGroup
  <2>2. \A h \in Groups(data) : h.name # name
    BY <1>1 DEF Names
  <2> QED BY <2>1, <2>2
<1>2. CASE name \in Names(data)
  <2> DEFINE p == Position(name, data)
             a == SubSeq(data, 1, p - 1)
             b == SubSeq(data, p + 1, Len(data))
             d == a \o b
             n == Len(data)
  <2>0. RemoveInstanceGroup(name, data) = d
    BY <1>2 DEF RemoveInstanceGroup
  <2>1. p \in 1 .. n /\ data[p].name = name /\ n \in Nat
    BY <1>2, PositionIs, LenProperties
  <2>2. \A i \in 1 .. n : data[i] \in GroupType
    BY ElementOfSeq
  <2> HIDE DEF p, n
  <2>3. /\ a \in Seq(GroupType)
        /\ Len(a) = p - 1
        /\ \A i \in 1 .. p - 1 : a[i] = data[i]
    <3>1. /\ SubSeq(data, 1, p - 1) \in Seq(GroupType)
          /\ Len(SubSeq(data, 1, p - 1)) = IF 1 <= p - 1 THEN (p - 1) - 1 + 1 ELSE 0
          /\ \A i \in 1 .. (p - 1) - 1 + 1 : SubSeq(data, 1, p - 1)[i] = data[1 + i - 1]
      <4>1. 1 \in Int /\ p - 1 \in Int /\ \A i \in 1 .. p - 1 : data[i] \in GroupType
        BY <2>1, <2>2
      <4> QED BY <4>1, SubSeqProperties
    <3> QED BY <2>1, <3>1
  <2>4. /\ b \in Seq(GroupType)
        /\ Len(b) = n - p
        /\ \A i \in 1 .. n - p : b[i] = data[p + i]
    <3>1. /\ SubSeq(data, p + 1, n) \in Seq(GroupType)
          /\ Len(SubSeq(data, p + 1, n)) = IF p + 1 <= n THEN n - (p + 1) + 1 ELSE 0
          /\ \A i \in 1 .. n - (p + 1) + 1 : SubSeq(data, p + 1, n)[i] = data[(p + 1) + i - 1]
      <4>1. p + 1 \in Int /\ n \in Int /\ \A i \in p + 1 .. n : data[i] \in GroupType
        BY <2>1, <2>2
      <4> QED BY <4>1, SubSeqProperties
    <3>2. b = SubSeq(data, p + 1, n)
      BY DEF n
    <3> QED BY <2>1, <3>1, <3>2
  <2> HIDE DEF a, b
  <2>5. /\ d \in Seq(GroupType)
        /\ Len(d) = n - 1
        /\ \A i \in 1 .. n - 1 : d[i] = IF i < p THEN data[i] ELSE data[i + 1]
    <3>1. /\ d \in Seq(GroupType)
          /\ Len(d) = Len(a) + Len(b)
          /\ \A i \in 1 .. Len(a) + Len(b) : d[i] = IF i <= Len(a) THEN a[i] ELSE b[i - Len(a)]
      BY <2>3, <2>4, ConcatProperties
    <3> HIDE DEF d
    <3>2. ASSUME NEW i \in 1 .. n - 1
          PROVE  d[i] = IF i < p THEN data[i] ELSE data[i + 1]
      <4>1. CASE i < p
        BY <2>1, <2>3, <2>4, <3>1, <4>1
      <4>2. CASE ~(i < p)
        <5>1. i - (p - 1) \in 1 .. n - p /\ p + (i - (p - 1)) = i + 1
          BY <2>1, <4>2
        <5>2. d[i] = b[i - (p - 1)]
          BY <2>1, <2>3, <2>4, <3>1, <4>2
        <5> QED BY <2>4, <4>2, <5>1, <5>2
      <4> QED BY <4>1, <4>2
    <3> QED BY <2>1, <2>3, <2>4, <3>1, <3>2
  <2> HIDE DEF d
  <2>6. ASSUME Unique(data)
        PROVE  Groups(d) = {h \in Groups(data) : h.name # name} /\ Unique(d)
    <3>1. \A j \in 1 .. n : j # p => data[j].name # name
      BY <2>1, <2>6 DEF Unique, Unnamed, n
    <3>2. Groups(d) \subseteq {h \in Groups(data) : h.name # name}
      <4>1. SUFFICES ASSUME NEW i \in 1 .. n - 1
                     PROVE  d[i] \in Groups(data) /\ d[i].name # name
        BY <2>5 DEF Groups
      <4>2. CASE i < p
        BY <2>1, <2>5, <3>1, <4>2 DEF Groups, n
      <4>3. CASE ~(i < p)
        <5>1. i + 1 \in 1 .. n /\ i + 1 # p /\ d[i] = data[i + 1]
          BY <2>1, <2>5, <4>3
        <5> QED BY <3>1, <5>1 DEF Groups, n
      <4> QED BY <4>2, <4>3
    <3>3. {h \in Groups(data) : h.name # name} \subseteq Groups(d)
      <4>1. SUFFICES ASSUME NEW j \in 1 .. n, data[j].name # name
                     PROVE  data[j] \in Groups(d)
        BY DEF Groups, n
      <4>2. CASE j < p
        <5>1. j \in 1 .. n - 1 /\ d[j] = data[j]
          BY <2>1, <2>5, <4>2
        <5> QED BY <2>5, <5>1 DEF Groups
      <4>3. CASE ~(j < p)
        <5>1. j - 1 \in 1 .. n - 1 /\ d[j - 1] = data[j]
          BY <2>1, <2>5, <4>1, <4>3
        <5> QED BY <2>5, <5>1 DEF Groups
      <4> QED BY <4>2, <4>3
    <3>4. Unique(d)
      <4> DEFINE q(i) == IF i < p THEN i ELSE i + 1
      <4>1. SUFFICES ASSUME NEW i \in 1 .. n - 1, NEW j \in 1 .. n - 1, i # j
                     PROVE  /\ d[i].name # 0 => d[i].name # d[j].name
                            /\ d[i].home # "none" => d[i].home # d[j].home
                            /\ d[i].ids \cap d[j].ids = {}
        BY <2>5 DEF Unique, Unnamed
      <4>2. d[i] = data[q(i)] /\ d[j] = data[q(j)]
        BY <2>1, <2>5
      <4>3. q(i) \in 1 .. n /\ q(j) \in 1 .. n /\ q(i) # q(j)
        BY <2>1, <4>1
      <4> HIDE DEF q
      <4> QED BY <2>6, <4>2, <4>3 DEF Unique, Unnamed, n
    <3> QED BY <3>2, <3>3, <3>4
  <2> QED BY <2>0, <2>5, <2>6
<1> QED BY <1>1, <1>2


\* StorableGroups, as a predicate.
LEMMA StorableIs ==
  ASSUME NEW x
  PROVE  x \in StorableGroups <=>
           \E g \in Candidates : \E n \in GroupNames, s \in States : \E i \in SUBSET g.ids :
             x = [g EXCEPT !.name = n, !.ids = i, !.state = s]
<1>1. ASSUME NEW g \in Candidates
      PROVE  x \in Variants(g) <=>
               \E n \in GroupNames, s \in States : \E i \in SUBSET g.ids :
                 x = [g EXCEPT !.name = n, !.ids = i, !.state = s]
  <2> DEFINE V(n, i, s) == [g EXCEPT !.name = n, !.ids = i, !.state = s]
  <2>1. Variants(g) = {V(n, i, s) : n \in GroupNames, i \in SUBSET g.ids, s \in States}
    BY DEF Variants
  <2> HIDE DEF V
  <2>2. x \in Variants(g) <=>
          \E n \in GroupNames, i \in SUBSET g.ids, s \in States : x = V(n, i, s)
    BY <2>1
  <2> QED BY <2>2, Zenon DEF V
<1>2. x \in StorableGroups <=> \E g \in Candidates : x \in Variants(g)
  BY DEF StorableGroups
<1> QED BY <1>1, <1>2, Zenon

\* A candidate with a name is storable.
LEMMA CandidateStorable ==
  ASSUME AllNames, NEW g \in Candidates, NEW n \in Nat \ {0}
  PROVE  [g EXCEPT !.name = n] \in StorableGroups
<1>1. /\ g \in [name : Nat, home : STRING, ids : SUBSET (Nat \ {0}), state : States]
      /\ n \in GroupNames
  BY DatabaseAssumption DEF AllNames
<1>2. [g EXCEPT !.name = n] = [g EXCEPT !.name = n, !.ids = g.ids, !.state = g.state]
  BY <1>1
<1>3. g.state \in States /\ g.ids \in SUBSET g.ids
  BY <1>1
<1> QED BY <1>1, <1>2, <1>3, StorableIs, Zenon

\* So is what is left of a storable group, and the group in another state.
LEMMA RemainsStorable ==
  ASSUME NEW g \in StorableGroups, NEW i \in SUBSET g.ids, NEW s \in States
  PROVE  /\ [g EXCEPT !.ids = i] \in StorableGroups
         /\ [g EXCEPT !.state = s] \in StorableGroups
<1>1. PICK c \in Candidates : \E n \in GroupNames, u \in States : \E j \in SUBSET c.ids :
         g = [c EXCEPT !.name = n, !.ids = j, !.state = u]
  BY StorableIs, Zenon
<1>2. PICK n \in GroupNames, u \in States : \E j \in SUBSET c.ids :
         g = [c EXCEPT !.name = n, !.ids = j, !.state = u]
  BY <1>1
<1>3. PICK j \in SUBSET c.ids : g = [c EXCEPT !.name = n, !.ids = j, !.state = u]
  BY <1>2
<1>4. c \in [name : Nat, home : STRING, ids : SUBSET (Nat \ {0}), state : States]
  BY DatabaseAssumption
<1>5. i \in SUBSET c.ids
  BY <1>3, <1>4
<1>6. [g EXCEPT !.ids = i] = [c EXCEPT !.name = n, !.ids = i, !.state = u]
  BY <1>3, <1>4
<1>7. [g EXCEPT !.state = s] = [c EXCEPT !.name = n, !.ids = j, !.state = s]
  BY <1>3, <1>4
<1>8. [g EXCEPT !.ids = i] \in StorableGroups
  BY <1>5, <1>6, StorableIs, Zenon
<1>9. [g EXCEPT !.state = s] \in StorableGroups
  BY <1>7, StorableIs, Zenon
<1> QED BY <1>8, <1>9

\* A new group keeps a database sound.
LEMMA AddSound ==
  ASSUME NEW data \in Seq(GroupType), NEW g \in Candidates,
         Sound(data), ~Conflicts(Named(g, data), data)
  PROVE  /\ AllNames => Named(g, data) \in StorableGroups
         /\ Sound(AddInstanceGroup(g, data))
<1> DEFINE new == Named(g, data)
           d == Append(data, new)
<1>1. /\ new \in GroupType
      /\ g.name # 0 => new = g
      /\ g.name = 0 => new = [g EXCEPT !.name = GenUniqueGroupName(data)]
  BY NamedIs
<1>2. g \in [name : Nat, home : STRING, ids : SUBSET (Nat \ {0}), state : States]
  BY DatabaseAssumption
<1>3. \A h \in Groups(data) : /\ h.name # new.name
                              /\ h.home # new.home
                              /\ h.ids \cap new.ids = {}
  BY DEF Conflicts
<1>4. ASSUME AllNames
      PROVE  new \in StorableGroups
  <2>1. CASE g.name # 0
    <3>1. new = [g EXCEPT !.name = g.name] /\ g.name \in Nat \ {0}
      BY <1>1, <1>2, <2>1
    <3> QED BY <1>4, <3>1, CandidateStorable
  <2>2. CASE g.name = 0
    <3>1. GenUniqueGroupName(data) \in Nat \ {0}
      BY GenUniqueGroupNameFree
    <3> QED BY <1>1, <1>4, <2>2, <3>1, CandidateStorable
  <2> QED BY <2>1, <2>2
<1> HIDE DEF new
<1>5. /\ Len(data) \in Nat
      /\ Len(d) = Len(data) + 1
      /\ \A i \in 1 .. Len(data) : d[i] = data[i] /\ data[i] \in Groups(data)
      /\ d[Len(data) + 1] = new
  BY <1>1, AppendProperties, LenProperties DEF Groups
<1>6. Groups(d) = Groups(data) \cup {new}
  BY <1>1, AppendIs DEF d
<1> HIDE DEF d
<1>7. Unique(d)
  <2>1. SUFFICES ASSUME NEW i \in 1 .. Len(data) + 1, NEW j \in 1 .. Len(data) + 1, i # j
                 PROVE  /\ d[i].name # 0 => d[i].name # d[j].name
                        /\ d[i].home # "none" => d[i].home # d[j].home
                        /\ d[i].ids \cap d[j].ids = {}
    BY <1>5 DEF Unique, Unnamed
  <2>2. CASE i \in 1 .. Len(data) /\ j \in 1 .. Len(data)
    BY <1>5, <2>1, <2>2 DEF Sound, Unique, Unnamed
  <2>3. CASE i = Len(data) + 1 /\ j \in 1 .. Len(data)
    BY <1>3, <1>5, <2>3
  <2>4. CASE j = Len(data) + 1 /\ i \in 1 .. Len(data)
    BY <1>3, <1>5, <2>4
  <2> QED BY <1>5, <2>1, <2>2, <2>3, <2>4
<1>8. AddInstanceGroup(g, data) = d
  BY DEF AddInstanceGroup, d, new
<1> QED BY <1>4, <1>6, <1>7, <1>8 DEF Sound, new

\* A functor that succeeds leaves a database of the same type.
LEMMA TaskResultTyped ==
  ASSUME NEW data \in Seq(GroupType), NEW t, TaskType(t), TaskOk(t, data)
  PROVE  TaskResult(t, data) \in Seq(GroupType)
<1>1. CASE t.kind = "add"
  <2>1. TaskResult(t, data) = Append(data, Named(t.group, data))
    BY <1>1 DEF TaskResult, AddInstanceGroup
  <2>2. Named(t.group, data) \in GroupType
    BY <1>1, NamedIs DEF TaskType
  <2> QED BY <2>1, <2>2, AppendIs
<1>2. CASE t.kind = "update"
  <2>1. t.group \in GroupType /\ t.group.name \in Names(data) /\ t.group.name # 0
    BY <1>2 DEF TaskType, TaskOk
  <2>2. TaskResult(t, data) = UpdateInstanceGroup(t.group, data)
    BY <1>2 DEF TaskResult
  <2> QED BY <2>1, <2>2, UpdateIs
<1>3. CASE t.kind = "remove"
  <2>1. TaskResult(t, data) = RemoveInstanceGroup(t.name, data)
    BY <1>3 DEF TaskResult
  <2> QED BY <1>3, <2>1, RemoveIs DEF TaskType
<1>4. CASE t.kind = "clear"
  BY <1>4 DEF TaskResult
<1>5. CASE t.kind \in {"none", "find"}
  BY <1>5 DEF TaskResult
<1> QED BY <1>1, <1>2, <1>3, <1>4, <1>5 DEF TaskType, Changes

\* A functor that succeeds keeps the database sound, and changes the set of
\* its groups as the operation of AbstractDatabase does.
LEMMA TaskResultSound ==
  ASSUME NEW data \in Seq(GroupType), NEW t, TaskType(t), TaskOk(t, data),
         Sound(data), TaskFits(t, data)
  PROVE  /\ Sound(TaskResult(t, data))
         /\ t.kind = "add" =>
              /\ AllNames => Named(t.group, data) \in StorableGroups
              /\ ~Conflicts(Named(t.group, data), data)
              /\ Groups(TaskResult(t, data)) = Groups(data) \cup {Named(t.group, data)}
         /\ t.kind = "update" =>
              /\ AllNames => t.group \in StorableGroups
              /\ t.group.name \in Names(data)
              /\ Groups(TaskResult(t, data)) =
                   {h \in Groups(data) : h.name # t.group.name} \cup {t.group}
         /\ t.kind = "remove" =>
              /\ t.name \in Names(data)
              /\ Groups(TaskResult(t, data)) = {h \in Groups(data) : h.name # t.name}
         /\ t.kind = "clear" => Groups(TaskResult(t, data)) = {}
<1>1. CASE t.kind = "add"
  <2>1. /\ TaskResult(t, data) = AddInstanceGroup(t.group, data)
        /\ ~Conflicts(Named(t.group, data), data)
        /\ t.group \in Candidates
    BY <1>1 DEF TaskResult, TaskOk, TaskType
  <2>2. /\ AllNames => Named(t.group, data) \in StorableGroups
        /\ Sound(TaskResult(t, data))
    BY <2>1, AddSound
  <2>3. Groups(TaskResult(t, data)) = Groups(data) \cup {Named(t.group, data)}
    BY <2>1, NamedIs, AppendIs DEF AddInstanceGroup
  <2> QED BY <1>1, <2>1, <2>2, <2>3
<1>2. CASE t.kind = "update"
  <2>1. /\ t.group \in GroupType
        /\ t.group.name # 0
        /\ t.group.name \in Names(data)
        /\ TaskResult(t, data) = UpdateInstanceGroup(t.group, data)
    BY <1>2 DEF TaskType, TaskOk, TaskResult
  <2>2. PICK h \in Groups(data), s \in States :
           h.ids # {} /\ t.group = [h EXCEPT !.state = s]
    BY <1>2 DEF TaskFits
  <2>3. h \in GroupType
    BY GroupsIn
  <2>4. h.name = t.group.name /\ h.home = t.group.home /\ h.ids = t.group.ids
    BY <2>2, <2>3 DEF GroupType
  <2>5. AllNames => t.group \in StorableGroups
    <3>1. AllNames => h \in StorableGroups
      BY <2>2 DEF Sound
    <3> QED BY <2>2, <3>1, RemainsStorable
  <2>6. /\ Unique(TaskResult(t, data))
        /\ Groups(TaskResult(t, data)) =
             {k \in Groups(data) : k.name # t.group.name} \cup {t.group}
    BY <2>1, <2>4, UpdateIs DEF Sound
  <2> QED BY <1>2, <2>1, <2>5, <2>6 DEF Sound
<1>3. CASE t.kind = "remove"
  <2>1. /\ t.name \in Nat \ {0}
        /\ t.name \in Names(data)
        /\ TaskResult(t, data) = RemoveInstanceGroup(t.name, data)
    BY <1>3 DEF TaskResult, TaskType, TaskFits
  <2>2. /\ Unique(TaskResult(t, data))
        /\ Groups(TaskResult(t, data)) = {h \in Groups(data) : h.name # t.name}
    BY <2>1, RemoveIs DEF Sound
  <2> QED BY <1>3, <2>1, <2>2 DEF Sound
<1>4. CASE t.kind = "clear"
  <2>1. TaskResult(t, data) = <<>>
    BY <1>4 DEF TaskResult
  <2>2. Len(<<>>) = 0
    OBVIOUS
  <2>3. Groups(<<>>) = {} /\ Unique(<<>>)
    BY <2>2 DEF Groups, Unique
  <2> QED BY <1>4, <2>1, <2>3 DEF Sound
<1>5. CASE t.kind \in {"none", "find"}
  BY <1>5 DEF TaskResult
<1> QED BY <1>1, <1>2, <1>3, <1>4, <1>5 DEF TaskType, Changes

-----------------------------------------------------------------------------
(* Cells and files.                                                        *)

\* Bytes that are no group differ from every group, and from what is left of one.
LEMMA JunkIs ==
  /\ Junk \notin GroupType
  /\ NoGroup \in GroupType /\ NoGroup.name = 0 /\ NoGroup.ids = {}
<1>0. NoGroup = [name |-> 0, home |-> "none", ids |-> {}, state |-> "none"]
  BY DEF NoGroup, Unnamed
<1>1. /\ NoGroup.name = 0 /\ NoGroup.ids = {} /\ NoGroup.state = "none"
      /\ NoGroup \in [name : Nat, home : STRING \cup {"none"}, ids : SUBSET (Nat \ {0}),
                      state : States \cup {"none"}]
  <2>1. 0 \in Nat /\ "none" \in STRING \cup {"none"} /\ {} \in SUBSET (Nat \ {0}) /\ "none" \in States \cup {"none"}
    OBVIOUS
  <2> QED BY <1>0, <2>1
<1>2. Junk.name = 0 /\ Junk.state = "junk"
  BY DEF Junk, NoGroup, Unnamed
<1>3. NoGroup \in GroupType
  BY <1>1 DEF GroupType
<1>4. Junk # NoGroup
  BY <1>1, <1>2
<1> QED BY <1>1, <1>2, <1>3, <1>4 DEF GroupType

\* What is parsed of a file are groups, and of a file of groups all of them.
LEMMA ParseIs ==
  ASSUME NEW cells \in Seq(Cell)
  PROVE  /\ ParseFromString(cells) \in Seq(GroupType)
         /\ cells \in Seq(GroupType) => ParseFromString(cells) = cells
<1> DEFINE bad == {i \in 1 .. Len(cells) : cells[i] = Junk}
<1>1. Len(cells) \in Nat /\ \A i \in 1 .. Len(cells) : cells[i] \in Cell
  BY LenProperties, ElementOfSeq
<1>2. CASE bad = {}
  <2>1. ParseFromString(cells) = cells
    BY <1>2 DEF ParseFromString
  <2>2. \A i \in 1 .. Len(cells) : cells[i] \in GroupType
    BY <1>1, <1>2 DEF Cell
  <2>3. cells \in Seq(GroupType)
    <3>1. cells \in [1 .. Len(cells) -> Cell]
      BY LenProperties
    <3>2. cells \in [1 .. Len(cells) -> GroupType]
      BY <2>2, <3>1
    <3> QED BY <1>1, <3>2
  <2> QED BY <2>1, <2>3
<1>3. CASE bad # {}
  <2> DEFINE m == Min(bad)
  <2>1. bad \in SUBSET Nat
    BY <1>1
  <2>2. m \in bad /\ \A y \in bad : m <= y
    BY <1>3, <2>1, MinIn
  <2>3. ParseFromString(cells) = SubSeq(cells, 1, m - 1)
    BY <1>3 DEF ParseFromString
  <2>4. m \in 1 .. Len(cells) /\ \A i \in 1 .. m - 1 : cells[i] # Junk
    <3> HIDE DEF m
    <3>1. m \in 1 .. Len(cells)
      BY <2>2
    <3>2. \A i \in 1 .. m - 1 : i \in 1 .. Len(cells) /\ i \notin bad
      BY <1>1, <2>1, <2>2, <3>1
    <3> QED BY <3>1, <3>2
  <2>5. cells[m] = Junk
    BY <2>2
  <2> HIDE DEF m
  <2>6. \A i \in 1 .. m - 1 : cells[i] \in GroupType
    BY <1>1, <2>4 DEF Cell
  <2>7. SubSeq(cells, 1, m - 1) \in Seq(GroupType)
    <3>1. 1 \in Int /\ m - 1 \in Int
      BY <2>4
    <3> QED BY <2>6, <3>1, SubSeqProperties
  <2>8. cells \notin Seq(GroupType)
    BY <2>4, <2>5, JunkIs, ElementOfSeq
  <2> QED BY <2>3, <2>7, <2>8
<1> QED BY <1>2, <1>3

\* A write of one cell: anywhere it leaves cells, at the end it appends.
LEMMA WrittenIs ==
  ASSUME NEW S, NEW cells \in Seq(S), NEW g \in S, NEW i \in Nat \ {0}
  PROVE  /\ Junk \in S => Written(cells, i, g) \in Seq(S)
         /\ i = Len(cells) + 1 => Written(cells, i, g) = Append(cells, g)
<1> DEFINE n == IF i > Len(cells) THEN i ELSE Len(cells)
           e(j) == IF j = i THEN g ELSE IF j <= Len(cells) THEN cells[j] ELSE Junk
           w == [j \in 1 .. n |-> e(j)]
<1>1. Len(cells) \in Nat /\ \A j \in 1 .. Len(cells) : cells[j] \in S
  BY LenProperties, ElementOfSeq
<1>2. n \in Nat /\ Written(cells, i, g) = w
  BY <1>1 DEF Written
<1>3. ASSUME \A j \in 1 .. n : e(j) \in S
      PROVE  w \in Seq(S) /\ Len(w) = n /\ \A j \in 1 .. n : w[j] = e(j)
  <2>1. w \in [1 .. n -> S]
    BY <1>3
  <2> QED BY <1>2, <2>1
<1>4. ASSUME Junk \in S
      PROVE  \A j \in 1 .. n : e(j) \in S
  BY <1>1, <1>4
<1>5. ASSUME i = Len(cells) + 1
      PROVE  w = Append(cells, g)
  <2>1. n = Len(cells) + 1 /\ \A j \in 1 .. n : e(j) \in S
    BY <1>1, <1>5
  <2>2. w \in Seq(S) /\ Len(w) = n /\ \A j \in 1 .. n : w[j] = e(j)
    BY <1>3, <2>1
  <2>3. /\ Append(cells, g) \in Seq(S)
        /\ Len(Append(cells, g)) = Len(cells) + 1
        /\ \A j \in 1 .. Len(cells) : Append(cells, g)[j] = cells[j]
        /\ Append(cells, g)[Len(cells) + 1] = g
    BY AppendProperties
  <2>4. \A j \in 1 .. n : w[j] = Append(cells, g)[j]
    <3>1. ASSUME NEW j \in 1 .. n
          PROVE  w[j] = Append(cells, g)[j]
      <4>1. w[j] = e(j)
        BY <2>2
      <4>2. CASE j = i
        BY <1>5, <2>3, <4>1, <4>2
      <4>3. CASE j # i
        BY <1>1, <1>5, <2>1, <2>3, <4>1, <4>3
      <4> QED BY <4>2, <4>3
    <3> QED BY <3>1
  <2> HIDE DEF w, n, e
  <2> QED BY <2>1, <2>2, <2>3, <2>4, SeqEqual
<1> QED BY <1>2, <1>3, <1>4, <1>5

\* What is left of a group that is cut.
LEMMA CutIs ==
  ASSUME NEW g \in GroupType, NEW f \in Cut(g)
  PROVE  /\ f \in GroupType
         /\ f.name \in {0, g.name} /\ f.home \in {"none", g.home} /\ f.ids \subseteq g.ids
         /\ f.ids # {} => f = [g EXCEPT !.ids = f.ids]
         /\ f \in Abstract!Remains(g)
<1>1. /\ g \in [name : Nat, home : STRING \cup {"none"}, ids : SUBSET (Nat \ {0}),
                state : States \cup {"none"}]
      /\ g.name = 0 => g = NoGroup
  BY DEF GroupType
<1>2. CASE f = NoGroup
  BY <1>1, <1>2, JunkIs DEF NoGroup, Unnamed, Abstract!Remains
<1>3. CASE f = [NoGroup EXCEPT !.name = g.name]
  <2>1. f = [name |-> g.name, home |-> "none", ids |-> {}, state |-> "none"]
    BY <1>3 DEF NoGroup
  <2>2. f \in GroupType
    <3>1. CASE g.name = 0
      BY <2>1, <3>1, JunkIs DEF NoGroup, Unnamed
    <3>2. CASE g.name # 0
      <4>1. g.name \in Nat /\ "none" \in STRING \cup {"none"} /\ {} \in SUBSET (Nat \ {0}) /\ "none" \in States \cup {"none"}
        BY <1>1
      <4> QED BY <2>1, <3>2, <4>1 DEF GroupType
    <3> QED BY <3>1, <3>2
  <2> QED BY <1>1, <2>1, <2>2 DEF Abstract!Remains
<1>4. ASSUME NEW i \in SUBSET g.ids, f = [g EXCEPT !.ids = i]
      PROVE  /\ f \in GroupType
             /\ f.name \in {0, g.name} /\ f.home \in {"none", g.home} /\ f.ids \subseteq g.ids
             /\ f.ids # {} => f = [g EXCEPT !.ids = f.ids]
             /\ f \in Abstract!Remains(g)
  <2>1. f = [name |-> g.name, home |-> g.home, ids |-> i, state |-> g.state]
    BY <1>1, <1>4
  <2>2. g.name = 0 => f = NoGroup
    <3>1. g.name = 0 => i = {} /\ g = NoGroup
      BY <1>1, JunkIs
    <3>2. NoGroup.home = "none" /\ NoGroup.state = "none"
      BY DEF NoGroup
    <3>3. ASSUME g.name = 0
          PROVE  f = [name |-> 0, home |-> "none", ids |-> {}, state |-> "none"]
      BY <2>1, <3>1, <3>2, <3>3
    <3> QED BY <3>3 DEF NoGroup, Unnamed
  <2>3. f \in GroupType
    BY <1>1, <2>1, <2>2 DEF GroupType
  <2> QED BY <1>1, <1>4, <2>1, <2>3 DEF Abstract!Remains
<1> QED BY <1>2, <1>3, <1>4 DEF Cut

-----------------------------------------------------------------------------
(* The type invariant, for any number of writers.                          *)

\* A process takes a lock for a well-formed task.
LEMMA LockTypes ==
  ASSUME DBTypes, NEW c \in Client, NEW mode \in {"SH", "EX"}, NEW t,
         TaskType(t), t.kind \in Changes \cup {"find"},
         LockBackingFile(c, mode, t)
  PROVE  DBTypes'
<1>1. /\ file' = file /\ serial' = serial /\ buf' = buf /\ copy' = copy /\ pos' = pos
      /\ flock' = [flock EXCEPT ![c] = mode]
      /\ task' = [task EXCEPT ![c] = t]
      /\ pc' = [pc EXCEPT ![c] = "load"]
  BY DEF LockBackingFile
<1>2. /\ file' \in Seq(Cell) /\ serial' \in Seq(GroupType)
      /\ buf' \in [Client -> Seq(Cell)] /\ pos' \in [Client -> Nat]
      /\ copy' \in [Client -> GroupType]
  BY <1>1 DEF DBTypes
<1>3. /\ flock' \in [Client -> {"none", "SH", "EX"}]
      /\ pc' \in [Client -> {"idle", "load", "write", "store"}]
  BY <1>1 DEF DBTypes
<1>4. /\ task' = [d \in Client |-> task'[d]]
      /\ task'[c] = t
      /\ \A d \in Client \ {c} : task'[d] = task[d]
  BY <1>1, Zenon DEF DBTypes
<1>5. ASSUME NEW d \in Client
      PROVE  ProcessType(task'[d], pc'[d], flock'[d], buf'[d])
  <2>1. CASE d = c
    <3>1. flock'[c] = mode /\ pc'[c] = "load"
      BY <1>1 DEF DBTypes
    <3> QED BY <1>4, <2>1, <3>1 DEF Changes, ProcessType
  <2>2. CASE d # c
    <3>1. flock'[d] = flock[d] /\ pc'[d] = pc[d] /\ task'[d] = task[d] /\ buf'[d] = buf[d]
      BY <1>1, <1>4, <2>2 DEF DBTypes
    <3> QED BY <3>1 DEF DBTypes
  <2> QED BY <2>1, <2>2
<1> QED BY <1>2, <1>3, <1>4, <1>5 DEF DBTypes

\* What a return changes, process by process.
LEMMA ReleaseIs ==
  ASSUME DBTypes, NEW c \in Client, NEW g, Release(c, g)
  PROVE  /\ flock'[c] = "none" /\ pc'[c] = "idle" /\ task'[c].kind = "none"
         /\ buf'[c] = <<>> /\ pos'[c] = 0 /\ copy'[c] = g
         /\ task' = [d \in Client |-> task'[d]]
         /\ \A d \in Client \ {c} :
              /\ flock'[d] = flock[d] /\ pc'[d] = pc[d] /\ task'[d] = task[d]
              /\ buf'[d] = buf[d] /\ pos'[d] = pos[d] /\ copy'[d] = copy[d]
<1> DEFINE none == [kind |-> "none"]
<1>0. none.kind = "none"
  OBVIOUS
<1>1. task' = [task EXCEPT ![c] = none]
  BY DEF Release
<1> HIDE DEF none
<1>2. /\ task' = [d \in Client |-> task'[d]]
      /\ task'[c] = none
      /\ \A d \in Client \ {c} : task'[d] = task[d]
  BY <1>1, Zenon DEF DBTypes
<1>3. /\ flock'[c] = "none" /\ pc'[c] = "idle" /\ pos'[c] = 0
      /\ \A d \in Client \ {c} : flock'[d] = flock[d] /\ pc'[d] = pc[d] /\ pos'[d] = pos[d]
  BY DEF Release, DBTypes
<1>4. /\ buf'[c] = <<>> /\ copy'[c] = g
      /\ \A d \in Client \ {c} : buf'[d] = buf[d] /\ copy'[d] = copy[d]
  BY DEF Release, DBTypes
<1> QED BY <1>0, <1>2, <1>3, <1>4

\* A method returns.
LEMMA ReleaseTypes ==
  ASSUME DBTypes, NEW c \in Client, NEW g \in GroupType, Release(c, g),
         file' \in Seq(Cell), serial' \in Seq(GroupType)
  PROVE  DBTypes'
<1>1. buf' \in [Client -> Seq(Cell)]
  <2>1. <<>> \in Seq(Cell)
    OBVIOUS
  <2> QED BY <2>1 DEF DBTypes, Release
<1>2. /\ flock' \in [Client -> {"none", "SH", "EX"}]
      /\ pc' \in [Client -> {"idle", "load", "write", "store"}]
      /\ pos' \in [Client -> Nat]
  BY DEF DBTypes, Release
<1>3. copy' \in [Client -> GroupType]
  BY DEF DBTypes, Release
<1>4. ASSUME NEW d \in Client
      PROVE  ProcessType(task'[d], pc'[d], flock'[d], buf'[d])
  <2>1. CASE d = c
    BY <2>1, ReleaseIs DEF ProcessType, TaskType, Changes
  <2>2. CASE d # c
    BY <2>2, ReleaseIs DEF DBTypes
  <2> QED BY <2>1, <2>2
<1> QED BY <1>1, <1>2, <1>3, <1>4, ReleaseIs DEF DBTypes

\* A process goes on inside a method.
LEMMA StayTypes ==
  ASSUME DBTypes, NEW c \in Client, UNCHANGED <<flock, task, copy>>,
         file' \in Seq(Cell), serial' \in Seq(GroupType),
         pc' \in [Client -> {"idle", "load", "write", "store"}],
         buf' \in [Client -> Seq(Cell)], pos' \in [Client -> Nat],
         \A d \in Client \ {c} : pc'[d] = pc[d] /\ buf'[d] = buf[d],
         ProcessType(task[c], pc'[c], flock[c], buf'[c])
  PROVE  DBTypes'
<1>1. /\ flock' \in [Client -> {"none", "SH", "EX"}]
      /\ task' = [d \in Client |-> task'[d]]
      /\ copy' \in [Client -> GroupType]
  BY DEF DBTypes
<1>2. ASSUME NEW d \in Client
      PROVE  ProcessType(task'[d], pc'[d], flock'[d], buf'[d])
  <2>1. CASE d = c
    BY <2>1
  <2>2. CASE d # c
    BY <2>2 DEF DBTypes
  <2> QED BY <2>1, <2>2
<1> QED BY <1>1, <1>2 DEF DBTypes

\* One read.
LEMMA ReadMoreTypes ==
  ASSUME DBTypes, NEW c \in Client, ReadMore(c)
  PROVE  /\ DBTypes'
         /\ \E g \in Cell : buf' = [buf EXCEPT ![c] = Append(buf[c], g)]
<1> DEFINE next == Len(buf[c]) + 1
<1>1. /\ pc[c] = "load" /\ next <= Len(file)
      /\ \/ buf' = [buf EXCEPT ![c] = Append(buf[c], file[next])]
         \/ buf' = [buf EXCEPT ![c] = Append(buf[c], Junk)]
      /\ UNCHANGED <<file, flock, pc, task, pos, copy, serial>>
  BY DEF ReadMore
<1>2. buf[c] \in Seq(Cell) /\ file \in Seq(Cell)
  BY DEF DBTypes
<1>3. file[next] \in Cell /\ Junk \in Cell
  <2>1. Len(buf[c]) \in Nat /\ Len(file) \in Nat
    BY <1>2, LenProperties
  <2>2. next \in 1 .. Len(file)
    BY <1>1, <2>1
  <2> QED BY <1>2, <2>2, ElementOfSeq DEF Cell
<1>4. PICK g \in Cell : buf' = [buf EXCEPT ![c] = Append(buf[c], g)]
  BY <1>1, <1>3
<1>5. Append(buf[c], g) \in Seq(Cell)
  BY <1>2, AppendProperties
<1>6. buf' \in [Client -> Seq(Cell)] /\ \A d \in Client \ {c} : buf'[d] = buf[d]
  BY <1>4, <1>5 DEF DBTypes
<1>7. /\ file' \in Seq(Cell) /\ serial' \in Seq(GroupType) /\ pos' \in [Client -> Nat]
      /\ pc' \in [Client -> {"idle", "load", "write", "store"}]
      /\ \A d \in Client \ {c} : pc'[d] = pc[d] /\ buf'[d] = buf[d]
      /\ UNCHANGED <<flock, task, copy>>
  BY <1>1, <1>6 DEF DBTypes
<1>8. ProcessType(task[c], pc'[c], flock[c], buf'[c])
  BY <1>1 DEF DBTypes, ProcessType
<1> QED BY <1>4, <1>6, <1>7, <1>8, StayTypes

\* The functor is run on what has been read.
LEMMA LoadExclusiveTypes ==
  ASSUME DBTypes, NEW c \in Client, LoadExclusive(c)
  PROVE  DBTypes'
<1> DEFINE data == ParseFromString(buf[c])
<1>1. /\ pc[c] = "load" /\ task[c].kind # "find"
      /\ file' = file
      /\ serial' = IF TaskOk(task[c], serial) THEN TaskResult(task[c], serial) ELSE serial
  BY DEF LoadExclusive, ReadDone
<1>2. /\ TaskType(task[c]) /\ task[c].kind \in Changes
      /\ ProcessType(task[c], pc[c], flock[c], buf[c])
  BY <1>1 DEF DBTypes, ProcessType, TaskType
<1>3. data \in Seq(GroupType)
  BY ParseIs DEF DBTypes
<1>4. file' \in Seq(Cell) /\ serial' \in Seq(GroupType)
  BY <1>1, <1>2, TaskResultTyped DEF DBTypes
<1>5. CASE TaskOk(task[c], data)
  <2>1. /\ buf' = [buf EXCEPT ![c] = TaskResult(task[c], data)]
        /\ pc' = [pc EXCEPT ![c] = "write"]
        /\ UNCHANGED <<flock, task, pos, copy>>
    BY <1>5 DEF LoadExclusive
  <2>2. TaskResult(task[c], data) \in Seq(GroupType)
    BY <1>2, <1>3, <1>5, TaskResultTyped
  <2>6. task[c].kind = "add" => TaskResult(task[c], data) # <<>>
    <3>1. task[c].kind = "add" =>
            TaskResult(task[c], data) = Append(data, Named(task[c].group, data))
      BY DEF TaskResult, AddInstanceGroup
    <3> QED BY <1>3, <3>1
  <2>3. TaskResult(task[c], data) \in Seq(Cell)
    <3>1. GroupType \subseteq Cell
      BY DEF Cell
    <3> QED BY <2>2, <3>1, SeqMonotonic
  <2> HIDE DEF data
  <2>4. /\ buf' \in [Client -> Seq(Cell)] /\ buf'[c] = TaskResult(task[c], data)
        /\ pc'[c] = "write" /\ pc' \in [Client -> {"idle", "load", "write", "store"}]
        /\ pos' \in [Client -> Nat]
        /\ \A d \in Client \ {c} : pc'[d] = pc[d] /\ buf'[d] = buf[d]
    BY <2>1, <2>3 DEF DBTypes
  <2>5. ProcessType(task[c], pc'[c], flock[c], buf'[c])
    BY <1>1, <1>2, <2>2, <2>4, <2>6 DEF ProcessType, Changes
  <2> QED BY <1>4, <2>1, <2>4, <2>5, StayTypes
<1>6. CASE ~TaskOk(task[c], data)
  <2>1. Release(c, NoGroup)
    BY <1>6 DEF LoadExclusive
  <2> QED BY <1>4, <2>1, ReleaseTypes, JunkIs
<1> QED BY <1>5, <1>6

\* A file after a write of a group, or of what is left of one.
LEMMA WrittenTyped ==
  ASSUME DBTypes, NEW c \in Client, pc[c] = "store", pos[c] < Len(buf[c]),
         NEW g \in Cut(buf[c][pos[c] + 1]) \cup {buf[c][pos[c] + 1]}
  PROVE  /\ buf[c] \in Seq(GroupType) /\ pos[c] + 1 \in 1 .. Len(buf[c])
         /\ buf[c][pos[c] + 1] \in GroupType /\ g \in GroupType
         /\ Written(file, pos[c] + 1, g) \in Seq(Cell)
<1>1. buf[c] \in Seq(GroupType) /\ pos[c] \in Nat /\ file \in Seq(Cell)
  BY DEF DBTypes, ProcessType
<1>2. pos[c] + 1 \in 1 .. Len(buf[c])
  <2>1. Len(buf[c]) \in Nat
    BY <1>1, LenProperties
  <2> QED BY <1>1, <2>1
<1>3. buf[c][pos[c] + 1] \in GroupType
  BY <1>1, <1>2, ElementOfSeq
<1>4. g \in GroupType
  BY <1>3, CutIs
<1>5. Written(file, pos[c] + 1, g) \in Seq(Cell)
  <2>1. g \in Cell /\ Junk \in Cell /\ pos[c] + 1 \in Nat \ {0}
    BY <1>1, <1>4 DEF Cell
  <2> QED BY <1>1, <2>1, WrittenIs
<1> QED BY <1>1, <1>2, <1>3, <1>4, <1>5

\* Truncation and writes.
LEMMA WriteTypes ==
  ASSUME DBTypes, NEW c \in Client, Truncate(c) \/ WriteMore(c)
  PROVE  DBTypes'
<1>1. CASE Truncate(c)
  <2>1. /\ pc[c] = "write" /\ file' = <<>>
        /\ pc' = [pc EXCEPT ![c] = "store"]
        /\ UNCHANGED <<flock, task, buf, pos, copy, serial>>
    BY <1>1 DEF Truncate
  <2>2. /\ pc'[c] = "store" /\ pc' \in [Client -> {"idle", "load", "write", "store"}]
        /\ buf' \in [Client -> Seq(Cell)] /\ pos' \in [Client -> Nat]
        /\ serial' \in Seq(GroupType)
        /\ \A d \in Client \ {c} : pc'[d] = pc[d] /\ buf'[d] = buf[d]
    BY <2>1 DEF DBTypes
  <2>3. file' \in Seq(Cell)
    BY <2>1
  <2>4. ProcessType(task[c], pc'[c], flock[c], buf'[c])
    BY <2>1, <2>2 DEF DBTypes, ProcessType
  <2> QED BY <2>1, <2>2, <2>3, <2>4, StayTypes
<1>2. CASE WriteMore(c)
  <2>1. /\ pc[c] = "store" /\ pos[c] < Len(buf[c])
        /\ file' = Written(file, pos[c] + 1, buf[c][pos[c] + 1])
        /\ pos' = [pos EXCEPT ![c] = pos[c] + 1]
        /\ UNCHANGED <<flock, pc, task, buf, copy, serial>>
    BY <1>2 DEF WriteMore
  <2>2. file' \in Seq(Cell)
    BY <2>1, WrittenTyped
  <2>3. /\ pc' \in [Client -> {"idle", "load", "write", "store"}]
        /\ buf' \in [Client -> Seq(Cell)] /\ pos' \in [Client -> Nat]
        /\ serial' \in Seq(GroupType)
        /\ \A d \in Client \ {c} : pc'[d] = pc[d] /\ buf'[d] = buf[d]
    BY <2>1 DEF DBTypes
  <2>4. ProcessType(task[c], pc'[c], flock[c], buf'[c])
    BY <2>1 DEF DBTypes
  <2> QED BY <2>1, <2>2, <2>3, <2>4, StayTypes
<1> QED BY <1>1, <1>2

\* The group an operation that succeeded leaves in the hands of its caller.
LEMMA KeptTyped ==
  ASSUME NEW t, TaskType(t), NEW data \in Seq(GroupType), t.kind = "add" => data # <<>>
  PROVE  KeptCopy(t, data) \in GroupType
<1>1. CASE t.kind = "add"
  <2>1. Len(data) \in 1 .. Len(data)
    BY <1>1, EmptySeq
  <2>2. data[Len(data)] \in GroupType
    BY <2>1, ElementOfSeq
  <2> QED BY <1>1, <2>2 DEF KeptCopy
<1>2. CASE t.kind = "update"
  BY <1>2 DEF KeptCopy, TaskType
<1>3. CASE t.kind # "add" /\ t.kind # "update"
  BY <1>3, JunkIs DEF KeptCopy
<1> QED BY <1>1, <1>2, <1>3

\* Every step of every process keeps the types.
LEMMA TypesStep ==
  ASSUME DBTypes, [Next]_vars
  PROVE  DBTypes'
<1> USE DEF WithSharedLockMode, WithExclusiveLockMode
<1>1. ASSUME NEW c \in Client, Find(c)
      PROVE  DBTypes'
  <2> DEFINE t == [kind |-> "find"]
  <2>1. t.kind = "find"
    OBVIOUS
  <2>2. LockBackingFile(c, "SH", t)
    BY <1>1 DEF Find
  <2> HIDE DEF t
  <2>3. TaskType(t) /\ t.kind \in Changes \cup {"find"}
    BY <2>1 DEF TaskType
  <2> QED BY <2>2, <2>3, LockTypes
<1>2. ASSUME NEW c \in Client, LoadShared(c)
      PROVE  DBTypes'
  <2>1. file' \in Seq(Cell) /\ serial' \in Seq(GroupType)
    BY <1>2 DEF LoadShared, DBTypes
  <2>2. Groups(ParseFromString(buf[c])) \subseteq GroupType
    <3>1. ParseFromString(buf[c]) \in Seq(GroupType)
      BY ParseIs DEF DBTypes
    <3> QED BY <3>1, GroupsIn
  <2>3. PICK g \in GroupType : Release(c, g)
    BY <1>2, <2>2, JunkIs DEF LoadShared
  <2> QED BY <2>1, <2>3, ReleaseTypes
<1>3. ASSUME NEW c \in Client, BreakOff(c)
      PROVE  DBTypes'
  <2>1. Release(c, NoGroup)
    BY <1>3 DEF BreakOff
  <2>2. file' \in Seq(Cell)
    <3>1. CASE file' = file
      BY <3>1 DEF DBTypes
    <3>2. CASE file' # file
      <4>1. /\ pc[c] = "store" /\ pos[c] < Len(buf[c])
            /\ \E g \in Cut(buf[c][pos[c] + 1]) : file' = Written(file, pos[c] + 1, g)
        BY <1>3, <3>2 DEF BreakOff
      <4> QED BY <4>1, WrittenTyped
    <3> QED BY <3>1, <3>2
  <2>3. serial' \in Seq(GroupType)
    <3>1. ParseFromString(file') \in Seq(GroupType)
      BY <2>2, ParseIs
    <3> QED BY <1>3, <3>1 DEF BreakOff, DBTypes
  <2> QED BY <2>1, <2>2, <2>3, ReleaseTypes, JunkIs
<1>4. ASSUME NEW c \in Client, Add(c)
      PROVE  DBTypes'
  <2>1. PICK g \in Candidates : LockBackingFile(c, "SH", [kind |-> "add", group |-> g])
    BY <1>4 DEF Add
  <2> DEFINE t == [kind |-> "add", group |-> g]
  <2>2. t.kind = "add" /\ t.group = g
    OBVIOUS
  <2>3. LockBackingFile(c, "SH", t)
    BY <2>1
  <2> HIDE DEF t
  <2>4. TaskType(t) /\ t.kind \in Changes \cup {"find"}
    BY <2>2 DEF TaskType, Changes
  <2> QED BY <2>3, <2>4, LockTypes
<1>5. ASSUME NEW c \in Client, Update(c)
      PROVE  DBTypes'
  <2>1. PICK s \in States :
          LockBackingFile(c, "SH", [kind |-> "update", group |-> [copy[c] EXCEPT !.state = s]])
    BY <1>5 DEF Update
  <2> DEFINE g == [copy[c] EXCEPT !.state = s]
             t == [kind |-> "update", group |-> g]
  <2>2. copy[c] \in GroupType /\ copy[c] # NoGroup
    BY <1>5 DEF Update, DBTypes
  <2>3. g \in GroupType /\ g.name # 0
    BY <2>2 DEF GroupType
  <2> HIDE DEF g
  <2>4. t.kind = "update" /\ t.group = g
    OBVIOUS
  <2>5. LockBackingFile(c, "SH", t)
    BY <2>1 DEF g
  <2> HIDE DEF t
  <2>6. TaskType(t) /\ t.kind \in Changes \cup {"find"}
    BY <2>3, <2>4 DEF TaskType, Changes
  <2> QED BY <2>5, <2>6, LockTypes
<1>6. ASSUME NEW c \in Client, Remove(c)
      PROVE  DBTypes'
  <2> DEFINE t == [kind |-> "remove", name |-> copy[c].name]
  <2>1. LockBackingFile(c, "SH", t)
    BY <1>6 DEF Remove
  <2>2. t.kind = "remove" /\ t.name = copy[c].name
    OBVIOUS
  <2>3. copy[c].name \in Nat \ {0}
    BY <1>6 DEF Remove, DBTypes, GroupType
  <2> HIDE DEF t
  <2>4. TaskType(t) /\ t.kind \in Changes \cup {"find"}
    BY <2>2, <2>3 DEF TaskType, Changes
  <2> QED BY <2>1, <2>4, LockTypes
<1>7. ASSUME NEW c \in Client, Clear(c)
      PROVE  DBTypes'
  <2> DEFINE t == [kind |-> "clear"]
  <2>1. t.kind = "clear"
    OBVIOUS
  <2>2. LockBackingFile(c, "SH", t)
    BY <1>7 DEF Clear
  <2> HIDE DEF t
  <2>3. TaskType(t) /\ t.kind \in Changes \cup {"find"}
    BY <2>1 DEF TaskType, Changes
  <2> QED BY <2>2, <2>3, LockTypes
<1>8. ASSUME NEW c \in Client, StoreData(c)
      PROVE  DBTypes'
  <2>1. /\ Release(c, KeptCopy(task[c], buf[c]))
        /\ file' \in Seq(Cell) /\ serial' \in Seq(GroupType)
    BY <1>8 DEF StoreData, DBTypes
  <2>2. ProcessType(task[c], pc[c], flock[c], buf[c]) /\ pc[c] = "store"
    BY <1>8 DEF StoreData, DBTypes
  <2>3. KeptCopy(task[c], buf[c]) \in GroupType
    BY <2>2, KeptTyped DEF ProcessType
  <2> QED BY <2>1, <2>3, ReleaseTypes
<1>9. CASE UNCHANGED vars
  BY <1>9 DEF vars, DBTypes
<1>10. Writers \subseteq Client
  BY DEF Client
<1> QED
  BY <1>1, <1>2, <1>3, <1>4, <1>5, <1>6, <1>7, <1>8, <1>9, <1>10,
     ReadMoreTypes, LoadExclusiveTypes, WriteTypes DEF Next

\* The database begins empty and unlocked.
LEMMA TypesInit ==
  ASSUME Init
  PROVE  DBTypes
<1> DEFINE none == [kind |-> "none"]
<1>1. none.kind = "none"
  OBVIOUS
<1>2. task = [c \in Client |-> none]
  BY DEF Init
<1> HIDE DEF none
<1>3. task = [c \in Client |-> task[c]] /\ \A c \in Client : task[c] = none
  BY <1>2
<1>4. <<>> \in Seq(Cell) /\ <<>> \in Seq(GroupType)
  OBVIOUS
<1>5. /\ file \in Seq(Cell) /\ serial \in Seq(GroupType)
      /\ buf \in [Client -> Seq(Cell)]
      /\ copy \in [Client -> GroupType]
  BY <1>4, JunkIs DEF Init
<1>6. /\ flock \in [Client -> {"none", "SH", "EX"}] /\ pos \in [Client -> Nat]
      /\ pc \in [Client -> {"idle", "load", "write", "store"}]
      /\ \A c \in Client : flock[c] = "none" /\ pc[c] = "idle"
  BY DEF Init
<1>7. \A c \in Client : ProcessType(task[c], pc[c], flock[c], buf[c])
  BY <1>1, <1>3, <1>6 DEF ProcessType, TaskType, Changes
<1> QED BY <1>3, <1>5, <1>6, <1>7 DEF DBTypes

\* Whatever processes add, update, remove and clear, even when their reads and
\* writes overlap or break off, every group in the file has a name, unless
\* nothing of it is left, and a known state, and a process holds a lock on the
\* file exactly while it is in a method.
THEOREM DatabaseTypes == Spec => []TypeOK
<1>1. Init => DBTypes
  BY TypesInit
<1>2. DBTypes /\ [Next]_vars => DBTypes'
  BY TypesStep
<1>3. DBTypes => TypeOK
  <2>1. ASSUME DBTypes
        PROVE  TypeOK
    <3>1. Groups(Stored) \subseteq GroupType
      <4>1. Stored \in Seq(GroupType)
        BY <2>1, ParseIs DEF DBTypes, Stored
      <4> QED BY <4>1, GroupsIn
    <3>2. \A g \in Groups(Stored) :
            /\ g.name \in Nat /\ g.state \in States \cup {"none"}
            /\ g.name = Unnamed => g = NoGroup
      BY <3>1 DEF GroupType, Unnamed
    <3> QED BY <2>1, <3>2 DEF DBTypes, TypeOK, ProcessType
  <2> QED BY <2>1
<1> QED BY <1>1, <1>2, <1>3, PTL DEF Spec

-----------------------------------------------------------------------------
(* The inductive invariant for one writer.                                 *)

\* An empty file has no groups and is sound.
LEMMA EmptyGroups == Groups(<<>>) = {} /\ Sound(<<>>) /\ <<>> \in Seq(GroupType) /\ Len(<<>>) = 0
<1>1. Len(<<>>) = 0 /\ <<>> \in Seq(GroupType)
  OBVIOUS
<1>2. Groups(<<>>) = {}
  BY <1>1 DEF Groups
<1> QED BY <1>1, <1>2 DEF Sound, Unique

\* DBInv holds of the empty database.
LEMMA InvInit ==
  ASSUME Init
  PROVE  DBInv
<1>1. DBTypes
  BY TypesInit
<1>2. file = <<>>
  BY DEF Init
<1>3. \A c \in Client : /\ pc[c] = "idle" /\ copy[c] = NoGroup /\ task[c].kind = "none"
                        /\ buf[c] = <<>> /\ pos[c] = 0
  BY DEF Init
<1>4. Writers \subseteq Client /\ Readers \subseteq Client
  BY DEF Client
<1>5. \A w \in Writers : WriterInv(w)
  BY <1>3, <1>4 DEF WriterInv, Keepable
<1> QED BY <1>1, <1>2, <1>3, <1>4, <1>5, EmptyGroups DEF DBInv

\* The beginning of a sound database is sound.
LEMMA BeginsSound ==
  ASSUME NEW a \in Seq(GroupType), NEW b \in Seq(GroupType), Begins(a, b), Sound(b)
  PROVE  Sound(a) /\ Groups(a) \subseteq Groups(b)
<1>1. Len(a) \in Nat /\ Len(b) \in Nat
  BY LenProperties
<1>2. \A i \in 1 .. Len(a) : i \in 1 .. Len(b) /\ a[i] = b[i]
  BY <1>1 DEF Begins
<1>3. Groups(a) \subseteq Groups(b)
  BY <1>2 DEF Groups
<1>4. Unique(a)
  BY <1>2 DEF Sound, Unique
<1> QED BY <1>3, <1>4 DEF Sound

\* A file of the same length that begins a database is that database.
LEMMA BeginsAll ==
  ASSUME NEW a \in Seq(Cell), NEW b \in Seq(Cell), Begins(a, b), Len(a) >= Len(b)
  PROVE  a = b
<1>1. Len(a) \in Nat /\ Len(b) \in Nat
  BY LenProperties
<1>2. Len(a) = Len(b) /\ \A i \in 1 .. Len(a) : a[i] = b[i]
  BY <1>1 DEF Begins
<1> QED BY <1>2, SeqEqual

\* One cell more.
LEMMA BeginsMore ==
  ASSUME NEW a \in Seq(Cell), NEW b \in Seq(Cell), Begins(a, b), Len(a) + 1 <= Len(b)
  PROVE  Begins(Append(a, b[Len(a) + 1]), b)
<1>1. Len(a) \in Nat /\ Len(b) \in Nat
  BY LenProperties
<1>2. b[Len(a) + 1] \in Cell
  <2>1. Len(a) + 1 \in 1 .. Len(b)
    BY <1>1
  <2> QED BY <2>1, ElementOfSeq
<1> DEFINE d == Append(a, b[Len(a) + 1])
<1>3. /\ Len(d) = Len(a) + 1
      /\ \A i \in 1 .. Len(a) : d[i] = a[i]
      /\ d[Len(a) + 1] = b[Len(a) + 1]
  BY <1>2, AppendProperties
<1> HIDE DEF d
<1>4. \A i \in 1 .. Len(d) : d[i] = b[i]
  BY <1>1, <1>3 DEF Begins
<1> QED BY <1>1, <1>3, <1>4 DEF Begins, d

\* A file that ends with what is left of the next group is sound as well.
LEMMA CutSound ==
  ASSUME NEW a \in Seq(GroupType), NEW b \in Seq(GroupType), Begins(a, b), Sound(b),
         Len(a) + 1 <= Len(b), NEW f \in Cut(b[Len(a) + 1])
  PROVE  Append(a, f) \in Seq(GroupType) /\ Sound(Append(a, f))
<1> DEFINE n == Len(a)
           g == b[n + 1]
           d == Append(a, f)
<1>1. n \in Nat /\ Len(b) \in Nat /\ n + 1 \in 1 .. Len(b)
  BY LenProperties
<1>2. g \in GroupType /\ g \in Groups(b)
  BY <1>1, ElementOfSeq DEF Groups
<1>3. /\ f \in GroupType
      /\ f.name \in {0, g.name} /\ f.home \in {"none", g.home} /\ f.ids \subseteq g.ids
      /\ f.ids # {} => f = [g EXCEPT !.ids = f.ids]
  BY <1>2, CutIs
<1>4. /\ d \in Seq(GroupType) /\ Len(d) = n + 1
      /\ \A i \in 1 .. n : d[i] = b[i] /\ i \in 1 .. Len(b)
      /\ d[n + 1] = f
      /\ Groups(d) = Groups(a) \cup {f}
  <2>1. \A i \in 1 .. n : a[i] = b[i] /\ i \in 1 .. Len(b)
    BY <1>1 DEF Begins
  <2> QED BY <1>3, <2>1, AppendProperties, AppendIs
<1>5. AllNames /\ f.ids # {} => f \in StorableGroups
  <2>1. ASSUME AllNames, f.ids # {}
        PROVE  f \in StorableGroups
    <3>1. g.ids # {}
      BY <1>3, <2>1
    <3>2. g \in StorableGroups
      BY <1>2, <2>1, <3>1 DEF Sound
    <3>3. f = [g EXCEPT !.ids = f.ids] /\ f.ids \in SUBSET g.ids
      BY <1>3, <2>1
    <3>4. \E s : s \in States
      <4>1. PICK c \in Candidates : TRUE
        BY <3>2, StorableIs
      <4> QED BY <4>1, DatabaseAssumption
    <3> HIDE DEF g
    <3> QED BY <3>2, <3>3, <3>4, RemainsStorable
  <2> QED BY <2>1
<1>6. \A j \in 1 .. n :
        /\ f.name # 0 => f.name # b[j].name
        /\ b[j].name # 0 => b[j].name # f.name
        /\ f.home # "none" => f.home # b[j].home
        /\ b[j].home # "none" => b[j].home # f.home
        /\ f.ids \cap b[j].ids = {} /\ b[j].ids \cap f.ids = {}
  <2>1. ASSUME NEW j \in 1 .. n
        PROVE  /\ f.name # 0 => f.name # b[j].name
               /\ b[j].name # 0 => b[j].name # f.name
               /\ f.home # "none" => f.home # b[j].home
               /\ b[j].home # "none" => b[j].home # f.home
               /\ f.ids \cap b[j].ids = {} /\ b[j].ids \cap f.ids = {}
    <3>1. j \in 1 .. Len(b) /\ j # n + 1
      BY <1>1
    <3>2. /\ g.name # 0 => g.name # b[j].name
          /\ b[j].name # 0 => b[j].name # g.name
          /\ g.home # "none" => g.home # b[j].home
          /\ b[j].home # "none" => b[j].home # g.home
          /\ g.ids \cap b[j].ids = {} /\ b[j].ids \cap g.ids = {}
      BY <1>1, <3>1 DEF Sound, Unique, Unnamed
    <3> HIDE DEF g
    <3> QED BY <1>3, <3>2
  <2> QED BY <2>1
<1> HIDE DEF g, d, n
<1>7. Unique(d)
  <2>1. SUFFICES ASSUME NEW i \in 1 .. n + 1, NEW j \in 1 .. n + 1, i # j
                 PROVE  /\ d[i].name # 0 => d[i].name # d[j].name
                        /\ d[i].home # "none" => d[i].home # d[j].home
                        /\ d[i].ids \cap d[j].ids = {}
    BY <1>4 DEF Unique, Unnamed
  <2>2. CASE i \in 1 .. n /\ j \in 1 .. n
    BY <1>4, <2>1, <2>2 DEF Sound, Unique, Unnamed
  <2>3. CASE i = n + 1 /\ j \in 1 .. n
    BY <1>4, <1>6, <2>3
  <2>4. CASE j = n + 1 /\ i \in 1 .. n
    BY <1>4, <1>6, <2>4
  <2> QED BY <1>1, <2>1, <2>2, <2>3, <2>4
<1>8. Groups(a) \subseteq Groups(b)
  BY BeginsSound
<1>9. Sound(d)
  BY <1>4, <1>5, <1>7, <1>8 DEF Sound
<1> QED BY <1>4, <1>9 DEF d

\* A step that leaves the file alone and does not touch a writer.
LEMMA WriterFrame ==
  ASSUME NEW w \in Writers, WriterInv(w), file' = file, pc'[w] = pc[w],
         task'[w] = task[w], buf'[w] = buf[w], pos'[w] = pos[w], copy'[w] = copy[w]
  PROVE  WriterInv(w)'
BY DEF WriterInv

\* A step of one process that leaves the others, and, unless it is the writer,
\* the file alone.
LEMMA OneStep ==
  ASSUME SingleWriter, DBInv, DBTypes', NEW c \in Client,
         file' \in Seq(GroupType), Sound(file'),
         \A d \in Client \ {c} :
           /\ pc'[d] = pc[d] /\ task'[d] = task[d] /\ buf'[d] = buf[d]
           /\ pos'[d] = pos[d] /\ copy'[d] = copy[d],
         c \in Readers => /\ file' = file /\ pc'[c] \in {"idle", "load"}
                          /\ task'[c].kind \in {"none", "find"},
         c \in Writers => WriterInv(c)'
  PROVE  DBInv'
<1>1. Sound(file)'
  OBVIOUS
<1>2. ASSUME NEW r \in Readers
      PROVE  pc'[r] \in {"idle", "load"} /\ task'[r].kind \in {"none", "find"}
  BY DEF DBInv, Client
<1>3. ASSUME NEW w \in Writers
      PROVE  WriterInv(w)'
  <2>1. CASE w = c
    BY <2>1
  <2>2. CASE w # c
    <3>1. c \in Readers
      BY <2>2 DEF SingleWriter, Client
    <3>2. WriterInv(w)
      BY DEF DBInv
    <3> QED BY <2>2, <3>1, <3>2, WriterFrame DEF Client
  <2> QED BY <2>1, <2>2
<1> QED BY <1>1, <1>2, <1>3 DEF DBInv

\* A process takes the lock, for a task that fits the file.
LEMMA LockInv ==
  ASSUME SingleWriter, DBInv, DBTypes', NEW c \in Client, NEW mode, NEW t,
         c \in Readers => t.kind = "find", TaskFits(t, file),
         LockBackingFile(c, mode, t)
  PROVE  DBInv'
<1>1. /\ file' = file /\ buf' = buf /\ copy' = copy /\ pos' = pos
      /\ task' = [task EXCEPT ![c] = t]
      /\ pc[c] = "idle"
      /\ pc' = [pc EXCEPT ![c] = "load"]
  BY DEF LockBackingFile
<1>2. /\ pc'[c] = "load" /\ task'[c] = t
      /\ \A d \in Client \ {c} :
           /\ pc'[d] = pc[d] /\ task'[d] = task[d] /\ buf'[d] = buf[d]
           /\ pos'[d] = pos[d] /\ copy'[d] = copy[d]
  <2>1. task = [d \in Client |-> task[d]]
    BY DEF DBInv, DBTypes
  <2>2. task'[c] = t /\ \A d \in Client \ {c} : task'[d] = task[d]
    BY <1>1, <2>1, Zenon
  <2> QED BY <1>1, <2>2 DEF DBInv, DBTypes
<1>3. file' \in Seq(GroupType) /\ Sound(file')
  BY <1>1 DEF DBInv
<1>4. ASSUME c \in Writers
      PROVE  WriterInv(c)'
  <2>1. WriterInv(c)
    BY <1>4 DEF DBInv
  <2>2. Begins(<<>>, file)
    <3>1. Len(file) \in Nat /\ Len(<<>>) = 0
      BY LenProperties, EmptyGroups DEF DBInv
    <3> QED BY <3>1 DEF Begins
  <2> QED BY <1>1, <1>2, <2>1, <2>2 DEF WriterInv
<1> QED BY <1>1, <1>2, <1>3, <1>4, OneStep

\* A method returns to c with a group it may keep, over a sound file.
LEMMA ReleaseInv ==
  ASSUME SingleWriter, DBInv, DBTypes', NEW c \in Client, NEW g, Release(c, g),
         file' \in Seq(GroupType), Sound(file'), c \in Readers => file' = file,
         c \in Writers => Keepable(g, file')
  PROVE  DBInv'
<1>1. DBTypes
  BY DEF DBInv
<1>2. /\ pc'[c] = "idle" /\ task'[c].kind = "none"
      /\ buf'[c] = <<>> /\ pos'[c] = 0 /\ copy'[c] = g
      /\ \A d \in Client \ {c} :
           /\ pc'[d] = pc[d] /\ task'[d] = task[d] /\ buf'[d] = buf[d]
           /\ pos'[d] = pos[d] /\ copy'[d] = copy[d]
  BY <1>1, ReleaseIs
<1>3. ASSUME c \in Writers
      PROVE  WriterInv(c)'
  BY <1>2, <1>3 DEF WriterInv
<1> QED BY <1>2, <1>3, OneStep

\* A read: what the writer has read remains the beginning of the file.
LEMMA ReadMoreInv ==
  ASSUME SingleWriter, DBInv, DBTypes', NEW c \in Client, ReadMore(c)
  PROVE  DBInv'
<1> DEFINE next == Len(buf[c]) + 1
<1>1. /\ pc[c] = "load" /\ next <= Len(file)
      /\ \/ buf' = [buf EXCEPT ![c] = Append(buf[c], file[next])]
         \/ buf[c] # SubSeq(file, 1, next - 1)
      /\ UNCHANGED <<file, pc, task, pos, copy>>
  BY DEF ReadMore
<1>2. PICK g \in Cell : buf' = [buf EXCEPT ![c] = Append(buf[c], g)]
  BY ReadMoreTypes DEF DBInv
<1>3. \A d \in Client \ {c} : buf'[d] = buf[d]
  BY <1>2 DEF DBInv, DBTypes
<1>4. buf[c] \in Seq(Cell) /\ file \in Seq(Cell) /\ Len(buf[c]) \in Nat /\ Len(file) \in Nat
  BY LenProperties DEF DBInv, DBTypes
<1>5. ASSUME c \in Writers
      PROVE  WriterInv(c)'
  <2>1. WriterInv(c) /\ Begins(buf[c], file)
    BY <1>1, <1>5 DEF DBInv, WriterInv
  <2>2. buf[c] = SubSeq(file, 1, next - 1)
    <3>1. 1 \in Int /\ next - 1 \in Int /\ next - 1 = Len(buf[c])
          /\ \A i \in 1 .. next - 1 : file[i] \in Cell
      BY <1>1, <1>4, ElementOfSeq
    <3>2. /\ SubSeq(file, 1, next - 1) \in Seq(Cell)
          /\ Len(SubSeq(file, 1, next - 1)) =
               IF 1 <= next - 1 THEN (next - 1) - 1 + 1 ELSE 0
          /\ \A i \in 1 .. (next - 1) - 1 + 1 :
               SubSeq(file, 1, next - 1)[i] = file[1 + i - 1]
      BY <3>1, SubSeqProperties
    <3> DEFINE q == SubSeq(file, 1, next - 1)
    <3>3. /\ q \in Seq(Cell) /\ Len(q) = Len(buf[c])
          /\ \A i \in 1 .. Len(buf[c]) : q[i] = file[i]
      BY <1>4, <3>1, <3>2
    <3> HIDE DEF q
    <3>4. \A i \in 1 .. Len(buf[c]) : buf[c][i] = q[i]
      BY <2>1, <3>3 DEF Begins
    <3>5. buf[c] = q
      BY <1>4, <3>3, <3>4, SeqEqual
    <3> QED BY <3>5 DEF q
  <2>3. buf' = [buf EXCEPT ![c] = Append(buf[c], file[next])]
    BY <1>1, <2>2
  <2>4. buf'[c] = Append(buf[c], file[next])
    BY <2>3 DEF DBInv, DBTypes
  <2>5. Begins(buf'[c], file)
    BY <1>1, <1>4, <2>1, <2>4, BeginsMore
  <2> QED BY <1>1, <2>1, <2>5 DEF WriterInv
<1>6. /\ file' \in Seq(GroupType) /\ Sound(file')
      /\ c \in Readers => task[c].kind \in {"none", "find"}
  BY <1>1 DEF DBInv
<1> QED BY <1>1, <1>3, <1>5, <1>6, OneStep

\* What a process has read, parsed.
LEMMA ReadAllIs ==
  ASSUME SingleWriter, DBInv, NEW w \in Writers, ReadDone(w)
  PROVE  ParseFromString(buf[w]) = file
<1>1. w \in Client /\ pc[w] = "load" /\ Len(buf[w]) >= Len(file)
  BY DEF ReadDone, Client
<1>2. buf[w] \in Seq(Cell) /\ file \in Seq(Cell) /\ file \in Seq(GroupType) /\ Begins(buf[w], file)
  BY <1>1 DEF DBInv, DBTypes, WriterInv
<1>3. buf[w] = file
  BY <1>1, <1>2, BeginsAll
<1> QED BY <1>2, <1>3, ParseIs

\* The writer computes its result from the file.
LEMMA LoadExclusiveInv ==
  ASSUME SingleWriter, DBInv, DBTypes', NEW w \in Writers, LoadExclusive(w)
  PROVE  DBInv'
<1>1. /\ pc[w] = "load" /\ file' = file /\ w \in Client
      /\ ParseFromString(buf[w]) = file /\ WriterInv(w)
  BY ReadAllIs DEF LoadExclusive, ReadDone, Client, DBInv
<1>2. file' \in Seq(GroupType) /\ Sound(file') /\ w \notin Readers
  BY <1>1, DatabaseAssumption DEF DBInv
<1>3. CASE TaskOk(task[w], file)
  <2>1. /\ buf' = [buf EXCEPT ![w] = TaskResult(task[w], file)]
        /\ pc' = [pc EXCEPT ![w] = "write"]
        /\ UNCHANGED <<task, pos, copy>>
    BY <1>1, <1>3 DEF LoadExclusive
  <2>2. /\ pc'[w] = "write" /\ buf'[w] = TaskResult(task[w], file)
        /\ \A d \in Client \ {w} : pc'[d] = pc[d] /\ buf'[d] = buf[d]
    BY <1>1, <2>1 DEF DBInv, DBTypes
  <2>3. WriterInv(w)'
    BY <1>1, <1>3, <2>1, <2>2 DEF WriterInv
  <2> QED BY <1>1, <1>2, <2>1, <2>2, <2>3, OneStep
<1>4. CASE ~TaskOk(task[w], file)
  <2>1. Release(w, NoGroup)
    BY <1>1, <1>4 DEF LoadExclusive
  <2>2. Keepable(NoGroup, file')
    BY DEF Keepable
  <2> QED BY <1>1, <1>2, <2>1, <2>2, ReleaseInv
<1> QED BY <1>3, <1>4

\* The group the writer keeps after a change is in the database it stores.
LEMMA KeptKeepable ==
  ASSUME NEW data \in Seq(GroupType), NEW t, TaskType(t), TaskOk(t, data),
         Sound(data), TaskFits(t, data)
  PROVE  Keepable(KeptCopy(t, TaskResult(t, data)), TaskResult(t, data))
<1>1. CASE t.kind = "add"
  <2> DEFINE g == Named(t.group, data)
  <2>1. t.group \in Candidates /\ TaskResult(t, data) = Append(data, g)
    BY <1>1 DEF TaskType, TaskResult, AddInstanceGroup
  <2>2. g \in GroupType /\ g.ids # {}
    BY <2>1, NamedIs, DatabaseAssumption
  <2> HIDE DEF g
  <2>3. /\ Len(Append(data, g)) = Len(data) + 1
        /\ Append(data, g)[Len(data) + 1] = g
        /\ g \in Groups(Append(data, g))
    BY <2>2, AppendProperties, AppendIs
  <2>4. KeptCopy(t, TaskResult(t, data)) = g
    BY <1>1, <2>1, <2>3 DEF KeptCopy
  <2> QED BY <2>1, <2>2, <2>3, <2>4 DEF Keepable
<1>2. CASE t.kind = "update"
  <2>1. t.group \in Groups(TaskResult(t, data))
    BY <1>2, TaskResultSound
  <2>2. PICK h \in Groups(data), s \in States : h.ids # {} /\ t.group = [h EXCEPT !.state = s]
    BY <1>2 DEF TaskFits
  <2>3. t.group.ids # {}
    BY <2>2, GroupsIn DEF GroupType
  <2> QED BY <1>2, <2>1, <2>3 DEF Keepable, KeptCopy
<1>3. CASE t.kind # "add" /\ t.kind # "update"
  BY <1>3 DEF Keepable, KeptCopy
<1> QED BY <1>1, <1>2, <1>3

\* While the file is truncated its content is in the buffer of the writer.
LEMMA TruncateInv ==
  ASSUME SingleWriter, DBInv, DBTypes', NEW w \in Writers, Truncate(w)
  PROVE  DBInv'
<1>1. /\ pc[w] = "write" /\ w \in Client /\ w \notin Readers
      /\ file' = <<>>
      /\ pc' = [pc EXCEPT ![w] = "store"]
      /\ UNCHANGED <<task, buf, pos, copy>>
  BY DatabaseAssumption DEF Truncate, Client
<1>2. pc'[w] = "store" /\ \A d \in Client \ {w} : pc'[d] = pc[d]
  BY <1>1 DEF DBInv, DBTypes
<1>3. /\ TaskOk(task[w], file) /\ TaskFits(task[w], file)
      /\ buf[w] = TaskResult(task[w], file) /\ pos[w] = 0
      /\ file \in Seq(GroupType) /\ TaskType(task[w]) /\ Sound(file)
  BY <1>1 DEF DBInv, DBTypes, WriterInv, ProcessType
<1>4. Sound(buf[w]) /\ Keepable(KeptCopy(task[w], buf[w]), buf[w])
  BY <1>3, TaskResultSound, KeptKeepable
<1>5. file' \in Seq(GroupType) /\ Sound(file') /\ Len(file') = 0
  BY <1>1, EmptyGroups
<1>6. Begins(file', buf[w])
  <2>1. Len(buf[w]) \in Nat
    BY <1>1, LenProperties DEF DBInv, DBTypes
  <2> QED BY <1>5, <2>1 DEF Begins
<1>7. WriterInv(w)'
  BY <1>1, <1>2, <1>3, <1>4, <1>5, <1>6 DEF WriterInv
<1> QED BY <1>1, <1>2, <1>5, <1>7, OneStep

\* Where the writer is while it stores.
LEMMA Storing ==
  ASSUME SingleWriter, DBInv, NEW c \in Client, pc[c] = "store"
  PROVE  /\ c \in Writers /\ c \notin Readers
         /\ buf[c] \in Seq(GroupType) /\ Sound(buf[c])
         /\ Begins(file, buf[c]) /\ Len(file) = pos[c]
         /\ Keepable(KeptCopy(task[c], buf[c]), buf[c])
         /\ \A d \in Client : pc[d] = "store" => d = c
<1>1. c \in Writers /\ c \notin Readers
  BY DatabaseAssumption DEF DBInv, Client
<1>2. buf[c] \in Seq(GroupType)
  BY DEF DBInv, DBTypes, ProcessType
<1>3. \A d \in Client : pc[d] = "store" => d = c
  BY <1>1 DEF DBInv, Client, SingleWriter
<1> QED BY <1>1, <1>2, <1>3 DEF DBInv, WriterInv

\* A part of the write: the file is still the beginning of the result.
LEMMA WriteMoreInv ==
  ASSUME SingleWriter, DBInv, DBTypes', NEW w \in Writers, WriteMore(w)
  PROVE  DBInv'
<1> DEFINE g == buf[w][pos[w] + 1]
<1>1. /\ pc[w] = "store" /\ w \in Client /\ pos[w] < Len(buf[w])
      /\ file' = Written(file, pos[w] + 1, g)
      /\ pos' = [pos EXCEPT ![w] = pos[w] + 1]
      /\ UNCHANGED <<pc, task, buf, copy>>
  BY DEF WriteMore, Client
<1>2. /\ w \notin Readers /\ buf[w] \in Seq(GroupType) /\ Sound(buf[w])
      /\ Begins(file, buf[w]) /\ Len(file) = pos[w]
  BY <1>1, Storing
<1>3. g \in GroupType /\ file \in Seq(GroupType) /\ pos[w] + 1 \in Nat \ {0}
  BY <1>1, WrittenTyped DEF DBInv, DBTypes
<1>4. file' = Append(file, g)
  BY <1>1, <1>2, <1>3, WrittenIs
<1>5. file' \in Seq(GroupType) /\ Len(file') = pos[w] + 1
  BY <1>2, <1>3, <1>4, AppendProperties
<1>6. Begins(file', buf[w])
  <2>1. file \in Seq(Cell) /\ buf[w] \in Seq(Cell) /\ Len(file) + 1 <= Len(buf[w])
    <3>1. Len(buf[w]) \in Nat /\ pos[w] \in Nat
      BY <1>1, <1>2, LenProperties DEF DBInv, DBTypes
    <3> QED BY <1>1, <1>2, <3>1 DEF DBInv, DBTypes
  <2> QED BY <1>2, <1>4, <2>1, BeginsMore
<1>7. Sound(file')
  BY <1>2, <1>5, <1>6, BeginsSound
<1>8. pos'[w] = pos[w] + 1 /\ \A d \in Client \ {w} : pos'[d] = pos[d]
  BY <1>1 DEF DBInv, DBTypes
<1>9. WriterInv(w)'
  <2>1. WriterInv(w)
    BY DEF DBInv
  <2> QED BY <1>1, <1>2, <1>5, <1>6, <1>8, <2>1 DEF WriterInv
<1> QED BY <1>1, <1>2, <1>5, <1>7, <1>8, <1>9, OneStep

\* When everything is written the file is the result.
LEMMA StoreDataInv ==
  ASSUME SingleWriter, DBInv, DBTypes', NEW w \in Writers, StoreData(w)
  PROVE  DBInv' /\ file' = buf[w]
<1>1. /\ pc[w] = "store" /\ w \in Client /\ pos[w] = Len(buf[w])
      /\ file' = file /\ Release(w, KeptCopy(task[w], buf[w]))
  BY DEF StoreData, Client
<1>2. /\ buf[w] \in Seq(Cell) /\ Sound(buf[w]) /\ w \notin Readers
      /\ Begins(file, buf[w]) /\ Len(file) = pos[w] /\ file \in Seq(Cell)
      /\ Keepable(KeptCopy(task[w], buf[w]), buf[w])
      /\ Len(buf[w]) \in Nat
  BY <1>1, Storing, LenProperties DEF DBInv, DBTypes
<1>3. file = buf[w]
  BY <1>1, <1>2, BeginsAll
<1>4. file' \in Seq(GroupType) /\ Sound(file')
  BY <1>1 DEF DBInv
<1> QED BY <1>1, <1>2, <1>3, <1>4, ReleaseInv

\* A write that breaks off leaves a sound file.
LEMMA BreakOffInv ==
  ASSUME SingleWriter, DBInv, DBTypes', NEW c \in Client, BreakOff(c)
  PROVE  DBInv'
<1>1. Release(c, NoGroup)
  BY DEF BreakOff
<1>2. Keepable(NoGroup, file')
  BY DEF Keepable
<1>3. CASE file' = file
  <2>1. file' \in Seq(GroupType) /\ Sound(file')
    BY <1>3 DEF DBInv
  <2> QED BY <1>1, <1>2, <1>3, <2>1, ReleaseInv
<1>4. CASE file' # file
  <2>1. /\ pc[c] = "store" /\ pos[c] < Len(buf[c])
        /\ \E f \in Cut(buf[c][pos[c] + 1]) : file' = Written(file, pos[c] + 1, f)
    BY <1>4 DEF BreakOff
  <2>2. PICK f \in Cut(buf[c][pos[c] + 1]) : file' = Written(file, pos[c] + 1, f)
    BY <2>1
  <2>3. /\ c \notin Readers /\ buf[c] \in Seq(GroupType) /\ Sound(buf[c])
        /\ Begins(file, buf[c]) /\ Len(file) = pos[c] /\ file \in Seq(GroupType)
    BY <2>1, Storing DEF DBInv
  <2>4. f \in GroupType /\ pos[c] + 1 \in Nat \ {0}
    BY <2>1, WrittenTyped DEF DBInv, DBTypes
  <2>5. file' = Append(file, f)
    BY <2>2, <2>3, <2>4, WrittenIs
  <2>6. Len(file) + 1 <= Len(buf[c])
    <3>1. Len(buf[c]) \in Nat /\ pos[c] \in Nat
      BY <2>3, LenProperties DEF DBInv, DBTypes
    <3> QED BY <2>1, <2>3, <3>1
  <2>7. file' \in Seq(GroupType) /\ Sound(file')
    BY <2>2, <2>3, <2>5, <2>6, CutSound
  <2> QED BY <1>1, <1>2, <2>3, <2>7, ReleaseInv
<1> QED BY <1>3, <1>4

\* With a single writer every step keeps DBInv.
LEMMA InvStep ==
  ASSUME SingleWriter, DBInv, [Next]_vars
  PROVE  DBInv'
<1> USE DEF WithSharedLockMode, WithExclusiveLockMode
<1>1. DBTypes'
  BY TypesStep DEF DBInv
<1>2. Writers \subseteq Client /\ Writers \cap Readers = {}
  BY DatabaseAssumption DEF Client
<1>3. ASSUME NEW c \in Client, Find(c)
      PROVE  DBInv'
  <2> DEFINE t == [kind |-> "find"]
  <2>1. t.kind = "find"
    OBVIOUS
  <2>2. LockBackingFile(c, "SH", t)
    BY <1>3 DEF Find
  <2> HIDE DEF t
  <2>3. TaskFits(t, file)
    BY <2>1 DEF TaskFits
  <2> QED BY <1>1, <2>1, <2>2, <2>3, LockInv
<1>4. ASSUME NEW c \in Client, LoadShared(c)
      PROVE  DBInv'
  <2>1. PICK g \in {NoGroup} \cup {h \in Groups(ParseFromString(buf[c])) : h.ids # {}} :
          Release(c, g)
    BY <1>4 DEF LoadShared
  <2>2. file' = file /\ file' \in Seq(GroupType) /\ Sound(file')
    BY <1>4 DEF LoadShared, DBInv
  <2>3. c \in Writers => Keepable(g, file')
    BY <1>4, <2>2, ReadAllIs DEF LoadShared, Keepable
  <2> QED BY <1>1, <2>1, <2>2, <2>3, ReleaseInv
<1>5. ASSUME NEW w \in Writers, Add(w)
      PROVE  DBInv'
  <2>1. PICK g \in Candidates : LockBackingFile(w, "SH", [kind |-> "add", group |-> g])
    BY <1>5 DEF Add
  <2> DEFINE t == [kind |-> "add", group |-> g]
  <2>2. t.kind = "add" /\ LockBackingFile(w, "SH", t)
    BY <2>1
  <2> HIDE DEF t
  <2>3. TaskFits(t, file)
    BY <2>2 DEF TaskFits
  <2> QED BY <1>1, <1>2, <2>2, <2>3, LockInv
<1>6. ASSUME NEW w \in Writers, Update(w)
      PROVE  DBInv'
  <2>1. PICK s \in States :
          LockBackingFile(w, "SH", [kind |-> "update", group |-> [copy[w] EXCEPT !.state = s]])
    BY <1>6 DEF Update
  <2> DEFINE g == [copy[w] EXCEPT !.state = s]
             t == [kind |-> "update", group |-> g]
  <2>2. copy[w] \in Groups(file) /\ copy[w].ids # {}
    <3>1. pc[w] = "idle" /\ copy[w] # NoGroup
      BY <1>6 DEF Update, LockBackingFile
    <3> QED BY <3>1 DEF DBInv, WriterInv, Keepable
  <2>3. \E h \in Groups(file), u \in States : h.ids # {} /\ g = [h EXCEPT !.state = u]
    BY <2>2, Zenon
  <2> HIDE DEF g
  <2>4. t.kind = "update" /\ t.group = g
    OBVIOUS
  <2>5. LockBackingFile(w, "SH", t)
    BY <2>1 DEF g
  <2> HIDE DEF t
  <2>6. TaskFits(t, file)
    BY <2>3, <2>4 DEF TaskFits
  <2> QED BY <1>1, <1>2, <2>5, <2>6, LockInv
<1>7. ASSUME NEW w \in Writers, Remove(w)
      PROVE  DBInv'
  <2> DEFINE t == [kind |-> "remove", name |-> copy[w].name]
  <2>1. LockBackingFile(w, "SH", t)
    BY <1>7 DEF Remove
  <2>2. t.kind = "remove" /\ t.name = copy[w].name
    OBVIOUS
  <2>3. copy[w].name \in Names(file)
    <3>1. pc[w] = "idle" /\ copy[w] # NoGroup
      BY <1>7 DEF Remove, LockBackingFile
    <3> QED BY <3>1 DEF DBInv, WriterInv, Keepable, Names
  <2> HIDE DEF t
  <2>4. TaskFits(t, file)
    BY <2>2, <2>3 DEF TaskFits
  <2> QED BY <1>1, <1>2, <2>1, <2>4, LockInv
<1>8. ASSUME NEW w \in Writers, Clear(w)
      PROVE  DBInv'
  <2> DEFINE t == [kind |-> "clear"]
  <2>1. t.kind = "clear" /\ LockBackingFile(w, "SH", t)
    BY <1>8 DEF Clear
  <2> HIDE DEF t
  <2>2. TaskFits(t, file)
    BY <2>1 DEF TaskFits
  <2> QED BY <1>1, <1>2, <2>1, <2>2, LockInv
<1>9. CASE UNCHANGED vars
  BY <1>1, <1>9 DEF vars, DBInv, WriterInv
<1>10. CASE Next
  BY <1>1, <1>3, <1>4, <1>5, <1>6, <1>7, <1>8, <1>10, ReadMoreInv, BreakOffInv,
     LoadExclusiveInv, TruncateInv, WriteMoreInv, StoreDataInv DEF Next
<1> QED BY <1>9, <1>10

\* As long as at most one process writes, and whenever a read or a write breaks
\* off, no two groups in the file share a name, a home directory or an
\* instance id: a generated name is free, and an update is about the group
\* whose copy it was made from.
THEOREM UniqueGroupsHolds ==
  ASSUME SingleWriter
  PROVE  Spec => []UniqueGroups
<1>1. Init => DBInv
  BY InvInit
<1>2. DBInv /\ [Next]_vars => DBInv'
  BY InvStep
<1>3. DBInv => UniqueGroups
  <2>1. ASSUME DBInv
        PROVE  Stored = file
    BY <2>1, ParseIs DEF DBInv, DBTypes, Stored
  <2> QED BY <2>1 DEF DBInv, Sound, UniqueGroups
<1> QED BY <1>1, <1>2, <1>3, PTL DEF Spec

-----------------------------------------------------------------------------
(* The refinement of AbstractDatabase.                                     *)

\* Over the truncated file the database holds what the writer will store,
\* otherwise what is in the file.
LEMMA CommittedIs ==
  ASSUME DBInv
  PROVE  /\ \A w \in Client :
              (\A c \in Client : (pc[c] = "store") <=> (c = w)) => Committed = Groups(buf[w])
         /\ (\A c \in Client : pc[c] # "store") => Committed = Groups(file)
<1>1. ASSUME NEW w \in Client, \A c \in Client : (pc[c] = "store") <=> (c = w)
      PROVE  Committed = Groups(buf[w])
  <2>1. {d \in Client : pc[d] = "store"} = {w} /\ \E c \in Client : pc[c] = "store"
    BY <1>1
  <2>2. UNION {Groups(buf[c]) : c \in {w}} = Groups(buf[w])
    OBVIOUS
  <2> QED BY <2>1, <2>2, Zenon DEF Committed
<1>2. ASSUME \A c \in Client : pc[c] # "store"
      PROVE  Committed = Groups(file)
  <2>1. Stored = file
    BY ParseIs DEF DBInv, DBTypes, Stored
  <2> QED BY <1>2, <2>1, Zenon DEF Committed
<1> QED BY <1>1, <1>2

\* The same after a step.
LEMMA CommittedNext ==
  ASSUME DBInv'
  PROVE  /\ \A w \in Client :
              (\A c \in Client : (pc'[c] = "store") <=> (c = w)) => Committed' = Groups(buf'[w])
         /\ (\A c \in Client : pc'[c] # "store") => Committed' = Groups(file')
<1>1. ASSUME NEW w \in Client, \A c \in Client : (pc'[c] = "store") <=> (c = w)
      PROVE  Committed' = Groups(buf'[w])
  <2>1. {d \in Client : pc'[d] = "store"} = {w} /\ \E c \in Client : pc'[c] = "store"
    BY <1>1
  <2>2. UNION {Groups(buf'[c]) : c \in {w}} = Groups(buf'[w])
    OBVIOUS
  <2> QED BY <2>1, <2>2, Zenon DEF Committed
<1>2. ASSUME \A c \in Client : pc'[c] # "store"
      PROVE  Committed' = Groups(file')
  <2>1. Stored' = file'
    BY ParseIs DEF DBInv, DBTypes, Stored
  <2> QED BY <1>2, <2>1, Zenon DEF Committed
<1> QED BY <1>1, <1>2

\* A step that keeps the file, unless a writer is storing, and what that
\* writer stores, keeps the database.
LEMMA CommittedSame ==
  ASSUME SingleWriter, DBInv, DBInv',
         \A d \in Client : (pc'[d] = "store") <=> (pc[d] = "store"),
         \A d \in Client : pc[d] = "store" => buf'[d] = buf[d],
         (\A d \in Client : pc[d] # "store") => file' = file
  PROVE  Committed' = Committed
<1>1. CASE \E w \in Client : pc[w] = "store"
  <2>1. PICK w \in Client : pc[w] = "store"
    BY <1>1
  <2>2. \A c \in Client : (pc[c] = "store") <=> (c = w)
    BY <2>1, Storing
  <2>3. Committed = Groups(buf[w]) /\ Committed' = Groups(buf'[w])
    BY <2>2, CommittedIs, CommittedNext
  <2> QED BY <2>1, <2>3
<1>2. CASE \A w \in Client : pc[w] # "store"
  BY <1>2, CommittedIs, CommittedNext
<1> QED BY <1>1, <1>2

\* Every step but Truncate and a write that breaks off leaves the set of the
\* groups alone.
LEMMA CommittedKept ==
  ASSUME SingleWriter, DBInv, DBInv', [Next]_vars,
         \A w \in Writers : ~Truncate(w),
         \A c \in Client : BreakOff(c) => pc[c] # "store"
  PROVE  Committed' = Committed
<1>1. CASE UNCHANGED vars
  BY <1>1 DEF vars, Committed, Stored
<1>2. ASSUME NEW w \in Writers, StoreData(w)
      PROVE  Committed' = Committed
  <2>1. w \in Client /\ pc[w] = "store" /\ file' = buf[w]
    BY <1>2, StoreDataInv DEF Client, DBInv, StoreData
  <2>2. \A c \in Client : (pc[c] = "store") <=> (c = w)
    BY <2>1, Storing
  <2>3. \A c \in Client : pc'[c] # "store"
    BY <1>2, <2>1, <2>2 DEF StoreData, Release, DBInv, DBTypes
  <2> QED BY <2>1, <2>2, <2>3, CommittedIs, CommittedNext
<1>3. ASSUME NEW c \in Client, NEW next \in {"idle", "load", "write"},
             file' = file, pc[c] # "store", pc' = [pc EXCEPT ![c] = next],
             \A d \in Client \ {c} : buf'[d] = buf[d]
      PROVE  Committed' = Committed
  <2>1. pc'[c] = next /\ \A d \in Client \ {c} : pc'[d] = pc[d]
    BY <1>3 DEF DBInv, DBTypes
  <2>2. \A d \in Client : (pc'[d] = "store") <=> (pc[d] = "store")
    BY <1>3, <2>1
  <2>3. \A d \in Client : pc[d] = "store" => buf'[d] = buf[d]
    BY <1>3
  <2> QED BY <1>3, <2>2, <2>3, CommittedSame
<1>4. ASSUME NEW c \in Client, NEW mode, NEW t, LockBackingFile(c, mode, t)
      PROVE  Committed' = Committed
  BY <1>3, <1>4 DEF LockBackingFile
<1>5. ASSUME NEW c \in Client, NEW g, Release(c, g), file' = file, pc[c] # "store"
      PROVE  Committed' = Committed
  <2>1. pc' = [pc EXCEPT ![c] = "idle"] /\ \A d \in Client \ {c} : buf'[d] = buf[d]
    BY <1>5 DEF Release, DBInv, DBTypes
  <2> QED BY <1>3, <1>5, <2>1
<1>6. ASSUME NEW c \in Client, LoadShared(c) \/ BreakOff(c)
      PROVE  Committed' = Committed
  <2>1. file' = file /\ pc[c] # "store" /\ \E g : Release(c, g)
    BY <1>6 DEF LoadShared, ReadDone, BreakOff
  <2> QED BY <1>5, <2>1
<1>7. ASSUME NEW c \in Client, ReadMore(c)
      PROVE  Committed' = Committed
  <2>1. /\ file' = file /\ pc' = pc /\ pc[c] # "store"
        /\ \E g \in Cell : buf' = [buf EXCEPT ![c] = Append(buf[c], g)]
    BY <1>7, ReadMoreTypes DEF ReadMore, DBInv
  <2>2. \A d \in Client \ {c} : buf'[d] = buf[d]
    BY <2>1 DEF DBInv, DBTypes
  <2> QED BY <2>1, <2>2, CommittedSame
<1>8. ASSUME NEW c \in Client, LoadExclusive(c)
      PROVE  Committed' = Committed
  <2>1. file' = file /\ pc[c] # "store"
    BY <1>8 DEF LoadExclusive, ReadDone
  <2>2. CASE TaskOk(task[c], ParseFromString(buf[c]))
    <3>1. /\ pc' = [pc EXCEPT ![c] = "write"]
          /\ buf' = [buf EXCEPT ![c] = TaskResult(task[c], ParseFromString(buf[c]))]
      BY <1>8, <2>2 DEF LoadExclusive
    <3>2. \A d \in Client \ {c} : buf'[d] = buf[d]
      BY <3>1 DEF DBInv, DBTypes
    <3> QED BY <1>3, <2>1, <3>1, <3>2
  <2>3. CASE ~TaskOk(task[c], ParseFromString(buf[c]))
    BY <1>5, <1>8, <2>1, <2>3 DEF LoadExclusive
  <2> QED BY <2>2, <2>3
<1>9. ASSUME NEW c \in Client, WriteMore(c)
      PROVE  Committed' = Committed
  <2>1. pc' = pc /\ buf' = buf /\ pc[c] = "store"
    BY <1>9 DEF WriteMore
  <2> QED BY <2>1, CommittedSame
<1>10. Writers \subseteq Client
  BY DEF Client
<1> QED
  BY <1>1, <1>2, <1>4, <1>6, <1>7, <1>8, <1>9, <1>10
  DEF Next, Find, Add, Update, Remove, Clear

\* A group that is in the database afterwards and is added or updated.
LEMMA AbstractChange ==
  ASSUME NEW g \in StorableGroups, g \in Committed',
         Abstract!AddInstanceGroup(g) \/ Abstract!UpdateInstanceGroup(g)
  PROVE  Abstract!Next
BY DEF Abstract!Next

\* Truncate carries out the operation: from here on the groups are those the
\* writer is about to store.
LEMMA TruncateImplements ==
  ASSUME SingleWriter, AllNames, DBInv, DBInv', NEW w \in Writers, Truncate(w)
  PROVE  Abstract!Next
<1>1. /\ w \in Client /\ pc[w] = "write"
      /\ buf' = buf
      /\ pc' = [pc EXCEPT ![w] = "store"]
  BY DEF Truncate, Client
<1>2. \A c \in Client : pc[c] # "store"
  BY <1>1, Storing DEF SingleWriter
<1>3. \A c \in Client : (pc'[c] = "store") <=> (c = w)
  BY <1>1, <1>2 DEF DBInv, DBTypes
<1>4. Committed = Groups(file)
  BY <1>2, CommittedIs
<1>5. Committed' = Groups(buf[w])
  BY <1>1, <1>3, CommittedNext
<1> DEFINE t == task[w]
<1>6. /\ file \in Seq(GroupType) /\ TaskType(t) /\ TaskOk(t, file)
      /\ Sound(file) /\ TaskFits(t, file) /\ t.kind \in Changes
      /\ buf[w] = TaskResult(t, file)
  BY <1>1 DEF DBInv, DBTypes, WriterInv, ProcessType
<1>7. Abstract!Names = Names(file)
  BY <1>4 DEF Abstract!Names, Names
<1> HIDE DEF t
<1>8. CASE t.kind = "add"
  <2> DEFINE g == Named(t.group, file)
  <2>1. /\ g \in StorableGroups
        /\ ~Conflicts(g, file)
        /\ Committed' = Committed \cup {g}
    BY <1>4, <1>5, <1>6, <1>8, TaskResultSound
  <2> HIDE DEF g
  <2>2. Abstract!AddInstanceGroup(g)
    BY <1>4, <2>1 DEF Abstract!AddInstanceGroup, Abstract!Conflicts, Conflicts
  <2> QED BY <2>1, <2>2, AbstractChange
<1>9. CASE t.kind = "update"
  <2> DEFINE g == t.group
  <2>1. /\ g \in StorableGroups
        /\ g.name \in Names(file)
        /\ Committed' = {h \in Committed : h.name # g.name} \cup {g}
    BY <1>4, <1>5, <1>6, <1>9, TaskResultSound
  <2> HIDE DEF g
  <2>2. Abstract!UpdateInstanceGroup(g)
    BY <1>7, <2>1 DEF Abstract!UpdateInstanceGroup
  <2> QED BY <2>1, <2>2, AbstractChange
<1>10. CASE t.kind = "remove"
  <2> DEFINE n == t.name
  <2>1. /\ n \in Names(file)
        /\ Committed' = {h \in Committed : h.name # n}
    BY <1>4, <1>5, <1>6, <1>10, TaskResultSound
  <2> HIDE DEF n
  <2>2. Abstract!RemoveInstanceGroup(n)
    BY <2>1 DEF Abstract!RemoveInstanceGroup
  <2> QED BY <1>7, <2>1, <2>2 DEF Abstract!Next
<1>11. CASE t.kind = "clear"
  <2>1. Committed' = {}
    BY <1>5, <1>6, <1>11, TaskResultSound
  <2> QED BY <2>1 DEF Abstract!Next, Abstract!Clear
<1> QED BY <1>6, <1>8, <1>9, <1>10, <1>11 DEF Changes

\* A write that breaks off leaves the groups it has written, and a part of one.
LEMMA BreakOffImplements ==
  ASSUME SingleWriter, DBInv, DBInv', NEW c \in Client, BreakOff(c), pc[c] = "store"
  PROVE  Abstract!Next
<1>1. /\ c \notin Readers /\ buf[c] \in Seq(GroupType) /\ Sound(buf[c])
      /\ Begins(file, buf[c]) /\ Len(file) = pos[c] /\ file \in Seq(GroupType)
      /\ \A d \in Client : (pc[d] = "store") <=> (d = c)
  BY Storing DEF DBInv
<1>2. Committed = Groups(buf[c])
  BY <1>1, CommittedIs
<1>3. \A d \in Client : pc'[d] # "store"
  BY <1>1 DEF BreakOff, Release, DBInv, DBTypes
<1>4. Committed' = Groups(file')
  BY <1>3, CommittedNext
<1>5. Groups(file) \in SUBSET Committed
  BY <1>1, <1>2, BeginsSound
<1>6. CASE file' = file
  BY <1>4, <1>5, <1>6 DEF Abstract!Next, Abstract!Damage
<1>7. CASE file' # file
  <2>1. /\ pos[c] < Len(buf[c])
        /\ \E f \in Cut(buf[c][pos[c] + 1]) : file' = Written(file, pos[c] + 1, f)
    BY <1>7 DEF BreakOff
  <2>2. PICK f \in Cut(buf[c][pos[c] + 1]) : file' = Written(file, pos[c] + 1, f)
    BY <2>1
  <2> DEFINE g == buf[c][pos[c] + 1]
  <2>3. /\ f \in GroupType /\ g \in GroupType /\ g \in Groups(buf[c])
        /\ pos[c] + 1 \in Nat \ {0} /\ f \in Abstract!Remains(g)
    BY <2>1, WrittenTyped, CutIs DEF DBInv, DBTypes, Groups
  <2>4. file' = Append(file, f)
    BY <1>1, <2>2, <2>3, WrittenIs
  <2>5. Committed' = Groups(file) \cup {f}
    BY <1>1, <1>4, <2>3, <2>4, AppendIs
  <2> HIDE DEF g
  <2> QED BY <1>2, <1>5, <2>3, <2>5 DEF Abstract!Next, Abstract!Damage
<1> QED BY <1>6, <1>7

\* As long as at most one process writes, the file behind the database, its
\* locks, its truncations and its writes, whether they are finished or break
\* off, implement a set of groups that changes in single steps.
THEOREM DatabaseImplementsAbstract ==
  ASSUME SingleWriter, AllNames
  PROVE  Spec => ImplementsAbstract
<1>1. Init => DBInv
  BY InvInit
<1>2. DBInv /\ [Next]_vars => DBInv'
  BY InvStep
<1>3. Init => Abstract!Init
  <2>1. ASSUME Init
        PROVE  Committed = {}
    <3>1. file = <<>> /\ \A c \in Client : pc[c] # "store"
      BY <2>1 DEF Init
    <3> QED BY <2>1, <3>1, InvInit, CommittedIs, EmptyGroups
  <2> QED BY <2>1 DEF Abstract!Init
<1>4. DBInv /\ [Next]_vars => [Abstract!Next]_Committed
  BY InvStep, CommittedKept, TruncateImplements, BreakOffImplements
<1> QED BY <1>1, <1>2, <1>3, <1>4, PTL DEF Spec, ImplementsAbstract, Abstract!Spec
=============================================================================
