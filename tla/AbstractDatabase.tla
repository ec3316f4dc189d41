-------------------------- MODULE AbstractDatabase --------------------------
(***************************************************************************)
(* What the instance database of cvd promises its callers                  *)
(* (host/commands/cvd/instances/instance_database.h): a set of groups that *)
(* every operation reads and changes in one step.  Module InstanceDatabase *)
(* models the file behind it and implements this one as long as only one   *)
(* process writes.                                                         *)
(***************************************************************************)
EXTENDS Integers, FiniteSets

CONSTANT Group    \* the groups there can be: records with name, home and ids

VARIABLE groups   \* those in the database

Names == {g.name : g \in groups}

Conflicts(g) ==
  \E h \in groups : h.name = g.name \/ h.home = g.home \/ h.ids \cap g.ids # {}

Init == groups = {}

AddInstanceGroup(g) == ~Conflicts(g) /\ groups' = groups \cup {g}

\* Only a group that exists is updated, and only its state is meant to change.
UpdateInstanceGroup(g) ==
  /\ g.name \in Names
  /\ groups' = {h \in groups : h.name # g.name} \cup {g}

RemoveInstanceGroup(name) == groups' = {h \in groups : h.name # name}

Clear == groups' = {}

\* What can be left of a group: fewer fields, fewer instances.
Remains(g) ==
  [name : {0, g.name}, home : {"none", g.home}, ids : SUBSET g.ids, state : {"none", g.state}]

\* A write that breaks off: some of the groups are left, and a part of one.
Damage ==
  \E kept \in SUBSET groups :
     \/ groups' = kept
     \/ \E g \in groups : \E r \in Remains(g) : groups' = kept \cup {r}

Next ==
  \/ \E g \in groups' : g \in Group /\ (AddInstanceGroup(g) \/ UpdateInstanceGroup(g))
  \/ \E n \in Names : RemoveInstanceGroup(n)
  \/ Clear
  \/ Damage

Spec == Init /\ [][Next]_groups
=============================================================================
