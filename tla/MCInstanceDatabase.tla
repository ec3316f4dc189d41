------------------------- MODULE MCInstanceDatabase -------------------------
(* Instances of InstanceDatabase for TLC.                                  *)
EXTENDS InstanceDatabase

CONSTANTS w1, w2, r1

OneWriter  == {w1}
TwoWriters == {w1, w2}
OneReader  == {r1}
Nobody     == {}

Group(n, h, ids) == [name |-> n, home |-> h, ids |-> ids, state |-> "stopped"]

\* An unnamed group, one that may have taken the name generated for it, and
\* one that shares an instance id with that.
ThreeGroups == {Group(0, "h1", {1}), Group(1, "h2", {2}), Group(2, "h3", {2})}
TwoGroups   == {Group(0, "h1", {1}), Group(0, "h2", {2})}

ThreeNames == 1 .. 3

OffOn == {"stopped", "running"}
=============================================================================
