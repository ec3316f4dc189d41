-------------------------- MODULE MCInstanceManager -------------------------
(* Instances of InstanceManager for TLC. *)
EXTENDS InstanceManager, TLC

CONSTANTS p1, p2
TwoProcs    == {p1, p2}
Symmetry    == Permutations(TwoProcs)
AllRequests == {<<AnyId>>, <<1, 2>>, <<2, 1>>, <<2, 2>>}
OneAny      == {<<AnyId>>}
AllCommands == {"create", "start", "stop", "remove", "clear", "reset"}
StartRemove == {"create", "start", "remove"}
AllFaults   == {"kill", "interrupt", "stop", "unlink"}

\* The states after the create, and the start, of one instance: from there the
\* same number of commands reaches further.
InitOneGroup(state) ==
  LET g == [name |-> 1, home |-> 1, ids |-> {1}, state |-> state]
  IN  /\ groups = {g} /\ stray = {} /\ left = {}
      /\ device = {DeviceOf(h) : h \in {h \in {g} : IsActive(h)}} /\ dirs = {1} /\ made = 1
      /\ link = [i \in Id |-> IF i = 1 THEN 1 ELSE NoInode] /\ inUse = {1}
      /\ cmd = [p \in Procs |-> "none"] /\ pc = [p \in Procs |-> "idle"]
      /\ sig = [p \in Procs |-> "none"] /\ events = 0
      /\ data = [p \in Procs |-> {}] /\ cancel = [p \in Procs |-> {}]
      /\ todo = [p \in Procs |-> <<>>] /\ trying = [p \in Procs |-> NoLock]
      /\ locks = [p \in Procs |-> {}] /\ copy = [p \in Procs |-> NoGroup]
      /\ rest = [p \in Procs |-> {}] /\ pending = [p \in Procs |-> {}]

MCInit == Init \/ InitOneGroup("STOPPED") \/ InitOneGroup("RUNNING")
MCSpec == MCInit /\ [][Next]_vars
=============================================================================
