------------------------ MODULE ProcessMonitorProofs ------------------------
(* Theorems about ProcessMonitor, for every number of entries and every    *)
(* choice of critical, exempt and secure_env entries.                      *)
EXTENDS ProcessMonitor, TLAPS

USE ConstantsAssumption DEF Entry

-----------------------------------------------------------------------------
(* The inductive invariant.                                                *)

\* The lock is held exactly while SuspendResumeImpl talks to secure_env or
\* signals the entries; it talks to secure_env first.
LockInv ==
  /\ (mutex = "socket") <=> (spc \in {"secure", "signal"})
  /\ spc = "secure" => scursor = 1

\* How far the two threads can be apart.
ThreadInv ==
  /\ mpc \in {"unborn", "start"}
       => spc = "unborn" /\ op = "none" /\ monitored = Entry
  /\ spc = "unborn" => mpc \in {"unborn", "start", "exited"}
  /\ mpc = "exited" => spc \in {"unborn", "done", "failed"}
  /\ mpc = "stop" => spc = "done"

\* What has been reaped stays reaped until MonitorLoop handles it, and only
\* reaped processes leave the vector.
ReapInv ==
  /\ \A i \in Entry : i \notin monitored => proc[i] = "reaped"
  /\ mpc \in {"woken", "handle"} /\ reaped # 0 => proc[reaped] = "reaped"
  /\ mpc = "loopFailed" => \A i \in Entry : proc[i] \notin Signallable

\* The stop loop leaves nothing alive behind its cursor, and counts failures.
StopInv ==
  /\ mpc = "stop" => cursor <= N
  /\ mpc = "stop" => \A i \in Entry : i > cursor => proc[i] \notin Signallable
  /\ mpc = "stop" /\ stopFailures = FALSE
       => \A i \in Entry : i > cursor => proc[i] = "reaped"
  /\ \A i \in Entry : proc[i] = "hup" => mpc = "exited"
  /\ mpc = "exited" => \A i \in Entry : proc[i] \notin Alive
  /\ exitCode = 0 => mpc = "exited" /\ \A i \in Entry : proc[i] = "reaped"
  /\ mpc = "exited" /\ spc = "done"
       => \A i \in Entry : proc[i] = "hup"
            => \E j \in Entry : j > i /\ proc[j] = "none"

\* Requests and responses alternate.  A socket thread that failed left the
\* parent waiting for an answer, until the monitor's exit wakes it.
Waiting == {"suspending", "resuming"}

ProtocolInv ==
  /\ ppc = "new" => mpc = "unborn"
  /\ spc = "failed" => \/ ppc \in Waiting
                       \/ mpc = "exited" /\ ppc \in {"idle", "abandoned"}
  /\ ppc = "stopped" => exitCode = 0
  /\ ppc \in {"stopped", "stopFailed", "abandoned"} => mpc = "exited"
  /\ mpc # "exited" =>
       /\ toMonitor = "suspend" => ppc = "suspending"
       /\ toMonitor = "resume" => ppc = "resuming"
       /\ toMonitor \in {"suspend", "resume"}
            => toParent = "none" /\ spc \notin {"lock", "secure", "signal", "failed"}
       /\ spc \in {"lock", "secure", "signal"} \/ toParent = "success"
            => \/ ppc = "suspending" /\ op = "suspend"
               \/ ppc = "resuming" /\ op = "resume"
       /\ toParent = "success" => spc \notin {"lock", "secure", "signal", "failed"}

\* Without restarts, what a suspend froze stays frozen.
FrozenBelow(k) ==
  \A i \in Entry \ (Exempt \cup {SecureEnv}) : i < k => proc[i] # "running"

FreezeInv ==
  ~restart =>
    /\ spc = "signal" /\ op = "suspend" => FrozenBelow(scursor)
    /\ toParent = "success" /\ op = "suspend" => FrozenBelow(N + 1)
    /\ ppc = "idle" /\ suspended = TRUE /\ op = "suspend" => FrozenBelow(N + 1)

IInv == TypeOK /\ LockInv /\ ThreadInv /\ ReapInv /\ StopInv /\ ProtocolInv
          /\ FreezeInv

\* The invariant holds initially.
LEMMA InitIInv == Init => IInv
<1> SUFFICES ASSUME Init PROVE IInv
  OBVIOUS
<1>1. TypeOK
  <2>1. proc \in [Entry -> ProcState] /\ cursor \in 0 .. N + 1
        /\ reaped \in 0 .. N /\ scursor \in 1 .. N + 1 /\ strays \in Nat
    BY DEF Init, ProcState
  <2>2. running \in BOOLEAN /\ stopFailures \in BOOLEAN /\ suspended \in BOOLEAN
    BY DEF Init
  <2> QED
    BY <2>1, <2>2 DEF Init, TypeOK
<1>2. LockInv /\ ThreadInv /\ ReapInv
  BY DEF Init, LockInv, ThreadInv, ReapInv
<1>3. StopInv
  BY DEF Init, StopInv
<1>4. ProtocolInv /\ FreezeInv
  BY DEF Init, ProtocolInv, FreezeInv, Waiting
<1> QED
  BY <1>1, <1>2, <1>3, <1>4 DEF IInv

\* The parent's operations preserve the invariant.
LEMMA ParentNextStep == IInv /\ ParentNext => IInv'
<1> SUFFICES ASSUME IInv, ParentNext PROVE IInv'
  OBVIOUS
<1> USE DEF IInv, TypeOK, ProcState, Alive, Signallable
<1>1. CASE StartAndMonitorProcesses
  <2> USE <1>1 DEF StartAndMonitorProcesses, socketVars
  <2>1. TypeOK'
    OBVIOUS
  <2>2. LockInv' /\ ThreadInv'
    BY DEF LockInv, ThreadInv, ProtocolInv
  <2>3. ReapInv'
    BY DEF ReapInv, ThreadInv
  <2>4. StopInv'
    BY DEF StopInv, ProtocolInv
  <2>5. ProtocolInv'
    BY DEF ProtocolInv, ThreadInv, Waiting
  <2>6. FreezeInv'
    BY DEF FreezeInv, FrozenBelow, ProtocolInv, ThreadInv, ReapInv, StopInv,
     Waiting
  <2> QED
    BY <2>1, <2>2, <2>3, <2>4, <2>5, <2>6
<1>2. CASE SendRequest
  <2> USE <1>2 DEF SendRequest, monitorVars, socketVars
  <2>1. TypeOK'
    OBVIOUS
  <2>2. LockInv' /\ ThreadInv'
    BY DEF LockInv, ThreadInv
  <2>3. ReapInv'
    BY DEF ReapInv, ThreadInv
  <2>4. StopInv'
    BY DEF StopInv, ThreadInv, ReapInv
  <2>5. ProtocolInv'
    BY DEF ProtocolInv, ThreadInv, Waiting
  <2>6. FreezeInv'
    BY DEF FreezeInv, FrozenBelow, ProtocolInv, ThreadInv, ReapInv, StopInv,
     Waiting
  <2> QED
    BY <2>1, <2>2, <2>3, <2>4, <2>5, <2>6
<1>3. CASE ReceiveResponse
  <2> USE <1>3 DEF ReceiveResponse, monitorVars, socketVars
  <2> suspended' \in BOOLEAN
    OBVIOUS
  <2>1. TypeOK'
    OBVIOUS
  <2>2. LockInv' /\ ThreadInv'
    BY DEF LockInv, ThreadInv
  <2>3. ReapInv'
    BY DEF ReapInv, ThreadInv
  <2>4. StopInv'
    BY DEF StopInv, ThreadInv, ReapInv
  <2>5. ProtocolInv'
    BY DEF ProtocolInv, ThreadInv, Waiting
  <2>6. FreezeInv'
    BY DEF FreezeInv, FrozenBelow, ProtocolInv, ThreadInv, ReapInv, StopInv,
     Waiting
  <2> QED
    BY <2>1, <2>2, <2>3, <2>4, <2>5, <2>6
<1>4. CASE ReceiveEof
  <2> USE <1>4 DEF ReceiveEof, monitorVars, socketVars
  <2>1. TypeOK'
    OBVIOUS
  <2>2. LockInv' /\ ThreadInv'
    BY DEF LockInv, ThreadInv
  <2>3. ReapInv'
    BY DEF ReapInv, ThreadInv
  <2>4. StopInv'
    BY DEF StopInv, ThreadInv, ReapInv
  <2>5. ProtocolInv'
    BY DEF ProtocolInv, ThreadInv, Waiting
  <2>6. FreezeInv'
    BY DEF FreezeInv, FrozenBelow, ProtocolInv, ThreadInv, ReapInv, StopInv,
     Waiting
  <2> QED
    BY <2>1, <2>2, <2>3, <2>4, <2>5, <2>6
<1>5. CASE StopMonitoredProcesses
  <2> USE <1>5 DEF StopMonitoredProcesses, monitorVars, socketVars
  <2>1. TypeOK'
    OBVIOUS
  <2>2. LockInv' /\ ThreadInv'
    BY DEF LockInv, ThreadInv
  <2>3. ReapInv'
    BY DEF ReapInv, ThreadInv
  <2>4. StopInv'
    BY DEF StopInv, ThreadInv, ReapInv
  <2>5. ProtocolInv'
    BY DEF ProtocolInv, ThreadInv, Waiting
  <2>6. FreezeInv'
    BY DEF FreezeInv, FrozenBelow, ProtocolInv, ThreadInv, ReapInv, StopInv,
     Waiting
  <2> QED
    BY <2>1, <2>2, <2>3, <2>4, <2>5, <2>6
<1>6. CASE MonitorReaped
  <2> USE <1>6 DEF MonitorReaped, monitorVars, socketVars
  <2>1. TypeOK'
    OBVIOUS
  <2>2. LockInv' /\ ThreadInv'
    BY DEF LockInv, ThreadInv
  <2>3. ReapInv'
    BY DEF ReapInv, ThreadInv
  <2>4. StopInv'
    BY DEF StopInv, ThreadInv, ReapInv
  <2>5. ProtocolInv'
    BY DEF ProtocolInv, ThreadInv, Waiting
  <2>6. FreezeInv'
    BY DEF FreezeInv, FrozenBelow, ProtocolInv, ThreadInv, ReapInv, StopInv,
     Waiting
  <2> QED
    BY <2>1, <2>2, <2>3, <2>4, <2>5, <2>6
<1>7. CASE MonitorDied
  <2> USE <1>7 DEF MonitorDied, monitorVars, socketVars
  <2>1. TypeOK'
    OBVIOUS
  <2>2. LockInv' /\ ThreadInv'
    BY DEF LockInv, ThreadInv
  <2>3. ReapInv'
    BY DEF ReapInv, ThreadInv
  <2>4. StopInv'
    BY DEF StopInv, ThreadInv, ReapInv
  <2>5. ProtocolInv'
    BY DEF ProtocolInv, ThreadInv, Waiting
  <2>6. FreezeInv'
    BY DEF FreezeInv, FrozenBelow, ProtocolInv, ThreadInv, ReapInv, StopInv,
     Waiting
  <2> QED
    BY <2>1, <2>2, <2>3, <2>4, <2>5, <2>6
<1> QED
  BY <1>1, <1>2, <1>3, <1>4, <1>5, <1>6, <1>7 DEF ParentNext

\* The steps of the monitor's main thread preserve the invariant.
LEMMA MainThreadStep == IInv /\ MainThread => IInv'
<1> SUFFICES ASSUME IInv, MainThread PROVE IInv'
  OBVIOUS
<1> USE DEF IInv, TypeOK, ProcState, Alive, Signallable
<1>1. CASE StartSubprocess
  <2> USE <1>1 DEF StartSubprocess, socketVars, parentVars, Exit
  <2>1. TypeOK'
    OBVIOUS
  <2>2. LockInv' /\ ThreadInv'
    BY DEF LockInv, ThreadInv
  <2>3. ReapInv'
    BY DEF ReapInv, ThreadInv
  <2>4. StopInv'
    BY DEF StopInv, ThreadInv, ReapInv
  <2>5. ProtocolInv'
    BY DEF ProtocolInv, ThreadInv, Waiting
  <2>6. FreezeInv'
    BY DEF FreezeInv, FrozenBelow, ProtocolInv, ThreadInv, ReapInv, StopInv,
     Waiting
  <2> QED
    BY <2>1, <2>2, <2>3, <2>4, <2>5, <2>6
<1>2. CASE LaunchSocketThread
  <2> USE <1>2 DEF LaunchSocketThread, parentVars
  <2>1. TypeOK'
    OBVIOUS
  <2>2. LockInv' /\ ThreadInv'
    BY DEF LockInv, ThreadInv
  <2>3. ReapInv'
    BY DEF ReapInv, ThreadInv
  <2>4. StopInv'
    BY DEF StopInv, ThreadInv, ReapInv
  <2>5. ProtocolInv'
    BY DEF ProtocolInv, ThreadInv, Waiting
  <2>6. FreezeInv'
    BY DEF FreezeInv, FrozenBelow, ProtocolInv, ThreadInv, ReapInv, StopInv,
     Waiting
  <2> QED
    BY <2>1, <2>2, <2>3, <2>4, <2>5, <2>6
<1>3. CASE MonitorLoopCheck
  <2> USE <1>3 DEF MonitorLoopCheck, socketVars, parentVars
  <2>1. TypeOK'
    OBVIOUS
  <2>2. LockInv' /\ ThreadInv'
    BY DEF LockInv, ThreadInv
  <2>3. ReapInv'
    BY DEF ReapInv, ThreadInv
  <2>4. StopInv'
    BY DEF StopInv, ThreadInv, ReapInv
  <2>5. ProtocolInv'
    BY DEF ProtocolInv, ThreadInv, Waiting
  <2>6. FreezeInv'
    BY DEF FreezeInv, FrozenBelow, ProtocolInv, ThreadInv, ReapInv, StopInv,
     Waiting
  <2> QED
    BY <2>1, <2>2, <2>3, <2>4, <2>5, <2>6
<1>4. ASSUME NEW i \in Entry, WaitEntry(i) PROVE IInv'
  <2> USE <1>4 DEF WaitEntry, socketVars, parentVars
  <2>1. TypeOK'
    OBVIOUS
  <2>2. LockInv' /\ ThreadInv'
    BY DEF LockInv, ThreadInv
  <2>3. ReapInv'
    BY DEF ReapInv, ThreadInv
  <2>4. StopInv'
    BY DEF StopInv, ThreadInv, ReapInv
  <2>5. ProtocolInv'
    BY DEF ProtocolInv, ThreadInv, Waiting
  <2>6. FreezeInv'
    BY DEF FreezeInv, FrozenBelow, ProtocolInv, ThreadInv, ReapInv, StopInv,
     Waiting
  <2> QED
    BY <2>1, <2>2, <2>3, <2>4, <2>5, <2>6
<1>5. CASE WaitStray
  <2> USE <1>5 DEF WaitStray, socketVars, parentVars
  <2>1. TypeOK'
    OBVIOUS
  <2>2. LockInv' /\ ThreadInv'
    BY DEF LockInv, ThreadInv
  <2>3. ReapInv'
    BY DEF ReapInv, ThreadInv
  <2>4. StopInv'
    BY DEF StopInv, ThreadInv, ReapInv
  <2>5. ProtocolInv'
    BY DEF ProtocolInv, ThreadInv, Waiting
  <2>6. FreezeInv'
    BY DEF FreezeInv, FrozenBelow, ProtocolInv, ThreadInv, ReapInv, StopInv,
     Waiting
  <2> QED
    BY <2>1, <2>2, <2>3, <2>4, <2>5, <2>6
<1>6. CASE WaitFails
  <2> USE <1>6 DEF WaitFails, socketVars, parentVars
  <2>1. TypeOK'
    OBVIOUS
  <2>2. LockInv' /\ ThreadInv'
    BY DEF LockInv, ThreadInv
  <2>3. ReapInv'
    BY DEF ReapInv, ThreadInv
  <2>4. StopInv'
    BY DEF StopInv, ThreadInv, ReapInv
  <2>5. ProtocolInv'
    BY DEF ProtocolInv, ThreadInv, Waiting
  <2>6. FreezeInv'
    BY DEF FreezeInv, FrozenBelow, ProtocolInv, ThreadInv, ReapInv, StopInv,
     Waiting
  <2> QED
    BY <2>1, <2>2, <2>3, <2>4, <2>5, <2>6
<1>7. CASE RecheckRunning
  <2> USE <1>7 DEF RecheckRunning, socketVars, parentVars
  <2>1. TypeOK'
    OBVIOUS
  <2>2. LockInv' /\ ThreadInv'
    BY DEF LockInv, ThreadInv
  <2>3. ReapInv'
    BY DEF ReapInv, ThreadInv
  <2>4. StopInv'
    BY DEF StopInv, ThreadInv, ReapInv
  <2>5. ProtocolInv'
    BY DEF ProtocolInv, ThreadInv, Waiting
  <2>6. FreezeInv'
    BY DEF FreezeInv, FrozenBelow, ProtocolInv, ThreadInv, ReapInv, StopInv,
     Waiting
  <2> QED
    BY <2>1, <2>2, <2>3, <2>4, <2>5, <2>6
<1>8. CASE HandleExit
  <2> USE <1>8 DEF HandleExit, socketVars, parentVars
  <2>a. proc' \in [Entry -> ProcState] /\ monitored' \subseteq Entry
    OBVIOUS
  <2>b. running' \in BOOLEAN
    OBVIOUS
  <2>c. mpc' \in {"check", "join"}
    OBVIOUS
  <2>1. TypeOK'
    BY <2>a, <2>b, <2>c
  <2>2. LockInv' /\ ThreadInv'
    BY DEF LockInv, ThreadInv
  <2>3. ReapInv'
    BY DEF ReapInv, ThreadInv
  <2>4. StopInv'
    BY DEF StopInv, ThreadInv, ReapInv
  <2>5. ProtocolInv'
    BY DEF ProtocolInv, ThreadInv, Waiting
  <2>6. FreezeInv'
    BY DEF FreezeInv, FrozenBelow, ProtocolInv, ThreadInv, ReapInv, StopInv,
     Waiting
  <2> QED
    BY <2>1, <2>2, <2>3, <2>4, <2>5, <2>6
<1>9. CASE JoinSocketThread
  <2> USE <1>9 DEF JoinSocketThread, socketVars, parentVars, Exit
  <2>1. TypeOK'
    OBVIOUS
  <2>2. LockInv' /\ ThreadInv'
    BY DEF LockInv, ThreadInv
  <2>3. ReapInv'
    BY DEF ReapInv, ThreadInv
  <2>4. StopInv'
    BY DEF StopInv, ThreadInv, ReapInv
  <2>5. ProtocolInv'
    BY DEF ProtocolInv, ThreadInv, Waiting
  <2>6. FreezeInv'
    BY DEF FreezeInv, FrozenBelow, ProtocolInv, ThreadInv, ReapInv, StopInv,
     Waiting
  <2> QED
    BY <2>1, <2>2, <2>3, <2>4, <2>5, <2>6
<1>10. CASE ExitAfterLoopFailure
  <2> USE <1>10 DEF ExitAfterLoopFailure, socketVars, parentVars, Exit
  <2>1. TypeOK'
    OBVIOUS
  <2>2. LockInv' /\ ThreadInv'
    BY DEF LockInv, ThreadInv
  <2>3. ReapInv'
    BY DEF ReapInv, ThreadInv
  <2>4. StopInv'
    BY DEF StopInv, ThreadInv, ReapInv
  <2>5. ProtocolInv'
    BY DEF ProtocolInv, ThreadInv, Waiting
  <2>6. FreezeInv'
    BY DEF FreezeInv, FrozenBelow, ProtocolInv, ThreadInv, ReapInv, StopInv,
     Waiting
  <2> QED
    BY <2>1, <2>2, <2>3, <2>4, <2>5, <2>6
<1>11. CASE StopSubprocess
  <2> USE <1>11 DEF StopSubprocess, socketVars, parentVars
  <2>a. proc' \in [Entry -> ProcState]
    OBVIOUS
  <2>b. stopFailures' \in BOOLEAN
    OBVIOUS
  <2>c. cursor' \in 0 .. N + 1
    OBVIOUS
  <2>1. TypeOK'
    BY <2>a, <2>b, <2>c
  <2>2. LockInv' /\ ThreadInv'
    BY DEF LockInv, ThreadInv
  <2>3. ReapInv'
    BY DEF ReapInv, ThreadInv
  <2>4. StopInv'
    BY DEF StopInv, ThreadInv, ReapInv
  <2>5. ProtocolInv'
    BY DEF ProtocolInv, ThreadInv, Waiting
  <2>6. FreezeInv'
    BY DEF FreezeInv, FrozenBelow, ProtocolInv, ThreadInv, ReapInv, StopInv,
     Waiting
  <2> QED
    BY <2>1, <2>2, <2>3, <2>4, <2>5, <2>6
<1>12. CASE ExitAfterStop
  <2> USE <1>12 DEF ExitAfterStop, socketVars, parentVars, Exit
  <2>1. TypeOK'
    OBVIOUS
  <2>2. LockInv' /\ ThreadInv'
    BY DEF LockInv, ThreadInv
  <2>3. ReapInv'
    BY DEF ReapInv, ThreadInv
  <2>4. StopInv'
    BY DEF StopInv, ThreadInv, ReapInv
  <2>5. ProtocolInv'
    BY DEF ProtocolInv, ThreadInv, Waiting
  <2>6. FreezeInv'
    BY DEF FreezeInv, FrozenBelow, ProtocolInv, ThreadInv, ReapInv, StopInv,
     Waiting
  <2> QED
    BY <2>1, <2>2, <2>3, <2>4, <2>5, <2>6
<1>13. CASE StopAborts
  <2> USE <1>13 DEF StopAborts, socketVars, parentVars, Exit
  <2>1. TypeOK'
    OBVIOUS
  <2>2. LockInv' /\ ThreadInv'
    BY DEF LockInv, ThreadInv
  <2>3. ReapInv'
    BY DEF ReapInv, ThreadInv
  <2>4. StopInv'
    <3>1. cursor \in Entry /\ proc'[cursor] = "none"
      OBVIOUS
    <3>2. ASSUME NEW i \in Entry, proc'[i] = "hup" PROVE i < cursor
      BY <3>2 DEF StopInv
    <3> QED
      BY <3>1, <3>2 DEF StopInv, ThreadInv, ReapInv
  <2>5. ProtocolInv'
    BY DEF ProtocolInv, ThreadInv, Waiting
  <2>6. FreezeInv'
    BY DEF FreezeInv, FrozenBelow, ProtocolInv, ThreadInv, ReapInv, StopInv,
     Waiting
  <2> QED
    BY <2>1, <2>2, <2>3, <2>4, <2>5, <2>6
<1> QED
  BY <1>1, <1>2, <1>3, <1>4, <1>5, <1>6, <1>7, <1>8, <1>9, <1>10, <1>11, <1>12,
     <1>13 DEF MainThread

\* The steps of the socket thread preserve the invariant.
LEMMA SocketThreadStep == IInv /\ SocketThread => IInv'
<1> SUFFICES ASSUME IInv, SocketThread PROVE IInv'
  OBVIOUS
<1> USE DEF IInv, TypeOK, ProcState, Alive, Signallable
<1>1. CASE SocketLoopCheck
  <2> USE <1>1 DEF SocketLoopCheck, monitorVars, parentVars
  <2>1. TypeOK'
    OBVIOUS
  <2>2. LockInv' /\ ThreadInv'
    BY DEF LockInv, ThreadInv
  <2>3. ReapInv'
    BY DEF ReapInv, ThreadInv
  <2>4. StopInv'
    BY DEF StopInv, ThreadInv, ReapInv
  <2>5. ProtocolInv'
    BY DEF ProtocolInv, ThreadInv, Waiting
  <2>6. FreezeInv'
    BY DEF FreezeInv, FrozenBelow, ProtocolInv, ThreadInv, ReapInv, StopInv,
     Waiting
  <2> QED
    BY <2>1, <2>2, <2>3, <2>4, <2>5, <2>6
<1>2. CASE ReceiveMessage
  <2> USE <1>2 DEF ReceiveMessage, monitorVars
  <2>a. running' \in BOOLEAN
    OBVIOUS
  <2>b. spc' \in {"wake", "lock"} /\ op' \in {"none", "suspend", "resume"}
    OBVIOUS
  <2>1. TypeOK'
    BY <2>a, <2>b
  <2>2. LockInv' /\ ThreadInv'
    BY DEF LockInv, ThreadInv
  <2>3. ReapInv'
    BY DEF ReapInv, ThreadInv
  <2>4. StopInv'
    BY DEF StopInv, ThreadInv, ReapInv
  <2>5. ProtocolInv'
    BY DEF ProtocolInv, ThreadInv, Waiting
  <2>6. FreezeInv'
    BY DEF FreezeInv, FrozenBelow, ProtocolInv, ThreadInv, ReapInv, StopInv,
     Waiting
  <2> QED
    BY <2>1, <2>2, <2>3, <2>4, <2>5, <2>6
<1>3. CASE ForkWakeUpChild
  <2> USE <1>3 DEF ForkWakeUpChild, monitorVars, parentVars
  <2>1. TypeOK'
    OBVIOUS
  <2>2. LockInv' /\ ThreadInv'
    BY DEF LockInv, ThreadInv
  <2>3. ReapInv'
    BY DEF ReapInv, ThreadInv
  <2>4. StopInv'
    BY DEF StopInv, ThreadInv, ReapInv
  <2>5. ProtocolInv'
    BY DEF ProtocolInv, ThreadInv, Waiting
  <2>6. FreezeInv'
    BY DEF FreezeInv, FrozenBelow, ProtocolInv, ThreadInv, ReapInv, StopInv,
     Waiting
  <2> QED
    BY <2>1, <2>2, <2>3, <2>4, <2>5, <2>6
<1>4. CASE LockEntries
  <2> USE <1>4 DEF LockEntries, monitorVars, parentVars
  <2>1. TypeOK'
    OBVIOUS
  <2>2. LockInv' /\ ThreadInv'
    BY DEF LockInv, ThreadInv
  <2>3. ReapInv'
    BY DEF ReapInv, ThreadInv
  <2>4. StopInv'
    BY DEF StopInv, ThreadInv, ReapInv
  <2>5. ProtocolInv'
    BY DEF ProtocolInv, ThreadInv, Waiting
  <2>6. FreezeInv'
    BY DEF FreezeInv, FrozenBelow, ProtocolInv, ThreadInv, ReapInv, StopInv,
     Waiting
  <2> QED
    BY <2>1, <2>2, <2>3, <2>4, <2>5, <2>6
<1>5. CASE ReadSecureEnvResponse
  <2> USE <1>5 DEF ReadSecureEnvResponse, monitorVars, parentVars
  <2>1. TypeOK'
    OBVIOUS
  <2>2. LockInv' /\ ThreadInv'
    BY DEF LockInv, ThreadInv
  <2>3. ReapInv'
    BY DEF ReapInv, ThreadInv
  <2>4. StopInv'
    BY DEF StopInv, ThreadInv, ReapInv
  <2>5. ProtocolInv'
    BY DEF ProtocolInv, ThreadInv, Waiting
  <2>6. FreezeInv'
    BY DEF FreezeInv, FrozenBelow, LockInv
  <2> QED
    BY <2>1, <2>2, <2>3, <2>4, <2>5, <2>6
<1>6. CASE SignalEntry
  <2> USE <1>6 DEF SignalEntry, monitorVars, parentVars, SignalEffect, Signalled
  <2>c. proc' \in [Entry -> ProcState]
    OBVIOUS
  <2>d. scursor' \in 1 .. N + 1
    OBVIOUS
  <2>e. spc' \in {"signal", "failed"} /\ mutex' \in {"free", "socket"}
    OBVIOUS
  <2>1. TypeOK'
    BY <2>c, <2>d, <2>e
  <2>2. LockInv' /\ ThreadInv'
    BY DEF LockInv, ThreadInv
  <2>3. ReapInv'
    BY DEF ReapInv, ThreadInv
  <2>4. StopInv'
    BY DEF StopInv, ThreadInv, ReapInv
  <2>5. ProtocolInv'
    BY DEF ProtocolInv, ThreadInv, Waiting
  <2>a. ASSUME spc' = "signal", op = "suspend", ~restart
        PROVE  FrozenBelow(scursor)'
    <3> SUFFICES ASSUME NEW j \in Entry \ (Exempt \cup {SecureEnv}),
                        j < scursor'
                 PROVE  proc'[j] # "running"
      BY DEF FrozenBelow
    <3>1. CASE j = scursor
      BY <2>a, <3>1 DEF ReapInv
    <3>2. CASE j # scursor
      <4>1. j < scursor
        BY <3>2
      <4>2. proc[j] # "running"
        BY <2>a, <4>1 DEF FreezeInv, FrozenBelow
      <4>3. proc'[j] = proc[j]
        BY <3>2
      <4> QED
        BY <4>2, <4>3
    <3> QED
      BY <3>1, <3>2
  <2>b. toParent # "success" /\ ppc # "idle"
    BY DEF ProtocolInv, ThreadInv
  <2>6. FreezeInv'
    BY <2>a, <2>b DEF FreezeInv
  <2> QED
    BY <2>1, <2>2, <2>3, <2>4, <2>5, <2>6
<1>7. CASE SendSuccess
  <2> USE <1>7 DEF SendSuccess, monitorVars
  <2>1. TypeOK'
    OBVIOUS
  <2>2. LockInv' /\ ThreadInv'
    BY DEF LockInv, ThreadInv
  <2>3. ReapInv'
    BY DEF ReapInv, ThreadInv
  <2>4. StopInv'
    BY DEF StopInv, ThreadInv, ReapInv
  <2>5. ProtocolInv'
    BY DEF ProtocolInv, ThreadInv, Waiting
  <2>6. FreezeInv'
    BY DEF FreezeInv, FrozenBelow, ProtocolInv, ThreadInv, ReapInv, StopInv,
     Waiting
  <2> QED
    BY <2>1, <2>2, <2>3, <2>4, <2>5, <2>6
<1> QED
  BY <1>1, <1>2, <1>3, <1>4, <1>5, <1>6, <1>7 DEF SocketThread

\* Exits of subprocesses and answers of secure_env preserve the invariant.
LEMMA EnvironmentStep == IInv /\ Environment => IInv'
<1> SUFFICES ASSUME IInv, Environment PROVE IInv'
  OBVIOUS
<1> USE DEF IInv, TypeOK, ProcState, Alive, Signallable
<1>1. ASSUME NEW i \in Entry, SubprocessExit(i) PROVE IInv'
  <2> USE <1>1 DEF SubprocessExit, monitorVars, socketVars, parentVars
  <2>1. TypeOK'
    OBVIOUS
  <2>2. LockInv' /\ ThreadInv'
    BY DEF LockInv, ThreadInv
  <2>3. ReapInv'
    BY DEF ReapInv, ThreadInv
  <2>4. StopInv'
    BY DEF StopInv, ThreadInv, ReapInv
  <2>5. ProtocolInv'
    BY DEF ProtocolInv, ThreadInv, Waiting
  <2>6. FreezeInv'
    BY DEF FreezeInv, FrozenBelow, ProtocolInv, ThreadInv, ReapInv, StopInv,
     Waiting
  <2> QED
    BY <2>1, <2>2, <2>3, <2>4, <2>5, <2>6
<1>2. CASE OrphanExit
  <2> USE <1>2 DEF OrphanExit, monitorVars, socketVars, parentVars
  <2>1. TypeOK'
    OBVIOUS
  <2>2. LockInv' /\ ThreadInv'
    BY DEF LockInv, ThreadInv
  <2>3. ReapInv'
    BY DEF ReapInv, ThreadInv
  <2>4. StopInv'
    BY DEF StopInv, ThreadInv, ReapInv
  <2>5. ProtocolInv'
    BY DEF ProtocolInv, ThreadInv, Waiting
  <2>6. FreezeInv'
    BY DEF FreezeInv, FrozenBelow, ProtocolInv, ThreadInv, ReapInv, StopInv,
     Waiting
  <2> QED
    BY <2>1, <2>2, <2>3, <2>4, <2>5, <2>6
<1>3. CASE SecureEnvAnswer
  <2> USE <1>3 DEF SecureEnvAnswer, monitorVars, parentVars
  <2>1. TypeOK'
    OBVIOUS
  <2>2. LockInv' /\ ThreadInv'
    BY DEF LockInv, ThreadInv
  <2>3. ReapInv'
    BY DEF ReapInv, ThreadInv
  <2>4. StopInv'
    BY DEF StopInv, ThreadInv, ReapInv
  <2>5. ProtocolInv'
    BY DEF ProtocolInv, ThreadInv, Waiting
  <2>6. FreezeInv'
    BY DEF FreezeInv, FrozenBelow, ProtocolInv, ThreadInv, ReapInv, StopInv,
     Waiting
  <2> QED
    BY <2>1, <2>2, <2>3, <2>4, <2>5, <2>6
<1> QED
  BY <1>1, <1>2, <1>3 DEF Environment

\* Every step preserves the invariant.
LEMMA Inductive == IInv /\ [Next]_vars => IInv'
<1> SUFFICES ASSUME IInv, [Next]_vars PROVE IInv'
  OBVIOUS
<1>1. CASE UNCHANGED vars
  BY <1>1 DEF vars, monitorVars, socketVars, parentVars, IInv, TypeOK, LockInv,
     ThreadInv, ReapInv, StopInv, ProtocolInv, FreezeInv, FrozenBelow
<1> QED
  BY <1>1, ParentNextStep, MainThreadStep, SocketThreadStep, EnvironmentStep
     DEF Next

\* The invariant holds in every behaviour of the monitor.
THEOREM Invariance == Spec => []IInv
  BY InitIInv, Inductive, PTL DEF Spec

\* Type correctness.
THEOREM TypeCorrect == Spec => []TypeOK
<1>1. IInv => TypeOK
  BY DEF IInv
<1> QED
  BY <1>1, Invariance, PTL

\* A stop reported as successful has stopped and waited for every subprocess.
THEOREM StopReaps == Spec => []StoppedMeansReaped
<1>1. IInv => StoppedMeansReaped
  BY DEF IInv, ProtocolInv, StopInv, StoppedMeansReaped
<1> QED
  BY <1>1, Invariance, PTL

\* A stop leaves a subprocess to the death signal of the kernel only when it
\* meets an entry, started later, whose restart failed.
THEOREM StopOrderly == Spec => []OrderlyStop
<1>1. IInv => OrderlyStop
  BY DEF IInv, TypeOK, ProtocolInv, StopInv, ThreadInv, OrderlyStop, Waiting
<1> QED
  BY <1>1, Invariance, PTL

\* StopSubprocesses works in the reverse of the start order.
THEOREM StopReversed == Spec => []StopInReverse
<1>1. IInv => StopInReverse
  BY DEF IInv, StopInv, StopInReverse, Signallable
<1> QED
  BY <1>1, Invariance, PTL

\* Unless subprocesses are restarted, a suspend reported as done keeps every
\* process it must freeze from running until the next request.
THEOREM SuspendCorrect == Spec => []SuspendFreezesHost
<1>1. IInv => SuspendFreezesHost
  BY DEF IInv, FreezeInv, FrozenBelow, SuspendFreezesHost
<1> QED
  BY <1>1, Invariance, PTL

\* No entry is erased or given a new process under SuspendResumeImpl's lock.
THEOREM LockCorrect == Spec => EntriesStableWhileLocked
<1> DEFINE A == mutex = "socket" =>
       /\ monitored' = monitored
       /\ \A i \in Entry : proc[i] \in {"reaped", "none"} => proc'[i] = proc[i]
<1>1. IInv /\ [Next]_vars => [A]_vars
  <2> SUFFICES ASSUME IInv, Next, mutex = "socket"
               PROVE  /\ monitored' = monitored
                      /\ \A i \in Entry : proc[i] \in {"reaped", "none"}
                                            => proc'[i] = proc[i]
    OBVIOUS
  <2> USE DEF IInv, TypeOK, ProcState, Alive, Signallable, LockInv, ThreadInv
  <2>1. CASE ParentNext
    BY <2>1 DEF ParentNext, StartAndMonitorProcesses, SendRequest,
       ReceiveResponse, ReceiveEof, StopMonitoredProcesses, MonitorReaped,
       MonitorDied
  <2>2. CASE MainThread
    BY <2>2 DEF MainThread, StartSubprocess, LaunchSocketThread,
       MonitorLoopCheck, WaitEntry, WaitStray, WaitFails, RecheckRunning,
       HandleExit, JoinSocketThread, ExitAfterLoopFailure, StopSubprocess,
       StopAborts, ExitAfterStop, Exit
  <2>3. CASE SocketThread
    BY <2>3 DEF SocketThread, SocketLoopCheck, ReceiveMessage,
       ForkWakeUpChild, LockEntries, ReadSecureEnvResponse, SignalEntry,
       SignalEffect, SendSuccess
  <2>4. CASE Environment
    BY <2>4 DEF Environment, SubprocessExit, OrphanExit, SecureEnvAnswer
  <2> QED
    BY <2>1, <2>2, <2>3, <2>4 DEF Next
<1> QED
  BY <1>1, Invariance, PTL DEF Spec, EntriesStableWhileLocked
=============================================================================
