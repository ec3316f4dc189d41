--------------------------- MODULE ProcessMonitor ---------------------------
(***************************************************************************)
(* The process monitor of run_cvd                                          *)
(* (host/libs/process_monitor/process_monitor.{cc,h}).                     *)
(*                                                                         *)
(* run_cvd (here "the parent") forks a monitor process.  The monitor       *)
(* starts the host subprocesses of one virtual device and then runs two    *)
(* threads: the main thread, which waits for exits (MonitorLoop), and the  *)
(* socket thread, which serves the parent's requests                       *)
(* (ReadMonitorSocketLoop).  The threads share `running`, the vector of    *)
(* entries and properties_mutex_.                                          *)
(*                                                                         *)
(* Subprocesses are named by their position in entries_, so that start     *)
(* order is < and stop order is >.  An entry whose process was reaped by   *)
(* wait() but not yet handled by MonitorLoop still is in the vector.       *)
(***************************************************************************)
EXTENDS Integers

CONSTANTS
  N,                    \* how many commands were added with AddCommand
  Critical,             \* entries added with is_critical (the VMM)
  Exempt,               \* log_tee, wmediumd, cf_vhost_user_*: never signalled
  SecureEnv,            \* the secure_env entry, 0 if there is none
  Conversing,           \* entries whose nice stopper awaits the process' answer
  StartMayFail,         \* whether Command::Start can return pid -1
  MaxStrays             \* bound: exited children that belong to no entry

Entry == 1 .. N

ASSUME ConstantsAssumption ==
  /\ N \in Nat \ {0}
  /\ Critical \subseteq Entry
  /\ Exempt \subseteq Entry
  /\ SecureEnv \in 0 .. N
  /\ Conversing \subseteq Entry
  /\ StartMayFail \in BOOLEAN
  /\ MaxStrays \in Nat

VARIABLES
  restart,      \* Properties::RestartSubprocesses, set before the monitor starts
  proc,         \* proc[i]: the OS process of entry i
  monitored,    \* the entries still in properties_.entries_
  running,      \* the std::atomic_bool shared by both threads
  mutex,        \* properties_mutex_: "free", or "socket" (held by that thread)
  mpc,          \* where the monitor's main thread is
  cursor,       \* the entry StartSubprocesses or StopSubprocesses is at
  reaped,       \* the entry wait() returned, 0 for a pid of no entry
  stopFailures, \* StopSubprocesses could not stop or wait for some entry
  exitCode,     \* of the monitor process, -1 while it runs
  spc,          \* where the socket thread is
  op,           \* the request SuspendResumeImpl executes
  scursor,      \* the entry its signalling loop is at
  secureEnv,    \* channel_to_secure_env_: "quiet", "asked" or "answered"
  strays,       \* zombies that are no entry: the wake-up child and orphans
  ppc,          \* where the parent is in the ProcessMonitor API
  toMonitor,    \* the request in the socket pair, "none" if there is none
  toParent,     \* the response in the socket pair
  suspended     \* ServerLoopImpl::device_status_ is kSuspended

monitorVars == <<mpc, cursor, reaped, stopFailures, exitCode>>
socketVars  == <<spc, op, scursor, secureEnv>>
parentVars  == <<ppc, toMonitor, toParent, suspended>>
vars == <<restart, proc, monitored, running, mutex, strays,
          monitorVars, socketVars, parentVars>>

\* "running" and "frozen" (by SIGTSTP) processes exist; a "zombie" has exited
\* and not been waited for; "reaped" has; "none" is a Subprocess of pid -1;
\* "hup" was still alive when the monitor exited and got its death signal.
ProcState == {"none", "running", "frozen", "zombie", "reaped", "hup"}
Alive     == {"running", "frozen"}
\* kill() and killpg() find these
Signallable == Alive \cup {"zombie"}

TypeOK ==
  /\ restart \in BOOLEAN
  /\ proc \in [Entry -> ProcState]
  /\ monitored \subseteq Entry
  /\ running \in BOOLEAN
  /\ mutex \in {"free", "socket"}
  /\ mpc \in {"unborn", "start", "check", "wait", "woken", "handle", "join",
              "loopFailed", "stop", "exited"}
  /\ cursor \in 0 .. N + 1
  /\ reaped \in 0 .. N
  /\ stopFailures \in BOOLEAN
  /\ exitCode \in {-1, 0, 1}
  /\ spc \in {"unborn", "check", "recv", "wake", "lock", "secure", "signal",
              "done", "failed"}
  /\ op \in {"none", "suspend", "resume"}
  /\ scursor \in 1 .. N + 1
  /\ secureEnv \in {"quiet", "asked", "answered"}
  /\ strays \in Nat
  /\ ppc \in {"new", "idle", "suspending", "resuming", "stopping",
              "stopped", "stopFailed", "abandoned"}
  /\ toMonitor \in {"none", "stop", "suspend", "resume"}
  /\ toParent \in {"none", "success"}
  /\ suspended \in BOOLEAN

Init ==
  /\ restart \in BOOLEAN
  /\ proc = [i \in Entry |-> "none"]
  /\ monitored = Entry
  /\ running = TRUE
  /\ mutex = "free"
  /\ mpc = "unborn" /\ cursor = 1 /\ reaped = 0
  /\ stopFailures = FALSE /\ exitCode = -1
  /\ spc = "unborn" /\ op = "none" /\ scursor = 1 /\ secureEnv = "quiet"
  /\ strays = 0
  /\ ppc = "new" /\ toMonitor = "none" /\ toParent = "none"
  /\ suspended = FALSE

-----------------------------------------------------------------------------
(* The parent: the public operations of ProcessMonitor, called by          *)
(* ServerLoopImpl one at a time.                                           *)

\* Fork the monitor; the two ends of the socket pair are its channel.
StartAndMonitorProcesses ==
  /\ ppc = "new"
  /\ ppc' = "idle"
  /\ mpc' = "start"
  /\ UNCHANGED <<restart, proc, monitored, running, mutex, strays, cursor,
                 reaped, stopFailures, exitCode, socketVars, toMonitor,
                 toParent, suspended>>

\* The first half of Suspend/Resume: ServerLoopImpl asks for a suspend only
\* while the device is active, for a resume only while it is suspended.
SendRequest ==
  /\ ppc = "idle" /\ mpc # "exited"
  /\ IF suspended
       THEN ppc' = "resuming"  /\ toMonitor' = "resume"
       ELSE ppc' = "suspending" /\ toMonitor' = "suspend"
  /\ UNCHANGED <<restart, proc, monitored, running, mutex, strays,
                 monitorVars, socketVars, toParent, suspended>>

\* The second half: ReceiveMessage returns the response.  A suspend ends with
\* the host processes, so the device is suspended; a resume begins with them
\* and the guest, resumed next, may fail and leave the device suspended.
ReceiveResponse ==
  /\ ppc \in {"suspending", "resuming"}
  /\ toParent = "success"
  /\ toParent' = "none"
  /\ ppc' = "idle"
  /\ IF ppc = "suspending" THEN suspended' = TRUE ELSE suspended' \in BOOLEAN
  /\ UNCHANGED <<restart, proc, monitored, running, mutex, strays,
                 monitorVars, socketVars, toMonitor>>

\* ReceiveMessage reads end-of-file: the monitor is gone.
ReceiveEof ==
  /\ ppc \in {"suspending", "resuming"}
  /\ toParent = "none" /\ mpc = "exited"
  /\ ppc' = "idle"
  /\ UNCHANGED <<restart, proc, monitored, running, mutex, strays,
                 monitorVars, socketVars, toMonitor, toParent, suspended>>

StopMonitoredProcesses ==
  /\ ppc = "idle" /\ mpc # "exited"
  /\ toMonitor' = "stop"
  /\ ppc' = "stopping"
  /\ UNCHANGED <<restart, proc, monitored, running, mutex, strays,
                 monitorVars, socketVars, toParent, suspended>>

\* waitpid() on the monitor returns.
MonitorReaped ==
  /\ ppc = "stopping" /\ mpc = "exited"
  /\ ppc' = IF exitCode = 0 THEN "stopped" ELSE "stopFailed"
  /\ UNCHANGED <<restart, proc, monitored, running, mutex, strays,
                 monitorVars, socketVars, toMonitor, toParent, suspended>>

\* The server loop sees the status pipe readable and gives up.
MonitorDied ==
  /\ ppc = "idle" /\ mpc = "exited"
  /\ ppc' = "abandoned"
  /\ UNCHANGED <<restart, proc, monitored, running, mutex, strays,
                 monitorVars, socketVars, toMonitor, toParent, suspended>>

-----------------------------------------------------------------------------
(* The monitor's main thread.                                              *)

\* The monitor exits; its children asked for SIGHUP when their parent dies.
Exit(code) ==
  /\ mpc' = "exited"
  /\ exitCode' = code
  /\ proc' = [i \in Entry |-> IF proc[i] \in Alive THEN "hup" ELSE proc[i]]

StartSubprocess ==
  /\ mpc = "start" /\ cursor \in Entry
  /\ \/ /\ proc' = [proc EXCEPT ![cursor] = "running"]
        /\ cursor' = cursor + 1
        /\ UNCHANGED <<mpc, exitCode>>
     \/ /\ StartMayFail
        /\ Exit(1)
        /\ UNCHANGED cursor
  /\ UNCHANGED <<restart, monitored, running, mutex, strays, reaped,
                 stopFailures, socketVars, parentVars>>

\* All started: launch the socket thread, enter MonitorLoop.
LaunchSocketThread ==
  /\ mpc = "start" /\ cursor \notin Entry
  /\ mpc' = "check"
  /\ spc' = "check"
  /\ UNCHANGED <<restart, proc, monitored, running, mutex, strays, cursor,
                 reaped, stopFailures, exitCode, op, scursor, secureEnv,
                 parentVars>>

MonitorLoopCheck ==
  /\ mpc = "check"
  /\ mpc' = IF running THEN "wait" ELSE "join"
  /\ UNCHANGED <<restart, proc, monitored, running, mutex, strays, cursor,
                 reaped, stopFailures, exitCode, socketVars, parentVars>>

\* wait() returns any exited child.
WaitEntry(i) ==
  /\ mpc = "wait"
  /\ proc[i] = "zombie"
  /\ proc' = [proc EXCEPT ![i] = "reaped"]
  /\ reaped' = i
  /\ mpc' = "woken"
  /\ UNCHANGED <<restart, monitored, running, mutex, strays, cursor,
                 stopFailures, exitCode, socketVars, parentVars>>

WaitStray ==
  /\ mpc = "wait"
  /\ strays > 0
  /\ strays' = strays - 1
  /\ reaped' = 0
  /\ mpc' = "woken"
  /\ UNCHANGED <<restart, proc, monitored, running, mutex, cursor,
                 stopFailures, exitCode, socketVars, parentVars>>

\* wait() fails with ECHILD.  MonitorRoutine returns the error, which first
\* destroys the std::async future and so joins the socket thread.
WaitFails ==
  /\ mpc = "wait"
  /\ strays = 0 /\ \A i \in Entry : proc[i] \notin Signallable
  /\ mpc' = "loopFailed"
  /\ UNCHANGED <<restart, proc, monitored, running, mutex, strays, cursor,
                 reaped, stopFailures, exitCode, socketVars, parentVars>>

\* "Avoid extra restarts near the end"
RecheckRunning ==
  /\ mpc = "woken"
  /\ mpc' = IF running THEN "handle" ELSE "join"
  /\ UNCHANGED <<restart, proc, monitored, running, mutex, strays, cursor,
                 reaped, stopFailures, exitCode, socketVars, parentVars>>

\* Mutant of HandleExit: properties_mutex_ is not taken.
HandleExitUnlocked ==
  /\ mpc = "handle"
  /\ reaped \in monitored /\ ~restart
  /\ monitored' = monitored \ {reaped}
  /\ mpc' = "check"
  /\ UNCHANGED <<restart, proc, running, mutex, strays, cursor, reaped,
                 stopFailures, exitCode, socketVars, parentVars>>

\* The critical section of MonitorLoop: it blocks on nothing, hence one step.
HandleExit ==
  /\ mpc = "handle" /\ mutex = "free"
  /\ \/ /\ reaped \notin monitored                    \* "(unknown)"
        /\ mpc' = "check"
        /\ UNCHANGED <<proc, monitored, running>>
     \/ /\ reaped \in monitored /\ restart
        /\ \/ proc' = [proc EXCEPT ![reaped] = "running"]
           \/ StartMayFail /\ proc' = [proc EXCEPT ![reaped] = "none"]
        /\ mpc' = "check"
        /\ UNCHANGED <<monitored, running>>
     \/ /\ reaped \in monitored /\ ~restart
        /\ monitored' = monitored \ {reaped}
        /\ IF running /\ reaped \in Critical
             THEN running' = FALSE /\ mpc' = "join"
             ELSE mpc' = "check" /\ UNCHANGED running
        /\ UNCHANGED proc
  /\ UNCHANGED <<restart, mutex, strays, cursor, reaped, stopFailures,
                 exitCode, socketVars, parentVars>>

\* Mutant of JoinSocketThread: the last entry is skipped by the stop loop.
JoinSocketThreadShort ==
  /\ mpc = "join" /\ spc = "done"
  /\ mpc' = "stop"
  /\ cursor' = N - 1
  /\ UNCHANGED <<restart, proc, exitCode, monitored, running, mutex, strays,
                 reaped, stopFailures, socketVars, parentVars>>

\* Mutant of JoinSocketThread: the stop loop starts past the end.
JoinSocketThreadOver ==
  /\ mpc = "join" /\ spc = "done"
  /\ mpc' = "stop"
  /\ cursor' = N + 2
  /\ UNCHANGED <<restart, proc, exitCode, monitored, running, mutex, strays,
                 reaped, stopFailures, socketVars, parentVars>>

\* parent_comms.get() returns once the socket thread is done.
JoinSocketThread ==
  /\ mpc = "join"
  /\ \/ /\ spc = "done"
        /\ mpc' = "stop"
        /\ cursor' = N
        /\ UNCHANGED <<proc, exitCode>>
     \/ /\ spc = "failed"
        /\ Exit(1)
        /\ UNCHANGED cursor
  /\ UNCHANGED <<restart, monitored, running, mutex, strays, reaped,
                 stopFailures, socketVars, parentVars>>

ExitAfterLoopFailure ==
  /\ mpc = "loopFailed" /\ spc \in {"done", "failed"}
  /\ Exit(1)
  /\ UNCHANGED <<restart, monitored, running, mutex, strays, cursor, reaped,
                 stopFailures, socketVars, parentVars>>

\* A nice stopper (KillSubprocessFallback) that asks the process to stop and
\* reads its answer, like StopModemSimulator, is kept waiting by a process
\* that a suspend froze, until that process ends.
StopperBlocked(i) == i \in Conversing /\ proc[i] = "frozen"

\* Mutant of StopSubprocess: stop at the first failure (all_of, not count_if).
StopSubprocessAllOf ==
  /\ mpc = "stop" /\ cursor \in Entry
  /\ ~StopperBlocked(cursor)
  /\ IF cursor \in monitored
       THEN IF proc[cursor] \in Signallable
              THEN /\ proc' = [proc EXCEPT ![cursor] = "reaped"]
                   /\ cursor' = cursor - 1
                   /\ UNCHANGED stopFailures
              ELSE stopFailures' = TRUE /\ cursor' = 0 /\ UNCHANGED proc
       ELSE cursor' = cursor - 1 /\ UNCHANGED <<proc, stopFailures>>
  /\ UNCHANGED <<restart, monitored, running, mutex, strays, mpc, reaped,
                 exitCode, socketVars, parentVars>>

\* Mutant of StopSubprocess: a pid of -1 counts as stopped.
StopSubprocessLenient ==
  /\ mpc = "stop" /\ cursor \in Entry
  /\ ~StopperBlocked(cursor)
  /\ cursor' = cursor - 1
  /\ IF cursor \in monitored /\ proc[cursor] \in Signallable
       THEN proc' = [proc EXCEPT ![cursor] = "reaped"]
       ELSE UNCHANGED proc
  /\ UNCHANGED <<restart, monitored, running, mutex, strays, mpc, reaped,
                 exitCode, stopFailures, socketVars, parentVars>>

\* One round of StopSubprocesses' count_if over the reversed vector: Stop the
\* process, then wait for it.  A process that was already reaped cannot be
\* signalled and the pid -1 of a fork that failed cannot be waited for; both
\* count as not stopped.
StopSubprocess ==
  /\ mpc = "stop" /\ cursor \in Entry
  /\ ~StopperBlocked(cursor)
  /\ cursor' = cursor - 1
  /\ IF cursor \in monitored
       THEN IF proc[cursor] \in Signallable
              THEN /\ proc' = [proc EXCEPT ![cursor] = "reaped"]
                   /\ UNCHANGED stopFailures
              ELSE stopFailures' = TRUE /\ UNCHANGED proc
       ELSE UNCHANGED <<proc, stopFailures>>
  /\ UNCHANGED <<restart, monitored, running, mutex, strays, mpc, reaped,
                 exitCode, socketVars, parentVars>>

\* A restart that failed before the fork, in a prerequisite of the command,
\* left Subprocess(-1, {}), whose stopper is empty: calling it throws
\* bad_function_call, which nobody catches.
StopAborts ==
  /\ mpc = "stop" /\ cursor \in monitored
  /\ proc[cursor] = "none"
  /\ Exit(1)
  /\ UNCHANGED <<restart, monitored, running, mutex, strays, cursor, reaped,
                 stopFailures, socketVars, parentVars>>

\* The number of stopped processes decides the exit status.
ExitAfterStop ==
  /\ mpc = "stop" /\ cursor \notin Entry
  /\ Exit(IF stopFailures THEN 1 ELSE 0)
  /\ UNCHANGED <<restart, monitored, running, mutex, strays, cursor, reaped,
                 stopFailures, socketVars, parentVars>>

-----------------------------------------------------------------------------
(* The socket thread.                                                      *)

SocketLoopCheck ==
  /\ spc = "check"
  /\ spc' = IF running THEN "recv" ELSE "done"
  /\ UNCHANGED <<restart, proc, monitored, running, mutex, strays,
                 monitorVars, op, scursor, secureEnv, parentVars>>

\* The monitor holds both ends of the socket pair, so no end-of-file arrives.
ReceiveMessage ==
  /\ spc = "recv" /\ toMonitor # "none"
  /\ toMonitor' = "none"
  /\ IF toMonitor = "stop"
       THEN running' = FALSE /\ spc' = "wake" /\ UNCHANGED op
       ELSE spc' = "lock" /\ op' = toMonitor /\ UNCHANGED running
  /\ UNCHANGED <<restart, proc, monitored, mutex, strays, monitorVars,
                 scursor, secureEnv, ppc, toParent, suspended>>

\* Mutant of ForkWakeUpChild: the child is not forked.
NoWakeUpChild ==
  /\ spc = "wake"
  /\ spc' = "check"
  /\ UNCHANGED <<restart, proc, monitored, running, mutex, strays,
                 monitorVars, op, scursor, secureEnv, parentVars>>

\* "Wake up the wait() loop by giving it an exited child process"
ForkWakeUpChild ==
  /\ spc = "wake"
  /\ strays' = strays + 1
  /\ spc' = "check"
  /\ UNCHANGED <<restart, proc, monitored, running, mutex, monitorVars, op,
                 scursor, secureEnv, parentVars>>

\* SuspendResumeImpl takes the lock; secure_env, if it is in the vector, is
\* asked first and waited for without a time limit.
LockEntries ==
  /\ spc = "lock" /\ mutex = "free"
  /\ mutex' = "socket"
  /\ scursor' = 1
  /\ IF SecureEnv \in monitored
       THEN spc' = "secure" /\ secureEnv' = "asked"
       ELSE spc' = "signal" /\ UNCHANGED secureEnv
  /\ UNCHANGED <<restart, proc, monitored, running, strays, monitorVars, op,
                 parentVars>>

ReadSecureEnvResponse ==
  /\ spc = "secure" /\ secureEnv = "answered"
  /\ secureEnv' = "quiet"
  /\ spc' = "signal"
  /\ UNCHANGED <<restart, proc, monitored, running, mutex, strays,
                 monitorVars, op, scursor, parentVars>>

\* Mutant of Signalled: critical entries are taken for exempt ones.
SignalledNotCritical == Entry \ (Exempt \cup Critical \cup {SecureEnv})

\* The entries that SuspendResumeImpl signals.
Signalled == Entry \ (Exempt \cup {SecureEnv})

SignalEffect(s) ==
  CASE op = "suspend" /\ s = "running" -> "frozen"
    [] op = "resume"  /\ s = "frozen"  -> "running"
    [] OTHER -> s

\* A signal that finds no process ends the thread, and nothing is answered.
SignalEntry ==
  /\ spc = "signal" /\ scursor \in Entry
  /\ IF scursor \in monitored \cap Signalled
       THEN IF proc[scursor] \in Signallable
              THEN /\ proc' = [proc EXCEPT ![scursor] = SignalEffect(@)]
                   /\ scursor' = scursor + 1
                   /\ UNCHANGED <<spc, mutex>>
              ELSE /\ spc' = "failed" /\ mutex' = "free"
                   /\ UNCHANGED <<proc, scursor>>
       ELSE scursor' = scursor + 1 /\ UNCHANGED <<proc, spc, mutex>>
  /\ UNCHANGED <<restart, monitored, running, strays, monitorVars, op,
                 secureEnv, parentVars>>

\* Mutant of SendSuccess: the response is not written.
SendNothing ==
  /\ spc = "signal" /\ scursor \notin Entry
  /\ mutex' = "free"
  /\ spc' = "check"
  /\ UNCHANGED <<restart, proc, monitored, running, strays, monitorVars, op,
                 scursor, secureEnv, parentVars>>

SendSuccess ==
  /\ spc = "signal" /\ scursor \notin Entry
  /\ toParent' = "success"
  /\ mutex' = "free"
  /\ spc' = "check"
  /\ UNCHANGED <<restart, proc, monitored, running, strays, monitorVars, op,
                 scursor, secureEnv, ppc, toMonitor, suspended>>

-----------------------------------------------------------------------------
(* The subprocesses.                                                       *)

\* A subprocess exits or is killed on its own.
SubprocessExit(i) ==
  /\ mpc # "exited"
  /\ proc[i] \in Alive
  /\ proc' = [proc EXCEPT ![i] = "zombie"]
  /\ UNCHANGED <<restart, monitored, running, mutex, strays, monitorVars,
                 socketVars, parentVars>>

\* The monitor is a subreaper: orphaned descendants of its subprocesses
\* become its children.
OrphanExit ==
  /\ mpc \notin {"unborn", "exited"}
  /\ strays < MaxStrays
  /\ strays' = strays + 1
  /\ UNCHANGED <<restart, proc, monitored, running, mutex, monitorVars,
                 socketVars, parentVars>>

\* secure_env suspends or resumes its workers and answers kSuccess, its only
\* answer.  A secure_env that was restarted inherits the same socket.
SecureEnvAnswer ==
  /\ secureEnv = "asked"
  /\ SecureEnv \in Entry /\ proc[SecureEnv] = "running"
  /\ secureEnv' = "answered"
  /\ UNCHANGED <<restart, proc, monitored, running, mutex, strays,
                 monitorVars, spc, op, scursor, parentVars>>

-----------------------------------------------------------------------------
ParentNext ==
  \/ StartAndMonitorProcesses \/ SendRequest \/ ReceiveResponse \/ ReceiveEof
  \/ StopMonitoredProcesses \/ MonitorReaped \/ MonitorDied

MainThread ==
  \/ StartSubprocess \/ LaunchSocketThread \/ MonitorLoopCheck
  \/ (\E i \in Entry : WaitEntry(i)) \/ WaitStray \/ WaitFails
  \/ RecheckRunning \/ HandleExit \/ JoinSocketThread
  \/ ExitAfterLoopFailure \/ StopSubprocess \/ StopAborts
  \/ ExitAfterStop

SocketThread ==
  \/ SocketLoopCheck \/ ReceiveMessage \/ ForkWakeUpChild \/ LockEntries
  \/ ReadSecureEnvResponse \/ SignalEntry \/ SendSuccess

Environment ==
  \/ \E i \in Entry : SubprocessExit(i)
  \/ OrphanExit
  \/ SecureEnvAnswer

Next == ParentNext \/ MainThread \/ SocketThread \/ Environment

Spec == Init /\ [][Next]_vars

\* The kernel schedules both threads and the parent, and a live secure_env
\* answers.  Nothing makes a subprocess exit or the parent ask for anything.
Fairness ==
  /\ WF_vars(MainThread)
  /\ WF_vars(SocketThread)
  /\ WF_vars(ReceiveResponse \/ ReceiveEof \/ MonitorReaped)
  /\ WF_vars(SecureEnvAnswer)

FairSpec == Spec /\ Fairness

-----------------------------------------------------------------------------
(* Properties.                                                             *)

\* process_monitor.h, SuspendMonitoredProcesses: "Suspend all host
\* subprocesses".  Between a suspend that was reported as done and the next
\* request, no process that the suspend is meant to freeze runs, as long as
\* none is restarted.
SuspendFreezesHost ==
  ~restart /\ ppc = "idle" /\ suspended /\ op = "suspend"
    => \A i \in Entry \ (Exempt \cup {SecureEnv}) : proc[i] # "running"

\* When StopMonitoredProcesses returns success, every subprocess was stopped
\* and waited for: none is left alive and none has an unknown fate.
StoppedMeansReaped ==
  ppc = "stopped" => \A i \in Entry : proc[i] = "reaped"

\* Once the monitor has started its subprocesses, a stop takes care of every
\* one of them itself, even a stop that reports an error because one entry
\* could not be stopped.  Only an entry whose restart failed interrupts it, and
\* only what was started before that entry is then left to the death signal.
OrderlyStop ==
  ppc \in {"stopped", "stopFailed"} /\ spc # "unborn"
    => \A i \in Entry : proc[i] = "hup" => \E j \in Entry : j > i /\ proc[j] = "none"

\* "stop them in reverse order for symmetry": when StopSubprocesses turns to
\* an entry, no process that was started after it is alive.
StopInReverse ==
  mpc = "stop" => \A i \in Entry : i > cursor => proc[i] \notin Alive

\* SuspendResumeImpl iterates over the vector while it holds
\* properties_mutex_: no entry is erased and no entry gets a new process.
EntriesStableWhileLocked ==
  [][mutex = "socket" =>
       /\ monitored' = monitored
       /\ \A i \in Entry : proc[i] \in {"reaped", "none"} => proc'[i] = proc[i]]_vars

\* StopSubprocesses has called a nice stopper that does not return.
StopBlocked == mpc = "stop" /\ cursor \in Entry /\ StopperBlocked(cursor)

\* A requested stop ends: the wait() of MonitorLoop is woken, the socket
\* thread is joined and the parent's waitpid() returns.  The one thing that can
\* hold it up is a nice stopper that waits for a process a suspend has frozen.
StopTerminates ==
  ppc = "stopping" ~>
    \/ ppc \in {"stopped", "stopFailed"}
    \/ StopBlocked

\* MonitorLoop logs "Stopping all monitored processes due to unexpected exit
\* of critical process": once it has taken that branch, all of them stop.
CriticalExitStopsAll ==
  (\E c \in Critical : c \notin monitored) ~> (\A i \in Entry : proc[i] \notin Alive)

\* The parent's ReceiveMessage in a suspend or a resume returns, unless
\* SuspendResumeImpl could not signal an entry, which ends the socket thread
\* without a kFailure, or secure_env is gone and its answer never comes, or the
\* monitor hangs while it stops everything after the exit of a critical process.
RequestsAnswered ==
  ppc \in {"suspending", "resuming"} ~>
    \/ ppc \notin {"suspending", "resuming"}
    \/ spc = "failed"
    \/ spc = "secure" /\ proc[SecureEnv] # "running"
    \/ StopBlocked
=============================================================================
