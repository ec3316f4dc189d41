-------------------------- MODULE BootStateMachine --------------------------
(***************************************************************************)
(* The thread of run_cvd that decides whether the device has booted        *)
(* (CvdBootStateMachine in host/commands/run_cvd/boot_state_machine.cc),   *)
(* and the pipe of boot events that kernel_log_monitor fills for it.       *)
(*                                                                         *)
(* run_cvd itself keeps the write end of the event pipe open (KernelLog-   *)
(* Monitor::event_pipe_write_ends_), so the reader never sees its end; but *)
(* kernel_log_monitor can die between the two writes of a message, and the *)
(* one that replaces it starts a message in the middle of another.         *)
(***************************************************************************)
EXTENDS Integers, Sequences

CONSTANTS
  PipeSize,   \* bound: messages that fit into the event pipe
  FailFast,   \* instance.fail_fast()
  Restoring,  \* IsRestoring(config)
  MaxCrashes  \* bound: deaths of kernel_log_monitor inside a message

ASSUME BootAssumption ==
  /\ PipeSize \in Nat \ {0}
  /\ FailFast \in BOOLEAN
  /\ Restoring \in BOOLEAN
  /\ MaxCrashes \in Nat

Events == {"BootCompleted", "BootFailed", "Other"}
\* Who is told the exit code, in the order of MaybeWriteNotification.
Recipients == {"reboot_notification", "fg_launcher"}
Codes == {"kSuccess", "kVirtualDeviceBootFailed"}

VARIABLES
  pipe,      \* boot_events_pipe: messages, "Torn" is one without its end
  crashes,   \* deaths of kernel_log_monitor so far
  state,     \* state_, as the set of its bits
  thread,    \* where boot_event_handler_ is
  ready,     \* what the last poll() reported and is not handled yet
  open,      \* open[r]: the descriptor of recipient r is open
  left,      \* left[r]: recipient r has closed its end
  got,       \* got[r]: the exit code written to r
  restore,   \* restore_complete_handler_: see TypeOK, "none" if not Restoring
  interrupt, \* the destructor has written to interrupt_fd_write_
  proc       \* run_cvd: "running" or how it ended

vars == <<pipe, crashes, state, thread, ready, open, left, got, restore,
          interrupt, proc>>

TypeOK ==
  /\ pipe \in Seq(Events \cup {"Torn"}) /\ Len(pipe) <= PipeSize
  /\ crashes \in 0 .. MaxCrashes
  /\ state \subseteq {"kGuestBootCompleted", "kGuestBootFailed"}
  /\ thread \in {"poll", "handle", "failing", "failWait", "drain", "read",
                 "done"}
  /\ ready \subseteq {"event", "restore", "restoreHup", "interrupt", "launcherGone"}
  /\ open \in [Recipients -> BOOLEAN]
  /\ left \in [Recipients -> BOOLEAN]
  /\ got \in [Recipients -> Codes \cup {"none"}]
  /\ restore \in {"none", "pending", "complete", "gaveUp"}
  /\ interrupt \in BOOLEAN
  /\ proc \in {"running", "kPipeIOError", "bootFailed", "sigpipe", "aborted", "joined"}

Init ==
  /\ pipe = <<>> /\ crashes = 0 /\ state = {}
  /\ thread = "poll" /\ ready = {}
  /\ open \in [Recipients -> BOOLEAN]
  /\ left = [r \in Recipients |-> FALSE]
  /\ got = [r \in Recipients |-> "none"]
  /\ restore = IF Restoring THEN "pending" ELSE "none"
  /\ interrupt = FALSE
  /\ proc = "running"

Running == proc = "running"

-----------------------------------------------------------------------------
(* The surroundings of the thread.                                         *)

\* Mutant of WriteEvent: the write does not wait for room in the pipe.
WriteEventUnbounded ==
  /\ Len(pipe) <= PipeSize
  /\ \E e \in Events : pipe' = Append(pipe, e)
  /\ UNCHANGED <<crashes, state, thread, ready, open, left, got, restore,
                 interrupt, proc>>

\* kernel_log_monitor: WriteEvent blocks while the pipe is full.
WriteEvent ==
  /\ Len(pipe) < PipeSize
  /\ \E e \in Events : pipe' = Append(pipe, e)
  /\ UNCHANGED <<crashes, state, thread, ready, open, left, got, restore,
                 interrupt, proc>>

\* It dies after a part of a message, and is restarted.
TearEvent ==
  /\ crashes < MaxCrashes /\ Len(pipe) < PipeSize
  /\ pipe' = Append(pipe, "Torn") /\ crashes' = crashes + 1
  /\ UNCHANGED <<state, thread, ready, open, left, got, restore, interrupt, proc>>

\* The foreground launcher is interrupted, or the client that asked for the
\* reboot no longer waits.
RecipientLeaves(r) ==
  /\ open[r] /\ ~left[r]
  /\ left' = [left EXCEPT ![r] = TRUE]
  /\ UNCHANGED <<pipe, crashes, state, thread, ready, open, got, restore,
                 interrupt, proc>>

\* restore_complete_handler_ writes "1" to restore_complete_pipe and ends.
RestoreCompletes ==
  /\ Running /\ restore = "pending"
  /\ restore' = "complete"
  /\ UNCHANGED <<pipe, crashes, state, thread, ready, open, left, got,
                 interrupt, proc>>

\* One of its CHECKs fails.
RestoreAborts ==
  /\ Running /\ restore = "pending"
  /\ proc' = "aborted"
  /\ UNCHANGED <<pipe, crashes, state, thread, ready, open, left, got, restore,
                 interrupt>>

\* The destructor tells it to stop, after it has joined boot_event_handler_.
RestoreGivesUp ==
  /\ Running /\ restore = "pending" /\ interrupt /\ thread = "done"
  /\ restore' = "gaveUp"
  /\ UNCHANGED <<pipe, crashes, state, thread, ready, open, left, got,
                 interrupt, proc>>

\* ~CvdBootStateMachine: the server loop has returned.
Interrupt ==
  /\ Running /\ ~interrupt
  /\ interrupt' = TRUE
  /\ UNCHANGED <<pipe, crashes, state, thread, ready, open, left, got, restore,
                 proc>>

\* Both threads are joined.
Join ==
  /\ Running /\ interrupt /\ thread = "done" /\ restore # "pending"
  /\ proc' = "joined"
  /\ UNCHANGED <<pipe, crashes, state, thread, ready, open, left, got, restore,
                 interrupt>>

-----------------------------------------------------------------------------
(* ThreadLoop.                                                             *)

PollResult ==
  (IF pipe # <<>> THEN {"event"} ELSE {})
  \cup (IF restore = "complete" THEN {"restore"} ELSE {})
  \cup (IF restore = "gaveUp" THEN {"restoreHup"} ELSE {})
  \cup (IF interrupt THEN {"interrupt"} ELSE {})
  \cup (IF open["fg_launcher"] /\ left["fg_launcher"] THEN {"launcherGone"} ELSE {})

Poll ==
  /\ Running /\ thread = "poll" /\ PollResult # {}
  /\ ready' = PollResult /\ thread' = "handle"
  /\ UNCHANGED <<pipe, crashes, state, open, left, got, restore, interrupt, proc>>

HandleInterrupt ==
  /\ Running /\ thread = "handle" /\ "interrupt" \in ready
  /\ thread' = "done" /\ ready' = {}
  /\ UNCHANGED <<pipe, crashes, state, open, left, got, restore, interrupt, proc>>

\* Mutant of HandleLauncherGone: the POLLERR of the pipe is ignored.
LauncherGoneIgnored ==
  /\ Running /\ thread = "handle" /\ "interrupt" \notin ready
  /\ "launcherGone" \in ready
  /\ ready' = ready \ {"launcherGone"}
  /\ UNCHANGED <<pipe, crashes, state, thread, open, left, got, restore,
                 interrupt, proc>>

\* std::exit(kPipeIOError)
HandleLauncherGone ==
  /\ Running /\ thread = "handle" /\ "interrupt" \notin ready
  /\ "launcherGone" \in ready
  /\ proc' = "kPipeIOError"
  /\ UNCHANGED <<pipe, crashes, state, thread, ready, open, left, got, restore,
                 interrupt>>

BootCompleted(s) == "kGuestBootCompleted" \in s

\* Writing to this recipient is a SIGPIPE.
Deadly(r) == open[r] /\ left[r]

\* Mutant of MaybeWriteNotification: the descriptors are not closed.
NotifyForEver(s) ==
  LET code == IF BootCompleted(s) THEN "kSuccess" ELSE "kVirtualDeviceBootFailed"
  IN  /\ got' = [r \in Recipients |-> IF open[r] /\ ~left[r] THEN code ELSE got[r]]
      /\ UNCHANGED <<open, proc>>

\* MaybeWriteNotification with state_ = s, which is final.
MaybeWriteNotification(s) ==
  LET code == IF BootCompleted(s) THEN "kSuccess" ELSE "kVirtualDeviceBootFailed"
      Reached(r) == /\ open[r] /\ ~left[r]
                    /\ r = "fg_launcher" => ~Deadly("reboot_notification")
  IN  /\ got' = [r \in Recipients |-> IF Reached(r) THEN code ELSE got[r]]
      /\ open' = [r \in Recipients |-> FALSE]
      /\ proc' = IF \E r \in Recipients : Deadly(r) THEN "sigpipe" ELSE proc

\* The loop is left in final state s: drain the pipe after a successful boot.
Break(s) == thread' = IF BootCompleted(s) THEN "drain" ELSE "done"

\* What ReadEvent returns, and what it leaves.  A torn message is completed by
\* the beginning of the next one, and does not parse.
Readable == pipe # <<>> /\ (Head(pipe) = "Torn" => Len(pipe) > 1)
\* Mutant of ReadEvent: BootCompleted is not recognized.
ReadEventNoCompletion == IF Head(pipe) = "BootCompleted" THEN "Other" ELSE Head(pipe)
ReadEvent == IF Head(pipe) = "Torn" THEN "Error" ELSE Head(pipe)
Rest == IF Head(pipe) = "Torn" THEN Tail(Tail(pipe)) ELSE Tail(pipe)

\* The handling of earlier descriptors comes first.
EventsTurn ==
  /\ Running /\ thread = "handle" /\ "event" \in ready
  /\ ready \cap {"interrupt", "launcherGone"} = {}

\* OnBootEvtReceived with an event that is not final
HandleOtherEvent ==
  /\ EventsTurn /\ Readable /\ ReadEvent = "Other"
  /\ pipe' = Rest /\ ready' = ready \ {"event"}
  /\ UNCHANGED <<crashes, state, thread, open, left, got, restore, interrupt, proc>>

\* OnBootEvtReceived with the event that decides, or with an error
HandleFinalEvent ==
  /\ EventsTurn /\ Readable /\ ReadEvent # "Other"
  /\ pipe' = Rest /\ ready' = {}
  /\ LET s == state \cup {IF ReadEvent = "BootCompleted" THEN "kGuestBootCompleted"
                                                         ELSE "kGuestBootFailed"}
     IN  /\ state' = s
         /\ MaybeWriteNotification(s)
         /\ IF ~BootCompleted(s) /\ FailFast THEN thread' = "failing" ELSE Break(s)
  /\ UNCHANGED <<crashes, left, restore, interrupt>>

\* GetLauncherMonitorFromInstance connects, for which the server loop need not
\* accept, and RunLauncherAction writes kFail; a CHECK fails when either cannot.
RequestFail ==
  /\ Running /\ thread = "failing"
  /\ \/ thread' = "failWait" /\ UNCHANGED proc
     \/ proc' = "aborted" /\ UNCHANGED thread
  /\ UNCHANGED <<pipe, crashes, state, ready, open, left, got, restore, interrupt>>

\* The answer to kFail, without a time limit: the server loop stops the device
\* and exits, or its stop fails and the answer kError fails a CHECK.  A server
\* loop that has returned answers nothing.
FailAction ==
  /\ Running /\ thread = "failWait" /\ ~interrupt
  /\ proc' \in {"bootFailed", "aborted"}
  /\ UNCHANGED <<pipe, crashes, state, thread, ready, open, left, got, restore,
                 interrupt>>

\* restore_complete_pipe is readable, or was closed by its writer.
HandleRestore ==
  /\ Running /\ thread = "handle"
  /\ ready # {} /\ ready \subseteq {"restore", "restoreHup"}
  /\ ready' = {}
  /\ LET s == state \cup {IF "restore" \in ready THEN "kGuestBootCompleted"
                                                 ELSE "kGuestBootFailed"}
     IN  state' = s /\ MaybeWriteNotification(s) /\ Break(s)
  /\ UNCHANGED <<pipe, crashes, left, restore, interrupt>>

PollAgain ==
  /\ Running /\ thread = "handle" /\ ready = {}
  /\ thread' = "poll"
  /\ UNCHANGED <<pipe, crashes, state, ready, open, left, got, restore,
                 interrupt, proc>>

-----------------------------------------------------------------------------
(* DrainBootEventPipe.                                                     *)

\* poll() reports an event and no interrupt.
DrainPoll ==
  /\ Running /\ thread = "drain" /\ ~interrupt /\ pipe # <<>>
  /\ thread' = "read"
  /\ UNCHANGED <<pipe, crashes, state, ready, open, left, got, restore,
                 interrupt, proc>>

\* Mutant of DrainEvent: only the first event after the boot is consumed.
DrainOnce ==
  /\ Running /\ thread = "read" /\ Readable
  /\ pipe' = Rest
  /\ thread' = "done"
  /\ UNCHANGED <<crashes, state, ready, open, left, got, restore, interrupt, proc>>

\* ReadEvent blocks until the message is complete; an error ends the thread.
DrainEvent ==
  /\ Running /\ thread = "read" /\ Readable
  /\ pipe' = Rest
  /\ thread' = IF ReadEvent = "Error" THEN "done" ELSE "drain"
  /\ UNCHANGED <<crashes, state, ready, open, left, got, restore, interrupt, proc>>

\* Mutant of DrainInterrupted: the interrupt is seen only when the pipe is empty.
DrainInterruptedLast ==
  /\ Running /\ thread = "drain" /\ interrupt /\ pipe = <<>>
  /\ thread' = "done"
  /\ UNCHANGED <<pipe, crashes, state, ready, open, left, got, restore,
                 interrupt, proc>>

DrainInterrupted ==
  /\ Running /\ thread = "drain" /\ interrupt
  /\ thread' = "done"
  /\ UNCHANGED <<pipe, crashes, state, ready, open, left, got, restore,
                 interrupt, proc>>

ThreadStep ==
  \/ Poll \/ HandleInterrupt \/ HandleLauncherGone
  \/ HandleOtherEvent \/ HandleFinalEvent \/ RequestFail \/ HandleRestore
  \/ PollAgain \/ DrainPoll \/ DrainEvent \/ DrainInterrupted

Next ==
  \/ ThreadStep \/ FailAction
  \/ WriteEvent \/ TearEvent
  \/ \E r \in Recipients : RecipientLeaves(r)
  \/ RestoreCompletes \/ RestoreAborts \/ RestoreGivesUp \/ Interrupt \/ Join

Spec == Init /\ [][Next]_vars

\* The thread runs whenever poll() or read() would return, the server loop
\* serves its requests as long as it runs, and run_cvd joins the thread.
Fairness == WF_vars(ThreadStep) /\ WF_vars(FailAction) /\ WF_vars(Join)

FairSpec == Spec /\ Fairness

-----------------------------------------------------------------------------
(* Properties.                                                             *)

\* The launcher and the client that asked for a reboot are told one verdict,
\* the one run_cvd acts on: after it the state is final ("in any case the state
\* is final" in MaybeWriteNotification), and no second code is ever written.
OneVerdict ==
  /\ \A r \in Recipients :
       got[r] # "none" => ~open[r] /\ (got[r] = "kSuccess" <=> BootCompleted(state))
  /\ state # {} => \A r \in Recipients : ~open[r]
  /\ state # {"kGuestBootCompleted", "kGuestBootFailed"}

\* A boot event that decides reaches everyone who waits for the exit code.
VerdictDelivered ==
  (\E i \in 1 .. Len(pipe) : pipe[i] \in {"BootCompleted", "BootFailed"})
    ~> (\A r \in Recipients : ~open[r]) \/ interrupt \/ ~Running

\* The reader waits for the rest of a message whose writer died.
InsideTornMessage == pipe = <<"Torn">>

\* A launch that is cancelled before the verdict takes run_cvd down with it
\* ("This process needs to exit as result"), unless the thread is stuck.
CancelNoticed ==
  Deadly("fg_launcher") ~> ~Running \/ interrupt \/ InsideTornMessage

\* A full event pipe is emptied again as long as the device runs: otherwise
\* kernel_log_monitor, then the console of the guest, block ("we can cause a
\* full kernel lockup").  A message torn by kernel_log_monitor ends this: it
\* takes the thread out of DrainBootEventPipe.
GuestNotBlocked ==
  Len(pipe) = PipeSize ~> Len(pipe) < PipeSize \/ interrupt \/ ~Running \/ crashes > 0

\* The destructor does not wait for boot_event_handler_ for ever, unless the
\* thread is stuck: inside a torn message, or in its own request to the server
\* loop, which has returned and will not answer it.
InterruptEndsThread ==
  interrupt ~> \/ thread = "done" \/ ~Running
               \/ InsideTornMessage \/ thread = "failWait"
=============================================================================
