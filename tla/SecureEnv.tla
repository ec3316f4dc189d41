------------------------------ MODULE SecureEnv ------------------------------
(***************************************************************************)
(* The worker threads of secure_env and the thread that suspends and       *)
(* resumes them for a snapshot (suspend_resume_handler.cpp,                 *)
(* worker_thread_loop_body.cpp, rust/lib.rs), between the process monitor,  *)
(* which asks, and the guest, whose requests the workers serve.            *)
(*                                                                         *)
(* Worker 1 is the Rust KeyMint TA, the others are C++ workers in the      *)
(* order in which the handler serves them.  What a worker computes is left *)
(* out: a guest request is pending, half sent, not there, or one that the    *)
(* worker fails to read or to answer.                                      *)
(***************************************************************************)
EXTENDS Naturals, Sequences

CONSTANTS
  N,             \* number of workers
  HalfSent,      \* can the guest be suspended inside a message?
  MaxFailures    \* bound on resumes of which a step after secure_env's fails

ASSUME SecureEnvAssumption ==
  N \in Nat \ {0} /\ HalfSent \in BOOLEAN /\ MaxFailures \in Nat

Worker == 1 .. N
Rust   == 1

VARIABLES
  alive,      \* is the process there?
  status,     \* device_status_ of run_cvd
  guest,      \* do the virtual CPUs run?
  request,    \* what the process monitor waits for
  channel,    \* channel_to_run_cvd_
  answered,   \* the last request that was answered
  failures,   \* resumes that failed after secure_env's part
  hpc,        \* where the handler thread is
  hop,        \* the request it handles
  hnext,      \* the worker it turns to next
  toWorker,   \* toWorker[w]: bytes on the way from the handler to w
  acks,       \* acks[w]: kSuspendAck bytes on the way back
  worker,     \* worker[w]: where the thread of w is
  input       \* input[w]: the guest's request to w

monitorVars == <<status, guest, request, answered, failures>>
handlerVars == <<hpc, hop, hnext>>
socketVars  == <<toWorker, acks>>
vars == <<alive, monitorVars, channel, handlerVars, socketVars, worker, input>>

TypeOK ==
  /\ alive \in BOOLEAN
  /\ status \in {"kActive", "kSuspended"}
  /\ guest \in {"running", "suspended"}
  /\ request \in {"none", "kSuspend", "kResume"}
  /\ channel \in {"empty", "kSuspend", "kResume", "kSuccess"}
  /\ answered \in {"none", "kSuspend", "kResume"}
  /\ failures \in 0 .. MaxFailures
  /\ hpc \in {"read", "ask", "ack", "answer", "ended"}
  /\ hop \in {"kSuspend", "kResume"}
  /\ hnext \in Worker
  /\ toWorker \in [Worker -> Seq({"kSuspend", "kResume"})]
  /\ \A w \in Worker : Len(toWorker[w]) <= MaxFailures + 2
  /\ acks \in [Worker -> 0 .. 1]
  /\ worker \in [Worker -> {"select", "process", "readSuspend", "writeAck",
                            "blocked", "gone", "ended"}]
  /\ input \in [Worker -> {"none", "half", "whole", "bad"}]

Init ==
  /\ alive = TRUE
  /\ status = "kActive" /\ guest = "running"
  /\ request = "none" /\ channel = "empty" /\ answered = "none"
  /\ failures = 0
  /\ hpc = "read" /\ hop = "kSuspend" /\ hnext = 1
  /\ toWorker = [w \in Worker |-> <<>>] /\ acks = [w \in Worker |-> 0]
  /\ worker = [w \in Worker |-> "select"]
  /\ input = [w \in Worker |-> "none"]

-----------------------------------------------------------------------------
(* The process monitor, called by run_cvd.                                 *)

Ask(r) ==
  /\ request = "none" /\ alive
  /\ request' = r
  /\ channel' = r
  /\ UNCHANGED <<alive, status, answered, failures, handlerVars, socketVars,
                 worker, input>>

\* HandleSuspend of run_cvd suspends the guest before the host processes.
\* A suspended device is not suspended again.
RequestSuspend == status = "kActive" /\ guest' = "suspended" /\ Ask("kSuspend")

\* HandleResume resumes the host processes before the guest.
RequestResume == status = "kSuspended" /\ UNCHANGED guest /\ Ask("kResume")

\* RunLauncherAction returns; the remaining steps of the request follow.  A
\* failed step of a resume, before or after the guest runs, leaves the status.
ReadResponse ==
  /\ channel = "kSuccess"
  /\ channel' = "empty"
  /\ request' = "none"
  /\ answered' = request
  /\ \/ /\ request = "kSuspend"
        /\ status' = "kSuspended" /\ UNCHANGED <<guest, failures>>
     \/ /\ request = "kResume"
        /\ status' = "kActive" /\ guest' = "running" /\ UNCHANGED failures
     \/ /\ request = "kResume" /\ failures < MaxFailures
        /\ failures' = failures + 1
        /\ guest' \in {"running", "suspended"} /\ UNCHANGED status
  /\ UNCHANGED <<alive, handlerVars, socketVars, worker, input>>

-----------------------------------------------------------------------------
(* SnapshotCommandHandler: one thread, one request at a time.              *)

\* ReadLauncherActionFromFd.
ReadRequest ==
  /\ alive /\ hpc = "read" /\ channel \in {"kSuspend", "kResume"}
  /\ hop' = channel
  /\ channel' = "empty"
  /\ hpc' = "ask" /\ hnext' = 1
  /\ UNCHANGED <<alive, monitorVars, socketVars, worker, input>>

\* Mutant of LastWorker: the last worker is forgotten.
LastWorkerButOne == hnext + 1 >= N

LastWorker == hnext = N

\* Mutant of AfterAsking: nobody waits.
AfterAskingAnswer == "answer"

\* A suspend waits for the acknowledgements, a resume does not.
AfterAsking == IF hop = "kSuspend" THEN "ack" ELSE "answer"

\* The thread of the worker is no longer there, and its socket is closed.
Closed(w) == worker[w] \in {"gone", "ended"}

\* WriteSuspendRequest and WriteResumeRequest.
WriteToWorker ==
  /\ alive /\ hpc = "ask" /\ ~Closed(hnext)
  /\ toWorker' = [toWorker EXCEPT ![hnext] = Append(@, hop)]
  /\ IF LastWorker
       THEN hpc' = AfterAsking /\ hnext' = 1
       ELSE hnext' = hnext + 1 /\ UNCHANGED hpc
  /\ UNCHANGED <<alive, monitorVars, channel, hop, acks, worker, input>>

\* The write to a closed socket raises SIGPIPE.
WriteSigpipe ==
  /\ alive /\ hpc = "ask" /\ Closed(hnext)
  /\ alive' = FALSE
  /\ UNCHANGED <<monitorVars, channel, handlerVars, socketVars, worker, input>>

ReadSuspendAck ==
  /\ alive /\ hpc = "ack" /\ acks[hnext] > 0
  /\ acks' = [acks EXCEPT ![hnext] = @ - 1]
  /\ IF hnext = N
       THEN hpc' = "answer" /\ hnext' = 1
       ELSE hnext' = hnext + 1 /\ UNCHANGED hpc
  /\ UNCHANGED <<alive, monitorVars, channel, hop, toWorker, worker, input>>

\* An end of file instead of the acknowledgement ends the handler thread.
ReadSuspendAckFails ==
  /\ alive /\ hpc = "ack" /\ acks[hnext] = 0 /\ Closed(hnext)
  /\ hpc' = "ended"
  /\ UNCHANGED <<alive, monitorVars, channel, hop, hnext, socketVars, worker,
                 input>>

WriteResponse ==
  /\ alive /\ hpc = "answer"
  /\ channel' = "kSuccess"
  /\ hpc' = "read"
  /\ UNCHANGED <<alive, monitorVars, hop, hnext, socketVars, worker, input>>

-----------------------------------------------------------------------------
(* A worker.                                                               *)

Goes(w, pc) == worker' = [worker EXCEPT ![w] = pc]

\* Mutant of Preferred: the handler comes first.
PreferredSnapshot(w) ==
  IF toWorker[w] # <<>> THEN "readSuspend" ELSE "process"

\* What Select() reports is acted on later.  If both are readable the guest's
\* request comes first.
Preferred(w) ==
  IF input[w] # "none" THEN "process" ELSE "readSuspend"

\* Mutant of Select: the guest's descriptor is not in the set.
SelectSnapshotOnly(w) ==
  /\ alive /\ worker[w] = "select" /\ toWorker[w] # <<>>
  /\ Goes(w, Preferred(w))
  /\ UNCHANGED <<alive, monitorVars, channel, handlerVars, socketVars, input>>

Select(w) ==
  /\ alive /\ worker[w] = "select"
  /\ input[w] # "none" \/ toWorker[w] # <<>>
  /\ Goes(w, Preferred(w))
  /\ UNCHANGED <<alive, monitorVars, channel, handlerVars, socketVars, input>>

\* The worker reads the message, blocking until it is there, and goes on.
Handle(w, message, next) ==
  /\ alive /\ worker[w] = "process" /\ input[w] = message
  /\ input' = [input EXCEPT ![w] = "none"]
  /\ Goes(w, next)
  /\ UNCHANGED <<alive, monitorVars, channel, handlerVars, socketVars>>

ProcessMessage(w) == Handle(w, "whole", "select")

\* A message that is too long or breaks off, or an answer that cannot be
\* written.  The Rust worker returns; a failed callback of any other worker
\* resets the responder and enters the loop again.
FailMessage(w) == Handle(w, "bad", IF w = Rust THEN "ended" ELSE "select")

\* An unexpected byte: the Rust worker returns, any other worker's failure is
\* LOG(FATAL) for the whole process.
Unexpected(w) == Goes(w, "gone") /\ alive' = (w = Rust)

ReadFromHandler(w, pc, expected, next) ==
  /\ alive /\ worker[w] = pc /\ toWorker[w] # <<>>
  /\ toWorker' = [toWorker EXCEPT ![w] = Tail(@)]
  /\ IF Head(toWorker[w]) = expected
       THEN Goes(w, next) /\ UNCHANGED alive
       ELSE Unexpected(w)
  /\ UNCHANGED <<monitorVars, channel, handlerVars, acks, input>>

ReadSuspendRequest(w) == ReadFromHandler(w, "readSuspend", "kSuspend", "writeAck")

\* Mutant of WriteAck: the acknowledgement is repeated.
WriteAckTwice(w) ==
  /\ alive /\ worker[w] = "writeAck"
  /\ acks' = [acks EXCEPT ![w] = @ + 2]
  /\ Goes(w, "blocked")
  /\ UNCHANGED <<alive, monitorVars, channel, handlerVars, toWorker, input>>

WriteAck(w) ==
  /\ alive /\ worker[w] = "writeAck"
  /\ acks' = [acks EXCEPT ![w] = @ + 1]
  /\ Goes(w, "blocked")
  /\ UNCHANGED <<alive, monitorVars, channel, handlerVars, toWorker, input>>

\* Mutant of ReadResumeRequest: the worker goes back to wait for another one.
ReadResumeRequestTwice(w) == ReadFromHandler(w, "blocked", "kResume", "blocked")

ReadResumeRequest(w) == ReadFromHandler(w, "blocked", "kResume", "select")

WorkerStep(w) ==
  \/ Select(w) \/ ProcessMessage(w) \/ FailMessage(w)
  \/ ReadSuspendRequest(w) \/ WriteAck(w) \/ ReadResumeRequest(w)

-----------------------------------------------------------------------------
(* The guest: a HAL has one request under way, good or bad, and may have   *)
(* written only a part of it when its virtual CPU is stopped.              *)

GuestSends(w) ==
  /\ alive /\ guest = "running" /\ input[w] \in {"none", "half"}
  /\ \E i \in {"half", "whole", "bad"} \ {input[w]} :
       /\ i = "half" => HalfSent
       /\ input' = [input EXCEPT ![w] = i]
  /\ UNCHANGED <<alive, monitorVars, channel, handlerVars, socketVars, worker>>

-----------------------------------------------------------------------------
HandlerStep ==
  \/ ReadRequest \/ WriteToWorker \/ WriteSigpipe
  \/ ReadSuspendAck \/ ReadSuspendAckFails \/ WriteResponse

Next ==
  \/ RequestSuspend \/ RequestResume \/ ReadResponse
  \/ HandlerStep
  \/ \E w \in Worker : WorkerStep(w)
  \/ \E w \in Worker : GuestSends(w)

Spec == Init /\ [][Next]_vars

\* The kernel schedules the threads.  Nobody owes a request or the second half
\* of a message.
FairSpec ==
  /\ Spec
  /\ WF_vars(ReadResponse)
  /\ WF_vars(HandlerStep)
  /\ \A w \in Worker : WF_vars(WorkerStep(w))

-----------------------------------------------------------------------------
(* Properties.                                                             *)

\* Between the answer to a suspend and the next request no worker runs, none has a
\* guest request or a byte of the handler before it: what a snapshot of the
\* process would miss.  "so that there is no pending state when we suspend the
\* loop" (rust/lib.rs).  A resume that is not waited for, and a suspend that
\* overtakes it, must not break this.
QuietWhileSuspended ==
  request = "none" /\ answered = "kSuspend" /\ alive =>
    \A w \in Worker : /\ worker[w] = "blocked"
                      /\ input[w] = "none"
                      /\ toWorker[w] = <<>> /\ acks[w] = 0

\* secure_env answers every request, or the process is gone.  RunLauncherAction
\* of run_cvd waits for ever in two cases only: the guest was suspended with half
\* a message sent, and a worker waits for the rest; or a suspend found the Rust
\* worker in a message that made it return, which ended the handler thread too.
RequestAnswered ==
  request # "none" ~>
    \/ request = "none" \/ ~alive
    \/ \E w \in Worker : worker[w] = "process" /\ input[w] = "half"
    \/ hop = "kSuspend" /\ hpc = "ended" /\ worker[Rust] = "ended"

\* A whole request of the guest is served, across suspends and resumes, while
\* the thread for it lives.
GuestServed ==
  \A w \in Worker :
    input[w] = "whole" ~> input[w] = "none" \/ ~alive \/ Closed(w)

\* While no resume had to be repeated, because a later step of it failed, no
\* byte of the handler surprises a worker, although a suspend may overtake the
\* resume before it.  Then secure_env dies only if a message of the guest made
\* the Rust worker return and the handler wrote to its closed socket.
NoSurprise ==
  failures = 0 => /\ \A w \in Worker : worker[w] # "gone"
                  /\ alive \/ worker[Rust] = "ended"
=============================================================================
