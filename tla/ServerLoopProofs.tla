-------------------------- MODULE ServerLoopProofs --------------------------
(***************************************************************************)
(* GuestBeforeHost and CleanRestart for any number of clients, any set of  *)
(* requests, with and without an OpenWrt VM.                               *)
(*                                                                         *)
(* Neither is inductive: what a handler may rely on at a step was          *)
(* established by the steps before it, and could have been undone by the   *)
(* failures in between.  SInv says, step by step, what a handler knows.    *)
(***************************************************************************)
EXTENDS ServerLoop, SequenceTheorems, TLAPS

Frozen(v) == vm[v] = "suspended"

\* The types that the argument needs.
DeviceTypes ==
  /\ vm \in [Vms -> {"running", "suspended"}]
  /\ step \in Steps
  /\ server \in ServerState

\* A handler is at a step only while run_cvd serves a client, and waits for the
\* process monitor only at the three steps that ask it for something.
ControlInv ==
  /\ step # "none" => server \in {"serving", "hung"}
  /\ server = "hung" => step \in {"stopping", "suspendHost", "resumeHost"}
  /\ exit # "none" => server = "gone"

\* What the steps of HandleSuspend and HandleResume know of the device.
GuestInv ==
  /\ GuestBeforeHost /\ ActiveMeansHostRuns
  /\ step = "suspendMain" /\ HasOpenwrt => Frozen("openwrt")
  /\ step = "suspendHost" => \A v \in CrosvmVms : Frozen(v)
  /\ step \in {"resumeOpenwrt", "resumeMain", "postHook"} => host \notin {"suspended", "mixed"}
  /\ monitor = "alive" => host \in {"running", "suspended", "mixed"}

\* What the steps after a stop know of the device.
StopInv ==
  /\ CleanRestart
  /\ monitor = "alive" => files # "broken"
  /\ step = "stopped" => host = "stopped" /\ monitor = "reaped" /\ files # "broken"
  /\ step = "reply" /\ after = "exit" => host = "stopped"
  /\ step = "reply" /\ after = "exec" => host = "stopped" /\ "listed" \notin fifos /\ files # "broken"
  /\ step = "exec" => host = "stopped" /\ "listed" \notin fifos /\ files # "broken"
  /\ step \in {"stopped", "exec"} => server = "serving"

SInv == DeviceTypes /\ ControlInv /\ GuestInv /\ StopInv

\* Steps of clients change sockets only, never the state of run_cvd or of the
\* device (RunLauncherAction runs in another process).
LEMMA ClientsOnly ==
  ASSUME NEW c \in Clients, Connect(c) \/ ClientStep(c) \/ GiveUp(c)
  PROVE  UNCHANGED <<serverVars, deviceVars>>
BY DEF Connect, ClientStep, GiveUp, SendRequest, SendFails, ReadResponse,
       ReadResponseEof, ReadExitCode

\* SInv mentions nothing else.
LEMMA Untouched ==
  ASSUME SInv, UNCHANGED <<serverVars, deviceVars>>
  PROVE  SInv'
BY DEF SInv, DeviceTypes, ControlInv, GuestInv, StopInv, GuestBeforeHost,
       ActiveMeansHostRuns, CleanRestart, Frozen, serverVars, deviceVars

\* The end of run_cvd for a reason other than an acknowledged stop
\* (LOG(FATAL), SIGPIPE or "process monitor has died") preserves SInv.
LEMMA Ends ==
  ASSUME SInv, NEW why \in {"fatal", "monitorDied", "sigpipe"},
         RunCvdExits(why), UNCHANGED deviceVars
  PROVE  SInv'
BY DEF SInv, DeviceTypes, ControlInv, GuestInv, StopInv, GuestBeforeHost,
       ActiveMeansHostRuns, CleanRestart, Frozen, RunCvdExits, CloseAll, deviceVars, Steps, ServerState

\* Every step of run_cvd preserves what its handlers know (SInv).
LEMMA ServerPreserves == SInv /\ ServerStep => SInv'
<1> SUFFICES ASSUME SInv, ServerStep PROVE SInv'
  OBVIOUS
<1> USE DEF SInv, DeviceTypes, ControlInv, GuestInv, StopInv, GuestBeforeHost,
            ActiveMeansHostRuns, CleanRestart, Frozen
<1>1. CASE CreateServer
  BY <1>1 DEF CreateServer, deviceVars, ServerState
<1>2. CASE StartDevice
  BY <1>2 DEF StartDevice, ServerState, Vms
<1>3. CASE StartFails
  BY <1>3, Ends DEF StartFails
<1>4. CASE DetectMonitorExit
  BY <1>4, Ends DEF DetectMonitorExit
<1>5. CASE Accept
  BY <1>5 DEF Accept, deviceVars, ServerState
<1>6. CASE ClientDisconnected
  BY <1>6 DEF ClientDisconnected, Hangup, deviceVars, ServerState
<1>7. CASE ReadRequest
  BY <1>7 DEF ReadRequest, Dispatch, Goto, Answer, deviceVars, Steps, SuspendSteps, ResumeSteps, StopSteps, SnapshotSteps
<1>8. CASE PreSuspendHook
  BY <1>8 DEF PreSuspendHook, AtStep, StepGoes, StepFails, Goto, Answer, FirstSuspendStep, deviceVars, Steps, SuspendSteps
<1>9. CASE SuspendGuest
  BY <1>9 DEF SuspendGuest, SuspendCrosvm, AtStep, StepGoes, StepFails, Goto, Answer, CrosvmVms, Vms, Steps, SuspendSteps
<1>10. CASE SuspendHost
  BY <1>10 DEF SuspendHost, RequestHost, AtStep, StepEnds, StepFails, Hangs, Answer, Steps, ServerState
<1>11. CASE ResumeHost
  BY <1>11 DEF ResumeHost, RequestHost, AtStep, StepGoes, StepFails, Hangs, Goto, Answer, FirstResumeStep, Steps, ResumeSteps, ServerState
<1>12. CASE ResumeGuest
  BY <1>12 DEF ResumeGuest, ResumeCrosvm, AtStep, StepGoes, StepFails, Goto, Answer, CrosvmVms, Vms, Steps, ResumeSteps
<1>13. CASE PostResumeHook
  BY <1>13 DEF PostResumeHook, AtStep, StepEnds, StepFails, Answer, deviceVars, Steps
<1>14. CASE TakeGuestSnapshot
  BY <1>14 DEF TakeGuestSnapshot, AtStep, StepGoes, StepEnds, StepFails, Goto, Answer, deviceVars, Steps, SnapshotSteps
<1>15. CASE Screen
  BY <1>15 DEF Screen, AtStep, StepEnds, StepFails, Answer, deviceVars, Steps
<1>16. CASE StopProcesses
  BY <1>16 DEF StopProcesses, AtStep, StepGoes, Hangs, Goto, Answer, Steps, StopSteps, ServerState
<1>17. CASE MonitorSigpipe
  BY <1>17, Ends DEF MonitorSigpipe, Sigpipe
<1>18. CASE HangEnds
  BY <1>18 DEF HangEnds, Answer, Steps, ServerState
<1>19. CASE Stopped
  BY <1>19 DEF Stopped, DeleteFifos, AtStep, Answer, Steps
<1>20. CASE ReplySigpipe
  BY <1>20, Ends DEF ReplySigpipe, Sigpipe
<1>21. CASE Reply
  BY <1>21 DEF Reply, Hangup, deviceVars, Steps, ServerState
<1>22. CASE ReplyAndExit
  BY <1>22 DEF ReplyAndExit, RunCvdExits, CloseAll, deviceVars, Steps, ServerState
<1>23. CASE RestartRunCvd
  BY <1>23 DEF RestartRunCvd, CloseAll, deviceVars, Steps, ServerState
<1>24. CASE RestartFails
  BY <1>24, Ends DEF RestartFails
<1>25. QED
  BY <1>1, <1>2, <1>3, <1>4, <1>5, <1>6, <1>7, <1>8, <1>9, <1>10, <1>11, <1>12, <1>13, <1>14, <1>15, <1>16, <1>17, <1>18, <1>19, <1>20, <1>21, <1>22, <1>23, <1>24 DEF ServerStep

\* SInv is an inductive invariant of the server loop and its clients.
THEOREM ServerInvariance == Spec => []SInv
<1>1. Init => SInv
  BY DEF Init, SInv, DeviceTypes, ControlInv, GuestInv, StopInv, Frozen,
         GuestBeforeHost, ActiveMeansHostRuns, CleanRestart, Steps, ServerState
<1>2. SInv /\ [Next]_vars => SInv'
  <2> SUFFICES ASSUME SInv, [Next]_vars PROVE SInv'
    OBVIOUS
  <2>1. CASE \E c \in Clients : Connect(c) \/ ClientStep(c) \/ GiveUp(c)
    BY <2>1, ClientsOnly, Untouched
  <2>2. CASE ServerStep
    BY <2>2, ServerPreserves
  <2>3. CASE NotifyBoot
    <3>1. /\ UNCHANGED <<server, exit, status, step, after>>
          /\ UNCHANGED deviceVars
      BY <2>3 DEF NotifyBoot
    <3>2. QED
      BY <3>1 DEF SInv, DeviceTypes, ControlInv, GuestInv, StopInv, Frozen,
                  GuestBeforeHost, ActiveMeansHostRuns, CleanRestart, deviceVars
  <2>4. CASE NotifyBootSigpipe
    BY <2>4, Ends DEF NotifyBootSigpipe, Sigpipe
  <2>5. CASE MonitorDies
    BY <2>5 DEF MonitorDies, SInv, DeviceTypes, ControlInv, GuestInv, StopInv,
                Frozen, GuestBeforeHost, ActiveMeansHostRuns, CleanRestart, serverVars
  <2>6. CASE UNCHANGED vars
    BY <2>6, Untouched DEF vars
  <2>7. QED
    BY <2>1, <2>2, <2>3, <2>4, <2>5, <2>6 DEF Next, NotifyStep
<1>3. QED
  BY <1>1, <1>2, PTL DEF Spec

\* Host processes are only ever frozen under frozen guests, whatever steps of
\* HandleSuspend and HandleResume fail and whatever requests follow.
THEOREM GuestBeforeHostHolds == Spec => []GuestBeforeHost
<1>1. SInv => GuestBeforeHost
  BY DEF SInv, GuestInv
<1>2. QED
  BY <1>1, ServerInvariance, PTL

\* Whatever steps of earlier requests failed, a device that run_cvd takes for
\* active has running host processes (device_status_ against the process monitor).
THEOREM ActiveMeansHostRunsHolds == Spec => []ActiveMeansHostRuns
<1>1. SInv => ActiveMeansHostRuns
  BY DEF SInv, GuestInv
<1>2. QED
  BY <1>1, ServerInvariance, PTL

\* run_cvd acknowledges a stop, and replaces itself (RestartRunCvd), only over a
\* device that has ended and whose FIFOs and overlay can be used again.
THEOREM CleanRestartHolds == Spec => []CleanRestart
<1>1. SInv => CleanRestart
  BY DEF SInv, StopInv
<1>2. QED
  BY <1>1, ServerInvariance, PTL

-----------------------------------------------------------------------------
(* Connections.                                                            *)

\* What the two ends of a connection know of each other.  One request is sent
\* on a connection; it gets one response, and a restart a second message.
Connection(c) ==
  /\ sock[c] = "accepted" <=> client = c
  /\ sock[c] = "notify" <=> notify = c
  /\ cpc[c] = "idle" <=> sock[c] = "none" \/ hup[c]
  /\ hup[c] => sock[c] \in {"queued", "accepted", "notify"}
  /\ inbox[c] # "none" => sock[c] \in {"queued", "accepted"}
  /\ cpc[c] = "connected" => sock[c] # "notify" /\ inbox[c] = "none"
  /\ client = c /\ step # "none" => cpc[c] # "connected" /\ inbox[c] = "none"

\* Nothing was written to the client yet, or it has closed its end.
Silent(c) ==
  \/ cpc[c] \in {"idle", "connected"} \/ sock[c] = "queued" \/ inbox[c] # "none"
  \/ client = c /\ step \notin {"none", "exec"}

\* How many responses the client has not read.
Unread(c) ==
  /\ Len(outbox[c]) <= IF sock[c] \in {"accepted", "notify"} THEN 1 ELSE 2
  /\ Silent(c) => outbox[c] = <<>>

\* run_cvd has accepted a client exactly while it serves one; those it has yet
\* to accept are queued once.
Backlog ==
  /\ client # NoClient <=> server \in {"serving", "hung"}
  /\ step # "none" => server \in {"serving", "hung"}
  /\ server = "hung" => step \in {"stopping", "suspendHost", "resumeHost"}
  /\ step = "reply" => resp # "none"
  /\ \A i \in 1 .. Len(backlog) : sock[backlog[i]] = "queued"
  /\ \A i, j \in 1 .. Len(backlog) : backlog[i] = backlog[j] => i = j

Responses == {"kSuccess", "kError", "booted", "bootFailed"}

\* TypeOK in two parts: what run_cvd keeps, and what the sockets hold.
ServerTypes ==
  /\ server \in ServerState
  /\ exit \in {"none", "stopped", "bootFailed", "monitorDied", "sigpipe", "fatal"}
  /\ status \in {"kUnknown", "kActive", "kSuspended"}
  /\ req \in Requests \cup {"none"}
  /\ step \in Steps
  /\ resp \in {"none", "kSuccess", "kError"}
  /\ after \in {"none", "read", "close", "exit", "exec"}
  /\ monitor \in {"alive", "died", "reaped"}
  /\ vm \in [Vms -> {"running", "suspended"}]
  /\ host \in {"running", "suspended", "mixed", "stopped", "leftover"}
  /\ files \in {"used", "blank", "broken"}
  /\ fifos \subseteq {"listed", "unlisted"}

SocketTypes ==
  /\ client \in Clients \cup {NoClient}
  /\ notify \in Clients \cup {NoClient}
  /\ backlog \in Seq(Clients)
  /\ sock \in [Clients -> {"none", "queued", "accepted", "notify", "closed"}]
  /\ hup \in [Clients -> BOOLEAN]
  /\ inbox \in [Clients -> Requests \cup {"none"}]
  /\ outbox \in [Clients -> Seq(Responses)]
  /\ cpc \in [Clients -> {"idle", "connected", "wait", "boot"}]
  /\ asked \in [Clients -> Requests \cup {"none"}]

Conversations == \A c \in Clients : Connection(c) /\ Unread(c)

LoopInv == ServerTypes /\ SocketTypes /\ Backlog /\ Conversations

\* A connection that a step is not about.
LEMMA Bystander ==
  ASSUME NEW d \in Clients, Connection(d), Unread(d),
         sock'[d] = sock[d], hup'[d] = hup[d], inbox'[d] = inbox[d],
         outbox'[d] = outbox[d], cpc'[d] = cpc[d],
         client' = d <=> client = d, notify' = d <=> notify = d,
         client = d => step' = step \/ (step \notin {"none", "exec"} /\ step' \notin {"none", "exec"})
  PROVE  Connection(d)' /\ Unread(d)'
BY DEF Connection, Unread, Silent

\* A step of a handler that neither reads nor writes, and the steps outside of
\* any handler that leave the sockets alone.
LEMMA QuietStep ==
  ASSUME LoopInv, ServerTypes', UNCHANGED <<client, notify, backlog, sock, hup, inbox, outbox, cpc, asked>>,
         step' = step \/ (step \notin {"none", "exec"} /\ step' \notin {"none", "exec"}),
         server' \in {"serving", "hung"} <=> server \in {"serving", "hung"},
         server' = "hung" => step' \in {"stopping", "suspendHost", "resumeHost"},
         step' = "reply" => resp' # "none"
  PROVE  LoopInv'
<1>1. SocketTypes'
  BY DEF LoopInv, SocketTypes
<1>2. Backlog'
  BY DEF LoopInv, Backlog
<1>3. Conversations'
  <2>1. \A d \in Clients : Connection(d) /\ Unread(d)
    BY DEF LoopInv, Conversations
  <2>2. ASSUME NEW d \in Clients
        PROVE  Connection(d)' /\ Unread(d)'
    BY <2>1, Bystander
  <2> QED BY <2>2 DEF Conversations
<1> QED BY <1>1, <1>2, <1>3 DEF LoopInv

\* The steps of the handlers between the request and the reply.
LEMMA HandlerSteps ==
  ASSUME LoopInv,
         \/ PreSuspendHook \/ SuspendGuest \/ SuspendHost
         \/ ResumeHost \/ ResumeGuest \/ PostResumeHook
         \/ TakeGuestSnapshot \/ Screen \/ StopProcesses \/ HangEnds \/ Stopped
  PROVE  LoopInv'
<1> DEFINE Quiet == /\ ServerTypes'
                    /\ (step \notin {"none", "exec"} /\ step' \notin {"none", "exec"})
                    /\ server \in {"serving", "hung"} /\ server' \in {"serving", "hung"}
                    /\ server' = "hung" => step' \in {"stopping", "suspendHost", "resumeHost"}
                    /\ step' = "reply" => resp' # "none"
<1>1. ServerTypes /\ Backlog
  BY DEF LoopInv
<1>2. UNCHANGED <<client, notify, backlog, sock, hup, inbox, outbox, cpc, asked>>
  BY DEF PreSuspendHook, SuspendGuest, SuspendHost, ResumeHost, ResumeGuest, PostResumeHook,
     TakeGuestSnapshot, Screen, StopProcesses, HangEnds, Stopped, DeleteFifos, SuspendCrosvm, ResumeCrosvm,
     RequestHost, AtStep, clientVars, socketVars
<1> USE DEF ServerTypes, Backlog, AtStep, StepGoes, StepFails, StepEnds, Goto, Answer, Hangs,
            Steps, SuspendSteps, ResumeSteps, StopSteps, SnapshotSteps, ServerState
<1>3. CASE PreSuspendHook
  BY <1>1, <1>2, <1>3, QuietStep DEF PreSuspendHook, FirstSuspendStep, deviceVars
<1>4. CASE SuspendGuest
  <2>a. vm' \in [Vms -> {"running", "suspended"}]
    BY <1>1, <1>4 DEF SuspendGuest, SuspendCrosvm, Vms
  <2>b. UNCHANGED <<monitor, host, files, fifos>>
    BY <1>4 DEF SuspendGuest, SuspendCrosvm
  <2>c. /\ server \in {"serving", "hung"} /\ server' = server /\ status' \in {"kUnknown", "kActive", "kSuspended"}
        /\ step \notin {"none", "exec"} /\ step' \in Steps \ {"none", "exec"}
        /\ step' = "reply" => resp' # "none"
        /\ resp' \in {"none", "kSuccess", "kError"} /\ after' \in {"none", "read", "close", "exit", "exec"}
        /\ server' = "hung" => step' \in {"stopping", "suspendHost", "resumeHost"}
    BY <1>1, <1>4 DEF SuspendGuest, SuspendCrosvm
  <2>d. UNCHANGED <<exit, req>>
    BY <1>4 DEF SuspendGuest, SuspendCrosvm
  <2>1. Quiet
    BY <1>1, <2>a, <2>b, <2>c, <2>d
  <2> QED BY <1>2, <2>1, QuietStep
<1>5. CASE SuspendHost
  <2>1. Quiet
    BY <1>1, <1>5 DEF SuspendHost, RequestHost
  <2> QED BY <1>2, <2>1, QuietStep
<1>6. CASE ResumeHost
  <2>1. Quiet
    BY <1>1, <1>6 DEF ResumeHost, RequestHost, FirstResumeStep
  <2> QED BY <1>2, <2>1, QuietStep
<1>7. CASE ResumeGuest
  <2>a. vm' \in [Vms -> {"running", "suspended"}]
    BY <1>1, <1>7 DEF ResumeGuest, ResumeCrosvm, Vms
  <2>b. UNCHANGED <<monitor, host, files, fifos>>
    BY <1>7 DEF ResumeGuest, ResumeCrosvm
  <2>c. /\ server \in {"serving", "hung"} /\ server' = server /\ status' \in {"kUnknown", "kActive", "kSuspended"}
        /\ step \notin {"none", "exec"} /\ step' \in Steps \ {"none", "exec"}
        /\ step' = "reply" => resp' # "none"
        /\ resp' \in {"none", "kSuccess", "kError"} /\ after' \in {"none", "read", "close", "exit", "exec"}
        /\ server' = "hung" => step' \in {"stopping", "suspendHost", "resumeHost"}
    BY <1>1, <1>7 DEF ResumeGuest, ResumeCrosvm
  <2>d. UNCHANGED <<exit, req>>
    BY <1>7 DEF ResumeGuest, ResumeCrosvm
  <2>1. Quiet
    BY <1>1, <2>a, <2>b, <2>c, <2>d
  <2> QED BY <1>2, <2>1, QuietStep
<1>8. CASE PostResumeHook
  <2>1. Quiet
    BY <1>1, <1>8 DEF PostResumeHook, deviceVars
  <2> QED BY <1>2, <2>1, QuietStep
<1>9. CASE TakeGuestSnapshot
  <2>1. Quiet
    BY <1>1, <1>9 DEF TakeGuestSnapshot, deviceVars
  <2> QED BY <1>2, <2>1, QuietStep
<1>10. CASE Screen
  <2>1. Quiet
    BY <1>1, <1>10 DEF Screen, deviceVars
  <2> QED BY <1>2, <2>1, QuietStep
<1>11. CASE StopProcesses
  <2>1. Quiet
    BY <1>1, <1>11 DEF StopProcesses
  <2> QED BY <1>2, <2>1, QuietStep
<1>12. CASE HangEnds
  <2>1. Quiet
    BY <1>1, <1>12 DEF HangEnds
  <2> QED BY <1>2, <2>1, QuietStep
<1>13. CASE Stopped
  <2>a. fifos' \subseteq {"listed", "unlisted"}
    BY <1>1, <1>13 DEF Stopped, DeleteFifos
  <2>1. Quiet
    BY <1>1, <1>13, <2>a DEF Stopped
  <2> QED BY <1>2, <2>1, QuietStep
<1> QED BY <1>3, <1>4, <1>5, <1>6, <1>7, <1>8, <1>9, <1>10, <1>11, <1>12, <1>13

\* run_cvd and its device change without a look at the sockets.
LEMMA DeviceSteps ==
  ASSUME LoopInv, CreateServer \/ StartDevice \/ MonitorDies
  PROVE  LoopInv'
<1>1. ServerTypes /\ Backlog
  BY DEF LoopInv
<1>2. UNCHANGED <<client, notify, backlog, sock, hup, inbox, outbox, cpc, asked, step, resp>>
  BY DEF CreateServer, StartDevice, MonitorDies, clientVars, socketVars, serverVars
<1>3. /\ ServerTypes'
      /\ server' \in {"serving", "hung"} <=> server \in {"serving", "hung"}
      /\ server' = "hung" => server = "hung"
  BY <1>1 DEF CreateServer, StartDevice, MonitorDies, serverVars, deviceVars, ServerTypes,
              ServerState
<1> QED BY <1>1, <1>2, <1>3, QuietStep DEF Backlog

\* One connection changes, and run_cvd does not.
LEMMA ClientSide ==
  ASSUME LoopInv, NEW c \in Clients, UNCHANGED <<serverVars, deviceVars>>,
         SocketTypes', Backlog', Connection(c)', Unread(c)',
         \A d \in Clients \ {c} :
            /\ sock'[d] = sock[d] /\ hup'[d] = hup[d] /\ inbox'[d] = inbox[d]
            /\ outbox'[d] = outbox[d] /\ cpc'[d] = cpc[d]
  PROVE  LoopInv'
<1>1. ServerTypes'
  BY DEF LoopInv, ServerTypes, serverVars, deviceVars
<1>2. \A d \in Clients : Connection(d) /\ Unread(d)
  BY DEF LoopInv, Conversations
<1>3. client' = client /\ notify' = notify /\ step' = step
  BY DEF serverVars
<1>4. ASSUME NEW d \in Clients \ {c} PROVE Connection(d)' /\ Unread(d)'
  BY <1>2, <1>3, Bystander
<1> QED BY <1>1, <1>4 DEF LoopInv, Conversations

\* GetLauncherMonitorFromInstance and the write of the request.
LEMMA Requesting ==
  ASSUME LoopInv, NEW c \in Clients, Connect(c) \/ SendRequest(c)
  PROVE  LoopInv'
<1>1. SocketTypes /\ Backlog /\ Connection(c) /\ Unread(c)
  BY DEF LoopInv, Conversations
<1>2. CASE Connect(c)
  <2>1. /\ UNCHANGED <<serverVars, deviceVars>>
        /\ UNCHANGED <<client, notify, server, step, resp>>
        /\ UNCHANGED <<hup, inbox, outbox, asked>>
        /\ sock' = [sock EXCEPT ![c] = "queued"]
        /\ cpc' = [cpc EXCEPT ![c] = "connected"]
        /\ backlog' = Append(backlog, c)
        /\ sock[c] = "none" /\ cpc[c] = "idle"
    BY <1>2 DEF Connect, serverVars
  <2>2. /\ backlog' \in Seq(Clients) /\ Len(backlog') = Len(backlog) + 1
        /\ backlog'[Len(backlog) + 1] = c
        /\ \A i \in 1 .. Len(backlog) : backlog'[i] = backlog[i]
        /\ Len(backlog) \in Nat
    BY <1>1, <2>1, AppendProperties, LenProperties DEF SocketTypes
  <2>3. SocketTypes'
    BY <1>1, <2>1, <2>2 DEF SocketTypes
  <2>4. Backlog'
    <3>1. \A i \in 1 .. Len(backlog) : backlog[i] # c /\ backlog[i] \in Clients
      BY <1>1, <2>1, ElementOfSeq DEF Backlog, SocketTypes
    <3>2. \A i \in 1 .. Len(backlog) : sock'[backlog[i]] = "queued"
      BY <1>1, <2>1, <3>1 DEF Backlog, SocketTypes
    <3>3. \A i \in 1 .. Len(backlog') : i \in 1 .. Len(backlog) \/ i = Len(backlog) + 1
      BY <2>2
    <3>4. \A i \in 1 .. Len(backlog') : sock'[backlog'[i]] = "queued"
      BY <1>1, <2>1, <2>2, <3>2, <3>3 DEF SocketTypes
    <3>5. \A i, j \in 1 .. Len(backlog') : backlog'[i] = backlog'[j] => i = j
      BY <1>1, <2>2, <3>1, <3>3 DEF Backlog
    <3> QED BY <1>1, <2>1, <3>4, <3>5 DEF Backlog
  <2>5. Connection(c)' /\ Unread(c)'
    BY <1>1, <2>1 DEF SocketTypes, Connection, Unread, Silent
  <2>6. \A d \in Clients \ {c} : sock'[d] = sock[d] /\ cpc'[d] = cpc[d]
    BY <1>1, <2>1 DEF SocketTypes
  <2> QED BY <2>1, <2>3, <2>4, <2>5, <2>6, ClientSide
<1>3. CASE SendRequest(c)
  <2>1. PICK r \in Requests : /\ inbox' = [inbox EXCEPT ![c] = r]
                              /\ asked' = [asked EXCEPT ![c] = r]
    BY <1>3 DEF SendRequest
  <2>2. /\ UNCHANGED <<serverVars, deviceVars>>
        /\ UNCHANGED <<client, notify, server, step, resp>>
        /\ UNCHANGED <<hup, backlog, outbox, sock>>
        /\ cpc' = [cpc EXCEPT ![c] = "wait"]
        /\ cpc[c] = "connected" /\ sock[c] # "closed"
    BY <1>3 DEF SendRequest, serverVars
  <2>3. SocketTypes' /\ Backlog'
    BY <1>1, <2>1, <2>2 DEF SocketTypes, Backlog
  <2>4. Connection(c)'
    BY <1>1, <2>1, <2>2 DEF SocketTypes, Connection
  <2>5. Unread(c)'
    BY <1>1, <2>1, <2>2 DEF SocketTypes, Connection, Unread, Silent
  <2>6. \A d \in Clients \ {c} : inbox'[d] = inbox[d] /\ cpc'[d] = cpc[d]
    BY <1>1, <2>1, <2>2 DEF SocketTypes
  <2> QED BY <2>2, <2>3, <2>4, <2>5, <2>6, ClientSide
<1> QED BY <1>2, <1>3

\* A client reads, or leaves.
LEMMA Reading ==
  ASSUME LoopInv, NEW c \in Clients, UNCHANGED <<serverVars, deviceVars, backlog, inbox>>,
         cpc[c] # "idle",
         \/ Disconnect(c)
         \/ /\ cpc[c] = "wait" /\ cpc' = [cpc EXCEPT ![c] = "boot"]
            /\ outbox' = [outbox EXCEPT ![c] = IF @ = <<>> THEN @ ELSE Tail(@)]
            /\ UNCHANGED <<sock, hup, asked>>
  PROVE  LoopInv'
<1>1. SocketTypes /\ Backlog /\ Connection(c) /\ Unread(c)
  BY DEF LoopInv, Conversations
<1>2. UNCHANGED <<client, notify, server, step, resp>>
  BY DEF serverVars
<1>3. CASE Disconnect(c)
  <2>1. /\ asked' = [asked EXCEPT ![c] = "none"]
        /\ cpc' = [cpc EXCEPT ![c] = "idle"]
        /\ outbox' = [outbox EXCEPT ![c] = <<>>]
        /\ sock' = [sock EXCEPT ![c] = IF sock[c] = "closed" THEN "none" ELSE sock[c]]
        /\ hup' = [hup EXCEPT ![c] = sock[c] # "closed"]
    BY <1>3 DEF Disconnect
  <2>2. <<>> \in Seq(Responses) /\ Len(<<>>) = 0
    OBVIOUS
  <2>3. SocketTypes'
    BY <1>1, <1>2, <2>1, <2>2 DEF SocketTypes
  <2>4. Backlog'
    <3>1. \A i \in 1 .. Len(backlog) : backlog[i] \in Clients
      BY <1>1, ElementOfSeq DEF SocketTypes
    <3>2. \A i \in 1 .. Len(backlog) : sock'[backlog[i]] = "queued"
      BY <1>1, <2>1, <3>1 DEF SocketTypes, Backlog
    <3> QED BY <1>1, <1>2, <3>2 DEF Backlog
  <2>5. /\ cpc'[c] = "idle" /\ outbox'[c] = <<>>
        /\ sock'[c] = IF sock[c] = "closed" THEN "none" ELSE sock[c]
        /\ hup'[c] = (sock[c] # "closed")
    BY <1>1, <2>1 DEF SocketTypes
  <2>6. Connection(c)'
    BY <1>1, <1>2, <2>5 DEF Connection, SocketTypes
  <2>7. Unread(c)'
    BY <2>2, <2>5 DEF Unread, Silent
  <2>8. \A d \in Clients \ {c} : /\ sock'[d] = sock[d] /\ hup'[d] = hup[d]
                                 /\ outbox'[d] = outbox[d] /\ cpc'[d] = cpc[d]
    BY <1>1, <2>1 DEF SocketTypes
  <2> QED BY <2>3, <2>4, <2>6, <2>7, <2>8, ClientSide
<1>4. CASE ~Disconnect(c)
  <2> DEFINE rest == IF outbox[c] = <<>> THEN outbox[c] ELSE Tail(outbox[c])
  <2>1. /\ cpc[c] = "wait" /\ cpc' = [cpc EXCEPT ![c] = "boot"]
        /\ outbox' = [outbox EXCEPT ![c] = rest]
        /\ UNCHANGED <<sock, hup, asked>>
    BY <1>4
  <2>2. rest \in Seq(Responses) /\ Len(rest) <= Len(outbox[c])
    <3>1. outbox[c] \in Seq(Responses)
      BY <1>1 DEF SocketTypes
    <3>2. CASE outbox[c] = <<>>
      BY <3>1, <3>2, LenProperties
    <3>3. CASE outbox[c] # <<>>
      BY <3>1, <3>3, HeadTailProperties, LenProperties
    <3> QED BY <3>2, <3>3
  <2>3. outbox[c] = <<>> => rest = <<>>
    OBVIOUS
  <2> HIDE DEF rest
  <2>4. SocketTypes' /\ Backlog'
    BY <1>1, <1>2, <2>1, <2>2 DEF SocketTypes, Backlog
  <2>5. cpc'[c] = "boot" /\ outbox'[c] = rest
    BY <1>1, <2>1 DEF SocketTypes
  <2>6. Connection(c)'
    BY <1>1, <1>2, <2>1, <2>5 DEF Connection
  <2>7. Unread(c)'
    <3>1. Silent(c)' => Silent(c)
      BY <1>2, <2>1, <2>5 DEF Silent
    <3>2. Len(outbox[c]) \in Nat /\ Len(rest) \in Nat
      BY <1>1, <2>2, LenProperties DEF SocketTypes
    <3> QED BY <1>1, <2>1, <2>2, <2>3, <2>5, <3>1, <3>2 DEF Unread
  <2>8. \A d \in Clients \ {c} : outbox'[d] = outbox[d] /\ cpc'[d] = cpc[d]
    BY <1>1, <2>1 DEF SocketTypes
  <2> QED BY <2>1, <2>4, <2>6, <2>7, <2>8, ClientSide
<1> QED BY <1>3, <1>4

\* The steps of RunLauncherAction and ReadExitCode keep LoopInv.
LEMMA ClientSteps ==
  ASSUME LoopInv, NEW c \in Clients, Connect(c) \/ ClientStep(c) \/ GiveUp(c)
  PROVE  LoopInv'
<1>1. CASE Connect(c) \/ SendRequest(c)
  BY <1>1, Requesting
<1>2. CASE SendFails(c) \/ GiveUp(c) \/ ReadExitCode(c)
  BY <1>2, Reading DEF SendFails, GiveUp, ReadExitCode
<1>3. CASE ReadResponse(c)
  BY <1>3, Reading DEF ReadResponse, Conclude
<1>4. CASE ReadResponseEof(c)
  BY <1>4, Reading DEF ReadResponseEof, Conclude
<1> QED BY <1>1, <1>2, <1>3, <1>4 DEF ClientStep

\* run_cvd changes one connection: the others are left alone.
LEMMA ServerSide ==
  ASSUME LoopInv, NEW c \in Clients, UNCHANGED cpc,
         ServerTypes', SocketTypes', Backlog', Connection(c)', Unread(c)',
         \A d \in Clients \ {c} :
            /\ sock'[d] = sock[d] /\ hup'[d] = hup[d] /\ inbox'[d] = inbox[d]
            /\ outbox'[d] = outbox[d]
            /\ client' = d <=> client = d
            /\ notify' = d <=> notify = d
            /\ client = d => step' = step
  PROVE  LoopInv'
<1>1. \A d \in Clients : Connection(d) /\ Unread(d)
  BY DEF LoopInv, Conversations
<1>2. ASSUME NEW d \in Clients \ {c} PROVE Connection(d)' /\ Unread(d)'
  BY <1>1, Bystander
<1> QED BY <1>2 DEF LoopInv, Conversations

\* run_cvd ends or replaces itself, after it may have written a last response.
LEMMA Closing ==
  ASSUME LoopInv, NEW keep \in Clients \cup {NoClient},
         keep # NoClient => keep = client /\ step # "none",
         CloseAll(keep), ServerTypes', server' \notin {"serving", "hung"},
         UNCHANGED <<cpc, asked>>, outbox' \in [Clients -> Seq(Responses)],
         \A c \in Clients :
            \/ outbox'[c] = outbox[c]
            \/ /\ c = client /\ c # keep /\ ~hup[c] /\ step # "none"
               /\ Len(outbox'[c]) <= 2
  PROVE  LoopInv'
<1>1. SocketTypes /\ Backlog /\ NoClient \notin Clients
  BY ServerLoopAssumption DEF LoopInv
<1>2. /\ client' = NoClient /\ notify' = keep /\ backlog' = <<>>
      /\ req' = "none" /\ step' = "none" /\ resp' = "none" /\ after' = "none"
      /\ hup' = [c \in Clients |-> c = keep /\ hup[c]]
      /\ inbox' = [c \in Clients |-> "none"]
  BY DEF CloseAll
<1>3. /\ sock' \in [Clients -> {"none", "queued", "accepted", "notify", "closed"}]
      /\ \A c \in Clients :
           /\ c = keep => sock'[c] = "notify"
           /\ c # keep /\ (sock[c] = "none" \/ hup[c]) => sock'[c] = "none"
           /\ c # keep /\ ~(sock[c] = "none" \/ hup[c]) => sock'[c] = "closed"
  BY DEF CloseAll
<1>4. SocketTypes'
  <2>1. <<>> \in Seq(Clients)
    OBVIOUS
  <2> QED BY <1>1, <1>2, <1>3, <2>1 DEF SocketTypes
<1>5. Backlog'
  <2>1. Len(<<>>) = 0
    OBVIOUS
  <2> QED BY <1>2, <2>1 DEF Backlog
<1>6. ASSUME NEW c \in Clients PROVE Connection(c)' /\ Unread(c)'
  <2>1. Connection(c) /\ Unread(c)
    BY DEF LoopInv, Conversations
  <2>2. hup'[c] = (c = keep /\ hup[c]) /\ inbox'[c] = "none" /\ cpc'[c] = cpc[c]
    BY <1>2
  <2>3. Connection(c)'
    BY <1>1, <1>2, <1>3, <2>1, <2>2 DEF Connection
  <2>4. Silent(c)' => cpc[c] \in {"idle", "connected"}
    BY <1>1, <1>2, <1>3, <2>2 DEF Silent
  <2>5. Len(outbox[c]) \in Nat /\ Len(outbox'[c]) \in Nat
    BY <1>1, LenProperties DEF SocketTypes
  <2>6. CASE outbox'[c] = outbox[c]
    <3>1. Silent(c)' => outbox'[c] = <<>>
      BY <2>1, <2>4, <2>6 DEF Unread, Silent
    <3>2. c = keep => sock[c] = "accepted"
      BY <1>1, <2>1 DEF Connection
    <3>3. Len(outbox'[c]) <= IF sock'[c] \in {"accepted", "notify"} THEN 1 ELSE 2
      <4>1. CASE c = keep
        BY <2>1, <2>6, <3>2, <4>1 DEF Unread
      <4>2. CASE c # keep
        BY <1>3, <2>1, <2>5, <2>6, <4>2 DEF Unread
      <4> QED BY <4>1, <4>2
    <3> QED BY <2>3, <3>1, <3>3, Zenon DEF Unread
  <2>7. CASE outbox'[c] # outbox[c]
    <3>1. c = client /\ c # keep /\ ~hup[c] /\ step # "none" /\ Len(outbox'[c]) <= 2
      BY <2>7
    <3>2. cpc[c] \notin {"idle", "connected"}
      BY <2>1, <3>1 DEF Connection
    <3>3. sock'[c] \notin {"accepted", "notify"}
      BY <1>3, <3>1
    <3>4. ~Silent(c)'
      BY <2>4, <3>2
    <3>5. Len(outbox'[c]) <= IF sock'[c] \in {"accepted", "notify"} THEN 1 ELSE 2
      BY <3>1, <3>3
    <3> QED BY <2>3, <3>4, <3>5, Zenon DEF Unread
  <2> QED BY <2>3, <2>6, <2>7
<1> QED BY <1>4, <1>5, <1>6 DEF LoopInv, Conversations

\* What a response does to the socket of the client it is written to.
LEMMA Writing ==
  ASSUME SocketTypes, NEW c \in Clients, NEW r \in Responses, NEW box,
         box = [outbox EXCEPT ![c] = Append(@, r)]
  PROVE  /\ box \in [Clients -> Seq(Responses)]
         /\ \A d \in Clients \ {c} : box[d] = outbox[d]
         /\ Len(box[c]) = Len(outbox[c]) + 1 /\ Len(outbox[c]) \in Nat
<1>1. outbox[c] \in Seq(Responses) /\ outbox \in [Clients -> Seq(Responses)]
  BY DEF SocketTypes
<1>2. Append(outbox[c], r) \in Seq(Responses) /\ Len(Append(outbox[c], r)) = Len(outbox[c]) + 1
  BY <1>1, AppendProperties
<1>3. Len(outbox[c]) \in Nat
  BY <1>1, LenProperties
<1> QED BY <1>1, <1>2, <1>3

\* The ends of run_cvd that write nothing, and execv.
LEMMA EndSteps ==
  ASSUME LoopInv,
         \/ StartFails \/ DetectMonitorExit \/ MonitorSigpipe \/ ReplySigpipe
         \/ NotifyBootSigpipe \/ RestartRunCvd
  PROVE  LoopInv'
<1>1. ServerTypes /\ SocketTypes /\ Backlog
  BY DEF LoopInv
<1>2. UNCHANGED <<outbox, deviceVars, clientVars>>
  BY DEF StartFails, DetectMonitorExit, MonitorSigpipe, ReplySigpipe, NotifyBootSigpipe,
         RestartRunCvd, Sigpipe
<1>3. outbox' \in [Clients -> Seq(Responses)] /\ UNCHANGED <<outbox, cpc, asked>>
  BY <1>1, <1>2 DEF SocketTypes, clientVars
<1>4. CASE RestartRunCvd
  <2>1. server' = "down" /\ status' = "kUnknown" /\ exit' = exit /\ CloseAll(client)
    BY <1>4 DEF RestartRunCvd
  <2>2. ServerTypes'
    BY <1>1, <1>2, <2>1 DEF ServerTypes, ServerState, Steps, CloseAll, deviceVars
  <2>3. client \in Clients \cup {NoClient} /\ step = "exec"
    BY <1>1, <1>4 DEF SocketTypes, RestartRunCvd
  <2> QED BY <1>3, <2>1, <2>2, <2>3, Closing
<1>5. CASE ~RestartRunCvd
  <2>1. PICK why \in {"fatal", "monitorDied", "sigpipe"} : RunCvdExits(why)
    BY <1>5 DEF StartFails, DetectMonitorExit, MonitorSigpipe, ReplySigpipe,
                NotifyBootSigpipe, Sigpipe
  <2>2. server' = "gone" /\ exit' = why /\ status' = status /\ CloseAll(NoClient)
    BY <2>1 DEF RunCvdExits
  <2>3. ServerTypes'
    BY <1>1, <1>2, <2>2 DEF ServerTypes, ServerState, Steps, CloseAll, deviceVars
  <2> QED BY <1>3, <2>2, <2>3, Closing
<1> QED BY <1>4, <1>5

\* The ends of run_cvd that answer the client first.
LEMMA LastWords ==
  ASSUME LoopInv, ReplyAndExit \/ RestartFails
  PROVE  LoopInv'
<1>1. ServerTypes /\ SocketTypes /\ Backlog /\ NoClient \notin Clients
  BY ServerLoopAssumption DEF LoopInv
<1>2. /\ server = "serving" /\ step \in {"reply", "exec"}
      /\ UNCHANGED <<deviceVars, clientVars>>
  BY DEF ReplyAndExit, RestartFails
<1>3. client \in Clients
  BY <1>1, <1>2 DEF SocketTypes, Backlog
<1>4. Connection(client) /\ Unread(client)
  BY <1>3 DEF LoopInv, Conversations
<1>5. Len(outbox[client]) <= 1 /\ (step = "reply" => Len(outbox[client]) = 0)
  <2>1. Len(<<>>) = 0
    OBVIOUS
  <2> QED BY <1>3, <1>4, <2>1 DEF Connection, Unread, Silent
<1>6. PICK why \in {"fatal", "sigpipe", "bootFailed", "stopped"} : RunCvdExits(why)
  BY DEF ReplyAndExit, RestartFails
<1>7. server' = "gone" /\ exit' = why /\ status' = status /\ CloseAll(NoClient)
  BY <1>6 DEF RunCvdExits
<1>8. ServerTypes'
  BY <1>1, <1>2, <1>7 DEF ServerTypes, ServerState, Steps, CloseAll, deviceVars
<1>9. PICK r \in Responses :
        \/ outbox' = outbox
        \/ ~hup[client] /\ outbox' = [outbox EXCEPT ![client] = Append(@, r)]
  <2>1. CASE ReplyAndExit
    <3>1. resp \in Responses
      BY <1>1, <2>1 DEF ReplyAndExit, ServerTypes, Backlog, Responses
    <3> QED BY <2>1, <3>1 DEF ReplyAndExit
  <2>2. CASE RestartFails
    <3>1. "kError" \in Responses
      BY DEF Responses
    <3>2. CASE hup[client]
      <4>1. outbox' = [outbox EXCEPT ![client] = outbox[client]] \/ outbox' = outbox
        BY <2>2, <3>2 DEF RestartFails
      <4> QED BY <1>1, <3>1, <4>1 DEF SocketTypes
    <3>3. CASE ~hup[client]
      BY <2>2, <3>1, <3>3 DEF RestartFails
    <3> QED BY <3>2, <3>3
  <2> QED BY <2>1, <2>2
<1>10. UNCHANGED <<cpc, asked>>
  BY <1>2 DEF clientVars
<1>11. CASE outbox' = outbox
  BY <1>1, <1>7, <1>8, <1>10, <1>11, Closing DEF SocketTypes
<1>12. CASE ~hup[client] /\ outbox' = [outbox EXCEPT ![client] = Append(@, r)]
  <2>1. /\ outbox' \in [Clients -> Seq(Responses)]
        /\ \A d \in Clients \ {client} : outbox'[d] = outbox[d]
        /\ Len(outbox'[client]) = Len(outbox[client]) + 1 /\ Len(outbox[client]) \in Nat
    BY <1>1, <1>3, <1>12, Writing
  <2>2. \A c \in Clients :
            \/ outbox'[c] = outbox[c]
            \/ /\ c = client /\ c # NoClient /\ ~hup[c] /\ step # "none"
               /\ Len(outbox'[c]) <= 2
    BY <1>1, <1>2, <1>5, <1>12, <2>1
  <2> QED BY <1>7, <1>8, <1>10, <2>1, <2>2, Closing
<1> QED BY <1>9, <1>11, <1>12

\* The loop takes the next client from the backlog.
LEMMA Accepting == ASSUME LoopInv, Accept PROVE LoopInv'
<1>1. ServerTypes /\ SocketTypes /\ Backlog /\ NoClient \notin Clients
  BY ServerLoopAssumption DEF LoopInv
<1>2. /\ server = "select" /\ backlog # <<>>
      /\ server' = "serving" /\ client' = Head(backlog) /\ backlog' = Tail(backlog)
      /\ sock' = [sock EXCEPT ![Head(backlog)] = "accepted"]
      /\ UNCHANGED <<exit, status, req, step, resp, after, notify, monitor, vm, host, files,
                     fifos, hup, inbox, outbox, cpc, asked>>
  BY DEF Accept, deviceVars, clientVars
<1>2a. /\ Head(backlog) = backlog[1] /\ Head(backlog) \in Clients
       /\ Len(backlog) \in Nat /\ Len(backlog) >= 1
       /\ Tail(backlog) \in Seq(Clients) /\ Len(Tail(backlog)) = Len(backlog) - 1
       /\ \A i \in 1 .. Len(Tail(backlog)) : Tail(backlog)[i] = backlog[i + 1]
  <2>1. backlog \in Seq(Clients)
    BY <1>1 DEF SocketTypes
  <2> QED BY <1>2, <2>1, HeadTailProperties, LenProperties, EmptySeq, ElementOfSeq
<1>2b. PICK c \in Clients : c = Head(backlog)
  BY <1>2a
<1>3. /\ c = backlog[1] /\ Len(backlog) \in Nat /\ Len(backlog) >= 1
      /\ Tail(backlog) \in Seq(Clients) /\ Len(Tail(backlog)) = Len(backlog) - 1
      /\ \A i \in 1 .. Len(Tail(backlog)) : Tail(backlog)[i] = backlog[i + 1]
      /\ client' = c /\ sock' = [sock EXCEPT ![c] = "accepted"]
  BY <1>2, <1>2a, <1>2b
<1>4. Connection(c) /\ Unread(c) /\ sock[c] = "queued"
  BY <1>1, <1>3 DEF LoopInv, Conversations, Backlog
<1>5. client = NoClient /\ step = "none"
  BY <1>1, <1>2 DEF Backlog
<1>6. ServerTypes'
  BY <1>1, <1>2 DEF ServerTypes, ServerState
<1>7. SocketTypes'
  BY <1>1, <1>2, <1>3 DEF SocketTypes
<1>8. Backlog'
  <2>1. ASSUME NEW i \in 1 .. Len(backlog')
        PROVE  /\ i + 1 \in 1 .. Len(backlog) /\ backlog'[i] = backlog[i + 1]
               /\ backlog'[i] # c /\ backlog'[i] \in Clients
    <3>1. i + 1 \in 1 .. Len(backlog) /\ backlog'[i] = backlog[i + 1] /\ i + 1 # 1
          /\ 1 \in 1 .. Len(backlog)
      BY <1>2, <1>3
    <3>2. backlog[i + 1] # backlog[1]
      BY <1>1, <3>1 DEF Backlog
    <3>3. backlog[i + 1] \in Clients
      BY <1>1, <3>1, ElementOfSeq DEF SocketTypes
    <3> QED BY <1>3, <3>1, <3>2, <3>3
  <2>2. \A i \in 1 .. Len(backlog') : sock'[backlog'[i]] = "queued"
    <3> TAKE i \in 1 .. Len(backlog')
    <3>1. sock'[backlog'[i]] = sock[backlog[i + 1]]
      BY <1>1, <1>3, <2>1 DEF SocketTypes
    <3> QED BY <1>1, <2>1, <3>1 DEF Backlog
  <2>3. \A i, j \in 1 .. Len(backlog') : backlog'[i] = backlog'[j] => i = j
    <3> TAKE i, j \in 1 .. Len(backlog')
    <3>1. backlog'[i] = backlog'[j] => i + 1 = j + 1
      BY <1>1, <2>1 DEF Backlog
    <3>2. i \in Int /\ j \in Int
      OBVIOUS
    <3> QED BY <3>1, <3>2
  <2> QED BY <1>1, <1>2, <1>3, <1>5, <2>2, <2>3 DEF Backlog
<1>9. sock'[c] = "accepted"
  BY <1>1, <1>2, <1>3 DEF SocketTypes
<1>10. Connection(c)'
  BY <1>2, <1>4, <1>5, <1>9 DEF Connection
<1>11. Unread(c)'
  <2>1. outbox[c] = <<>> /\ Len(<<>>) = 0
    BY <1>4 DEF Unread, Silent
  <2> QED BY <1>2, <2>1 DEF Unread
<1>12. \A d \in Clients \ {c} : /\ sock'[d] = sock[d]
                                /\ client' = d <=> client = d
  BY <1>1, <1>2, <1>3, <1>5 DEF SocketTypes
<1> QED BY <1>2, <1>3, <1>6, <1>7, <1>8, <1>10, <1>11, <1>12, ServerSide

\* The loop closes a connection that the client has left.
LEMMA Leaving == ASSUME LoopInv, ClientDisconnected PROVE LoopInv'
<1>1. ServerTypes /\ SocketTypes /\ Backlog /\ NoClient \notin Clients
  BY ServerLoopAssumption DEF LoopInv
<1>2. /\ server = "serving" /\ step = "none" /\ hup[client] /\ Hangup(client)
      /\ server' = "select" /\ client' = NoClient
      /\ UNCHANGED <<exit, status, req, step, resp, after, notify, monitor, vm, host, files,
                     fifos, backlog, outbox, cpc, asked>>
  BY DEF ClientDisconnected, deviceVars, clientVars
<1>3. PICK c \in Clients : c = client
  BY <1>1, <1>2 DEF SocketTypes, Backlog
<1>4. Connection(c) /\ Unread(c)
  BY DEF LoopInv, Conversations
<1>5. /\ sock' = [sock EXCEPT ![c] = "none"]
      /\ hup' = [hup EXCEPT ![c] = FALSE]
      /\ inbox' = [inbox EXCEPT ![c] = "none"]
  BY <1>2, <1>3 DEF Hangup
<1>6. ServerTypes' /\ SocketTypes'
  BY <1>1, <1>2, <1>5 DEF ServerTypes, SocketTypes, ServerState
<1>7. sock'[c] = "none" /\ ~hup'[c] /\ inbox'[c] = "none"
  BY <1>1, <1>5 DEF SocketTypes
<1>8. Backlog'
  <2>1. \A i \in 1 .. Len(backlog) : backlog[i] \in Clients /\ backlog[i] # c
    BY <1>1, <1>3, <1>4, ElementOfSeq DEF SocketTypes, Backlog, Connection
  <2>2. \A i \in 1 .. Len(backlog) : sock'[backlog[i]] = "queued"
    BY <1>1, <1>5, <2>1 DEF SocketTypes, Backlog
  <2> QED BY <1>1, <1>2, <2>2 DEF Backlog
<1>9. Connection(c)'
  BY <1>1, <1>2, <1>3, <1>4, <1>7 DEF Connection
<1>10. Unread(c)'
  <2>1. outbox'[c] = <<>> /\ Len(<<>>) = 0
    BY <1>2, <1>3, <1>4 DEF Unread, Silent, Connection
  <2> QED BY <1>7, <2>1 DEF Unread
<1>11. \A d \in Clients \ {c} : /\ sock'[d] = sock[d] /\ hup'[d] = hup[d]
                                /\ inbox'[d] = inbox[d]
                                /\ client' = d <=> client = d
  BY <1>1, <1>2, <1>3, <1>5 DEF SocketTypes
<1> QED BY <1>2, <1>6, <1>8, <1>9, <1>10, <1>11, ServerSide

\* ReadRequest and the dispatch: the client hears nothing before the reply.
LEMMA Serving == ASSUME LoopInv, ReadRequest PROVE LoopInv'
<1>1. ServerTypes /\ SocketTypes /\ Backlog /\ NoClient \notin Clients
  BY ServerLoopAssumption DEF LoopInv
<1>2. /\ server = "serving" /\ step = "none" /\ inbox[client] # "none"
      /\ req' = inbox[client] /\ inbox' = [inbox EXCEPT ![client] = "none"]
      /\ UNCHANGED <<server, exit, status, client, notify, monitor, vm, host, files, fifos,
                     backlog, sock, hup, outbox, cpc, asked>>
  BY DEF ReadRequest, deviceVars, clientVars
<1>3. PICK c \in Clients : c = client
  BY <1>1, <1>2 DEF SocketTypes, Backlog
<1>4. Connection(c) /\ Unread(c)
  BY DEF LoopInv, Conversations
<1>5. /\ step' \in Steps /\ step' \notin {"none", "exec"}
      /\ resp' \in {"none", "kSuccess", "kError"}
      /\ after' \in {"none", "read", "close", "exit", "exec"}
      /\ step' = "reply" => resp' # "none"
  BY <1>1 DEF ReadRequest, Dispatch, Goto, Answer, ServerTypes, Steps, SuspendSteps,
              ResumeSteps, StopSteps, SnapshotSteps
<1>6. /\ inbox' = [inbox EXCEPT ![c] = "none"] /\ inbox[c] # "none"
      /\ inbox[c] \in Requests \cup {"none"} /\ req' = inbox[c] /\ inbox'[c] = "none"
  BY <1>1, <1>2, <1>3 DEF SocketTypes
<1>7. ServerTypes'
  BY <1>1, <1>2, <1>5, <1>6 DEF ServerTypes
<1>8. SocketTypes' /\ Backlog'
  BY <1>1, <1>2, <1>5, <1>6 DEF SocketTypes, Backlog
<1>9. Connection(c)'
  BY <1>2, <1>3, <1>4, <1>6 DEF Connection
<1>10. Unread(c)'
  <2>1. outbox'[c] = <<>> /\ Len(<<>>) = 0
    BY <1>2, <1>4, <1>6 DEF Unread, Silent
  <2> QED BY <2>1 DEF Unread
<1>11. \A d \in Clients \ {c} : inbox'[d] = inbox[d] /\ client # d
  BY <1>1, <1>3, <1>6 DEF SocketTypes
<1> QED BY <1>2, <1>7, <1>8, <1>9, <1>10, <1>11, ServerSide

\* The reply, after which run_cvd reads on, closes or replaces itself.
LEMMA Replying == ASSUME LoopInv, Reply PROVE LoopInv'
<1>1. ServerTypes /\ SocketTypes /\ Backlog /\ NoClient \notin Clients
  BY ServerLoopAssumption DEF LoopInv
<1>2. /\ server = "serving" /\ step = "reply" /\ ~hup[client]
      /\ outbox' = [outbox EXCEPT ![client] = Append(@, resp)]
      /\ resp' = "none" /\ after' = "none"
      /\ step' = IF after = "exec" THEN "exec" ELSE "none"
      /\ req' = IF after = "exec" THEN req ELSE "none"
      /\ UNCHANGED <<exit, status, notify, monitor, vm, host, files, fifos,
                     backlog, cpc, asked>>
  BY DEF Reply, deviceVars, clientVars
<1>3. PICK c \in Clients : c = client
  BY <1>1, <1>2 DEF SocketTypes, Backlog
<1>4. Connection(c) /\ Unread(c)
  BY DEF LoopInv, Conversations
<1>5. \/ /\ after = "close" /\ server' = "select" /\ client' = NoClient
         /\ sock' = [sock EXCEPT ![c] = "closed"]
         /\ hup' = [hup EXCEPT ![c] = FALSE]
         /\ inbox' = [inbox EXCEPT ![c] = "none"]
      \/ after # "close" /\ UNCHANGED <<server, client, sock, hup, inbox>>
  BY <1>2, <1>3 DEF Reply, Hangup
<1>6. /\ outbox' \in [Clients -> Seq(Responses)]
      /\ \A d \in Clients \ {c} : outbox'[d] = outbox[d]
      /\ Len(outbox'[c]) = Len(outbox[c]) + 1 /\ Len(outbox[c]) \in Nat
  <2>1. resp \in Responses
    BY <1>1, <1>2 DEF ServerTypes, Backlog, Responses
  <2>2. outbox' = [outbox EXCEPT ![c] = Append(@, resp)]
    BY <1>2, <1>3
  <2> QED BY <1>1, <2>1, <2>2, Writing
<1>7. Len(outbox'[c]) = 1
  <2>1. outbox[c] = <<>> /\ Len(<<>>) = 0
    BY <1>2, <1>3, <1>4 DEF Unread, Silent
  <2> QED BY <1>6, <2>1
<1>8. ServerTypes'
  BY <1>1, <1>2, <1>5 DEF ServerTypes, ServerState, Steps
<1>9. SocketTypes'
  BY <1>1, <1>2, <1>5, <1>6 DEF SocketTypes
<1>10. /\ sock[c] = "accepted" /\ notify # c /\ inbox[c] = "none"
       /\ cpc[c] \notin {"idle", "connected"}
  BY <1>2, <1>3, <1>4 DEF Connection
<1>11. /\ sock'[c] = (IF after = "close" THEN "closed" ELSE "accepted")
       /\ ~hup'[c] /\ inbox'[c] = "none" /\ cpc'[c] = cpc[c]
       /\ client' = (IF after = "close" THEN NoClient ELSE c)
  BY <1>1, <1>2, <1>3, <1>5, <1>10 DEF SocketTypes
<1>12. Backlog'
  <2>1. \A i \in 1 .. Len(backlog) : backlog[i] \in Clients /\ backlog[i] # c
    BY <1>1, <1>10, ElementOfSeq DEF SocketTypes, Backlog
  <2>2. \A i \in 1 .. Len(backlog) : sock'[backlog[i]] = "queued"
    BY <1>1, <1>5, <2>1 DEF SocketTypes, Backlog
  <2> QED BY <1>1, <1>2, <1>5, <2>2 DEF Backlog, ServerTypes
<1>13. Connection(c)'
  BY <1>1, <1>2, <1>10, <1>11 DEF Connection
<1>14. Unread(c)'
  <2>1. ~Silent(c)'
    BY <1>1, <1>2, <1>10, <1>11 DEF Silent
  <2>2. Len(outbox'[c]) <= IF sock'[c] \in {"accepted", "notify"} THEN 1 ELSE 2
    BY <1>7
  <2> QED BY <2>1, <2>2, Zenon DEF Unread
<1>15. \A d \in Clients \ {c} :
          /\ sock'[d] = sock[d] /\ hup'[d] = hup[d] /\ inbox'[d] = inbox[d]
          /\ client' # d /\ client # d
  BY <1>1, <1>3, <1>5 DEF SocketTypes
<1> QED BY <1>2, <1>6, <1>8, <1>9, <1>12, <1>13, <1>14, <1>15, ServerSide

\* SendExitCode: the second and last message to the client that restarted.
LEMMA Notifying == ASSUME LoopInv, NotifyBoot PROVE LoopInv'
<1>1. ServerTypes /\ SocketTypes /\ Backlog /\ NoClient \notin Clients
  BY ServerLoopAssumption DEF LoopInv
<1>2. /\ notify # NoClient /\ ~hup[notify] /\ notify' = NoClient /\ Hangup(notify)
      /\ UNCHANGED <<server, exit, status, client, req, step, resp, after, monitor, vm, host,
                     files, fifos, backlog, cpc, asked>>
  BY DEF NotifyBoot, deviceVars, clientVars
<1>3. PICK c \in Clients : c = notify
  BY <1>1, <1>2 DEF SocketTypes
<1>4. Connection(c) /\ Unread(c)
  BY DEF LoopInv, Conversations
<1>5. /\ sock' = [sock EXCEPT ![c] = "closed"]
      /\ hup' = [hup EXCEPT ![c] = FALSE]
      /\ inbox' = [inbox EXCEPT ![c] = "none"]
  BY <1>2, <1>3 DEF Hangup
<1>6. /\ outbox' \in [Clients -> Seq(Responses)]
      /\ \A d \in Clients \ {c} : outbox'[d] = outbox[d]
      /\ Len(outbox'[c]) = Len(outbox[c]) + 1 /\ Len(outbox[c]) \in Nat
  <2>1. PICK code \in {"booted", "bootFailed"} :
           outbox' = [outbox EXCEPT ![c] = Append(@, code)]
    BY <1>3 DEF NotifyBoot
  <2>2. code \in Responses
    BY DEF Responses
  <2> QED BY <1>1, <2>1, <2>2, Writing
<1>7. /\ sock[c] = "notify" /\ client # c /\ inbox[c] = "none"
      /\ cpc[c] \notin {"idle", "connected"}
  BY <1>2, <1>3, <1>4 DEF Connection
<1>8. sock'[c] = "closed" /\ ~hup'[c] /\ inbox'[c] = "none" /\ cpc'[c] = cpc[c]
  BY <1>1, <1>2, <1>5 DEF SocketTypes
<1>9. ServerTypes' /\ SocketTypes'
  <2>1. ServerTypes'
    BY <1>1, <1>2 DEF ServerTypes
  <2>2. sock' \in [Clients -> {"none", "queued", "accepted", "notify", "closed"}]
    BY <1>1, <1>5 DEF SocketTypes
  <2>3. hup' \in [Clients -> BOOLEAN] /\ inbox' \in [Clients -> Requests \cup {"none"}]
    BY <1>1, <1>5 DEF SocketTypes
  <2> QED BY <1>1, <1>2, <1>6, <2>1, <2>2, <2>3 DEF SocketTypes
<1>10. Backlog'
  <2>1. \A i \in 1 .. Len(backlog) : backlog[i] \in Clients /\ backlog[i] # c
    BY <1>1, <1>7, ElementOfSeq DEF SocketTypes, Backlog
  <2>2. \A i \in 1 .. Len(backlog) : sock'[backlog[i]] = "queued"
    BY <1>1, <1>5, <2>1 DEF SocketTypes, Backlog
  <2> QED BY <1>1, <1>2, <2>2 DEF Backlog
<1>11. Connection(c)'
  BY <1>1, <1>2, <1>7, <1>8 DEF Connection
<1>12. Unread(c)'
  <2>1. ~Silent(c)'
    BY <1>2, <1>7, <1>8 DEF Silent
  <2>2. Len(outbox'[c]) <= IF sock'[c] \in {"accepted", "notify"} THEN 1 ELSE 2
    BY <1>4, <1>6, <1>7, <1>8 DEF Unread
  <2> QED BY <2>1, <2>2, Zenon DEF Unread
<1>13. \A d \in Clients \ {c} :
          /\ sock'[d] = sock[d] /\ hup'[d] = hup[d] /\ inbox'[d] = inbox[d]
          /\ notify' # d /\ notify # d
  BY <1>1, <1>2, <1>3, <1>5 DEF SocketTypes
<1> QED BY <1>2, <1>6, <1>9, <1>10, <1>11, <1>12, <1>13, ServerSide

\* LoopInv is an inductive invariant of run_cvd and its clients.
THEOREM LoopInvariance == Spec => []LoopInv
<1>1. Init => LoopInv
  <2> SUFFICES ASSUME Init PROVE LoopInv
    OBVIOUS
  <2>1. Len(<<>>) = 0 /\ <<>> \in Seq(Clients) /\ <<>> \in Seq(Responses)
    OBVIOUS
  <2>2. ServerTypes /\ SocketTypes
    BY <2>1 DEF Init, ServerTypes, SocketTypes, ServerState, Steps, Vms
  <2>3. Backlog
    BY <2>1 DEF Init, Backlog
  <2>4. ASSUME NEW c \in Clients PROVE Connection(c) /\ Unread(c)
    <3>1. /\ sock[c] = "none" /\ ~hup[c] /\ inbox[c] = "none" /\ outbox[c] = <<>>
          /\ cpc[c] = "idle" /\ client # c /\ notify # c
      BY ServerLoopAssumption DEF Init
    <3>2. Connection(c)
      BY <3>1 DEF Connection
    <3>3. Unread(c)
      BY <2>1, <3>1 DEF Unread
    <3> QED BY <3>2, <3>3
  <2> QED BY <2>2, <2>3, <2>4 DEF LoopInv, Conversations
<1>2. LoopInv /\ [Next]_vars => LoopInv'
  <2> SUFFICES ASSUME LoopInv, [Next]_vars PROVE LoopInv'
    OBVIOUS
  <2>1. CASE \E c \in Clients : Connect(c) \/ ClientStep(c) \/ GiveUp(c)
    BY <2>1, ClientSteps
  <2>2. CASE ServerStep
    <3>1. CASE CreateServer \/ StartDevice
      BY <3>1, DeviceSteps
    <3>2. CASE StartFails \/ DetectMonitorExit \/ MonitorSigpipe \/ ReplySigpipe \/ RestartRunCvd
      BY <3>2, EndSteps
    <3>3. CASE ReplyAndExit \/ RestartFails
      BY <3>3, LastWords
    <3>4. CASE \/ PreSuspendHook \/ SuspendGuest \/ SuspendHost
               \/ ResumeHost \/ ResumeGuest \/ PostResumeHook
               \/ TakeGuestSnapshot \/ Screen \/ StopProcesses \/ HangEnds \/ Stopped
      BY <3>4, HandlerSteps
    <3> QED
      BY <2>2, <3>1, <3>2, <3>3, <3>4, Accepting, Leaving, Serving, Replying DEF ServerStep
  <2>3. CASE NotifyBoot
    BY <2>3, Notifying
  <2>4. CASE NotifyBootSigpipe
    BY <2>4, EndSteps
  <2>5. CASE MonitorDies
    BY <2>5, DeviceSteps
  <2>6. CASE UNCHANGED vars
    <3>1. ServerTypes'
      BY <2>6 DEF LoopInv, ServerTypes, vars, serverVars, deviceVars
    <3>2. Backlog
      BY DEF LoopInv
    <3>3. /\ UNCHANGED <<client, notify, backlog, sock, hup, inbox, outbox, cpc, asked>>
          /\ UNCHANGED <<server, step, resp>>
      BY <2>6 DEF vars, serverVars, clientVars, socketVars
    <3> QED BY <3>1, <3>2, <3>3, QuietStep DEF Backlog
  <2>7. QED
    BY <2>1, <2>2, <2>3, <2>4, <2>5, <2>6 DEF Next, NotifyStep
<1>3. QED
  BY <1>1, <1>2, PTL DEF Spec

\* run_cvd and its clients keep to their types, and however requests, restarts and
\* failures follow each other no more than two responses are ever unread in a
\* launcher monitor connection: the reply and, after a restart, the exit code.
THEOREM ServerLoopTypes == Spec => []TypeOK
<1>1. LoopInv => TypeOK
  <2> SUFFICES ASSUME LoopInv PROVE TypeOK
    OBVIOUS
  <2>1. ServerTypes /\ SocketTypes
    BY DEF LoopInv
  <2>2. \A c \in Clients : Len(outbox[c]) <= 2
    <3> TAKE c \in Clients
    <3>1. Unread(c) /\ Len(outbox[c]) \in Nat
      BY <2>1, LenProperties DEF LoopInv, Conversations, SocketTypes
    <3> QED BY <3>1 DEF Unread
  <2> QED BY <2>1, <2>2 DEF TypeOK, ServerTypes, SocketTypes, Responses
<1>2. QED
  BY <1>1, LoopInvariance, PTL
=============================================================================
