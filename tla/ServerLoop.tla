----------------------------- MODULE ServerLoop -----------------------------
(***************************************************************************)
(* The server loop of run_cvd (host/commands/run_cvd/server_loop_impl.cpp  *)
(* and server_loop_impl_snapshot.cpp) and the clients that talk to it      *)
(* through the launcher monitor socket (host/libs/command_util/util.cc).   *)
(*                                                                         *)
(* run_cvd serves one connection at a time.  It keeps device_status_, but  *)
(* what it suspends and resumes are three other things: the VM of the      *)
(* access point (OpenWrt), the VM of the device and the host processes.    *)
(* Each is reached by a step that can fail, and a failed step ends the     *)
(* request.                                                                *)
(*                                                                         *)
(* The process monitor is seen through its API only: a request to it       *)
(* succeeds, fails, or is never answered (module ProcessMonitor shows      *)
(* when).  Requests of the boot state machine (kFail) come from a client   *)
(* like any other.                                                         *)
(***************************************************************************)
EXTENDS Integers, Sequences

CONSTANTS
  Clients,    \* connections that exist at the same time
  NoClient,
  Requests,   \* the requests clients may send
  HasOpenwrt, \* ap_boot_flow is not None and the AP runs in crosvm
  UseOverlay, \* overlay.img is one of the virtual disks
  ImpatientClients  \* whether a client may give up: a timeout or a SIGINT

ShortRequests == {"stop", "fail", "status", "powerwash", "restart", "unknown"}
ExtendedRequests == {"suspend", "resume", "snapshot", "screen", "empty"}
Rebooting == {"powerwash", "restart"}

ASSUME ServerLoopAssumption ==
  /\ NoClient \notin Clients
  /\ Requests \subseteq ShortRequests \cup ExtendedRequests
  /\ HasOpenwrt \in BOOLEAN
  /\ UseOverlay \in BOOLEAN
  /\ ImpatientClients \in BOOLEAN

VARIABLES
  server,   \* what run_cvd does: see ServerState
  exit,     \* why it ended, "none" while it runs
  status,   \* device_status_
  client,   \* the accepted client, or NoClient
  req,      \* the request being handled
  step,     \* the step of its handler, "none" between requests
  resp,     \* the response of a handler that is about to reply
  after,    \* what follows the reply
  notify,   \* the client that -reboot_notification_fd refers to
  monitor,  \* the monitor process: "alive", "died", or "reaped" (monitor_ is -1)
  vm,       \* vm[v]: whether VM v is running or suspended
  host,     \* the host processes of the device
  files,    \* the disk overlay: "used", "blank" or "broken"
  fifos,    \* the FIFOs of the device that exist: "listed" ones, which
            \* DeleteFifos names, and "unlisted" ones (jcardsim, log_tee,
            \* the restore adbd FIFO), which it does not
  backlog,  \* connections nobody accepted yet
  sock,     \* sock[c]: the server's end of the connection of c
  hup,      \* hup[c]: c closed its end and the server still has its own
  inbox,    \* inbox[c]: the request in the socket, "none" if there is none
  outbox,   \* outbox[c]: the responses c did not read yet
  cpc,      \* cpc[c]: where c is in RunLauncherAction and its caller
  asked     \* asked[c]: the request c waits for, "none" if it has none

serverVars == <<server, exit, status, client, req, step, resp, after, notify>>
deviceVars == <<monitor, vm, host, files, fifos>>
clientVars == <<cpc, asked>>
socketVars == <<backlog, sock, hup, inbox, outbox>>
vars == <<serverVars, deviceVars, clientVars, socketVars>>

Vms == {"openwrt", "main"}
\* The VMs that SuspendGuest and ResumeGuest act on.
CrosvmVms == IF HasOpenwrt THEN Vms ELSE {"main"}

\* "down": between execv and the creation of the server socket; "hung": waits
\* for ever for an answer of the process monitor.
ServerState == {"down", "setup", "select", "serving", "hung", "gone"}
SuspendSteps == {"preHook", "suspendOpenwrt", "suspendMain", "suspendHost"}
ResumeSteps == {"resumeHost", "resumeOpenwrt", "resumeMain", "postHook"}
StopSteps == {"stopping", "stopped"}
SnapshotSteps == {"snapOpenwrt", "snapMain"}
Steps == SuspendSteps \cup ResumeSteps \cup StopSteps \cup SnapshotSteps
           \cup {"none", "screen", "reply", "exec"}

TypeOK ==
  /\ server \in ServerState
  /\ exit \in {"none", "stopped", "bootFailed", "monitorDied", "sigpipe", "fatal"}
  /\ status \in {"kUnknown", "kActive", "kSuspended"}
  /\ client \in Clients \cup {NoClient}
  /\ req \in Requests \cup {"none"}
  /\ step \in Steps
  /\ resp \in {"none", "kSuccess", "kError"}
  /\ after \in {"none", "read", "close", "exit", "exec"}
  /\ notify \in Clients \cup {NoClient}
  /\ monitor \in {"alive", "died", "reaped"}
  /\ vm \in [Vms -> {"running", "suspended"}]
  /\ host \in {"running", "suspended", "mixed", "stopped", "leftover"}
  /\ files \in {"used", "blank", "broken"}
  /\ fifos \subseteq {"listed", "unlisted"}
  /\ backlog \in Seq(Clients)
  /\ sock \in [Clients -> {"none", "queued", "accepted", "notify", "closed"}]
  /\ hup \in [Clients -> BOOLEAN]
  /\ inbox \in [Clients -> Requests \cup {"none"}]
  /\ outbox \in [Clients -> Seq({"kSuccess", "kError", "booted", "bootFailed"})]
  /\ \A c \in Clients : Len(outbox[c]) <= 2
  /\ cpc \in [Clients -> {"idle", "connected", "wait", "boot"}]
  /\ asked \in [Clients -> Requests \cup {"none"}]

Init ==
  /\ server = "down" /\ exit = "none" /\ status = "kUnknown"
  /\ client = NoClient /\ notify = NoClient
  /\ req = "none" /\ step = "none" /\ resp = "none" /\ after = "none"
  /\ monitor = "reaped" /\ host = "stopped" /\ files = "used" /\ fifos = {}
  /\ vm = [v \in Vms |-> "running"]
  /\ backlog = <<>>
  /\ sock = [c \in Clients |-> "none"]
  /\ hup = [c \in Clients |-> FALSE]
  /\ inbox = [c \in Clients |-> "none"]
  /\ outbox = [c \in Clients |-> <<>>]
  /\ cpc = [c \in Clients |-> "idle"]
  /\ asked = [c \in Clients |-> "none"]

\* The boot event thread runs.
Up == server \in {"select", "serving", "hung"}

-----------------------------------------------------------------------------
(* Clients.                                                                *)

\* The process ends or is replaced: its descriptors are closed, keep's is not.
CloseAll(keep) ==
  /\ client' = NoClient /\ notify' = keep /\ backlog' = <<>>
  /\ req' = "none" /\ step' = "none" /\ resp' = "none" /\ after' = "none"
  /\ sock' = [c \in Clients |-> IF c = keep THEN "notify"
                               ELSE IF sock[c] = "none" \/ hup[c] THEN "none"
                               ELSE "closed"]
  /\ hup' = [c \in Clients |-> c = keep /\ hup[c]]
  /\ inbox' = [c \in Clients |-> "none"]

RunCvdExits(why) ==
  /\ server' = "gone" /\ exit' = why
  /\ CloseAll(NoClient)
  /\ UNCHANGED status

\* The signal kills it at once.
Sigpipe == RunCvdExits("sigpipe") /\ UNCHANGED <<outbox, deviceVars, clientVars>>

\* c closes its end.
Disconnect(c) ==
  /\ asked' = [asked EXCEPT ![c] = "none"]
  /\ cpc' = [cpc EXCEPT ![c] = "idle"]
  /\ outbox' = [outbox EXCEPT ![c] = <<>>]
  /\ sock' = [sock EXCEPT ![c] = IF @ = "closed" THEN "none" ELSE @]
  /\ hup' = [hup EXCEPT ![c] = sock[c] # "closed"]

\* GetLauncherMonitorFromInstance
Connect(c) ==
  /\ cpc[c] = "idle" /\ sock[c] = "none"
  /\ server \in {"setup", "select", "serving", "hung"}
  /\ cpc' = [cpc EXCEPT ![c] = "connected"]
  /\ sock' = [sock EXCEPT ![c] = "queued"]
  /\ backlog' = Append(backlog, c)
  /\ UNCHANGED <<serverVars, deviceVars, hup, inbox, outbox, asked>>

\* RunLauncherAction up to the write
SendRequest(c) ==
  /\ cpc[c] = "connected" /\ sock[c] # "closed"
  /\ \E r \in Requests :
       /\ inbox' = [inbox EXCEPT ![c] = r]
       /\ asked' = [asked EXCEPT ![c] = r]
  /\ cpc' = [cpc EXCEPT ![c] = "wait"]
  /\ UNCHANGED <<serverVars, deviceVars, backlog, sock, hup, outbox>>

\* The write fails when run_cvd is gone.
SendFails(c) ==
  /\ cpc[c] = "connected" /\ sock[c] = "closed"
  /\ Disconnect(c)
  /\ UNCHANGED <<serverVars, deviceVars, backlog, inbox>>

\* WaitForRead times out, or the client process is interrupted.
GiveUp(c) ==
  /\ ImpatientClients
  /\ cpc[c] \in {"connected", "wait", "boot"}
  /\ Disconnect(c)
  /\ UNCHANGED <<serverVars, deviceVars, backlog, inbox>>

\* RunLauncherAction is done with response r: a restart goes on to wait for
\* the exit code of the boot.
Conclude(c, r) ==
  IF r = "kSuccess" /\ asked[c] \in Rebooting
    THEN /\ cpc' = [cpc EXCEPT ![c] = "boot"]
         /\ outbox' = [outbox EXCEPT ![c] = IF @ = <<>> THEN @ ELSE Tail(@)]
         /\ UNCHANGED <<sock, hup, asked>>
    ELSE Disconnect(c)

ReadResponse(c) ==
  /\ cpc[c] = "wait" /\ outbox[c] # <<>>
  /\ Conclude(c, Head(outbox[c]))
  /\ UNCHANGED <<serverVars, deviceVars, backlog, inbox>>

\* ReadExactBinaryResult returns false on EOF, which CF_EXPECT takes for
\* success: `response` is read uninitialized.
ReadResponseEof(c) ==
  /\ cpc[c] = "wait" /\ outbox[c] = <<>> /\ sock[c] = "closed"
  /\ \E r \in {"kSuccess", "kError"} : Conclude(c, r)
  /\ UNCHANGED <<serverVars, deviceVars, backlog, inbox>>

\* ReadExitCode, and what the caller makes of the code: nothing that outlives
\* it.  On EOF the same flaw makes it an uninitialized value.
ReadExitCode(c) ==
  /\ cpc[c] = "boot" /\ (outbox[c] # <<>> \/ sock[c] = "closed")
  /\ Disconnect(c)
  /\ UNCHANGED <<serverVars, deviceVars, backlog, inbox>>

-----------------------------------------------------------------------------
(* The loop.                                                               *)

\* ResultSetup
CreateServer ==
  /\ server = "down"
  /\ server' = "setup"
  /\ UNCHANGED <<exit, status, client, req, step, resp, after, notify,
                 deviceVars, clientVars, socketVars>>

\* Run up to the loop: the device comes up.
StartDevice ==
  /\ server = "setup"
  /\ server' = "select" /\ status' = "kActive"
  /\ monitor' = "alive" /\ host' = "running" /\ fifos' = {"listed", "unlisted"}
  /\ vm' = [v \in Vms |-> "running"]
  /\ files' = "used"
  /\ UNCHANGED <<exit, client, req, step, resp, after, notify,
                 clientVars, socketVars>>

\* A setup feature or StartAndMonitorProcesses fails.
StartFails ==
  /\ server \in {"down", "setup"}
  /\ RunCvdExits("fatal")
  /\ UNCHANGED <<outbox, deviceVars, clientVars>>

\* The monitor process ends without having been asked to.
MonitorDies ==
  /\ monitor = "alive"
  /\ monitor' = "died"
  /\ UNCHANGED <<serverVars, vm, host, files, fifos, clientVars, socketVars>>

\* Mutant of DetectMonitorExit: only a monitor that was stopped is noticed.
DetectStoppedMonitor ==
  /\ server = "select" /\ monitor = "reaped"
  /\ RunCvdExits("monitorDied")
  /\ UNCHANGED <<outbox, deviceVars, clientVars>>

\* The status pipe is readable: it has precedence over the server socket.
DetectMonitorExit ==
  /\ server = "select" /\ monitor # "alive"
  /\ RunCvdExits("monitorDied")
  /\ UNCHANGED <<outbox, deviceVars, clientVars>>

Accept ==
  /\ server = "select" /\ monitor = "alive" /\ backlog # <<>>
  /\ server' = "serving" /\ client' = Head(backlog)
  /\ backlog' = Tail(backlog)
  /\ sock' = [sock EXCEPT ![Head(backlog)] = "accepted"]
  /\ UNCHANGED <<exit, status, req, step, resp, after, notify, deviceVars,
                 hup, inbox, outbox, clientVars>>

\* The server closes its end of the connection of c.
Hangup(c) ==
  /\ sock' = [sock EXCEPT ![c] = IF hup[c] THEN "none" ELSE "closed"]
  /\ hup' = [hup EXCEPT ![c] = FALSE]
  /\ inbox' = [inbox EXCEPT ![c] = "none"]

\* Mutant of ClientDisconnected: the loop goes on with the closed connection.
ClientDisconnectedIgnored ==
  /\ server = "serving" /\ step = "none"
  /\ hup[client] /\ inbox[client] = "none"
  /\ UNCHANGED vars

ClientDisconnected ==
  /\ server = "serving" /\ step = "none"
  /\ hup[client] /\ inbox[client] = "none"
  /\ Hangup(client)
  /\ server' = "select" /\ client' = NoClient
  /\ UNCHANGED <<exit, status, req, step, resp, after, notify, deviceVars,
                 backlog, outbox, clientVars>>

\* Handlers end by choosing a response and what to do once it is written.
Answer(r, next) == step' = "reply" /\ resp' = r /\ after' = next
Goto(s) == step' = s /\ UNCHANGED <<resp, after>>

\* Mutant of FirstSuspendStep: the host is suspended before the guests.
HostFirst == "suspendHost"
FirstSuspendStep == IF HasOpenwrt THEN "suspendOpenwrt" ELSE "suspendMain"
FirstResumeStep == IF HasOpenwrt THEN "resumeOpenwrt" ELSE "resumeMain"

\* The dispatch of HandleActionWithNoData and HandleExtended, with what they
\* decide before the first step that leaves run_cvd.
Dispatch(r) ==
  \/ /\ r \in {"stop", "fail", "restart"} \/ (r = "powerwash" /\ UseOverlay)
     /\ Goto("stopping")
  \/ r = "status" /\ Answer("kSuccess", "read")
  \/ (r = "unknown" \/ (r = "powerwash" /\ ~UseOverlay)) /\ Answer("kError", "read")
  \/ r = "suspend" /\ status = "kActive" /\ Goto("preHook")
  \/ r = "suspend" /\ status # "kActive" /\ Answer("kSuccess", "close")
  \/ r = "resume" /\ status = "kSuspended" /\ Goto("resumeHost")
  \/ r = "resume" /\ status # "kSuspended" /\ Answer("kSuccess", "close")
  \/ /\ r = "snapshot" /\ status = "kSuspended"
     /\ Goto(IF HasOpenwrt THEN "snapOpenwrt" ELSE "snapMain")
  \/ r = "snapshot" /\ status # "kSuspended" /\ Answer("kError", "close")
  \/ r = "screen" /\ Goto("screen")
  \/ r = "empty" /\ Answer("kError", "close")

\* Mutant of ReadRequest: the request stays in the socket.
ReadRequestAgain ==
  /\ server = "serving" /\ step = "none" /\ inbox[client] # "none"
  /\ req' = inbox[client]
  /\ Dispatch(inbox[client])
  /\ UNCHANGED <<server, exit, status, client, notify, deviceVars,
                 backlog, sock, hup, inbox, outbox, clientVars>>

ReadRequest ==
  /\ server = "serving" /\ step = "none" /\ inbox[client] # "none"
  /\ req' = inbox[client]
  /\ inbox' = [inbox EXCEPT ![client] = "none"]
  /\ Dispatch(inbox[client])
  /\ UNCHANGED <<server, exit, status, client, notify, deviceVars,
                 backlog, sock, hup, outbox, clientVars>>

-----------------------------------------------------------------------------
(* Suspend, resume and snapshot.  A step of run_cvd at s, during which only *)
(* the named device variables may change.                                  *)

AtStep(s) ==
  /\ server = "serving" /\ step = s
  /\ UNCHANGED <<exit, client, req, notify, clientVars, socketVars>>

\* A step that fails: CF_EXPECT returns from the whole handler.
StepFails == Answer("kError", "close") /\ UNCHANGED <<server, status>>
StepGoes(s) == Goto(s) /\ UNCHANGED <<server, status>>
StepEnds(s) == Answer("kSuccess", "close") /\ status' = s /\ UNCHANGED server

\* RunAdbShellCommand of snapshot_hook_pre_suspend
PreSuspendHook ==
  /\ AtStep("preHook")
  /\ StepGoes(FirstSuspendStep) \/ StepFails
  /\ UNCHANGED deviceVars

\* crosvm suspend; when it fails it may have taken effect all the same.
SuspendCrosvm(v, s, t) ==
  /\ AtStep(s)
  /\ \/ vm' = [vm EXCEPT ![v] = "suspended"] /\ StepGoes(t)
     \/ vm' = [vm EXCEPT ![v] = "suspended"] /\ StepFails
     \/ vm' = vm /\ StepFails
  /\ UNCHANGED <<monitor, host, files, fifos>>

SuspendGuest == \/ SuspendCrosvm("openwrt", "suspendOpenwrt", "suspendMain")
                \/ SuspendCrosvm("main", "suspendMain", "suspendHost")

\* A request to the process monitor that is not answered.
Hangs == /\ server' = "hung"
         /\ UNCHANGED <<status, step, resp, after>>

\* SuspendMonitoredProcesses and ResumeMonitoredProcesses
RequestHost(s, state, goal) ==
  /\ AtStep(s)
  /\ \/ monitor = "alive" /\ host' = state /\ goal
     \/ monitor = "alive" /\ host' = host /\ Hangs
     \/ monitor = "alive" /\ host # state /\ host' = "mixed" /\ Hangs
     \/ monitor = "reaped" /\ host' = host /\ StepFails
  /\ UNCHANGED <<monitor, vm, files, fifos>>

\* Mutant of SuspendHost: the status is left to the caller, which forgets it.
SuspendHostOnly == RequestHost("suspendHost", "suspended", StepEnds(status))

SuspendHost == RequestHost("suspendHost", "suspended", StepEnds("kSuspended"))
ResumeHost == RequestHost("resumeHost", "running", StepGoes(FirstResumeStep))

\* When the monitor is gone the request is written to a closed socket.
MonitorSigpipe ==
  /\ server = "serving" /\ step \in {"stopping", "suspendHost", "resumeHost"}
  /\ monitor = "died"
  /\ Sigpipe

\* The monitor dies while run_cvd waits for it: EOF, or waitpid returns.
HangEnds ==
  /\ server = "hung" /\ monitor = "died"
  /\ server' = "serving"
  /\ IF step = "stopping" THEN Answer("kError", "read") /\ monitor' = "reaped"
                          ELSE Answer("kError", "close") /\ UNCHANGED monitor
  /\ UNCHANGED <<exit, status, client, req, notify, vm, host, files, fifos,
                 clientVars, socketVars>>

\* crosvm resume
ResumeCrosvm(v, s, t) ==
  /\ AtStep(s)
  /\ \/ vm' = [vm EXCEPT ![v] = "running"] /\ StepGoes(t)
     \/ vm' = [vm EXCEPT ![v] = "running"] /\ StepFails
     \/ vm' = vm /\ StepFails
  /\ UNCHANGED <<monitor, host, files, fifos>>

ResumeGuest == \/ ResumeCrosvm("openwrt", "resumeOpenwrt", "resumeMain")
               \/ ResumeCrosvm("main", "resumeMain", "postHook")

\* RunAdbShellCommand of snapshot_hook_post_resume
PostResumeHook ==
  /\ AtStep("postHook")
  /\ StepEnds("kActive") \/ StepFails
  /\ UNCHANGED deviceVars

\* TakeCrosvmGuestSnapshot
TakeGuestSnapshot ==
  /\ \/ AtStep("snapOpenwrt") /\ (StepGoes("snapMain") \/ StepFails)
     \/ AtStep("snapMain") /\ (StepEnds(status) \/ StepFails)
  /\ UNCHANGED deviceVars

\* Start and stop of the screen recording and screenshots
Screen ==
  /\ AtStep("screen")
  /\ StepEnds(status) \/ StepFails
  /\ UNCHANGED deviceVars

-----------------------------------------------------------------------------
(* Stop, fail, powerwash and restart.                                      *)

\* Mutant of StopProcesses: the exit status of the monitor is not looked at.
StopProcessesUnchecked ==
  /\ AtStep("stopping")
  /\ monitor' = "reaped" /\ host' \in {"stopped", "leftover"}
  /\ StepGoes("stopped")
  /\ UNCHANGED <<vm, files, fifos>>

\* StopMonitoredProcesses; once it has been called monitor_ is -1.
StopProcesses ==
  /\ AtStep("stopping")
  /\ \/ monitor = "alive" /\ monitor' = "reaped" /\ host' = "stopped"
        /\ StepGoes("stopped")
     \/ monitor = "alive" /\ monitor' = "reaped" /\ host' = "leftover"
        /\ Answer("kError", "read") /\ UNCHANGED <<server, status>>
     \/ monitor = "reaped" /\ UNCHANGED <<monitor, host, server, status>>
        /\ Answer("kError", "read")
     \/ monitor = "alive" /\ UNCHANGED <<monitor, host>> /\ Hangs
  /\ UNCHANGED <<vm, files, fifos>>

DeleteFifos == fifos' = fifos \ {"listed"}

\* What follows a successful stop.  PowerwashFiles fails after it has removed
\* the overlay.
Stopped ==
  /\ AtStep("stopped")
  /\ \/ req \in {"stop", "fail"} /\ UNCHANGED <<files, fifos>>
        /\ Answer("kSuccess", "exit")
     \/ req = "restart" /\ DeleteFifos /\ UNCHANGED files
        /\ Answer("kSuccess", "exec")
     \/ req = "powerwash" /\ DeleteFifos /\ files' = "blank"
        /\ Answer("kSuccess", "exec")
     \/ req = "powerwash" /\ DeleteFifos /\ files' = "broken"
        /\ Answer("kError", "read")
  /\ UNCHANGED <<server, status, monitor, vm, host>>

-----------------------------------------------------------------------------
(* Replies.                                                                *)

\* run_cvd does not ignore SIGPIPE: a write to a client that left kills it.
ReplySigpipe ==
  /\ server = "serving" /\ step = "reply" /\ hup[client]
  /\ Sigpipe

\* The reply is written; the handler of a short request reads the next one.
Reply ==
  /\ server = "serving" /\ step = "reply" /\ ~hup[client] /\ after # "exit"
  /\ outbox' = [outbox EXCEPT ![client] = Append(@, resp)]
  /\ resp' = "none" /\ after' = "none"
  /\ IF after = "close"
       THEN /\ Hangup(client) /\ server' = "select" /\ client' = NoClient
       ELSE /\ UNCHANGED <<server, client, sock, hup, inbox>>
  /\ step' = IF after = "exec" THEN "exec" ELSE "none"
  /\ req' = IF after = "exec" THEN req ELSE "none"
  /\ UNCHANGED <<exit, status, notify, deviceVars, backlog, clientVars>>

\* The reply to a stop or fail request, and std::exit
ReplyAndExit ==
  /\ server = "serving" /\ step = "reply" /\ ~hup[client] /\ after = "exit"
  /\ outbox' = [outbox EXCEPT ![client] = Append(@, resp)]
  /\ RunCvdExits(IF req = "fail" THEN "bootFailed" ELSE "stopped")
  /\ UNCHANGED <<deviceVars, clientVars>>

\* RestartRunCvd: execv keeps the duplicate of the client's descriptor only.
RestartRunCvd ==
  /\ server = "serving" /\ step = "exec"
  /\ server' = "down" /\ status' = "kUnknown"
  /\ CloseAll(client)
  /\ UNCHANGED <<exit, deviceVars, outbox, clientVars>>

\* execv returns, or the CHECK on the file "restore" fails: LOG(FATAL), after
\* an attempt to take the success back.
RestartFails ==
  /\ server = "serving" /\ step = "exec"
  /\ RunCvdExits(IF hup[client] THEN "sigpipe" ELSE "fatal")
  /\ outbox' \in {outbox,
                  [outbox EXCEPT ![client] = IF hup[client] THEN @
                                             ELSE Append(@, "kError")]}
  /\ UNCHANGED <<deviceVars, clientVars>>

\* CvdBootStateMachine::SendExitCode to the client that asked for the reboot
NotifyBoot ==
  /\ Up /\ notify # NoClient /\ ~hup[notify]
  /\ \E code \in {"booted", "bootFailed"} :
       outbox' = [outbox EXCEPT ![notify] = Append(@, code)]
  /\ Hangup(notify)
  /\ notify' = NoClient
  /\ UNCHANGED <<server, exit, status, client, req, step, resp, after,
                 deviceVars, backlog, clientVars>>

NotifyBootSigpipe ==
  /\ Up /\ notify # NoClient /\ hup[notify]
  /\ Sigpipe

-----------------------------------------------------------------------------
ClientStep(c) ==
  \/ SendRequest(c) \/ SendFails(c)
  \/ ReadResponse(c) \/ ReadResponseEof(c)
  \/ ReadExitCode(c)

ServerStep ==
  \/ CreateServer \/ StartDevice \/ StartFails
  \/ DetectMonitorExit \/ Accept \/ ClientDisconnected \/ ReadRequest
  \/ PreSuspendHook \/ SuspendGuest \/ SuspendHost
  \/ ResumeHost \/ ResumeGuest \/ PostResumeHook
  \/ TakeGuestSnapshot \/ Screen
  \/ StopProcesses \/ MonitorSigpipe \/ HangEnds \/ Stopped
  \/ ReplySigpipe \/ Reply \/ ReplyAndExit \/ RestartRunCvd \/ RestartFails

NotifyStep == NotifyBoot \/ NotifyBootSigpipe

Next ==
  \/ \E c \in Clients : Connect(c) \/ ClientStep(c) \/ GiveUp(c)
  \/ ServerStep
  \/ NotifyStep
  \/ MonitorDies

Spec == Init /\ [][Next]_vars

\* run_cvd does not stop between two steps (adb and crosvm end), a client
\* writes its request right after it has connected and reads what arrives,
\* and a device that was restarted boots or fails to.
Fairness ==
  /\ WF_vars(ServerStep)
  /\ WF_vars(NotifyStep)
  /\ \A c \in Clients : WF_vars(ClientStep(c))

FairSpec == Spec /\ Fairness

-----------------------------------------------------------------------------
(* Properties.                                                             *)

\* Host processes are frozen only under frozen guests ("right order: guest ->
\* host" in HandleSuspend, "host -> guest" in HandleResume), also after a step
\* of either handler has failed and the request was repeated or reversed.
GuestBeforeHost ==
  host \in {"suspended", "mixed"} =>
    \A v \in CrosvmVms : vm[v] = "suspended"

\* A device that run_cvd takes for active has running host processes, so that the
\* next suspend finds what it expects and a resume that is skipped leaves nothing
\* frozen: also after suspends and resumes that failed half way.  A request that
\* hangs is excepted, and so is a device whose process monitor is gone.
ActiveMeansHostRuns ==
  monitor = "alive" /\ server \in {"select", "serving"} /\ status = "kActive"
    => host = "running"

\* run_cvd replaces itself, and acknowledges a stop, only when every process of
\* the device has ended; it never restarts over the FIFOs that DeleteFifos
\* names, whose readers would find what the last run left in them, nor with the
\* half made overlay of a powerwash that failed.
CleanRestart ==
  /\ exit \in {"stopped", "bootFailed"} => host = "stopped"
  /\ server = "down" => host = "stopped" /\ "listed" \notin fifos /\ files # "broken"

\* A client that sent a request gets an answer or an EOF, however many others
\* are ahead of it, unless run_cvd waits for the process monitor for ever.
RequestAnswered ==
  \A c \in Clients : cpc[c] = "wait" ~> (cpc[c] # "wait" \/ server = "hung")

\* run_cvd does not outlive its process monitor: the loop returns although it
\* looks at the status pipe only between clients, as long as the client it
\* serves ends its connection some day.
MonitorExitNoticed ==
  monitor = "died" ~> server = "gone"

\* Only a stop or fail request, a failed restart or the death of the process
\* monitor ends run_cvd: not a client that went away before it was answered.
SurvivesClients == exit = "sigpipe" => monitor # "alive"
=============================================================================
