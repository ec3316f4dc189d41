--------------------------- MODULE SecureEnvProofs ---------------------------
(***************************************************************************)
(* The type invariant, QuietWhileSuspended and NoSurprise, for every       *)
(* number of workers and of failed resumes.                                *)
(*                                                                         *)
(* The handler does not wait for the workers to read a resume, so the      *)
(* bytes before a worker depend on what the monitor asked, how far the     *)
(* handler is in its round, and where the worker is.  SEInv says how.      *)
(***************************************************************************)
EXTENDS SecureEnv, TLAPS

\* The current request has not been written to w, or there is none.
Unsent(w) ==
  \/ request = "none"
  \/ channel \in {"kSuspend", "kResume"}
  \/ hpc = "ask" /\ hnext <= w

\* The last request that was written to w.
LastSent(w) == IF Unsent(w) THEN answered ELSE hop

\* The handler has read the acknowledgement of w for the current suspend.
AckRead(w) ==
  \/ hpc = "answer" \/ channel = "kSuccess"
  \/ hpc \in {"ack", "ended"} /\ w < hnext

\* A worker that waits for a resume is owed one.
Owed(w) == IF worker[w] = "blocked" THEN 1 ELSE 0

\* The monitor and the handler: who has the request, and what the device is.
Coupled ==
  /\ request = "none" => channel = "empty" /\ hpc = "read"
  /\ request # "none" =>
       \/ channel = request /\ hpc = "read"
       \/ channel = "empty" /\ hpc # "read" /\ hop = request
       \/ channel = "kSuccess" /\ hpc = "read" /\ hop = request
  /\ hpc \in {"ack", "ended"} => hop = "kSuspend"
  /\ request = "kSuspend" => status = "kActive" /\ guest = "suspended"
  /\ request = "kResume" => status = "kSuspended"
  /\ answered = "kSuspend" => status = "kSuspended" /\ guest = "suspended"
  /\ status = "kSuspended" => answered # "none"

\* After a resume, or at the start: only resumes are on the way to w, and no
\* more than it is owed and failed ones explain.
Resuming(w) ==
  /\ \A i \in 1 .. Len(toWorker[w]) : toWorker[w][i] = "kResume"
  /\ acks[w] = 0
  /\ worker[w] # "writeAck"
  /\ worker[w] \in {"blocked", "readSuspend"} => Len(toWorker[w]) >= 1
  /\ Len(toWorker[w]) <= Owed(w) + failures
  /\ Unsent(w) /\ status = "kSuspended" =>
       Len(toWorker[w]) + 1 <= Owed(w) + failures

\* A suspend is the last byte on the way to w, behind resumes.
SuspendSent(w) ==
  /\ toWorker[w] # <<>>
  /\ toWorker[w][Len(toWorker[w])] = "kSuspend"
  /\ \A i \in 1 .. Len(toWorker[w]) - 1 : toWorker[w][i] = "kResume"
  /\ acks[w] = 0
  /\ worker[w] # "writeAck"
  /\ worker[w] = "blocked" => Len(toWorker[w]) >= 2
  /\ Len(toWorker[w]) - 1 <= Owed(w) + failures
  /\ worker[w] = "readSuspend" /\ Len(toWorker[w]) = 1 => input[w] = "none"

\* w has read it and answers, or its answer is on the way.
Acknowledging(w) ==
  /\ toWorker[w] = <<>> /\ input[w] = "none"
  /\ \/ worker[w] = "writeAck" /\ acks[w] = 0
     \/ worker[w] = "blocked" /\ acks[w] = 1

Suspended(w) ==
  /\ toWorker[w] = <<>> /\ input[w] = "none"
  /\ worker[w] = "blocked" /\ acks[w] = 0

WorkerInv(w) ==
  IF LastSent(w) # "kSuspend" THEN Resuming(w)
  ELSE IF Unsent(w) \/ AckRead(w) THEN Suspended(w)
  ELSE SuspendSent(w) \/ Acknowledging(w)

\* Only the Rust worker returns because of a message.
RustOnly == \A w \in Worker : worker[w] = "ended" => w = Rust

SEInv ==
  /\ TypeOK /\ Coupled /\ NoSurprise /\ RustOnly
  /\ alive => \A w \in Worker : WorkerInv(w)

-----------------------------------------------------------------------------
(* Lemmas.                                                                 *)

\* What a byte written to a worker, and a byte it reads, do to the queue.
LEMMA QueueFacts ==
  ASSUME NEW S, NEW q \in Seq(S), NEW e \in S
  PROVE  /\ Append(q, e) \in Seq(S) /\ Append(q, e) # <<>>
         /\ Len(Append(q, e)) = Len(q) + 1
         /\ Append(q, e)[Len(q) + 1] = e
         /\ \A i \in 1 .. Len(q) : Append(q, e)[i] = q[i]
         /\ Len(q) \in Nat
         /\ q = <<>> <=> Len(q) = 0
         /\ q # <<>> => /\ Tail(q) \in Seq(S)
                        /\ Len(Tail(q)) = Len(q) - 1
                        /\ \A i \in 1 .. Len(q) - 1 : Tail(q)[i] = q[i + 1]
                        /\ Head(q) = q[1]
OBVIOUS

\* A queue is empty when its length is zero.
LEMMA EmptyQueue ==
  ASSUME NEW S, NEW q \in Seq(S)
  PROVE  q = <<>> <=> Len(q) = 0
OBVIOUS

\* Bytes that end in a suspend, behind resumes, still do when one is read.
LEMMA SuspendStaysLast ==
  ASSUME NEW S, NEW q \in Seq(S), Len(q) >= 2,
         q[Len(q)] = "kSuspend",
         \A i \in 1 .. Len(q) - 1 : q[i] = "kResume"
  PROVE  /\ Tail(q) # <<>>
         /\ Tail(q)[Len(Tail(q))] = "kSuspend"
         /\ \A i \in 1 .. Len(Tail(q)) - 1 : Tail(q)[i] = "kResume"
<1>1. Len(q) \in Nat /\ q # <<>>
  BY EmptyQueue
<1>2. /\ Tail(q) \in Seq(S) /\ Len(Tail(q)) = Len(q) - 1
      /\ \A i \in 1 .. Len(q) - 1 : Tail(q)[i] = q[i + 1]
  BY <1>1
<1>3. Tail(q)[Len(q) - 1] = q[Len(q)]
  BY <1>1, <1>2
<1>4. Tail(q) # <<>>
  <2>1. Len(Tail(q)) # 0
    BY <1>1, <1>2
  <2>2. Len(<<>>) = 0
    OBVIOUS
  <2>3. QED
    BY <2>1, <2>2, Zenon
<1>5. ASSUME NEW i \in 1 .. Len(Tail(q)) - 1 PROVE Tail(q)[i] = "kResume"
  <2>1. i + 1 \in 1 .. Len(q) - 1 /\ i \in 1 .. Len(q) - 1
    BY <1>1, <1>2
  <2>2. QED
    BY <1>2, <2>1
<1>6. QED
  BY <1>2, <1>3, <1>4, <1>5

\* A step that does not touch w, nor what was last sent to it, keeps its
\* invariant.
LEMMA WorkerFrame ==
  ASSUME NEW w \in Worker, WorkerInv(w),
         worker'[w] = worker[w], toWorker'[w] = toWorker[w],
         acks'[w] = acks[w], input'[w] = input[w],
         failures' = failures, status' = status,
         (LastSent(w) # "kSuspend") <=> (LastSent(w)' # "kSuspend"),
         Unsent(w)' => Unsent(w),
         LastSent(w) = "kSuspend" =>
           ((Unsent(w) \/ AckRead(w)) <=> (Unsent(w)' \/ AckRead(w)'))
  PROVE  WorkerInv(w)'
BY DEF WorkerInv, Resuming, SuspendSent, Acknowledging, Suspended, Owed

\* QuietWhileSuspended follows from the invariant.
LEMMA SEInvQuiet == SEInv => QuietWhileSuspended
BY DEF SEInv, QuietWhileSuspended, WorkerInv, LastSent, Unsent, Suspended

\* SEInv holds when secure_env has started.
LEMMA SEInvInit == Init => SEInv
<1> SUFFICES ASSUME Init PROVE SEInv
  OBVIOUS
<1> USE SecureEnvAssumption
<1>1. \A w \in Worker : toWorker[w] = <<>> /\ Len(toWorker[w]) = 0
  BY DEF Init
<1>2. TypeOK
  BY <1>1 DEF Init, TypeOK, Worker
<1>3. Coupled /\ NoSurprise /\ RustOnly
  BY DEF Init, Coupled, NoSurprise, RustOnly
<1>4. \A w \in Worker : WorkerInv(w)
  BY <1>1 DEF Init, WorkerInv, LastSent, Unsent, Resuming, Owed
<1>5. QED
  BY <1>2, <1>3, <1>4 DEF SEInv

-----------------------------------------------------------------------------
(* The process monitor and the handler keep the invariant.                 *)

\* The requests of run_cvd and the read of the answer keep SEInv.
LEMMA MonitorKeepsInv ==
  SEInv /\ (RequestSuspend \/ RequestResume \/ ReadResponse) => SEInv'
<1> SUFFICES ASSUME SEInv, RequestSuspend \/ RequestResume \/ ReadResponse
             PROVE  SEInv'
  OBVIOUS
<1> USE SecureEnvAssumption
<1>1. TypeOK /\ Coupled /\ NoSurprise /\ RustOnly
  BY DEF SEInv
<1>2. CASE RequestSuspend \/ RequestResume
  <2>1. UNCHANGED <<alive, status, answered, failures, handlerVars, socketVars,
                    worker, input>>
    BY <1>2 DEF RequestSuspend, RequestResume, Ask
  <2>2. TypeOK' /\ Coupled' /\ NoSurprise' /\ RustOnly'
    BY <1>1, <1>2, <2>1 DEF RequestSuspend, RequestResume, Ask, TypeOK, Coupled,
      NoSurprise, RustOnly, handlerVars, socketVars
  <2>3. ASSUME NEW w \in Worker, WorkerInv(w) PROVE WorkerInv(w)'
    <3>1. Unsent(w) /\ Unsent(w)'
      BY <1>2 DEF RequestSuspend, RequestResume, Ask, Unsent
    <3>2. QED
      BY <2>1, <2>3, <3>1, WorkerFrame DEF LastSent, handlerVars, socketVars
  <2>4. QED
    BY <2>1, <2>2, <2>3 DEF SEInv
<1>3. CASE ReadResponse
  <2>1. /\ UNCHANGED <<alive, handlerVars, socketVars, worker, input>>
        /\ channel = "kSuccess" /\ channel' = "empty"
        /\ request' = "none" /\ answered' = request
    BY <1>3 DEF ReadResponse
  <2>2. request # "none" /\ hpc = "read" /\ hop = request
    BY <1>1, <2>1 DEF Coupled, TypeOK
  <2>3. TypeOK'
    BY <1>1, <1>3, <2>1 DEF ReadResponse, TypeOK, handlerVars, socketVars
  <2>4. Coupled' /\ NoSurprise' /\ RustOnly'
    BY <1>1, <1>3, <2>1, <2>2 DEF ReadResponse, TypeOK, Coupled, NoSurprise, RustOnly,
      handlerVars, socketVars
  <2>5. ASSUME NEW w \in Worker, WorkerInv(w) PROVE WorkerInv(w)'
    <3>1. /\ ~Unsent(w) /\ Unsent(w)' /\ AckRead(w)
          /\ LastSent(w) = request /\ LastSent(w)' = request
      BY <2>1, <2>2 DEF Unsent, LastSent, AckRead, handlerVars
    <3>2. CASE request = "kSuspend"
      BY <2>1, <2>5, <3>1, <3>2 DEF WorkerInv, Suspended, handlerVars, socketVars
    <3>3. CASE request = "kResume"
      <4>1. Resuming(w)
        BY <2>5, <3>1, <3>3 DEF WorkerInv
      <4>2. \/ status' = "kActive" /\ failures' = failures
            \/ failures' = failures + 1
        BY <1>3, <3>3 DEF ReadResponse
      <4>3. /\ failures \in Nat /\ Owed(w) \in Nat /\ Owed(w)' = Owed(w)
            /\ Len(toWorker[w]) \in Nat
        BY <1>1, <2>1 DEF TypeOK, Owed
      <4>4. Resuming(w)'
        BY <2>1, <4>1, <4>2, <4>3 DEF Resuming, socketVars
      <4>5. QED
        BY <3>1, <3>3, <4>4 DEF WorkerInv
    <3>4. QED
      BY <1>1, <2>2, <3>2, <3>3 DEF TypeOK
  <2>6. QED
    BY <2>1, <2>3, <2>4, <2>5 DEF SEInv
<1>4. QED
  BY <1>2, <1>3

\* The handler notifies one worker after the other.
LEMMA WriteToWorkerKeepsInv == SEInv /\ WriteToWorker => SEInv'
<1> SUFFICES ASSUME SEInv, WriteToWorker, NEW h \in Worker, h = hnext PROVE SEInv'
  BY DEF SEInv, TypeOK
<1> USE SecureEnvAssumption
<1>1. TypeOK /\ Coupled /\ NoSurprise /\ RustOnly /\ \A w \in Worker : WorkerInv(w)
  BY DEF SEInv, WriteToWorker
<1>2. /\ UNCHANGED <<alive, monitorVars, channel, hop, acks, worker, input>>
      /\ toWorker' = [toWorker EXCEPT ![h] = Append(@, hop)]
      /\ hpc = "ask" /\ hnext \in Worker
  BY <1>1 DEF WriteToWorker, TypeOK
<1>3. \/ hpc' = "ask" /\ hnext' = hnext + 1 /\ hnext < N
      \/ hpc' = AfterAsking /\ hnext' = 1 /\ hnext = N
  BY <1>1, <1>2 DEF WriteToWorker, LastWorker, TypeOK, Worker
<1>4. channel = "empty" /\ request # "none" /\ hop = request
  BY <1>1, <1>2 DEF Coupled, TypeOK
<1>5. /\ toWorker[h] \in Seq({"kSuspend", "kResume"})
      /\ hop \in {"kSuspend", "kResume"}
      /\ toWorker'[h] = Append(toWorker[h], hop)
      /\ \A w \in Worker : w # h => toWorker'[w] = toWorker[w]
  BY <1>1, <1>2 DEF TypeOK
<1> DEFINE q == toWorker[h]
<1>6. /\ toWorker'[h] \in Seq({"kSuspend", "kResume"})
      /\ toWorker'[h] # <<>>
      /\ Len(toWorker'[h]) = Len(q) + 1
      /\ toWorker'[h][Len(q) + 1] = hop
      /\ \A i \in 1 .. Len(q) : toWorker'[h][i] = q[i]
      /\ Len(q) \in Nat
      /\ q = <<>> <=> Len(q) = 0
  BY <1>5, QueueFacts
<1>7. Unsent(h) /\ LastSent(h) = answered
  BY <1>1, <1>2 DEF Unsent, LastSent, TypeOK, Worker
<1>8. ~Unsent(h)' /\ LastSent(h)' = hop /\ (hop = "kSuspend" => ~AckRead(h)')
  BY <1>1, <1>2, <1>3, <1>4
     DEF Unsent, LastSent, AckRead, AfterAsking, monitorVars, TypeOK, Worker
<1>9. /\ failures \in Nat /\ Owed(h) \in Nat /\ Owed(h)' = Owed(h)
      /\ UNCHANGED <<failures, worker, acks, input>>
  BY <1>1, <1>2 DEF TypeOK, Owed, monitorVars
<1>10. WorkerInv(h)'
  <2>1. CASE hop = "kResume"
    <3>1. status = "kSuspended" /\ answered # "none"
      BY <1>1, <1>4, <2>1 DEF Coupled
    <3>2. Resuming(h)'
      <4>1. CASE answered = "kSuspend"
        <5>1. Suspended(h)
          BY <1>1, <1>2, <1>7, <4>1 DEF WorkerInv
        <5>2. QED
          BY <1>6, <1>8, <1>9, <2>1, <5>1 DEF Suspended, Resuming, Owed
      <4>2. CASE answered # "kSuspend"
        <5>1. Resuming(h)
          BY <1>1, <1>2, <1>7, <4>2 DEF WorkerInv
        <5>2. QED
          BY <1>6, <1>7, <1>8, <1>9, <2>1, <3>1, <5>1 DEF Resuming, Owed
      <4>3. QED
        BY <4>1, <4>2
    <3>3. QED
      BY <1>8, <2>1, <3>2 DEF WorkerInv
  <2>2. CASE hop = "kSuspend"
    <3>1. answered # "kSuspend"
      BY <1>1, <1>4, <2>2 DEF Coupled
    <3>2. Resuming(h)
      BY <1>1, <1>2, <1>7, <3>1 DEF WorkerInv
    <3>3. SuspendSent(h)'
      BY <1>6, <1>9, <2>2, <3>2 DEF Resuming, SuspendSent, Owed
    <3>4. QED
      BY <1>8, <2>2, <3>3 DEF WorkerInv
  <2>3. QED
    BY <1>5, <2>1, <2>2
<1>11. ASSUME NEW w \in Worker, w # h PROVE WorkerInv(w)'
  <2>1. Unsent(w)' <=> Unsent(w)
    BY <1>1, <1>2, <1>3, <1>4, <1>11
       DEF Unsent, monitorVars, TypeOK, Worker, AfterAsking
  <2>2. LastSent(w)' = LastSent(w)
    BY <1>2, <2>1 DEF LastSent, monitorVars
  <2>3. LastSent(w) = "kSuspend" /\ ~Unsent(w) => ~AckRead(w) /\ ~AckRead(w)'
    BY <1>1, <1>2, <1>3, <1>4 DEF LastSent, AckRead, AfterAsking, TypeOK, Worker
  <2>4. QED
    BY <1>1, <1>2, <1>5, <1>11, <2>1, <2>2, <2>3, WorkerFrame DEF monitorVars
<1>12. Len(q) <= MaxFailures + 1
  <2>1. Len(q) <= Owed(h) + failures /\ Owed(h) <= 1
    BY <1>1, <1>2, <1>7, <1>6, <1>9 DEF WorkerInv, Resuming, Suspended, Owed
  <2>2. QED
    BY <1>1, <1>6, <1>9, <2>1 DEF TypeOK
<1>13. TypeOK'
  <2>1. \A w \in Worker : /\ toWorker'[w] \in Seq({"kSuspend", "kResume"})
                         /\ Len(toWorker'[w]) <= MaxFailures + 2
    <3>1. /\ toWorker'[h] \in Seq({"kSuspend", "kResume"})
          /\ Len(toWorker'[h]) <= MaxFailures + 2
      BY <1>6, <1>12
    <3>2. ASSUME NEW w \in Worker, w # h
          PROVE  /\ toWorker'[w] \in Seq({"kSuspend", "kResume"})
                 /\ Len(toWorker'[w]) <= MaxFailures + 2
      BY <1>1, <1>5, <3>2 DEF TypeOK
    <3>3. QED
      BY <3>1, <3>2
  <2>2. toWorker' \in [Worker -> Seq({"kSuspend", "kResume"})]
    BY <1>1, <1>2, <2>1 DEF TypeOK
  <2>3. hnext' \in Worker /\ hpc' \in {"ask", "ack", "answer"}
    BY <1>2, <1>3 DEF Worker, AfterAsking
  <2>4. QED
    BY <1>1, <1>2, <2>1, <2>2, <2>3 DEF TypeOK, monitorVars
<1>14. Coupled' /\ NoSurprise' /\ RustOnly'
  BY <1>1, <1>2, <1>3, <1>4 DEF Coupled, NoSurprise, RustOnly, AfterAsking, monitorVars
<1>15. QED
  BY <1>10, <1>11, <1>13, <1>14 DEF SEInv

\* The handler collects the acknowledgements of a suspend.
LEMMA ReadSuspendAckKeepsInv == SEInv /\ ReadSuspendAck => SEInv'
<1> SUFFICES ASSUME SEInv, ReadSuspendAck, NEW h \in Worker, h = hnext PROVE SEInv'
  BY DEF SEInv, TypeOK
<1> USE SecureEnvAssumption
<1>1. TypeOK /\ Coupled /\ NoSurprise /\ RustOnly /\ \A w \in Worker : WorkerInv(w)
  BY DEF SEInv, ReadSuspendAck
<1>2. /\ UNCHANGED <<alive, monitorVars, channel, hop, toWorker, worker, input>>
      /\ acks' = [acks EXCEPT ![h] = @ - 1]
      /\ hpc = "ack" /\ acks[h] > 0 /\ hnext \in Worker
  BY <1>1 DEF ReadSuspendAck, TypeOK
<1>3. \/ hpc' = "ack" /\ hnext' = hnext + 1 /\ hnext < N
      \/ hpc' = "answer" /\ hnext' = 1 /\ hnext = N
  BY <1>1, <1>2 DEF ReadSuspendAck, TypeOK, Worker
<1>4. channel = "empty" /\ request # "none" /\ hop = request /\ hop = "kSuspend"
  BY <1>1, <1>2 DEF Coupled, TypeOK
<1>5. ASSUME NEW w \in Worker
      PROVE  /\ ~Unsent(w) /\ ~Unsent(w)'
             /\ LastSent(w) = "kSuspend" /\ LastSent(w)' = "kSuspend"
             /\ w # h => (AckRead(w) <=> AckRead(w)')
             /\ ~AckRead(h) /\ AckRead(h)'
  BY <1>1, <1>2, <1>3, <1>4
     DEF Unsent, LastSent, AckRead, monitorVars, TypeOK, Worker
<1>6. Acknowledging(h) /\ acks[h] = 1
  BY <1>1, <1>2, <1>5 DEF WorkerInv, SuspendSent, Acknowledging
<1>7. WorkerInv(h)'
  <2>1. acks'[h] = 0
    BY <1>1, <1>2, <1>6 DEF TypeOK
  <2>2. QED
    BY <1>2, <1>5, <1>6, <2>1 DEF WorkerInv, Acknowledging, Suspended
<1>8. ASSUME NEW w \in Worker, w # h PROVE WorkerInv(w)'
  <2>1. acks'[w] = acks[w]
    BY <1>1, <1>2, <1>8 DEF TypeOK
  <2>2. QED
    BY <1>1, <1>2, <1>5, <1>8, <2>1, WorkerFrame DEF monitorVars
<1>9. TypeOK'
  <2>1. acks' \in [Worker -> 0 .. 1]
    BY <1>1, <1>2, <1>6 DEF TypeOK
  <2>2. hnext' \in Worker
    BY <1>2, <1>3 DEF Worker
  <2>3. QED
    BY <1>1, <1>2, <1>3, <2>1, <2>2 DEF TypeOK, monitorVars
<1>10. Coupled' /\ NoSurprise' /\ RustOnly'
  BY <1>1, <1>2, <1>3, <1>4 DEF Coupled, NoSurprise, RustOnly, monitorVars
<1>11. QED
  BY <1>7, <1>8, <1>9, <1>10 DEF SEInv

\* The other steps of the handler write to no worker.
LEMMA HandlerKeepsInv ==
  SEInv /\ (ReadRequest \/ WriteSigpipe \/ ReadSuspendAckFails \/ WriteResponse)
    => SEInv'
<1> SUFFICES ASSUME SEInv, \/ ReadRequest \/ WriteSigpipe
                           \/ ReadSuspendAckFails \/ WriteResponse
             PROVE  SEInv'
  OBVIOUS
<1> USE SecureEnvAssumption
<1>1. TypeOK /\ Coupled /\ NoSurprise /\ RustOnly /\ \A w \in Worker : WorkerInv(w)
  BY DEF SEInv, ReadRequest, WriteSigpipe, ReadSuspendAckFails, WriteResponse
<1>2. UNCHANGED <<monitorVars, socketVars, worker, input>>
  BY DEF ReadRequest, WriteSigpipe, ReadSuspendAckFails, WriteResponse
<1>3. CASE WriteSigpipe
  <2>1. failures # 0 \/ worker[Rust] = "ended"
    BY <1>1, <1>3 DEF WriteSigpipe, Closed, NoSurprise, RustOnly, TypeOK
  <2>2. QED
    BY <1>1, <1>2, <1>3, <2>1 DEF WriteSigpipe, SEInv, TypeOK, Coupled, NoSurprise,
      RustOnly, monitorVars, socketVars, handlerVars
<1>4. CASE ReadRequest \/ ReadSuspendAckFails \/ WriteResponse
  <2>1. UNCHANGED alive
    BY <1>4 DEF ReadRequest, ReadSuspendAckFails, WriteResponse
  <2>2. TypeOK'
    BY <1>1, <1>2, <1>4, <2>1 DEF ReadRequest, ReadSuspendAckFails, WriteResponse,
      TypeOK, monitorVars, socketVars, Worker
  <2>3. Coupled' /\ NoSurprise' /\ RustOnly'
    BY <1>1, <1>2, <1>4, <2>1 DEF ReadRequest, ReadSuspendAckFails, WriteResponse,
      TypeOK, Coupled, NoSurprise, RustOnly, monitorVars, socketVars, Worker
  <2>4. ASSUME NEW w \in Worker PROVE WorkerInv(w)'
    <3>1. /\ Unsent(w)' <=> Unsent(w)
          /\ LastSent(w)' = LastSent(w)
          /\ ~Unsent(w) /\ LastSent(w) = "kSuspend" => (AckRead(w)' <=> AckRead(w))
      BY <1>1, <1>2, <1>4, <2>1, <2>4
         DEF ReadRequest, ReadSuspendAckFails, WriteResponse, TypeOK, Coupled,
             Unsent, LastSent, AckRead, monitorVars, Worker
    <3>2. QED
      BY <1>1, <1>2, <3>1, WorkerFrame DEF monitorVars, socketVars
  <2>5. QED
    BY <2>2, <2>3, <2>4 DEF SEInv
<1>5. QED
  BY <1>3, <1>4

-----------------------------------------------------------------------------
(* The workers and the guest keep the invariant.                           *)

\* A step of worker w, or of the guest towards w: what has to be shown is the
\* invariant of w alone.
LEMMA OnlyWorker ==
  ASSUME SEInv, NEW w \in Worker, WorkerInv(w) => WorkerInv(w)', alive,
         UNCHANGED <<alive, monitorVars, channel, handlerVars>>,
         \A v \in Worker : v # w =>
           /\ worker'[v] = worker[v] /\ toWorker'[v] = toWorker[v]
           /\ acks'[v] = acks[v] /\ input'[v] = input[v]
  PROVE  \A v \in Worker : WorkerInv(v)'
<1> SUFFICES ASSUME NEW v \in Worker, v # w PROVE WorkerInv(v)'
  BY DEF SEInv
<1>1. WorkerInv(v)
  BY DEF SEInv
<1>2. /\ Unsent(v)' <=> Unsent(v)
      /\ LastSent(v)' = LastSent(v)
      /\ AckRead(v)' <=> AckRead(v)
  BY DEF Unsent, LastSent, AckRead, monitorVars, handlerVars
<1>3. QED
  BY <1>1, <1>2, WorkerFrame DEF monitorVars

\* A worker that is not suspended serves the guest.
LEMMA SelectKeepsInv ==
  ASSUME SEInv, NEW w \in Worker,
         Select(w) \/ ProcessMessage(w) \/ FailMessage(w) \/ GuestSends(w)
  PROVE  SEInv'
<1> USE SecureEnvAssumption
<1>1. /\ TypeOK /\ Coupled /\ NoSurprise /\ RustOnly /\ WorkerInv(w) /\ alive
      /\ UNCHANGED <<alive, monitorVars, channel, handlerVars, socketVars>>
  BY DEF SEInv, Select, ProcessMessage, FailMessage, Handle, GuestSends
<1>2. /\ worker[w] \in {"select", "process"} \/ worker' = worker
      /\ \/ worker'[w] \in {worker[w], "select", "process", "readSuspend"}
         \/ worker'[w] = "ended" /\ w = Rust
      /\ \A v \in Worker : v # w => worker'[v] = worker[v] /\ input'[v] = input[v]
  BY <1>1 DEF Select, ProcessMessage, FailMessage, Handle, GuestSends, Goes, Preferred,
    TypeOK
<1>3. TypeOK' /\ Coupled'
  BY <1>1 DEF Select, ProcessMessage, FailMessage, Handle, GuestSends, Goes, Preferred,
    TypeOK, Coupled, monitorVars, socketVars, handlerVars
<1>4. NoSurprise' /\ RustOnly'
  BY <1>1, <1>2 DEF NoSurprise, RustOnly, monitorVars
<1>5. /\ Unsent(w)' <=> Unsent(w)
      /\ LastSent(w)' = LastSent(w)
      /\ AckRead(w)' <=> AckRead(w)
  BY <1>1 DEF Unsent, LastSent, AckRead, monitorVars, handlerVars
<1>6. Len(toWorker[w]) \in Nat /\ (toWorker[w] = <<>> <=> Len(toWorker[w]) = 0)
  BY <1>1, QueueFacts DEF TypeOK
<1>7. WorkerInv(w)'
  <2>1. CASE Select(w)
    <3>1. /\ worker[w] = "select" /\ input' = input
          /\ worker'[w] = Preferred(w)
          /\ input[w] = "none" => Len(toWorker[w]) >= 1
      BY <1>1, <1>6, <2>1 DEF Select, Goes, TypeOK
    <3>2. QED
      BY <1>1, <1>5, <1>6, <3>1 DEF Preferred, WorkerInv, Resuming, SuspendSent,
        Acknowledging, Suspended, Owed, monitorVars, socketVars
  <2>2. CASE ProcessMessage(w) \/ FailMessage(w)
    <3>1. worker[w] = "process" /\ worker'[w] \in {"select", "ended"}
      BY <1>1, <2>2 DEF ProcessMessage, FailMessage, Handle, Goes, TypeOK
    <3>2. QED
      BY <1>1, <1>5, <1>6, <3>1 DEF WorkerInv, Resuming, SuspendSent,
        Acknowledging, Suspended, Owed, monitorVars, socketVars
  <2>3. CASE GuestSends(w)
    <3>1. guest = "running" /\ worker' = worker
      BY <2>3 DEF GuestSends
    <3>2. LastSent(w) # "kSuspend"
      BY <1>1, <3>1 DEF Coupled, LastSent, Unsent, TypeOK
    <3>3. QED
      BY <1>1, <1>5, <3>1, <3>2 DEF WorkerInv, Resuming, Owed, monitorVars, socketVars
  <2>4. QED
    BY <2>1, <2>2, <2>3
<1>8. QED
  BY <1>1, <1>2, <1>3, <1>4, <1>7, OnlyWorker DEF SEInv, socketVars

\* A worker acknowledges a suspend.
LEMMA WriteAckKeepsInv ==
  ASSUME SEInv, NEW w \in Worker, WriteAck(w)
  PROVE  SEInv'
<1> USE SecureEnvAssumption
<1>1. /\ TypeOK /\ Coupled /\ NoSurprise /\ RustOnly /\ WorkerInv(w) /\ alive
      /\ UNCHANGED <<alive, monitorVars, channel, handlerVars, toWorker, input>>
      /\ worker[w] = "writeAck"
  BY DEF SEInv, WriteAck
<1>2. /\ LastSent(w) = "kSuspend" /\ ~Unsent(w) /\ ~AckRead(w)
      /\ Acknowledging(w) /\ acks[w] = 0
  BY <1>1 DEF WorkerInv, Resuming, Suspended, SuspendSent, Acknowledging
<1>3. /\ worker'[w] = "blocked" /\ acks'[w] = 1
      /\ \A v \in Worker : v # w => worker'[v] = worker[v] /\ acks'[v] = acks[v]
  BY <1>1, <1>2 DEF WriteAck, Goes, TypeOK
<1>4. TypeOK' /\ Coupled'
  BY <1>1, <1>2 DEF WriteAck, Goes, TypeOK, Coupled, monitorVars, handlerVars
<1>5. NoSurprise' /\ RustOnly'
  BY <1>1, <1>3 DEF NoSurprise, RustOnly, monitorVars
<1>6. /\ ~Unsent(w)' /\ ~AckRead(w)' /\ LastSent(w)' = "kSuspend"
  BY <1>1, <1>2 DEF Unsent, LastSent, AckRead, monitorVars, handlerVars
<1>7. WorkerInv(w)'
  BY <1>1, <1>2, <1>3, <1>6 DEF WorkerInv, Acknowledging
<1>8. QED
  BY <1>1, <1>3, <1>4, <1>5, <1>7, OnlyWorker DEF SEInv

\* Reading a byte: the one that is expected, or the repeated resume that a failed
\* step after secure_env's part explains.
LEMMA ReadByteKeepsInv ==
  ASSUME SEInv, NEW w \in Worker, ReadSuspendRequest(w) \/ ReadResumeRequest(w)
  PROVE  SEInv'
<1> USE SecureEnvAssumption
<1>1. /\ TypeOK /\ Coupled /\ NoSurprise /\ RustOnly /\ WorkerInv(w) /\ alive
      /\ UNCHANGED <<monitorVars, channel, handlerVars, acks, input>>
      /\ toWorker[w] # <<>>
      /\ toWorker' = [toWorker EXCEPT ![w] = Tail(@)]
  BY DEF SEInv, ReadSuspendRequest, ReadResumeRequest, ReadFromHandler
<1> DEFINE q == toWorker[w]
<1>2. /\ Len(q) \in Nat /\ Len(q) >= 1
      /\ toWorker'[w] \in Seq({"kSuspend", "kResume"})
      /\ Len(toWorker'[w]) = Len(q) - 1
      /\ toWorker'[w] = <<>> <=> Len(q) = 1
      /\ \A i \in 1 .. Len(q) - 1 : toWorker'[w][i] = q[i + 1]
      /\ Head(q) = q[1]
      /\ \A v \in Worker : v # w => toWorker'[v] = toWorker[v]
  <2>1. q \in Seq({"kSuspend", "kResume"}) /\ toWorker'[w] = Tail(q)
    BY <1>1 DEF TypeOK
  <2>2. Tail(q) \in Seq({"kSuspend", "kResume"})
    BY <1>1, <2>1, QueueFacts
  <2>3. /\ Len(q) \in Nat /\ Len(q) >= 1
        /\ Len(Tail(q)) = Len(q) - 1
        /\ \A i \in 1 .. Len(q) - 1 : Tail(q)[i] = q[i + 1]
        /\ Head(q) = q[1]
    BY <1>1, <2>1, QueueFacts
  <2>4. Tail(q) = <<>> <=> Len(Tail(q)) = 0
    BY <2>2, EmptyQueue
  <2>5. \A v \in Worker : v # w => toWorker'[v] = toWorker[v]
    BY <1>1 DEF TypeOK
  <2>6. QED
    BY <2>1, <2>2, <2>3, <2>4, <2>5
<1>3. TypeOK'
  <2>1. \A v \in Worker : /\ toWorker'[v] \in Seq({"kSuspend", "kResume"})
                         /\ Len(toWorker'[v]) <= MaxFailures + 2
    <3>1. Len(toWorker'[w]) <= MaxFailures + 2
      BY <1>1, <1>2 DEF TypeOK
    <3>2. QED
      BY <1>1, <1>2, <3>1 DEF TypeOK
  <2>2. toWorker' \in [Worker -> Seq({"kSuspend", "kResume"})]
    BY <1>1, <2>1 DEF TypeOK
  <2>3. /\ alive' \in BOOLEAN
        /\ worker' \in [Worker -> {"select", "process", "readSuspend", "writeAck",
                                   "blocked", "gone", "ended"}]
    BY <1>1 DEF ReadSuspendRequest, ReadResumeRequest, ReadFromHandler, Unexpected,
      Goes, TypeOK
  <2>4. QED
    BY <1>1, <2>1, <2>2, <2>3 DEF TypeOK, monitorVars, handlerVars
<1>4. Coupled'
  BY <1>1 DEF Coupled, monitorVars, handlerVars
<1>5. /\ Unsent(w)' <=> Unsent(w)
      /\ LastSent(w)' = LastSent(w)
      /\ AckRead(w)' <=> AckRead(w)
  BY <1>1 DEF Unsent, LastSent, AckRead, monitorVars, handlerVars
<1>6. /\ failures \in Nat /\ failures' = failures /\ status' = status
      /\ acks' = acks /\ input' = input
  BY <1>1 DEF TypeOK, monitorVars
<1>7. \/ LastSent(w) # "kSuspend" /\ Resuming(w)
      \/ /\ LastSent(w) = "kSuspend" /\ ~Unsent(w) /\ ~AckRead(w)
         /\ SuspendSent(w)
  BY <1>1 DEF WorkerInv, Suspended, Acknowledging
<1>8. CASE ReadSuspendRequest(w) /\ q[1] = "kSuspend"
  <2>1. /\ worker[w] = "readSuspend" /\ worker'[w] = "writeAck" /\ alive' = alive
        /\ \A v \in Worker : v # w => worker'[v] = worker[v]
    BY <1>1, <1>2, <1>8 DEF ReadSuspendRequest, ReadFromHandler, Goes, TypeOK
  <2>2. LastSent(w) = "kSuspend" /\ ~Unsent(w) /\ ~AckRead(w) /\ SuspendSent(w)
    BY <1>2, <1>7, <1>8 DEF Resuming
  <2>3. Len(q) = 1
    BY <1>2, <1>8, <2>2 DEF SuspendSent
  <2>4. WorkerInv(w)'
    BY <1>2, <1>5, <1>6, <2>1, <2>2, <2>3 DEF WorkerInv, SuspendSent, Acknowledging
  <2>5. NoSurprise' /\ RustOnly'
    BY <1>1, <1>6, <2>1 DEF NoSurprise, RustOnly
  <2>6. QED
    BY <1>1, <1>2, <1>3, <1>4, <2>1, <2>4, <2>5, OnlyWorker DEF SEInv
<1>9. CASE ReadResumeRequest(w)
  <2>1. worker[w] = "blocked"
    BY <1>9 DEF ReadResumeRequest, ReadFromHandler
  <2>2. q[1] = "kResume"
    BY <1>2, <1>7, <2>1 DEF Resuming, SuspendSent
  <2>3. /\ worker'[w] = "select" /\ alive' = alive
        /\ \A v \in Worker : v # w => worker'[v] = worker[v]
    BY <1>1, <1>2, <1>9, <2>2 DEF ReadResumeRequest, ReadFromHandler, Goes, TypeOK
  <2>4. Owed(w) = 1 /\ Owed(w)' = 0
    BY <2>1, <2>3 DEF Owed
  <2>5. WorkerInv(w)'
    <3>1. CASE LastSent(w) # "kSuspend" /\ Resuming(w)
      <4>1. Resuming(w)'
        BY <1>2, <1>5, <1>6, <2>3, <2>4, <3>1 DEF Resuming
      <4>2. QED
        BY <1>5, <3>1, <4>1 DEF WorkerInv
    <3>2. CASE /\ LastSent(w) = "kSuspend" /\ ~Unsent(w) /\ ~AckRead(w)
               /\ SuspendSent(w)
      <4>1. Len(q) >= 2 /\ Len(q) - 1 <= 1 + failures
        BY <2>1, <2>4, <3>2 DEF SuspendSent
      <4>2. /\ toWorker'[w] # <<>>
            /\ toWorker'[w][Len(toWorker'[w])] = "kSuspend"
            /\ \A i \in 1 .. Len(toWorker'[w]) - 1 : toWorker'[w][i] = "kResume"
        <5>1. q \in Seq({"kSuspend", "kResume"}) /\ toWorker'[w] = Tail(q)
          BY <1>1 DEF TypeOK
        <5>2. /\ q[Len(q)] = "kSuspend"
              /\ \A i \in 1 .. Len(q) - 1 : q[i] = "kResume"
          BY <3>2 DEF SuspendSent
        <5>3. QED
          BY <4>1, <5>1, <5>2, SuspendStaysLast
      <4>3. SuspendSent(w)'
        BY <1>2, <1>6, <2>3, <2>4, <3>2, <4>1, <4>2 DEF SuspendSent
      <4>4. QED
        BY <1>5, <3>2, <4>3 DEF WorkerInv
    <3>3. QED
      BY <1>7, <3>1, <3>2
  <2>6. NoSurprise' /\ RustOnly'
    BY <1>1, <1>6, <2>3 DEF NoSurprise, RustOnly
  <2>7. QED
    BY <1>1, <1>2, <1>3, <1>4, <2>3, <2>5, <2>6, OnlyWorker DEF SEInv
<1>10. CASE ReadSuspendRequest(w) /\ q[1] # "kSuspend"
  <2>1. worker[w] = "readSuspend" /\ Unexpected(w)
    BY <1>2, <1>10 DEF ReadSuspendRequest, ReadFromHandler
  <2>2. failures >= 1
    BY <1>2, <1>6, <1>7, <1>10, <2>1 DEF Resuming, SuspendSent, Owed
  <2>3. NoSurprise' /\ RustOnly'
    <3>1. NoSurprise'
      BY <1>6, <2>2 DEF NoSurprise
    <3>2. RustOnly'
      BY <1>1, <2>1 DEF Unexpected, Goes, TypeOK, RustOnly
    <3>3. QED
      BY <3>1, <3>2
  <2>4. CASE ~alive'
    BY <1>3, <1>4, <2>3, <2>4 DEF SEInv
  <2>5. CASE alive'
    <3>1. /\ worker'[w] = "gone" /\ alive' = alive
          /\ \A v \in Worker : v # w => worker'[v] = worker[v]
      BY <1>1, <2>1, <2>5 DEF Unexpected, Goes, TypeOK
    <3>2. Owed(w) = 0 /\ Owed(w)' = 0
      BY <2>1, <3>1 DEF Owed
    <3>3. WorkerInv(w)'
      <4>1. CASE LastSent(w) # "kSuspend" /\ Resuming(w)
        <5>1. Resuming(w)'
          BY <1>2, <1>5, <1>6, <3>1, <3>2, <4>1 DEF Resuming
        <5>2. QED
          BY <1>5, <4>1, <5>1 DEF WorkerInv
      <4>2. CASE /\ LastSent(w) = "kSuspend" /\ ~Unsent(w) /\ ~AckRead(w)
                 /\ SuspendSent(w)
        <5>1. Len(q) >= 2
          BY <1>2, <1>10, <4>2 DEF SuspendSent
        <5>2. /\ toWorker'[w] # <<>>
              /\ toWorker'[w][Len(toWorker'[w])] = "kSuspend"
              /\ \A i \in 1 .. Len(toWorker'[w]) - 1 : toWorker'[w][i] = "kResume"
          BY <1>1, <4>2, <5>1, SuspendStaysLast DEF SuspendSent, TypeOK
        <5>3. SuspendSent(w)'
          BY <1>2, <1>6, <3>1, <3>2, <4>2, <5>1, <5>2 DEF SuspendSent
        <5>4. QED
          BY <1>5, <4>2, <5>3 DEF WorkerInv
      <4>3. QED
        BY <1>7, <4>1, <4>2
    <3>4. QED
      BY <1>1, <1>2, <1>3, <1>4, <2>3, <3>1, <3>3, OnlyWorker DEF SEInv
  <2>6. QED
    BY <2>4, <2>5
<1>11. QED
  BY <1>8, <1>9, <1>10

\* Every step of the handler, the workers, run_cvd and the guest keeps SEInv.
LEMMA SEInvNext == SEInv /\ [Next]_vars => SEInv'
<1> SUFFICES ASSUME SEInv, [Next]_vars PROVE SEInv'
  OBVIOUS
<1>1. CASE RequestSuspend \/ RequestResume \/ ReadResponse
  BY <1>1, MonitorKeepsInv
<1>2. CASE HandlerStep
  BY <1>2, WriteToWorkerKeepsInv, ReadSuspendAckKeepsInv, HandlerKeepsInv
     DEF HandlerStep
<1>3. CASE \E w \in Worker : WorkerStep(w)
  BY <1>3, SelectKeepsInv, WriteAckKeepsInv, ReadByteKeepsInv DEF WorkerStep
<1>4. CASE \E w \in Worker : GuestSends(w)
  BY <1>4, SelectKeepsInv
<1>5. CASE UNCHANGED vars
  BY <1>5 DEF vars, monitorVars, handlerVars, socketVars, SEInv, TypeOK, Coupled,
    NoSurprise, RustOnly, WorkerInv, LastSent, Unsent, AckRead, Resuming, SuspendSent,
    Acknowledging, Suspended, Owed
<1>6. QED
  BY <1>1, <1>2, <1>3, <1>4, <1>5 DEF Next

\* SEInv is an inductive invariant of secure_env.
LEMMA SEInvHolds == Spec => []SEInv
BY SEInvInit, SEInvNext, PTL DEF Spec

-----------------------------------------------------------------------------
(* The theorems.                                                           *)

\* The state of the handler, the sockets and the workers of secure_env is of
\* its type: a worker has at most one acknowledgement under way, and no more
\* bytes before it than two and one for each failed resume.
THEOREM SecureEnvTypes == Spec => []TypeOK
<1>1. SEInv => TypeOK
  BY DEF SEInv
<1>2. QED
  BY <1>1, SEInvHolds, PTL

\* When SnapshotCommandHandler has answered a suspend, every worker thread is
\* blocked, with nothing before it, until the next request: whatever resumes
\* were repeated or overtaken before.
THEOREM QuietWhileSuspendedHolds == Spec => []QuietWhileSuspended
BY SEInvHolds, SEInvQuiet, PTL

\* While no resume was repeated, no worker of secure_env reads a byte that it
\* does not expect; secure_env then dies only of a write to the Rust worker after
\* a message of the guest made that one return.
THEOREM NoSurpriseHolds == Spec => []NoSurprise
<1>1. SEInv => NoSurprise
  BY DEF SEInv
<1>2. QED
  BY <1>1, SEInvHolds, PTL
=============================================================================
