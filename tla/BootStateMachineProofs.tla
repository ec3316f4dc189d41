----------------------- MODULE BootStateMachineProofs -----------------------
(***************************************************************************)
(* The type invariant, with the bound on the event pipe, and OneVerdict,   *)
(* for every pipe size, number of crashes of kernel_log_monitor and        *)
(* configuration of the device.                                            *)
(***************************************************************************)
EXTENDS BootStateMachine, SequenceTheorems, TLAPS

\* The types the argument needs.
NoticeTypes ==
  /\ open \in [Recipients -> BOOLEAN]
  /\ got \in [Recipients -> Codes \cup {"none"}]

\* The verdict is taken when the loop is left, and nobody is told before.
Undecided ==
  /\ thread \in {"poll", "handle"} => state = {}
  /\ state = {} => \A r \in Recipients : got[r] = "none"

BInv == NoticeTypes /\ Undecided /\ OneVerdict

\* MaybeWriteNotification is called with one bit set, before any verdict: it
\* tells everyone the same code and closes every descriptor.
LEMMA NotifyOnce ==
  ASSUME BInv, state = {}, state' # {},
         state' \in SUBSET {"kGuestBootCompleted", "kGuestBootFailed"},
         state' # {"kGuestBootCompleted", "kGuestBootFailed"},
         MaybeWriteNotification(state'),
         thread' \in {"failing", "drain", "done"}
  PROVE  BInv'
<1> USE DEF BInv, NoticeTypes, Undecided, OneVerdict, BootCompleted, Codes
<1>1. /\ open' = [r \in Recipients |-> FALSE]
      /\ got' \in [Recipients -> Codes \cup {"none"}]
  BY DEF MaybeWriteNotification
<1>2. \A r \in Recipients :
         got'[r] # "none" => (got'[r] = "kSuccess" <=> BootCompleted(state'))
  BY DEF MaybeWriteNotification
<1>3. QED
  BY <1>1, <1>2

\* Steps that touch neither the verdict nor the descriptors, and do not bring
\* the thread back into the loop.
LEMMA NoVerdict ==
  ASSUME BInv, UNCHANGED <<open, got, state>>,
         thread' = thread \/ thread' \in {"drain", "read", "done", "failing", "failWait"}
                          \/ thread \in {"poll", "handle"}
  PROVE  BInv'
BY DEF BInv, NoticeTypes, Undecided, OneVerdict, BootCompleted

\* OneVerdict holds in every run of the boot state machine: no recipient is told
\* twice, and none is told another verdict than the one run_cvd acts on.
THEOREM OneVerdictHolds == Spec => []OneVerdict
<1>1. Init => BInv
  BY DEF Init, BInv, NoticeTypes, Undecided, OneVerdict, BootCompleted, Codes
<1>2. BInv /\ [Next]_vars => BInv'
  <2> SUFFICES ASSUME BInv, [Next]_vars PROVE BInv'
    OBVIOUS
  <2>1. CASE Poll \/ PollAgain \/ HandleOtherEvent
    BY <2>1, NoVerdict DEF Poll, PollAgain, HandleOtherEvent, EventsTurn
  <2>2. CASE HandleInterrupt \/ HandleLauncherGone \/ RequestFail \/ FailAction
    BY <2>2, NoVerdict DEF HandleInterrupt, HandleLauncherGone, RequestFail,
       FailAction
  <2>3. CASE DrainPoll \/ DrainEvent \/ DrainInterrupted
    BY <2>3, NoVerdict DEF DrainPoll, DrainEvent, DrainInterrupted
  <2>4. CASE HandleFinalEvent
    <3>1. state = {} /\ MaybeWriteNotification(state')
      BY <2>4 DEF HandleFinalEvent, EventsTurn, BInv, Undecided
    <3>2. \/ state' = {"kGuestBootCompleted"}
          \/ state' = {"kGuestBootFailed"}
      BY <2>4, <3>1 DEF HandleFinalEvent
    <3>3. thread' \in {"failing", "drain", "done"}
      BY <2>4 DEF HandleFinalEvent, Break
    <3>4. QED
      BY <3>1, <3>2, <3>3, NotifyOnce
  <2>5. CASE HandleRestore
    <3>1. state = {} /\ MaybeWriteNotification(state')
      BY <2>5 DEF HandleRestore, BInv, Undecided
    <3>2. \/ state' = {"kGuestBootCompleted"}
          \/ state' = {"kGuestBootFailed"}
      BY <2>5, <3>1 DEF HandleRestore
    <3>3. thread' \in {"failing", "drain", "done"}
      BY <2>5 DEF HandleRestore, Break
    <3>4. QED
      BY <3>1, <3>2, <3>3, NotifyOnce
  <2>6. CASE \/ WriteEvent \/ TearEvent \/ RestoreCompletes \/ RestoreAborts
             \/ RestoreGivesUp \/ Interrupt \/ Join
    BY <2>6, NoVerdict DEF WriteEvent, TearEvent, RestoreCompletes, RestoreAborts,
      RestoreGivesUp, Interrupt, Join
  <2>7. CASE \E r \in Recipients : RecipientLeaves(r)
    BY <2>7, NoVerdict DEF RecipientLeaves
  <2>8. CASE UNCHANGED vars
    BY <2>8, NoVerdict DEF vars
  <2>9. QED
    BY <2>1, <2>2, <2>3, <2>4, <2>5, <2>6, <2>7, <2>8 DEF Next, ThreadStep
<1>3. BInv => OneVerdict
  BY DEF BInv
<1>4. QED
  BY <1>1, <1>2, <1>3, PTL DEF Spec

-----------------------------------------------------------------------------
(* Types.                                                                  *)

Messages == Events \cup {"Torn"}

\* What ReadEvent leaves of the pipe when it returns: less than there was.
LEMMA RestTypes ==
  ASSUME TypeOK, Readable
  PROVE  Rest \in Seq(Messages) /\ Len(Rest) <= PipeSize
<1>1. pipe \in Seq(Messages) /\ pipe # <<>> /\ Len(pipe) <= PipeSize
  BY DEF TypeOK, Readable, Messages
<1>2. Len(pipe) \in Nat /\ PipeSize \in Nat
  BY <1>1, BootAssumption
<1> HIDE DEF Messages
<1>3. Tail(pipe) \in Seq(Messages) /\ Len(Tail(pipe)) = Len(pipe) - 1
  BY <1>1, HeadTailProperties
<1>4. CASE Head(pipe) # "Torn"
  BY <1>1, <1>2, <1>3, <1>4 DEF Rest
<1>5. CASE Head(pipe) = "Torn"
  <2>1. Len(pipe) > 1
    BY <1>5 DEF Readable
  <2>2. Tail(pipe) # <<>>
    <3>1. Len(Tail(pipe)) # 0
      BY <1>2, <1>3, <2>1
    <3> QED BY <1>3, <3>1, EmptySeq
  <2>3. Tail(Tail(pipe)) \in Seq(Messages) /\ Len(Tail(Tail(pipe))) = Len(Tail(pipe)) - 1
    BY <1>3, <2>2, HeadTailProperties
  <2> QED BY <1>1, <1>2, <1>3, <1>5, <2>3 DEF Rest
<1> QED BY <1>4, <1>5

\* kernel_log_monitor writes only while there is room in the pipe.
LEMMA AppendTypes ==
  ASSUME TypeOK, Len(pipe) < PipeSize, NEW e \in Messages, pipe' = Append(pipe, e)
  PROVE  pipe' \in Seq(Messages) /\ Len(pipe') <= PipeSize
<1>1. pipe \in Seq(Messages)
  BY DEF TypeOK, Messages
<1>2. Len(pipe) \in Nat /\ PipeSize \in Nat
  BY <1>1, BootAssumption
<1> HIDE DEF Messages
<1> QED BY <1>1, <1>2, AppendProperties

\* MaybeWriteNotification keeps to the types, whatever the verdict.
LEMMA NotifyTypes ==
  ASSUME TypeOK, NEW s, MaybeWriteNotification(s)
  PROVE  /\ open' \in [Recipients -> BOOLEAN]
         /\ got' \in [Recipients -> Codes \cup {"none"}]
         /\ proc' \in {proc, "sigpipe"}
BY DEF TypeOK, MaybeWriteNotification, Codes

\* The event pipe never holds more than it has room for, and a torn message is
\* never read before there is something that completes it: the state of the
\* boot state machine keeps to its types.
THEOREM BootTypes == Spec => []TypeOK
<1>1. Init => TypeOK
  <2>1. <<>> \in Seq(Events \cup {"Torn"}) /\ Len(<<>>) = 0
    OBVIOUS
  <2>2. 0 <= PipeSize /\ 0 \in 0 .. MaxCrashes
    BY BootAssumption
  <2> QED BY <2>1, <2>2 DEF Init, TypeOK, Codes
<1>2. TypeOK /\ [Next]_vars => TypeOK'
  <2> SUFFICES ASSUME TypeOK, [Next]_vars PROVE TypeOK'
    OBVIOUS
  <2>1. CASE WriteEvent
    <3>1. PICK e \in Messages : pipe' = Append(pipe, e)
      BY <2>1 DEF WriteEvent, Messages
    <3>2. pipe' \in Seq(Messages) /\ Len(pipe') <= PipeSize
      BY <2>1, <3>1, AppendTypes DEF WriteEvent
    <3> QED BY <2>1, <3>2 DEF WriteEvent, TypeOK, Messages
  <2>2. CASE TearEvent
    <3>1. pipe' \in Seq(Messages) /\ Len(pipe') <= PipeSize
      BY <2>2, AppendTypes DEF TearEvent, Messages
    <3> QED BY <2>2, <3>1, BootAssumption DEF TearEvent, TypeOK, Messages
  <2>3. CASE \/ RestoreCompletes \/ RestoreAborts \/ RestoreGivesUp \/ Interrupt \/ Join
             \/ \E r \in Recipients : RecipientLeaves(r)
    BY <2>3 DEF RestoreCompletes, RestoreAborts, RestoreGivesUp, Interrupt, Join,
       RecipientLeaves, TypeOK
  <2>4. CASE Poll
    BY <2>4 DEF Poll, PollResult, TypeOK
  <2>5. CASE \/ HandleInterrupt \/ HandleLauncherGone \/ RequestFail \/ FailAction \/ PollAgain
             \/ DrainPoll \/ DrainInterrupted
    BY <2>5 DEF HandleInterrupt, HandleLauncherGone, RequestFail, FailAction, PollAgain,
       DrainPoll, DrainInterrupted, TypeOK
  <2>6. CASE HandleOtherEvent
    <3>1. pipe' \in Seq(Messages) /\ Len(pipe') <= PipeSize
      BY <2>6, RestTypes DEF HandleOtherEvent
    <3> QED BY <2>6, <3>1 DEF HandleOtherEvent, TypeOK, Messages
  <2>7. CASE DrainEvent
    <3>1. pipe' \in Seq(Messages) /\ Len(pipe') <= PipeSize
      BY <2>7, RestTypes DEF DrainEvent
    <3> QED BY <2>7, <3>1 DEF DrainEvent, TypeOK, Messages
  <2>8. CASE HandleFinalEvent
    <3>1. pipe' \in Seq(Messages) /\ Len(pipe') <= PipeSize
      BY <2>8, RestTypes DEF HandleFinalEvent
    <3>2. /\ state' \subseteq {"kGuestBootCompleted", "kGuestBootFailed"}
          /\ MaybeWriteNotification(state')
          /\ thread' \in {"failing", "drain", "done"}
      BY <2>8 DEF HandleFinalEvent, Break, TypeOK
    <3>3. ready' = {} /\ UNCHANGED <<crashes, left, restore, interrupt>>
      BY <2>8 DEF HandleFinalEvent
    <3> QED BY <3>1, <3>2, <3>3, NotifyTypes DEF TypeOK, Messages
  <2>9. CASE HandleRestore
    <3>1. /\ state' \subseteq {"kGuestBootCompleted", "kGuestBootFailed"}
          /\ MaybeWriteNotification(state')
          /\ thread' \in {"drain", "done"}
      BY <2>9 DEF HandleRestore, Break, TypeOK
    <3>2. ready' = {} /\ UNCHANGED <<pipe, crashes, left, restore, interrupt>>
      BY <2>9 DEF HandleRestore
    <3> QED BY <3>1, <3>2, NotifyTypes DEF TypeOK
  <2>10. CASE UNCHANGED vars
    BY <2>10 DEF vars, TypeOK
  <2> QED BY <2>1, <2>2, <2>3, <2>4, <2>5, <2>6, <2>7, <2>8, <2>9, <2>10 DEF Next, ThreadStep
<1> QED BY <1>1, <1>2, PTL DEF Spec
=============================================================================
