---------------------------- MODULE UserArtifacts ----------------------------
(***************************************************************************)
(* One user artifact of the host orchestrator (orchestrator/userartifacts.go)*)
(* while requests upload it in chunks, publish it and extract it.  Several *)
(* orchestrators share the root directory; each has a working directory, a *)
(* read-write lock and a record of the uploaded ranges of its own, and may *)
(* be killed and started again.                                            *)
(*                                                                         *)
(* A byte is "good", as in the artifact with this checksum, or "bad" (also *)
(* the zeros of a hole), so a file has the right checksum when it has the  *)
(* right length and only good bytes.  A directory is named after the       *)
(* orchestrator that made it: published = o says that os.Rename has moved  *)
(* o's directory to the path of the artifact, and files[o] is what is in it *)
(* before and after.                                                       *)
(***************************************************************************)
EXTENDS Naturals, Sequences, FiniteSets

CONSTANTS
  Orchestrator,  \* host orchestrator processes
  Request,       \* requests under way at a time
  Upload,        \* Upload[o]: the chunks clients send to o
  Size,          \* length of the artifact
  MaxCrashes,    \* bound on restarts
  None

ASSUME ArtifactAssumption ==
  /\ Size \in Nat \ {0} /\ MaxCrashes \in Nat
  /\ None \notin Orchestrator \cup Request \cup Nat
  /\ \A o \in Orchestrator : \A c \in Upload[o] :
       /\ c # None
       /\ c.offset \in Nat /\ c.size \in Nat /\ c.fileSize \in Nat
       /\ c.good \in BOOLEAN

VARIABLES
  pc,         \* pc[r]: where request r is
  at,         \* at[r]: the orchestrator that serves it, None if it is idle
  chunk,      \* chunk[r]: what it uploads, if anything
  written,    \* written[r]: bytes of it that are in the file
  readers,    \* readers[o], writer[o]: the RWMutex of the checksum
  writer,
  files,      \* files[o]: name to contents, in the directory o made
  published,  \* whose directory is at UpdatedArtifactPath
  unpacked,   \* unpacked[r]: of what r has extracted into a temporary directory
  extracted,  \* of what there is a directory at ExtractedArtifactPath, or None
  fileSize,   \* fileSize[o]: of o's chunkState, None if there is no chunkState
  items,      \* items[o]: of o's chunkState
  doubt,      \* doubt[o]: history, did a chunk mislead, or a request fail?
  crashes

requestVars == <<pc, at, chunk, written>>
lockVars    == <<readers, writer>>
stateVars   == <<fileSize, items>>
extractVars == <<unpacked, extracted>>
vars == <<requestVars, lockVars, files, published, extractVars, stateVars, doubt,
          crashes>>

Chunks   == UNION {Upload[o] : o \in Orchestrator}
Names    == {c.name : c \in Chunks}
Content  == [i \in 1 .. Size |-> "good"]
MaxSize  == CHOOSE n \in {c.fileSize : c \in Chunks} :
              \A c \in Chunks : c.fileSize <= n

\* File sizes are of a fixed width, so that one of them is the largest.
ASSUME LongestAssumption ==
  Chunks # {} => \E d \in Chunks : \A c \in Chunks : c.fileSize <= d.fileSize

\* A read-write lock is held by readers or by one writer.
TypeOK ==
  /\ pc \in [Request -> {"idle", "rlock", "write", "completed", "lock",
                         "rename", "extract", "moveExtracted"}]
  /\ at \in [Request -> Orchestrator \cup {None}]
  /\ \A r \in Request :
       /\ at[r] = None <=> pc[r] = "idle"
       /\ chunk[r] = None <=> pc[r] \in {"idle", "extract", "moveExtracted"}
       /\ chunk[r] = None => written[r] = 0
       /\ chunk[r] # None => chunk[r] \in Chunks /\ written[r] \in 0 .. chunk[r].size
  /\ readers \in [Orchestrator -> SUBSET Request]
  /\ writer \in [Orchestrator -> Request \cup {None}]
  /\ \A o \in Orchestrator : /\ writer[o] # None => readers[o] = {}
                             /\ DOMAIN files[o] \subseteq Names
                             /\ \A n \in DOMAIN files[o] : Len(files[o][n]) <= MaxSize
                             /\ fileSize[o] \in {None} \cup {c.fileSize : c \in Chunks}
                             /\ items[o] \subseteq [offset : 0 .. MaxSize, isUpdated : BOOLEAN]
  /\ published \in Orchestrator \cup {None}
  /\ DOMAIN unpacked = Request
  /\ \A r \in Request : unpacked[r] # None => pc[r] = "moveExtracted"
  /\ doubt \in [Orchestrator -> BOOLEAN]
  /\ crashes \in 0 .. MaxCrashes

Init ==
  /\ pc = [r \in Request |-> "idle"]
  /\ at = [r \in Request |-> None] /\ chunk = [r \in Request |-> None]
  /\ written = [r \in Request |-> 0]
  /\ readers = [o \in Orchestrator |-> {}]
  /\ writer = [o \in Orchestrator |-> None]
  /\ files = [o \in Orchestrator |-> <<>>]
  /\ published = None
  /\ unpacked = [r \in Request |-> None] /\ extracted = None
  /\ fileSize = [o \in Orchestrator |-> None]
  /\ items = [o \in Orchestrator |-> {}]
  /\ doubt = [o \in Orchestrator |-> FALSE]
  /\ crashes = 0

-----------------------------------------------------------------------------
(* chunkState: the recorded ranges as a tree of items, each the start of a *)
(* range that is, or is not, uploaded.                                     *)

getItemOrPrev(its, offset) ==
  {i \in its : /\ i.offset <= offset
               /\ \A j \in its : j.offset <= offset => j.offset <= i.offset}

getItemOrNext(its, offset) ==
  {i \in its : /\ i.offset >= offset
               /\ \A j \in its : j.offset >= offset => j.offset >= i.offset}

\* Mutant of WithoutItems: the item at the end of the range is kept.
WithoutItemsBeforeEnd(its, start, end) ==
  {i \in its : i.offset < start \/ i.offset >= end}

WithoutItems(its, start, end) ==
  {i \in its : i.offset < start \/ i.offset > end}

WithStart(its, start) ==
  IF \E p \in getItemOrPrev(its, start) : p.isUpdated
    THEN its ELSE its \cup {[offset |-> start, isUpdated |-> TRUE]}

WithEnd(its, end) ==
  IF \E n \in getItemOrNext(its, end) : ~n.isUpdated
    THEN its ELSE its \cup {[offset |-> end, isUpdated |-> FALSE]}

\* An invalid range is an error that the caller ignores.
ValidRange(start, end, size) == end <= size /\ start < end

Update(its, start, end) ==
  WithEnd(WithStart(WithoutItems(its, start, end), start), end)

IsCompleted(its, size) ==
  /\ Cardinality(its) = 2
  /\ [offset |-> 0, isUpdated |-> TRUE] \in its
  /\ [offset |-> size, isUpdated |-> FALSE] \in its

-----------------------------------------------------------------------------
(* UpdateArtifact.                                                         *)

ValidChunk(c) == c.offset + c.size <= c.fileSize

Goes(r, p) == pc' = [pc EXCEPT ![r] = p] /\ UNCHANGED <<at, chunk, written>>

\* The request returns.
Ends(r) ==
  /\ pc' = [pc EXCEPT ![r] = "idle"]
  /\ at' = [at EXCEPT ![r] = None]
  /\ chunk' = [chunk EXCEPT ![r] = None]
  /\ written' = [written EXCEPT ![r] = 0]

BeginUpload(r) ==
  /\ pc[r] = "idle"
  /\ \E o \in Orchestrator : \E c \in Upload[o] :
       /\ ValidChunk(c)
       /\ at' = [at EXCEPT ![r] = o] /\ chunk' = [chunk EXCEPT ![r] = c]
  /\ pc' = [pc EXCEPT ![r] = "rlock"]
  /\ UNCHANGED <<written, lockVars, files, published, extractVars, stateVars, doubt, crashes>>

\* A waiting Lock() keeps new readers out.
CanRLock(o) ==
  /\ writer[o] = None
  /\ \A r \in Request : ~(at[r] = o /\ pc[r] = "lock")

RUnlock(r) == readers' = [readers EXCEPT ![at[r]] = @ \ {r}]

HoldRLock(r) == readers' = [readers EXCEPT ![at[r]] = @ \cup {r}]

\* A chunk that names another file or another length than the rest.
Misleads(o, c) ==
  c.fileSize # Size \/ DOMAIN files[o] \notin {{}, {c.name}}

\* The directory d once file n is opened or created.
Opened(d, n) ==
  [m \in DOMAIN d \cup {n} |-> IF m \in DOMAIN d THEN d[m] ELSE <<>>]

\* RLock, the check that the artifact does not exist yet, createDir and
\* OpenFile.
OpenChunk(r) ==
  LET o == at[r]
      n == chunk[r].name
  IN  /\ pc[r] = "rlock" /\ CanRLock(o)
      /\ IF published # None
           THEN Ends(r) /\ UNCHANGED <<readers, files, doubt>>
           ELSE /\ Goes(r, "write")
                /\ HoldRLock(r)
                /\ files' = [files EXCEPT ![o] = Opened(@, n)]
                /\ doubt' = [doubt EXCEPT ![o] = @ \/ Misleads(o, chunk[r])]
      /\ UNCHANGED <<writer, published, extractVars, stateVars,
                     crashes>>

\* An I/O error of the check, of createDir or of OpenFile.
OpenFails(r) ==
  /\ pc[r] = "rlock" /\ CanRLock(at[r])
  /\ Ends(r)
  /\ UNCHANGED <<lockVars, files, published, extractVars, stateVars, doubt, crashes>>

\* Mutant of Put: the file is opened for appending.
PutAtEnd(s, pos, b) == Append(s, b)

\* The contents s with byte b at pos; the bytes skipped before it are zeros.
Put(s, pos, b) ==
  [i \in 1 .. IF pos > Len(s) THEN pos ELSE Len(s) |->
     IF i = pos THEN b ELSE IF i <= Len(s) THEN s[i] ELSE "bad"]

\* io.Copy, byte by byte: other requests write the same file meanwhile.
WriteByte(r) ==
  LET o   == at[r]
      c   == chunk[r]
      pos == c.offset + written[r] + 1
  IN  /\ pc[r] = "write" /\ written[r] < c.size
      /\ files' = [files EXCEPT ![o][c.name] =
                     Put(@, pos, IF c.good THEN "good" ELSE "bad")]
      /\ written' = [written EXCEPT ![r] = @ + 1]
      /\ UNCHANGED <<pc, at, chunk, lockVars, published, extractVars, stateVars,
                     doubt, crashes>>

WriteFails(r) ==
  /\ pc[r] = "write" /\ written[r] < chunk[r].size
  /\ Ends(r)
  /\ RUnlock(r)
  /\ doubt' = [doubt EXCEPT ![at[r]] = TRUE]
  /\ UNCHANGED <<writer, files, published, extractVars,
                 stateVars, crashes>>

\* getChunkState, where the first chunk decides on the file size, and
\* chunkState.Update, whose error is ignored.
UpdateState(r) ==
  LET o     == at[r]
      c     == chunk[r]
      size  == IF fileSize[o] = None THEN c.fileSize ELSE fileSize[o]
      end   == c.offset + c.size
      valid == ValidRange(c.offset, end, size)
  IN  /\ pc[r] = "write" /\ written[r] = c.size
      /\ fileSize' = [fileSize EXCEPT ![o] = size]
      /\ items' = [items EXCEPT ![o] =
                     IF valid THEN Update(@, c.offset, end) ELSE @]
      /\ Goes(r, "completed")
      /\ UNCHANGED <<lockVars, files, published, extractVars,
                     doubt, crashes>>

\* Mutant of AskCompleted: only the chunk at the end of the file asks.
AskCompletedAtEnd(r) ==
  LET o == at[r]
  IN  /\ pc[r] = "completed"
      /\ IF /\ IsCompleted(items[o], fileSize[o])
            /\ chunk[r].offset + chunk[r].size = fileSize[o]
           THEN Goes(r, "lock") ELSE Ends(r)
      /\ RUnlock(r)
      /\ UNCHANGED <<writer, files, published, extractVars, stateVars, doubt, crashes>>

\* Others may have updated the state since.
AskCompleted(r) ==
  LET o == at[r]
  IN  /\ pc[r] = "completed"
      /\ IF IsCompleted(items[o], fileSize[o]) THEN Goes(r, "lock") ELSE Ends(r)
      /\ RUnlock(r)
      /\ UNCHANGED <<writer, files, published, extractVars,
                     stateVars, doubt, crashes>>

\* Mutant of validateChecksum: the length is enough.
validateLength(r) ==
  Len(files[at[r]][chunk[r].name]) = chunk[r].fileSize

validateChecksum(r) ==
  LET f == files[at[r]][chunk[r].name]
  IN  Len(f) = chunk[r].fileSize /\ f = Content

\* Mutant of AfterCheck: tries again until the checksum matches.
AfterCheckAgain(r) ==
  \/ /\ published = None /\ validateChecksum(r)
     /\ Goes(r, "rename") /\ writer' = [writer EXCEPT ![at[r]] = r]
  \/ published # None /\ Ends(r) /\ UNCHANGED writer
  \/ published = None /\ ~validateChecksum(r) /\ Goes(r, "lock") /\ UNCHANGED writer

\* The lock is kept for the rename only if it is to happen.
AfterCheck(r) ==
  IF published = None /\ validateChecksum(r)
    THEN Goes(r, "rename") /\ writer' = [writer EXCEPT ![at[r]] = r]
    ELSE Ends(r) /\ UNCHANGED writer

CanLock(o) == readers[o] = {} /\ writer[o] = None

\* moveArtifactIfNeeded up to the rename.
CheckArtifact(r) ==
  /\ pc[r] = "lock" /\ CanLock(at[r])
  /\ AfterCheck(r)
  /\ UNCHANGED <<readers, files, published, extractVars,
                 stateVars, doubt, crashes>>

\* dirExists or validateChecksum meets an I/O error, of which the client is told.
CheckFails(r) ==
  /\ pc[r] = "lock" /\ CanLock(at[r])
  /\ Ends(r)
  /\ doubt' = [doubt EXCEPT ![at[r]] = TRUE]
  /\ UNCHANGED <<lockVars, files, published, extractVars, stateVars, crashes>>

\* Mutant of MoveArtifact: the target is removed first.
MoveArtifactReplacing(r) ==
  /\ pc[r] = "rename"
  /\ published' = at[r]
  /\ fileSize' = [fileSize EXCEPT ![at[r]] = None]
  /\ items' = [items EXCEPT ![at[r]] = {}]
  /\ Ends(r)
  /\ writer' = [writer EXCEPT ![at[r]] = None]
  /\ UNCHANGED <<readers, files, extractVars, doubt, crashes>>

\* os.Rename fails if another orchestrator has moved its directory there: the
\* target is not empty.  Then the chunkState stays.
MoveArtifact(r) ==
  LET o == at[r]
  IN  /\ pc[r] = "rename"
      /\ IF published = None
           THEN /\ published' = o
                /\ fileSize' = [fileSize EXCEPT ![o] = None]
                /\ items' = [items EXCEPT ![o] = {}]
           ELSE UNCHANGED <<published, stateVars>>
      /\ Ends(r)
      /\ writer' = [writer EXCEPT ![o] = None]
      /\ UNCHANGED <<readers, files, extractVars, doubt, crashes>>

\* Any other error of os.Rename.
MoveFails(r) ==
  /\ pc[r] = "rename"
  /\ Ends(r)
  /\ writer' = [writer EXCEPT ![at[r]] = None]
  /\ doubt' = [doubt EXCEPT ![at[r]] = TRUE]
  /\ UNCHANGED <<readers, files, published, extractVars, stateVars, crashes>>

-----------------------------------------------------------------------------
(* ExtractArtifact, in the goroutine of an operation.                      *)

\* Mutant of SingleFile: any file will do.
SomeFile(d) == DOMAIN d # {}

\* getFilePath: the directory of the artifact must hold exactly one file.
SingleFile(d) == \E n \in DOMAIN d : DOMAIN d = {n}

BeginExtract(r) ==
  /\ pc[r] = "idle"
  /\ extracted = None /\ published # None /\ SingleFile(files[published])
  /\ \E o \in Orchestrator : at' = [at EXCEPT ![r] = o]
  /\ pc' = [pc EXCEPT ![r] = "extract"]
  /\ UNCHANGED <<chunk, written, lockVars, files, published, extractVars, stateVars,
                 doubt, crashes>>

\* extractFile works in a temporary directory.
ExtractFile(r) ==
  /\ pc[r] = "extract"
  /\ \E n \in DOMAIN files[published] :
       unpacked' = [unpacked EXCEPT ![r] = files[published][n]]
  /\ Goes(r, "moveExtracted")
  /\ UNCHANGED <<lockVars, files, published, extracted, stateVars, doubt, crashes>>

\* The archive is not one, the disk is full, or the rename fails.
ExtractFails(r) ==
  /\ pc[r] \in {"extract", "moveExtracted"}
  /\ unpacked' = [unpacked EXCEPT ![r] = None]
  /\ Ends(r)
  /\ UNCHANGED <<lockVars, files, published, extracted, stateVars, doubt, crashes>>

\* The rename fails if another request was faster: the target is not empty.
MoveExtracted(r) ==
  /\ pc[r] = "moveExtracted"
  /\ extracted' = IF extracted = None THEN unpacked[r] ELSE extracted
  /\ unpacked' = [unpacked EXCEPT ![r] = None]
  /\ Ends(r)
  /\ UNCHANGED <<lockVars, files, published, stateVars, doubt, crashes>>

-----------------------------------------------------------------------------
\* An orchestrator is killed and started again, with a new working directory.
\* What is published stays.
Restart(o) ==
  /\ crashes < MaxCrashes
  /\ crashes' = crashes + 1
  /\ pc' = [r \in Request |-> IF at[r] = o THEN "idle" ELSE pc[r]]
  /\ at' = [r \in Request |-> IF at[r] = o THEN None ELSE at[r]]
  /\ chunk' = [r \in Request |-> IF at[r] = o THEN None ELSE chunk[r]]
  /\ written' = [r \in Request |-> IF at[r] = o THEN 0 ELSE written[r]]
  /\ readers' = [readers EXCEPT ![o] = {}]
  /\ writer' = [writer EXCEPT ![o] = None]
  /\ files' = [files EXCEPT ![o] = IF published = o THEN @ ELSE <<>>]
  /\ fileSize' = [fileSize EXCEPT ![o] = None]
  /\ items' = [items EXCEPT ![o] = {}]
  /\ doubt' = [doubt EXCEPT ![o] = FALSE]
  /\ unpacked' = [r \in Request |-> IF at[r] = o THEN None ELSE unpacked[r]]
  /\ UNCHANGED <<published, extracted>>

RequestStep(r) ==
  \/ OpenChunk(r) \/ WriteByte(r) \/ UpdateState(r)
  \/ AskCompleted(r) \/ CheckArtifact(r) \/ MoveArtifact(r)
  \/ ExtractFile(r) \/ MoveExtracted(r)

RequestFails(r) ==
  \/ OpenFails(r) \/ WriteFails(r) \/ CheckFails(r) \/ MoveFails(r)
  \/ ExtractFails(r)

Next ==
  \/ \E r \in Request : \/ BeginUpload(r) \/ BeginExtract(r)
                        \/ RequestStep(r) \/ RequestFails(r)
  \/ \E o \in Orchestrator : Restart(o)

Spec == Init /\ [][Next]_vars

\* The goroutine of a request runs; nobody has to send one, and none has to fail.
\* A waiting RLock() is let in by the Unlock() of the writer it waits for, hence
\* the strong fairness.
FairSpec ==
  /\ Spec
  /\ \A r \in Request : WF_vars(RequestStep(r)) /\ SF_vars(OpenChunk(r))

-----------------------------------------------------------------------------
(* Properties.                                                             *)

\* What is at the path of the artifact has its checksum, whatever chunks were
\* uploaded, to which orchestrator, and in which order their bytes arrived.
PublishedIntact ==
  published # None =>
    \E n \in DOMAIN files[published] : files[published][n] = Content

\* What is extracted is the artifact of the checksum, although the directory that
\* was published may hold files that no checksum was computed of.
ExtractedIntact == extracted \in {None, Content}

\* "After Host Orchestrator moves user artifacts from the working directory into
\* here, it becomes immutable": not even a request that has a file of the
\* directory open writes to it after the rename.
PublishedImmutable ==
  [][published # None => /\ published' = published
                         /\ files'[published] = files[published]]_vars

\* "a sequence of alternating true/false isUpdated field and increasing offset".
Alternating(its) ==
  \A i, j \in its :
    i.offset < j.offset /\ (\A k \in its : ~(i.offset < k.offset /\ k.offset < j.offset))
      => i.isUpdated # j.isUpdated

RangeSize == 5
Ranges    == {r \in (0 .. RangeSize) \X (0 .. RangeSize) : r[1] < r[2]}

Unused == /\ \A o \in Orchestrator : files[o] = <<>>
          /\ \A r \in Request : at[r] = None

\* The items of a chunkState are always alternating.  From those of an orchestrator
\* that was not used yet, any three ranges of a file, overlapping, adjacent, nested,
\* apart or equal, in any order, lead to items that say of every byte whether it
\* was uploaded, and that are completed exactly when all were.
ChunkStateExact ==
  \A o \in Orchestrator :
    /\ Alternating(items[o])
    /\ Unused => \A a, b, c \in Ranges :
         LET its == Update(Update(Update(items[o], a[1], a[2]), b[1], b[2]), c[1], c[2])
             bytes == UNION {r[1] .. r[2] - 1 : r \in {a, b, c}}
         IN  /\ \A p \in 0 .. RangeSize :
                  p \in bytes <=> \E i \in getItemOrPrev(its, p) : i.isUpdated
             /\ IsCompleted(its, RangeSize) <=> bytes = 0 .. RangeSize - 1
             /\ Alternating(its)

\* An artifact that is complete and right in a working directory is not
\* forgotten there: once the requests of its orchestrator are done it is
\* published, unless a chunk misled it about name or length, or a request failed
\* with an error that its client is told of.
NotForgotten ==
  \A o \in Orchestrator :
    /\ ~doubt[o] /\ published = None
    /\ \A r \in Request : at[r] = o => pc[r] \in {"idle", "rlock"}
    => \A n \in DOMAIN files[o] : files[o][n] # Content

\* Every request ends: nobody keeps the lock, and a steady flow of uploads does
\* not keep the one that publishes waiting.
RequestEnds ==
  \A r \in Request : pc[r] # "idle" ~> pc[r] = "idle"
=============================================================================
