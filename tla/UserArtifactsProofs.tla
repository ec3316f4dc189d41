------------------------ MODULE UserArtifactsProofs ------------------------
(***************************************************************************)
(* The type invariant, PublishedIntact, PublishedImmutable,                *)
(* ExtractedIntact, ChunkStateExact and NotForgotten, for any              *)
(* orchestrators, requests, chunks and restarts.                           *)
(*                                                                         *)
(* The inductive invariant UAInv ties the place of a request to the lock it *)
(* holds, and every good byte of a file to the chunkState that records it  *)
(* or to the request that has just written it and will record it.          *)
(***************************************************************************)
EXTENDS ChunkStateProofs

Bytes == {"good", "bad"}
Dirs  == UNION {[S -> Seq(Bytes)] : S \in SUBSET Names}

\* Types, as functions.
UATypes ==
  /\ pc \in [Request -> {"idle", "rlock", "write", "completed", "lock",
                         "rename", "extract", "moveExtracted"}]
  /\ at \in [Request -> Orchestrator \cup {None}]
  /\ chunk \in [Request -> Chunks \cup {None}]
  /\ written \in [Request -> Nat]
  /\ readers \in [Orchestrator -> SUBSET Request]
  /\ writer \in [Orchestrator -> Request \cup {None}]
  /\ files \in [Orchestrator -> Dirs]
  /\ published \in Orchestrator \cup {None}
  /\ fileSize \in [Orchestrator -> {None} \cup {c.fileSize : c \in Chunks}]
  /\ items \in [Orchestrator -> SUBSET Item]
  /\ doubt \in [Orchestrator -> BOOLEAN]
  /\ crashes \in 0 .. MaxCrashes

\* What a request carries where it is.
RequestInv(r) ==
  /\ at[r] = None <=> pc[r] = "idle"
  /\ chunk[r] = None <=> pc[r] \in {"idle", "extract", "moveExtracted"}
  /\ chunk[r] = None => written[r] = 0
  /\ chunk[r] # None => written[r] <= chunk[r].size /\ ValidChunk(chunk[r])
  /\ pc[r] = "rlock" => written[r] = 0
  /\ pc[r] = "completed" => written[r] = chunk[r].size
  /\ pc[r] \in {"write", "completed", "lock", "rename"} =>
       chunk[r].name \in DOMAIN files[at[r]]

\* The lock: who holds it is where it is needed.
LockInv ==
  /\ \A r \in Request : pc[r] \in {"write", "completed"} => r \in readers[at[r]]
  /\ \A r \in Request : pc[r] = "rename" => writer[at[r]] = r
  /\ \A o \in Orchestrator :
       /\ \A r \in readers[o] : at[r] = o /\ pc[r] \in {"write", "completed"}
       /\ writer[o] # None => /\ readers[o] = {}
                              /\ at[writer[o]] = o /\ pc[writer[o]] = "rename"

\* A checked file stays as it was checked, and nobody is inside the published
\* directory.
ContentInv ==
  /\ \A r \in Request : pc[r] = "rename" => files[at[r]][chunk[r].name] = Content
  /\ published # None => readers[published] = {}
  /\ PublishedIntact

ItemsInv(o) ==
  /\ Paired(items[o])
  /\ fileSize[o] = None => items[o] = {}
  /\ fileSize[o] # None => \A i \in items[o] : i.offset <= fileSize[o]
  /\ DOMAIN files[o] = {} => items[o] = {}

LengthInv ==
  \A o \in Orchestrator : \A n \in DOMAIN files[o] : Len(files[o][n]) <= MaxSize

Working(r, o) == at[r] = o /\ pc[r] \in {"write", "completed", "lock", "rename"}

UploadInv(o) ==
  ~doubt[o] /\ published = None =>
    /\ \A r \in Request : Working(r, o) => chunk[r].fileSize = Size
    /\ \A m, n \in DOMAIN files[o] : m = n
    /\ fileSize[o] \in {None, Size}
    /\ \A n \in DOMAIN files[o] : \A p \in 1 .. Len(files[o][n]) :
         files[o][n][p] = "good" =>
           \/ Recorded(items[o], p - 1)
           \/ \E r \in Request : /\ at[r] = o /\ pc[r] = "write"
                                 /\ chunk[r].offset < p
                                 /\ p <= chunk[r].offset + written[r]
    /\ (\A r \in Request : ~Working(r, o)) =>
         \A n \in DOMAIN files[o] : files[o][n] # Content

UAInv ==
  /\ UATypes
  /\ \A r \in Request : RequestInv(r)
  /\ LockInv /\ ContentInv /\ LengthInv
  /\ \A o \in Orchestrator : ItemsInv(o) /\ UploadInv(o)

-----------------------------------------------------------------------------
(* Chunks, files and directories.                                          *)

\* What a request announces of its chunk.
LEMMA ChunkFacts ==
  ASSUME NEW c \in Chunks
  PROVE  /\ c # None /\ c.name \in Names
         /\ c.offset \in Nat /\ c.size \in Nat /\ c.fileSize \in Nat
         /\ c.good \in BOOLEAN
         /\ MaxSize \in Nat /\ c.fileSize <= MaxSize
<1>1. /\ c # None /\ c.name \in Names
      /\ c.offset \in Nat /\ c.size \in Nat /\ c.fileSize \in Nat
      /\ c.good \in BOOLEAN
  BY ArtifactAssumption DEF Chunks, Names
<1>2. PICK d \in Chunks : \A e \in Chunks : e.fileSize <= d.fileSize
  BY LongestAssumption
<1>3. /\ MaxSize \in {e.fileSize : e \in Chunks}
      /\ \A e \in Chunks : e.fileSize <= MaxSize
  BY <1>2 DEF MaxSize
<1>4. MaxSize \in Nat
  BY <1>3, ArtifactAssumption DEF Chunks
<1>5. QED
  BY <1>1, <1>3, <1>4

\* One byte of a file.
LEMMA PutFacts ==
  ASSUME NEW s \in Seq(Bytes), NEW pos \in Nat \ {0}, NEW b \in Bytes
  PROVE  /\ Put(s, pos, b) \in Seq(Bytes)
         /\ Len(Put(s, pos, b)) = IF pos > Len(s) THEN pos ELSE Len(s)
         /\ \A i \in 1 .. Len(Put(s, pos, b)) :
              Put(s, pos, b)[i] = "good" =>
                i = pos \/ (i \in 1 .. Len(s) /\ s[i] = "good")
<1> DEFINE n == IF pos > Len(s) THEN pos ELSE Len(s)
           F == [i \in 1 .. n |-> IF i = pos THEN b ELSE IF i <= Len(s) THEN s[i] ELSE "bad"]
<1>1. Len(s) \in Nat /\ n \in Nat /\ \A i \in 1 .. Len(s) : s[i] \in Bytes
  OBVIOUS
<1>2. \A i \in 1 .. n : (IF i = pos THEN b ELSE IF i <= Len(s) THEN s[i] ELSE "bad") \in Bytes
  BY <1>1 DEF Bytes
<1> HIDE DEF n
<1>3. F \in Seq(Bytes) /\ Len(F) = n
  BY <1>1, <1>2
<1>4. \A i \in 1 .. n : F[i] = "good" => i = pos \/ (i \in 1 .. Len(s) /\ s[i] = "good")
  BY <1>1
<1>5. Put(s, pos, b) = F
  BY DEF Put, n
<1>6. QED
  BY <1>3, <1>4, <1>5 DEF n

\* A directory maps names to the bytes of files.
LEMMA DirFacts ==
  ASSUME NEW d \in Dirs
  PROVE  /\ DOMAIN d \subseteq Names
         /\ \A n \in DOMAIN d : d[n] \in Seq(Bytes)
         /\ d \in [DOMAIN d -> Seq(Bytes)]
BY DEF Dirs

\* A directory without files is a directory.
LEMMA EmptyDir == <<>> \in Dirs /\ DOMAIN <<>> = {}
<1>1. <<>> \in [{} -> Seq(Bytes)]
  OBVIOUS
<1>2. QED
  BY <1>1 DEF Dirs

\* OpenFile with O_CREATE.
LEMMA OpenedDir ==
  ASSUME NEW d \in Dirs, NEW n \in Names
  PROVE  /\ Opened(d, n) \in Dirs
         /\ DOMAIN Opened(d, n) = DOMAIN d \cup {n}
         /\ \A m \in DOMAIN d : Opened(d, n)[m] = d[m]
         /\ n \notin DOMAIN d => Opened(d, n)[n] = <<>>
<1>1. DOMAIN d \subseteq Names /\ \A m \in DOMAIN d : d[m] \in Seq(Bytes)
  BY DirFacts
<1>2. <<>> \in Seq(Bytes)
  OBVIOUS
<1>3. Opened(d, n) \in [DOMAIN d \cup {n} -> Seq(Bytes)]
  BY <1>1, <1>2 DEF Opened
<1>4. Opened(d, n) \in Dirs
  BY <1>1, <1>3 DEF Dirs
<1>5. QED
  BY <1>4 DEF Opened

\* A write to an open file.
LEMMA WrittenDir ==
  ASSUME NEW d \in Dirs, NEW n \in DOMAIN d, NEW v \in Seq(Bytes)
  PROVE  /\ [d EXCEPT ![n] = v] \in Dirs
         /\ DOMAIN [d EXCEPT ![n] = v] = DOMAIN d
         /\ [d EXCEPT ![n] = v][n] = v
         /\ \A m \in DOMAIN d : m # n => [d EXCEPT ![n] = v][m] = d[m]
<1>1. [d EXCEPT ![n] = v] \in [DOMAIN d -> Seq(Bytes)]
  BY DirFacts
<1>2. QED
  BY <1>1, DirFacts DEF Dirs

-----------------------------------------------------------------------------
(* Frames: what a step of request r leaves to show.                        *)

\* The other requests stay where they are.
OthersStay(r) ==
  \A q \in Request : q # r => /\ pc'[q] = pc[q] /\ at'[q] = at[q]
                              /\ chunk'[q] = chunk[q] /\ written'[q] = written[q]

RequestTypes ==
  /\ pc \in [Request -> {"idle", "rlock", "write", "completed", "lock",
                         "rename", "extract", "moveExtracted"}]
  /\ at \in [Request -> Orchestrator \cup {None}]
  /\ chunk \in [Request -> Chunks \cup {None}]
  /\ written \in [Request -> Nat]

\* A request that goes on.
LEMMA GoesFacts ==
  ASSUME UATypes, NEW r \in Request,
         NEW p \in {"idle", "rlock", "write", "completed", "lock", "rename",
                    "extract", "moveExtracted"},
         Goes(r, p)
  PROVE  /\ OthersStay(r) /\ RequestTypes'
         /\ pc'[r] = p /\ at'[r] = at[r] /\ chunk'[r] = chunk[r]
         /\ written'[r] = written[r]
BY DEF UATypes, RequestTypes, OthersStay, Goes

\* A request that ends.
LEMMA EndsFacts ==
  ASSUME UATypes, NEW r \in Request, Ends(r)
  PROVE  /\ OthersStay(r) /\ RequestTypes'
         /\ pc'[r] = "idle" /\ at'[r] = None /\ chunk'[r] = None /\ written'[r] = 0
BY DEF UATypes, RequestTypes, OthersStay, Ends

\* Requests that a step is not about, when no file disappears.
LEMMA RequestsKept ==
  ASSUME UAInv, NEW r \in Request, OthersStay(r), RequestInv(r)',
         \A o \in Orchestrator : DOMAIN files[o] \subseteq DOMAIN files'[o]
  PROVE  \A q \in Request : RequestInv(q)'
<1> SUFFICES ASSUME NEW q \in Request, q # r PROVE RequestInv(q)'
  OBVIOUS
<1>1. RequestInv(q) /\ at[q] \in Orchestrator \cup {None}
  BY DEF UAInv, UATypes
<1>2. QED
  BY <1>1 DEF OthersStay, RequestInv

\* A record that does not change stays well-formed.
LEMMA ItemsFrame ==
  ASSUME NEW o \in Orchestrator, ItemsInv(o), items'[o] = items[o],
         fileSize'[o] = fileSize[o],
         DOMAIN files[o] \subseteq DOMAIN files'[o]
  PROVE  ItemsInv(o)'
BY DEF ItemsInv

\* UploadInv when neither the file, its record nor the requests at work change.
LEMMA UploadFrame ==
  ASSUME NEW o \in Orchestrator, UploadInv(o),
         \A q \in Request : Working(q, o)' <=> Working(q, o),
         \A q \in Request : Working(q, o) =>
           /\ chunk'[q] = chunk[q] /\ written'[q] = written[q]
           /\ pc[q] = "write" => pc'[q] = "write",
         files'[o] = files[o], items'[o] = items[o], fileSize'[o] = fileSize[o],
         doubt'[o] = doubt[o], published' = None => published = None
  PROVE  UploadInv(o)'
<1> SUFFICES ASSUME ~doubt'[o], published' = None
             PROVE  /\ \A r \in Request : Working(r, o)' => chunk'[r].fileSize = Size
                    /\ \A m, n \in DOMAIN files'[o] : m = n
                    /\ fileSize'[o] \in {None, Size}
                    /\ \A n \in DOMAIN files'[o] : \A p \in 1 .. Len(files'[o][n]) :
                         files'[o][n][p] = "good" =>
                           \/ Recorded(items'[o], p - 1)
                           \/ \E r \in Request : /\ at'[r] = o /\ pc'[r] = "write"
                                                 /\ chunk'[r].offset < p
                                                 /\ p <= chunk'[r].offset + written'[r]
                    /\ (\A r \in Request : ~Working(r, o)') =>
                         \A n \in DOMAIN files'[o] : files'[o][n] # Content
  BY DEF UploadInv, Content
<1>1. \A q \in Request : at[q] = o /\ pc[q] = "write" =>
         /\ at'[q] = o /\ pc'[q] = "write"
         /\ chunk'[q] = chunk[q] /\ written'[q] = written[q]
  BY DEF Working
<1>2. QED
  BY <1>1 DEF UploadInv

\* A step that leaves the files and the chunkStates, and the requests that work
\* for an artifact, as they are.
LEMMA NoUpload ==
  ASSUME UAInv, NEW r \in Request, OthersStay(r),
         \A o \in Orchestrator : Working(r, o)' <=> Working(r, o),
         \A o \in Orchestrator : Working(r, o) =>
           /\ chunk'[r] = chunk[r] /\ written'[r] = written[r]
           /\ pc[r] = "write" => pc'[r] = "write",
         UNCHANGED <<files, items, fileSize, doubt>>,
         published' = None => published = None
  PROVE  LengthInv' /\ \A o \in Orchestrator : ItemsInv(o)' /\ UploadInv(o)'
<1>1. LengthInv'
  BY DEF UAInv, LengthInv, MaxSize, Chunks
<1>2. ASSUME NEW o \in Orchestrator PROVE ItemsInv(o)'
  BY ItemsFrame DEF UAInv
<1>3. ASSUME NEW o \in Orchestrator PROVE UploadInv(o)'
  <2>1. \A q \in Request : Working(q, o)' <=> Working(q, o)
    BY DEF OthersStay, Working
  <2>2. \A q \in Request : Working(q, o) =>
           /\ chunk'[q] = chunk[q] /\ written'[q] = written[q]
           /\ pc[q] = "write" => pc'[q] = "write"
    BY DEF OthersStay
  <2>3. UploadInv(o)
    BY DEF UAInv
  <2>4. QED
    BY <2>1, <2>2, <2>3, UploadFrame
<1>4. QED
  BY <1>1, <1>2, <1>3

\* A step of a request that does not hold the lock and does not take it.
LEMMA NoLock ==
  ASSUME UAInv, NEW r \in Request, OthersStay(r),
         pc[r] \notin {"write", "completed", "rename"},
         pc'[r] \notin {"write", "completed", "rename"},
         UNCHANGED <<readers, writer, files, published>>
  PROVE  LockInv' /\ ContentInv'
<1>1. UATypes /\ LockInv /\ ContentInv
  BY DEF UAInv
<1>2. \A q \in Request : /\ pc'[q] \in {"write", "completed", "rename"} => q # r
                         /\ pc[q] \in {"write", "completed", "rename"} => q # r
  OBVIOUS
<1>3. LockInv'
  BY <1>1, <1>2 DEF LockInv, OthersStay, UATypes
<1>4. ContentInv'
  BY <1>1, <1>2 DEF ContentInv, OthersStay, PublishedIntact, Content
<1>5. QED
  BY <1>3, <1>4

-----------------------------------------------------------------------------
(* The steps.                                                              *)

\* A request begins, and has touched nothing yet.
LEMMA BeginKeeps ==
  ASSUME UAInv, NEW r \in Request, BeginUpload(r) \/ BeginExtract(r)
  PROVE  UAInv'
<1>1. /\ UATypes /\ pc[r] = "idle" /\ at[r] = None /\ chunk[r] = None
      /\ written[r] = 0 /\ written' = written
      /\ UNCHANGED <<lockVars, files, published, stateVars, doubt, crashes>>
  BY DEF UAInv, RequestInv, BeginUpload, BeginExtract
<1>2. /\ OthersStay(r) /\ RequestTypes'
      /\ at'[r] \in Orchestrator
      /\ \/ pc'[r] = "rlock" /\ chunk'[r] \in Chunks /\ ValidChunk(chunk'[r])
         \/ pc'[r] = "extract" /\ chunk'[r] = None
  BY <1>1 DEF BeginUpload, BeginExtract, UATypes, OthersStay, RequestTypes, Chunks
<1>3. UATypes'
  BY <1>1, <1>2 DEF UATypes, RequestTypes, lockVars, stateVars
<1>4. RequestInv(r)'
  <2>1. None \notin Orchestrator
    BY ArtifactAssumption
  <2>2. CASE pc'[r] = "rlock"
    <3>1. chunk'[r] \in Chunks /\ ValidChunk(chunk'[r]) /\ chunk'[r] # None
      BY <1>2, <2>2, ChunkFacts
    <3>2. written'[r] = 0 /\ 0 <= chunk'[r].size
      BY <1>1, <3>1, ChunkFacts
    <3>3. QED
      BY <1>2, <2>1, <2>2, <3>1, <3>2 DEF RequestInv
  <2>3. CASE pc'[r] = "extract"
    BY <1>1, <1>2, <2>1, <2>3 DEF RequestInv
  <2>4. QED
    BY <1>2, <2>2, <2>3
<1>5. \A q \in Request : RequestInv(q)'
  BY <1>1, <1>2, <1>4, RequestsKept
<1>6. LockInv' /\ ContentInv'
  BY <1>1, <1>2, NoLock DEF lockVars
<1>7. LengthInv' /\ \A o \in Orchestrator : ItemsInv(o)' /\ UploadInv(o)'
  BY <1>1, <1>2, NoUpload DEF Working, stateVars
<1>8. QED
  BY <1>3, <1>5, <1>6, <1>7 DEF UAInv

\* ExtractArtifact, and an upload that fails before it opens its file, keep UAInv.
LEMMA ExtractKeeps ==
  ASSUME UAInv, NEW r \in Request,
         \/ ExtractFile(r) \/ ExtractFails(r) \/ MoveExtracted(r) \/ OpenFails(r)
  PROVE  UAInv'
<1>1. /\ UATypes /\ pc[r] \in {"rlock", "extract", "moveExtracted"}
      /\ pc[r] # "rlock" => chunk[r] = None /\ written[r] = 0
      /\ at[r] # None
      /\ UNCHANGED <<lockVars, files, published, stateVars, doubt, crashes>>
  BY DEF UAInv, UATypes, RequestInv, ExtractFile, ExtractFails, MoveExtracted, OpenFails
<1>2. /\ OthersStay(r) /\ RequestTypes' /\ chunk'[r] = None /\ written'[r] = 0
      /\ \/ pc'[r] = "moveExtracted" /\ at'[r] = at[r]
         \/ pc'[r] = "idle" /\ at'[r] = None
  BY <1>1, GoesFacts, EndsFacts DEF ExtractFile, ExtractFails, MoveExtracted, OpenFails
<1>3. UATypes'
  BY <1>1, <1>2 DEF UATypes, RequestTypes, lockVars, stateVars
<1>4. RequestInv(r)'
  BY <1>1, <1>2 DEF RequestInv
<1>5. \A q \in Request : RequestInv(q)'
  BY <1>1, <1>2, <1>4, RequestsKept
<1>6. LockInv' /\ ContentInv'
  BY <1>1, <1>2, NoLock DEF lockVars
<1>7. LengthInv' /\ \A o \in Orchestrator : ItemsInv(o)' /\ UploadInv(o)'
  BY <1>1, <1>2, NoUpload DEF Working, stateVars
<1>8. QED
  BY <1>3, <1>5, <1>6, <1>7 DEF UAInv

\* A request that holds an open file is a reader, so that its directory is not
\* the published one.
LEMMA WriterFacts ==
  ASSUME UAInv, NEW r \in Request, pc[r] \in {"write", "completed"}
  PROVE  /\ at[r] \in Orchestrator /\ chunk[r] \in Chunks
         /\ r \in readers[at[r]] /\ writer[at[r]] = None
         /\ published # at[r]
         /\ chunk[r].name \in DOMAIN files[at[r]]
         /\ written[r] <= chunk[r].size /\ ValidChunk(chunk[r])
         /\ \A q \in Request : pc[q] = "rename" => at[q] # at[r]
<1>1. RequestInv(r) /\ UATypes /\ LockInv /\ ContentInv
  BY DEF UAInv
<1>2. at[r] # None /\ chunk[r] # None
  BY <1>1 DEF RequestInv
<1>3. at[r] \in Orchestrator /\ chunk[r] \in Chunks
  BY <1>1, <1>2 DEF UATypes
<1>4. r \in readers[at[r]] /\ writer[at[r]] = None
  BY <1>1, <1>3 DEF LockInv
<1>5. published # at[r]
  BY <1>1, <1>2, <1>4 DEF ContentInv
<1>6. \A q \in Request : pc[q] = "rename" => at[q] # at[r]
  BY <1>1, <1>4, ArtifactAssumption DEF LockInv
<1>7. QED
  BY <1>1, <1>2, <1>3, <1>4, <1>5, <1>6 DEF RequestInv

\* The file is opened or created only when the artifact is not published.
LEMMA OpenChunkKeeps ==
  ASSUME UAInv, NEW r \in Request, OpenChunk(r)
  PROVE  UAInv'
<1>1. /\ UATypes /\ LockInv /\ ContentInv /\ LengthInv /\ RequestInv(r)
      /\ pc[r] = "rlock" /\ CanRLock(at[r])
      /\ UNCHANGED <<writer, published, stateVars, crashes>>
  BY DEF UAInv, OpenChunk
<1>2. /\ at[r] \in Orchestrator /\ chunk[r] \in Chunks /\ written[r] = 0
      /\ chunk[r] # None /\ chunk[r].name \in Names
  BY <1>1, ChunkFacts DEF RequestInv, UATypes
<1>3. CASE published # None
  <2>1. Ends(r) /\ UNCHANGED <<readers, files, doubt>>
    BY <1>3 DEF OpenChunk
  <2>2. /\ OthersStay(r) /\ RequestTypes' /\ pc'[r] = "idle" /\ at'[r] = None
        /\ chunk'[r] = None /\ written'[r] = 0
    BY <1>1, <2>1, EndsFacts
  <2>3. UATypes'
    BY <1>1, <2>1, <2>2 DEF UATypes, RequestTypes, stateVars
  <2>4. \A q \in Request : RequestInv(q)'
    <3>1. RequestInv(r)'
      BY <2>2 DEF RequestInv
    <3>2. QED
      BY <2>1, <2>2, <3>1, RequestsKept
  <2>5. LockInv' /\ ContentInv'
    BY <1>1, <2>1, <2>2, NoLock
  <2>6. LengthInv' /\ \A o \in Orchestrator : ItemsInv(o)' /\ UploadInv(o)'
    BY <1>1, <1>2, <2>1, <2>2, NoUpload, ArtifactAssumption DEF Working, stateVars
  <2>7. QED
    BY <2>3, <2>4, <2>5, <2>6 DEF UAInv
<1>4. CASE published = None
  <2> DEFINE o == at[r]
             n == chunk[r].name
  <2>1. /\ Goes(r, "write") /\ HoldRLock(r)
        /\ files' = [files EXCEPT ![o] = Opened(@, n)]
        /\ doubt' = [doubt EXCEPT ![o] = @ \/ Misleads(o, chunk[r])]
    BY <1>4 DEF OpenChunk
  <2>2. /\ OthersStay(r) /\ RequestTypes' /\ pc'[r] = "write" /\ at'[r] = at[r]
        /\ chunk'[r] = chunk[r] /\ written'[r] = written[r]
    BY <1>1, <2>1, GoesFacts
  <2>3. /\ files[o] \in Dirs /\ files'[o] = Opened(files[o], n)
        /\ \A x \in Orchestrator : x # o => files'[x] = files[x]
    BY <1>1, <1>2, <2>1 DEF UATypes
  <2>4. /\ files'[o] \in Dirs
        /\ DOMAIN files'[o] = DOMAIN files[o] \cup {n}
        /\ \A m \in DOMAIN files[o] : files'[o][m] = files[o][m]
        /\ n \notin DOMAIN files[o] => files'[o][n] = <<>>
    <3>1. /\ Opened(files[o], n) \in Dirs
          /\ DOMAIN Opened(files[o], n) = DOMAIN files[o] \cup {n}
          /\ \A m \in DOMAIN files[o] : Opened(files[o], n)[m] = files[o][m]
          /\ n \notin DOMAIN files[o] => Opened(files[o], n)[n] = <<>>
      BY <1>2, <2>3, OpenedDir
    <3>2. QED
      BY <2>3, <3>1
  <2>5. \A x \in Orchestrator : DOMAIN files[x] \subseteq DOMAIN files'[x]
    BY <2>3, <2>4
  <2>6. /\ readers' = [readers EXCEPT ![o] = @ \cup {r}]
        /\ readers'[o] = readers[o] \cup {r}
        /\ \A x \in Orchestrator : x # o => readers'[x] = readers[x]
    BY <1>1, <1>2, <2>1 DEF HoldRLock, UATypes
  <2>7. UATypes'
    <3>1. files' \in [Orchestrator -> Dirs]
      BY <1>1, <2>1, <2>3, <2>4 DEF UATypes
    <3>2. readers' \in [Orchestrator -> SUBSET Request]
      BY <1>1, <2>6 DEF UATypes
    <3>3. doubt' \in [Orchestrator -> BOOLEAN]
      BY <1>1, <2>1 DEF UATypes
    <3>4. QED
      BY <1>1, <2>2, <3>1, <3>2, <3>3 DEF UATypes, RequestTypes, stateVars
  <2>8. \A q \in Request : RequestInv(q)'
    <3>1. RequestInv(r)'
      BY <1>1, <1>2, <2>2, <2>4 DEF RequestInv
    <3>2. QED
      BY <2>2, <2>5, <3>1, RequestsKept
  <2>9. LockInv'
    <3>1. writer[o] = None
      BY <1>1 DEF CanRLock
    <3>2. r \notin readers[o]
      BY <1>1, <1>2 DEF LockInv
    <3>3. QED
      BY <1>1, <1>2, <2>2, <2>6, <3>1, <3>2 DEF LockInv, OthersStay, UATypes
  <2>10. ContentInv'
    <3>1. \A q \in Request : pc'[q] = "rename" => q # r /\ at[q] # o
      BY <1>1, <2>2, ArtifactAssumption DEF LockInv, CanRLock, OthersStay
    <3>2. ASSUME NEW q \in Request, pc'[q] = "rename"
          PROVE  files'[at'[q]][chunk'[q].name] = Content
      <4>1. at[q] \in Orchestrator
        BY <1>1, <2>2, <3>1, <3>2 DEF UATypes, UAInv, RequestInv, OthersStay
      <4>2. QED
        BY <1>1, <2>2, <2>3, <3>1, <3>2, <4>1 DEF ContentInv, OthersStay
    <3>3. QED
      BY <1>1, <1>4, <3>2 DEF ContentInv, PublishedIntact, Content
  <2>11. LengthInv'
    <3>1. MaxSize \in Nat
      BY <1>2, ChunkFacts
    <3>2. Len(<<>>) = 0
      OBVIOUS
    <3>3. \A m \in DOMAIN files'[o] : Len(files'[o][m]) <= MaxSize
      BY <1>1, <1>2, <2>4, <3>1, <3>2 DEF LengthInv
    <3>4. QED
      BY <1>1, <2>3, <3>3 DEF LengthInv, MaxSize, Chunks
  <2>12. ASSUME NEW x \in Orchestrator PROVE ItemsInv(x)'
    BY <1>1, <2>5, ItemsFrame DEF UAInv, stateVars
  <2>13. ASSUME NEW x \in Orchestrator, x # o PROVE UploadInv(x)'
    <3>1. doubt'[x] = doubt[x] /\ files'[x] = files[x]
      BY <1>1, <2>1, <2>3, <2>13 DEF UATypes
    <3>2. \A q \in Request : Working(q, x)' <=> Working(q, x)
      BY <1>1, <2>2, <2>13 DEF Working, OthersStay
    <3>3. \A q \in Request : Working(q, x) => q # r
      BY <2>13 DEF Working
    <3>4. UploadInv(x)
      BY DEF UAInv
    <3>5. QED
      BY <1>1, <2>2, <3>1, <3>2, <3>3, <3>4, UploadFrame DEF OthersStay, stateVars
  <2>14. ASSUME NEW x \in Orchestrator, x = o PROVE UploadInv(x)'
    <3>1. SUFFICES ASSUME ~doubt'[x]
                   PROVE  UploadInv(x)'
      BY <2>14 DEF UploadInv
    <3>2. ~doubt[x] /\ ~Misleads(x, chunk[r])
      BY <2>14, <1>1, <2>1, <3>1 DEF UATypes
    <3>3. chunk[r].fileSize = Size /\ DOMAIN files[x] \in {{}, {n}}
      BY <2>14, <3>2 DEF Misleads
    <3>4. /\ \A q \in Request : Working(q, x) => chunk[q].fileSize = Size
          /\ fileSize[x] \in {None, Size}
          /\ \A m \in DOMAIN files[x] : \A p \in 1 .. Len(files[x][m]) :
               files[x][m][p] = "good" =>
                 \/ Recorded(items[x], p - 1)
                 \/ \E q \in Request : /\ at[q] = x /\ pc[q] = "write"
                                       /\ chunk[q].offset < p
                                       /\ p <= chunk[q].offset + written[q]
      BY <2>14, <1>4, <3>2 DEF UAInv, UploadInv
    <3>5. \A q \in Request : Working(q, x)' => chunk'[q].fileSize = Size
      BY <2>14, <2>2, <3>3, <3>4 DEF Working, OthersStay
    <3>6. DOMAIN files'[x] = {n}
      BY <2>14, <2>4, <3>3
    <3>7. ASSUME NEW m \in DOMAIN files'[x], NEW p \in 1 .. Len(files'[x][m]),
                 files'[x][m][p] = "good"
          PROVE  \/ Recorded(items'[x], p - 1)
                 \/ \E q \in Request : /\ at'[q] = x /\ pc'[q] = "write"
                                       /\ chunk'[q].offset < p
                                       /\ p <= chunk'[q].offset + written'[q]
      <4>1. m \in DOMAIN files[x]
        <5>1. CASE n \notin DOMAIN files[x]
          <6>1. Len(files'[x][m]) = 0
            BY <2>14, <2>4, <3>6, <5>1
          <6>2. QED
            BY <2>14, <3>7, <6>1
        <5>2. CASE n \in DOMAIN files[x]
          BY <2>14, <3>6, <5>2
        <5>3. QED
          BY <2>14, <5>1, <5>2
      <4>2. files'[x][m] = files[x][m]
        BY <2>14, <2>4, <4>1
      <4>3. \/ Recorded(items[x], p - 1)
            \/ \E q \in Request : /\ at[q] = x /\ pc[q] = "write"
                                  /\ chunk[q].offset < p
                                  /\ p <= chunk[q].offset + written[q]
        BY <2>14, <3>4, <3>7, <4>1, <4>2
      <4>4. \A q \in Request : pc[q] = "write" => q # r
        BY <2>14, <1>1
      <4>5. QED
        BY <2>14, <1>1, <2>2, <4>3, <4>4 DEF OthersStay, stateVars
    <3>8. Working(r, x)'
      BY <2>14, <2>2 DEF Working
    <3>9. QED
      BY <2>14, <1>1, <3>4, <3>5, <3>6, <3>7, <3>8 DEF UploadInv, stateVars
  <2>15. QED
    BY <2>7, <2>8, <2>9, <2>10, <2>11, <2>12, <2>13, <2>14 DEF UAInv
<1>5. QED
  BY <1>3, <1>4

\* A byte of the chunk is written at its offset.
LEMMA WriteByteKeeps ==
  ASSUME UAInv, NEW r \in Request, WriteByte(r), NEW o \in Orchestrator, o = at[r]
  PROVE  UAInv'
<1> DEFINE c   == chunk[r]
           n   == chunk[r].name
           pos == chunk[r].offset + written[r] + 1
           b   == IF chunk[r].good THEN "good" ELSE "bad"
<1>1. /\ UATypes /\ LockInv /\ ContentInv /\ LengthInv /\ RequestInv(r)
      /\ pc[r] = "write" /\ written[r] < c.size
      /\ files' = [files EXCEPT ![o][n] = Put(@, pos, b)]
      /\ written' = [written EXCEPT ![r] = @ + 1]
      /\ UNCHANGED <<pc, at, chunk, lockVars, published, stateVars,
                     doubt, crashes>>
  BY DEF UAInv, WriteByte
<1>2. /\ c \in Chunks /\ n \in DOMAIN files[o] /\ published # o
      /\ ValidChunk(c)
      /\ \A q \in Request : pc[q] = "rename" => at[q] # o
  BY <1>1, WriterFacts
<1>3. /\ c.offset \in Nat /\ c.size \in Nat /\ c.fileSize \in Nat
      /\ MaxSize \in Nat /\ c.fileSize <= MaxSize /\ c # None /\ c.good \in BOOLEAN
  BY <1>2, ChunkFacts
<1>4. written[r] \in Nat /\ pos \in Nat \ {0} /\ pos <= MaxSize /\ b \in Bytes
  BY <1>1, <1>2, <1>3 DEF UATypes, ValidChunk, Bytes
<1>5. files[o] \in Dirs /\ files[o][n] \in Seq(Bytes)
  BY <1>1, <1>2, DirFacts DEF UATypes
<1> DEFINE v == Put(files[o][n], pos, b)
<1>6. /\ v \in Seq(Bytes)
      /\ Len(v) = IF pos > Len(files[o][n]) THEN pos ELSE Len(files[o][n])
      /\ \A i \in 1 .. Len(v) : v[i] = "good" =>
           i = pos \/ (i \in 1 .. Len(files[o][n]) /\ files[o][n][i] = "good")
  BY <1>4, <1>5, PutFacts
<1> HIDE DEF v, pos, b
<1>7. /\ files'[o] = [files[o] EXCEPT ![n] = v]
      /\ \A x \in Orchestrator : x # o => files'[x] = files[x]
  BY <1>1 DEF UATypes, v
<1>8. /\ files'[o] \in Dirs /\ DOMAIN files'[o] = DOMAIN files[o]
      /\ files'[o][n] = v
      /\ \A m \in DOMAIN files[o] : m # n => files'[o][m] = files[o][m]
  <2>1. /\ [files[o] EXCEPT ![n] = v] \in Dirs
        /\ DOMAIN [files[o] EXCEPT ![n] = v] = DOMAIN files[o]
        /\ [files[o] EXCEPT ![n] = v][n] = v
        /\ \A m \in DOMAIN files[o] : m # n => [files[o] EXCEPT ![n] = v][m] = files[o][m]
    BY <1>2, <1>5, <1>6, WrittenDir
  <2>2. QED
    BY <1>7, <2>1
<1>9. /\ OthersStay(r) /\ written'[r] = written[r] + 1
      /\ \A x \in Orchestrator : DOMAIN files[x] \subseteq DOMAIN files'[x]
  BY <1>1, <1>7, <1>8 DEF OthersStay, UATypes
<1>10. UATypes'
  <2>1. files' \in [Orchestrator -> Dirs]
    BY <1>1, <1>7, <1>8 DEF UATypes
  <2>2. written' \in [Request -> Nat]
    BY <1>1 DEF UATypes
  <2>3. QED
    BY <1>1, <2>1, <2>2 DEF UATypes, lockVars, stateVars
<1>11. \A q \in Request : RequestInv(q)'
  <2>1. RequestInv(r)'
    BY <1>1, <1>3, <1>4, <1>8, <1>9 DEF RequestInv
  <2>2. QED
    BY <1>9, <2>1, RequestsKept
<1>12. LockInv'
  BY <1>1 DEF LockInv, lockVars
<1>13. ContentInv'
  <2>1. ASSUME NEW q \in Request, pc'[q] = "rename"
        PROVE  files'[at'[q]][chunk'[q].name] = Content
    <3>1. at[q] \in Orchestrator /\ at[q] # o
      BY <1>1, <1>2, <2>1 DEF UATypes, UAInv, RequestInv
    <3>2. QED
      BY <1>1, <1>7, <2>1, <3>1 DEF ContentInv
  <2>2. published # None => files'[published] = files[published]
    BY <1>1, <1>2, <1>7 DEF UATypes
  <2>3. QED
    BY <1>1, <2>1, <2>2 DEF ContentInv, PublishedIntact, Content, lockVars
<1>14. LengthInv'
  <2>1. \A m \in DOMAIN files'[o] : Len(files'[o][m]) <= MaxSize
    BY <1>1, <1>4, <1>6, <1>8 DEF LengthInv
  <2>2. QED
    BY <1>1, <1>7, <2>1 DEF LengthInv, MaxSize, Chunks
<1>15. ASSUME NEW x \in Orchestrator PROVE ItemsInv(x)'
  BY <1>1, <1>9, ItemsFrame DEF UAInv, stateVars
<1>16. ASSUME NEW x \in Orchestrator, x # o PROVE UploadInv(x)'
  <2>1. files'[x] = files[x]
    BY <1>7, <1>16
  <2>2. \A q \in Request : Working(q, x)' <=> Working(q, x)
    BY <1>1 DEF Working
  <2>3. \A q \in Request : Working(q, x) => q # r
    BY <1>16 DEF Working
  <2>4. UploadInv(x)
    BY DEF UAInv
  <2>5. QED
    BY <1>1, <1>9, <2>1, <2>2, <2>3, <2>4, UploadFrame DEF OthersStay, stateVars
<1>17. UploadInv(o)'
  <2>1. SUFFICES ASSUME ~doubt[o], published = None PROVE UploadInv(o)'
    BY <1>1 DEF UploadInv
  <2>2. /\ \A q \in Request : Working(q, o) => chunk[q].fileSize = Size
        /\ \A l, m \in DOMAIN files[o] : l = m
        /\ fileSize[o] \in {None, Size}
        /\ \A m \in DOMAIN files[o] : \A p \in 1 .. Len(files[o][m]) :
             files[o][m][p] = "good" =>
               \/ Recorded(items[o], p - 1)
               \/ \E q \in Request : /\ at[q] = o /\ pc[q] = "write"
                                     /\ chunk[q].offset < p
                                     /\ p <= chunk[q].offset + written[q]
    BY <2>1 DEF UAInv, UploadInv
  <2>3. \A q \in Request : Working(q, o)' => chunk'[q].fileSize = Size
    BY <1>1, <2>2 DEF Working
  <2>4. \A l, m \in DOMAIN files'[o] : l = m
    BY <1>8, <2>2
  <2>5. ASSUME NEW m \in DOMAIN files'[o], NEW p \in 1 .. Len(files'[o][m]),
               files'[o][m][p] = "good"
        PROVE  \/ Recorded(items'[o], p - 1)
               \/ \E q \in Request : /\ at'[q] = o /\ pc'[q] = "write"
                                     /\ chunk'[q].offset < p
                                     /\ p <= chunk'[q].offset + written'[q]
    <3>1. m = n /\ files'[o][m] = v /\ p \in Nat
      BY <1>2, <1>8, <2>4
    <3>2. CASE p = pos
      <4>1. /\ at'[r] = o /\ pc'[r] = "write" /\ chunk'[r] = c
            /\ written'[r] = written[r] + 1
        BY <1>1, <1>9
      <4>2. c.offset < p /\ p <= c.offset + (written[r] + 1)
        BY <1>3, <1>4, <3>2 DEF pos
      <4>3. QED
        BY <4>1, <4>2
    <3>3. CASE p # pos
      <4>1. p \in 1 .. Len(files[o][n]) /\ files[o][n][p] = "good"
        BY <1>6, <2>5, <3>1, <3>3
      <4>2. CASE Recorded(items[o], p - 1)
        BY <1>1, <4>2 DEF stateVars
      <4>3. CASE \E q \in Request : /\ at[q] = o /\ pc[q] = "write"
                                     /\ chunk[q].offset < p
                                     /\ p <= chunk[q].offset + written[q]
        <5>1. PICK q \in Request : /\ at[q] = o /\ pc[q] = "write"
                                   /\ chunk[q].offset < p
                                   /\ p <= chunk[q].offset + written[q]
          BY <4>3
        <5>2. CASE q # r
          BY <1>1, <1>9, <5>1, <5>2 DEF OthersStay
        <5>3. CASE q = r
          BY <1>1, <1>3, <1>4, <1>9, <3>1, <5>1, <5>3
        <5>4. QED
          BY <5>2, <5>3
      <4>4. QED
        BY <1>2, <2>2, <4>1, <4>2, <4>3
    <3>4. QED
      BY <3>2, <3>3
  <2>6. Working(r, o)'
    BY <1>1 DEF Working
  <2>7. QED
    BY <1>1, <2>2, <2>3, <2>4, <2>5, <2>6 DEF UploadInv, stateVars
<1>18. QED
  BY <1>10, <1>11, <1>12, <1>13, <1>14, <1>15, <1>16, <1>17 DEF UAInv

\* A request lets its read lock go.
LEMMA RUnlockKeeps ==
  ASSUME UAInv, NEW r \in Request, NEW o \in Orchestrator, o = at[r],
         pc[r] \in {"write", "completed"},
         RUnlock(r), OthersStay(r), pc'[r] \in {"idle", "lock"},
         UNCHANGED <<writer, files, published>>
  PROVE  LockInv' /\ ContentInv' /\ readers' \in [Orchestrator -> SUBSET Request]
<1>1. UATypes /\ LockInv /\ ContentInv
  BY DEF UAInv
<1>2. /\ readers'[o] = readers[o] \ {r}
      /\ \A x \in Orchestrator : x # o => readers'[x] = readers[x]
      /\ readers' \in [Orchestrator -> SUBSET Request]
  BY <1>1 DEF RUnlock, UATypes
<1>3. \A q \in Request : pc'[q] \in {"write", "completed", "rename"} => q # r
  OBVIOUS
<1>4. LockInv'
  <2>1. writer[o] = None
    BY WriterFacts
  <2>2. ASSUME NEW q \in Request, pc'[q] \in {"write", "completed"}
        PROVE  q \in readers'[at'[q]]
    <3>1. q # r /\ q \in readers[at[q]] /\ at'[q] = at[q]
      BY <1>1, <1>3, <2>2 DEF LockInv, OthersStay
    <3>2. at[q] \in Orchestrator
      BY <1>3, <2>2, WriterFacts DEF OthersStay
    <3>3. QED
      BY <1>2, <3>1, <3>2
  <2>3. \A q \in Request : pc'[q] = "rename" => writer'[at'[q]] = q
    BY <1>1, <1>3 DEF LockInv, OthersStay
  <2>4. ASSUME NEW x \in Orchestrator, NEW q \in readers'[x]
        PROVE  at'[q] = x /\ pc'[q] \in {"write", "completed"}
    <3>1. q \in readers[x] /\ q # r /\ q \in Request
      BY <1>1, <1>2, <2>4 DEF LockInv, UATypes
    <3>2. QED
      BY <1>1, <3>1 DEF LockInv, OthersStay
  <2>5. ASSUME NEW x \in Orchestrator, writer'[x] # None
        PROVE  /\ readers'[x] = {}
               /\ at'[writer'[x]] = x /\ pc'[writer'[x]] = "rename"
    <3>1. x # o /\ writer[x] \in Request /\ writer[x] # r
      BY <1>1, <2>1, <2>5 DEF LockInv, UATypes
    <3>2. QED
      BY <1>1, <1>2, <2>5, <3>1 DEF LockInv, OthersStay
  <2>6. QED
    BY <2>2, <2>3, <2>4, <2>5 DEF LockInv
<1>5. ContentInv'
  <2>1. \A q \in Request :
           pc'[q] = "rename" => files'[at'[q]][chunk'[q].name] = Content
    BY <1>1, <1>3 DEF ContentInv, OthersStay
  <2>2. published # None => readers'[published] = {}
    BY <1>1, <1>2 DEF ContentInv, UATypes
  <2>3. QED
    BY <1>1, <2>1, <2>2 DEF ContentInv, PublishedIntact, Content
<1>6. QED
  BY <1>2, <1>4, <1>5

\* A request that meets an error and lets its lock go.
LEMMA FailureKeeps ==
  ASSUME UAInv, NEW r \in Request, NEW o \in Orchestrator, o = at[r], Ends(r),
         doubt' = [doubt EXCEPT ![o] = TRUE],
         UNCHANGED <<files, published, stateVars, crashes>>,
         readers' \in [Orchestrator -> SUBSET Request],
         writer' \in [Orchestrator -> Request \cup {None}],
         LockInv', ContentInv'
  PROVE  UAInv'
<1>1. UATypes /\ LengthInv
  BY DEF UAInv
<1>2. /\ OthersStay(r) /\ RequestTypes' /\ pc'[r] = "idle" /\ at'[r] = None
      /\ chunk'[r] = None /\ written'[r] = 0
  BY <1>1, EndsFacts
<1>3. UATypes'
  BY <1>1, <1>2 DEF UATypes, RequestTypes, stateVars
<1>4. \A q \in Request : RequestInv(q)'
  <2>1. RequestInv(r)'
    BY <1>2 DEF RequestInv
  <2>2. QED
    BY <1>1, <1>2, <2>1, RequestsKept
<1>5. LengthInv'
  BY <1>1 DEF LengthInv, MaxSize, Chunks
<1>6. ASSUME NEW x \in Orchestrator PROVE ItemsInv(x)'
  BY <1>1, ItemsFrame DEF UAInv, stateVars
<1>7. ASSUME NEW x \in Orchestrator PROVE UploadInv(x)'
  <2>1. CASE x = o
    BY <1>1, <2>1 DEF UATypes, UploadInv
  <2>2. CASE x # o
    <3>1. doubt'[x] = doubt[x]
      BY <1>1, <2>2 DEF UATypes
    <3>2. \A q \in Request : Working(q, x)' <=> Working(q, x)
      BY <1>2, <2>2, ArtifactAssumption DEF Working, OthersStay
    <3>3. \A q \in Request : Working(q, x) => q # r
      BY <2>2 DEF Working
    <3>4. UploadInv(x)
      BY DEF UAInv
    <3>5. QED
      BY <1>1, <1>2, <3>1, <3>2, <3>3, <3>4, UploadFrame DEF OthersStay, stateVars
  <2>3. QED
    BY <2>1, <2>2
<1>8. QED
  BY <1>3, <1>4, <1>5, <1>6, <1>7 DEF UAInv

\* A request lets the write lock go.
LEMMA UnlockKeeps ==
  ASSUME UAInv, NEW r \in Request, NEW o \in Orchestrator, o = at[r],
         pc[r] = "rename", OthersStay(r), pc'[r] = "idle",
         writer' = [writer EXCEPT ![o] = None], UNCHANGED readers
  PROVE  LockInv' /\ writer' \in [Orchestrator -> Request \cup {None}]
<1>1. UATypes /\ LockInv /\ writer[o] = r /\ readers[o] = {} /\ r # None
  BY ArtifactAssumption DEF UAInv, LockInv
<1>2. /\ writer'[o] = None /\ writer' \in [Orchestrator -> Request \cup {None}]
      /\ \A x \in Orchestrator : x # o => writer'[x] = writer[x]
  BY <1>1 DEF UATypes
<1>3. \A q \in Request : pc'[q] = "rename" => writer'[at'[q]] = q
  <2>1. ASSUME NEW q \in Request, pc'[q] = "rename" PROVE writer'[at'[q]] = q
    <3>1. q # r /\ pc[q] = "rename" /\ at'[q] = at[q] /\ writer[at[q]] = q
      BY <1>1, <2>1 DEF OthersStay, LockInv
    <3>2. at[q] \in Orchestrator /\ at[q] # o
      BY <1>1, <3>1 DEF UAInv, UATypes, RequestInv
    <3>3. QED
      BY <1>2, <3>1, <3>2
  <2>2. QED
    BY <2>1
<1>4. \A q \in Request :
         pc'[q] \in {"write", "completed"} => q \in readers'[at'[q]]
  BY <1>1 DEF LockInv, OthersStay
<1>5. \A x \in Orchestrator : \A q \in readers'[x] :
         at'[q] = x /\ pc'[q] \in {"write", "completed"}
  BY <1>1 DEF LockInv, OthersStay, UATypes
<1>6. ASSUME NEW x \in Orchestrator, writer'[x] # None
      PROVE  /\ readers'[x] = {}
             /\ at'[writer'[x]] = x /\ pc'[writer'[x]] = "rename"
  <2>1. x # o /\ writer'[x] = writer[x] /\ writer[x] \in Request
    BY <1>1, <1>2, <1>6 DEF UATypes
  <2>2. writer[x] # r
    BY <1>1, <1>6, <2>1 DEF LockInv
  <2>3. QED
    BY <1>1, <1>6, <2>1, <2>2 DEF LockInv, OthersStay
<1>7. QED
  BY <1>2, <1>3, <1>4, <1>5, <1>6 DEF LockInv

\* Errors while a chunk is written, while the artifact is checked, and of the rename.
LEMMA FailsKeeps ==
  ASSUME UAInv, NEW r \in Request, NEW o \in Orchestrator, o = at[r],
         WriteFails(r) \/ CheckFails(r) \/ MoveFails(r)
  PROVE  UAInv'
<1>1. /\ UATypes /\ ContentInv /\ Ends(r)
      /\ doubt' = [doubt EXCEPT ![o] = TRUE]
      /\ UNCHANGED <<files, published, stateVars, crashes>>
  BY DEF UAInv, WriteFails, CheckFails, MoveFails
<1>2. OthersStay(r) /\ pc'[r] = "idle"
  BY <1>1, EndsFacts
<1>3. CASE WriteFails(r)
  <2>1. /\ LockInv' /\ ContentInv' /\ UNCHANGED writer
        /\ readers' \in [Orchestrator -> SUBSET Request]
    BY <1>1, <1>2, <1>3, RUnlockKeeps DEF WriteFails
  <2>2. QED
    BY <1>1, <2>1, FailureKeeps DEF UATypes
<1>4. CASE CheckFails(r)
  <2>1. pc[r] = "lock" /\ UNCHANGED <<readers, writer>>
    BY <1>4 DEF CheckFails, lockVars
  <2>2. LockInv' /\ ContentInv'
    BY <1>1, <1>2, <2>1, NoLock
  <2>3. QED
    BY <1>1, <2>1, <2>2, FailureKeeps DEF UATypes
<1>5. CASE MoveFails(r)
  <2>1. /\ pc[r] = "rename" /\ UNCHANGED readers
        /\ writer' = [writer EXCEPT ![o] = None]
    BY <1>5 DEF MoveFails
  <2>2. LockInv' /\ writer' \in [Orchestrator -> Request \cup {None}]
    BY <1>2, <2>1, UnlockKeeps
  <2>3. \A q \in Request :
           pc'[q] = "rename" => files'[at'[q]][chunk'[q].name] = Content
    BY <1>1, <1>2 DEF ContentInv, OthersStay
  <2>4. ContentInv'
    BY <1>1, <2>1, <2>3 DEF ContentInv, PublishedIntact, Content
  <2>5. QED
    BY <1>1, <2>1, <2>2, <2>4, FailureKeeps DEF UATypes
<1>6. QED
  BY <1>3, <1>4, <1>5

\* The chunk is recorded after all of its bytes were written.
LEMMA UpdateStateKeeps ==
  ASSUME UAInv, NEW r \in Request, UpdateState(r), NEW o \in Orchestrator, o = at[r]
  PROVE  UAInv'
<1> DEFINE c    == chunk[r]
           size == IF fileSize[o] = None THEN chunk[r].fileSize ELSE fileSize[o]
           end  == chunk[r].offset + chunk[r].size
<1>1. /\ UATypes /\ LockInv /\ ContentInv /\ LengthInv /\ RequestInv(r) /\ ItemsInv(o)
      /\ pc[r] = "write" /\ written[r] = c.size
      /\ fileSize' = [fileSize EXCEPT ![o] = size]
      /\ items' = [items EXCEPT ![o] =
                     IF ValidRange(c.offset, end, size) THEN Update(@, c.offset, end) ELSE @]
      /\ Goes(r, "completed")
      /\ UNCHANGED <<lockVars, files, published, doubt, crashes>>
  BY DEF UAInv, UpdateState
<1>2. /\ OthersStay(r) /\ RequestTypes' /\ pc'[r] = "completed" /\ at'[r] = at[r]
      /\ chunk'[r] = c /\ written'[r] = written[r]
  BY <1>1, GoesFacts
<1>3. c \in Chunks /\ c.name \in DOMAIN files[o] /\ ValidChunk(c)
  BY <1>1, WriterFacts
<1>4. /\ c.offset \in Nat /\ c.size \in Nat /\ c.fileSize \in Nat /\ end \in Nat
      /\ size \in {d.fileSize : d \in Chunks} /\ size \in Nat
  <2>1. c.offset \in Nat /\ c.size \in Nat /\ c.fileSize \in Nat
    BY <1>3, ChunkFacts
  <2>2. size \in {d.fileSize : d \in Chunks}
    BY <1>1, <1>3 DEF UATypes
  <2>3. size \in Nat
    BY <2>2, ChunkFacts
  <2>4. QED
    BY <2>1, <2>2, <2>3
<1>5. /\ fileSize'[o] = size
      /\ items'[o] = IF ValidRange(c.offset, end, size)
                        THEN Update(items[o], c.offset, end) ELSE items[o]
      /\ \A x \in Orchestrator : x # o => fileSize'[x] = fileSize[x] /\ items'[x] = items[x]
  BY <1>1 DEF UATypes
<1> HIDE DEF size, end
<1>6. Paired(items[o]) /\ items[o] \subseteq Item /\ \A i \in items[o] : i.offset <= size
  BY <1>1 DEF ItemsInv, Paired, size
<1>7. /\ Paired(items'[o]) /\ \A i \in items'[o] : i.offset <= size
      /\ \A p \in Nat : Recorded(items[o], p) => Recorded(items'[o], p)
      /\ \A p \in Nat : /\ ValidRange(c.offset, end, size)
                       /\ c.offset <= p /\ p < end
                       => Recorded(items'[o], p)
  <2>1. CASE ValidRange(c.offset, end, size)
    <3>1. items'[o] = Update(items[o], c.offset, end) /\ c.offset < end /\ end <= size
      BY <1>5, <2>1 DEF ValidRange
    <3>2. /\ Paired(Update(items[o], c.offset, end))
          /\ \A p \in Nat : Recorded(Update(items[o], c.offset, end), p) <=>
                             Recorded(items[o], p) \/ (c.offset <= p /\ p < end)
      BY <1>4, <1>6, <3>1, UpdateExact
    <3>3. \A i \in Update(items[o], c.offset, end) : i.offset <= size
      BY <1>4, <1>6, <3>1, UpdateWithin
    <3>4. QED
      BY <3>1, <3>2, <3>3
  <2>2. CASE ~ValidRange(c.offset, end, size)
    BY <1>5, <1>6, <2>2
  <2>3. QED
    BY <2>1, <2>2
<1>8. UATypes'
  <2>1. fileSize' \in [Orchestrator -> {None} \cup {d.fileSize : d \in Chunks}]
    BY <1>1, <1>4 DEF UATypes
  <2>2. items'[o] \in SUBSET Item
    BY <1>7 DEF Paired
  <2>3. items' \in [Orchestrator -> SUBSET Item]
    BY <1>1, <1>5, <2>2 DEF UATypes
  <2>4. QED
    BY <1>1, <1>2, <2>1, <2>3 DEF UATypes, RequestTypes, lockVars, Chunks
<1>9. \A q \in Request : RequestInv(q)'
  <2>1. RequestInv(r)'
    BY <1>1, <1>2 DEF RequestInv
  <2>2. QED
    BY <1>1, <1>2, <2>1, RequestsKept
<1>10. LockInv'
  BY <1>1, <1>2 DEF LockInv, OthersStay, lockVars, UATypes
<1>11. ContentInv'
  BY <1>1, <1>2 DEF ContentInv, OthersStay, PublishedIntact, Content, lockVars
<1>12. LengthInv'
  BY <1>1 DEF LengthInv, MaxSize, Chunks
<1>13. ASSUME NEW x \in Orchestrator PROVE ItemsInv(x)'
  <2>1. CASE x = o
    <3>1. DOMAIN files'[o] # {} /\ fileSize'[o] # None
      BY <1>1, <1>3, <1>4, <1>5, ArtifactAssumption
    <3>2. QED
      BY <1>5, <1>7, <2>1, <3>1 DEF ItemsInv
  <2>2. CASE x # o
    BY <1>1, <1>5, <2>2, ItemsFrame DEF UAInv
  <2>3. QED
    BY <2>1, <2>2
<1>14. ASSUME NEW x \in Orchestrator, x # o PROVE UploadInv(x)'
  <2>1. \A q \in Request : Working(q, x)' <=> Working(q, x)
    BY <1>2, <1>14 DEF Working, OthersStay
  <2>2. \A q \in Request : Working(q, x) => q # r
    BY <1>14 DEF Working
  <2>3. UploadInv(x)
    BY DEF UAInv
  <2>4. QED
    BY <1>1, <1>2, <1>5, <1>14, <2>1, <2>2, <2>3, UploadFrame DEF OthersStay
<1>15. UploadInv(o)'
  <2>1. SUFFICES ASSUME ~doubt[o], published = None PROVE UploadInv(o)'
    BY <1>1 DEF UploadInv
  <2>2. /\ \A q \in Request : Working(q, o) => chunk[q].fileSize = Size
        /\ \A l, m \in DOMAIN files[o] : l = m
        /\ fileSize[o] \in {None, Size}
        /\ \A m \in DOMAIN files[o] : \A p \in 1 .. Len(files[o][m]) :
             files[o][m][p] = "good" =>
               \/ Recorded(items[o], p - 1)
               \/ \E q \in Request : /\ at[q] = o /\ pc[q] = "write"
                                     /\ chunk[q].offset < p
                                     /\ p <= chunk[q].offset + written[q]
    BY <2>1 DEF UAInv, UploadInv
  <2>3. Working(r, o) /\ Working(r, o)'
    BY <1>1, <1>2 DEF Working
  <2>4. c.fileSize = Size /\ size = Size
    BY <2>2, <2>3 DEF size
  <2>5. \A q \in Request : Working(q, o)' => chunk'[q].fileSize = Size
    BY <1>2, <2>2, <2>4 DEF Working, OthersStay
  <2>6. ASSUME NEW m \in DOMAIN files[o], NEW p \in 1 .. Len(files[o][m]),
               files[o][m][p] = "good"
        PROVE  \/ Recorded(items'[o], p - 1)
               \/ \E q \in Request : /\ at'[q] = o /\ pc'[q] = "write"
                                     /\ chunk'[q].offset < p
                                     /\ p <= chunk'[q].offset + written'[q]
    <3>1. p \in Nat /\ p - 1 \in Nat
      <4>1. files[o][m] \in Seq(Bytes)
        BY <1>1, DirFacts DEF UATypes
      <4>2. QED
        BY <4>1
    <3>2. CASE Recorded(items[o], p - 1)
      BY <1>7, <3>1, <3>2
    <3>3. CASE \E q \in Request : /\ at[q] = o /\ pc[q] = "write"
                                   /\ chunk[q].offset < p
                                   /\ p <= chunk[q].offset + written[q]
      <4>1. PICK q \in Request : /\ at[q] = o /\ pc[q] = "write"
                                 /\ chunk[q].offset < p
                                 /\ p <= chunk[q].offset + written[q]
        BY <3>3
      <4>2. CASE q # r
        BY <1>2, <4>1, <4>2 DEF OthersStay
      <4>3. CASE q = r
        <5>1. c.offset <= p - 1 /\ p - 1 < end
          BY <1>1, <1>4, <3>1, <4>1, <4>3 DEF end
        <5>2. ValidRange(c.offset, end, size)
          BY <1>3, <1>4, <2>4, <3>1, <5>1 DEF ValidRange, ValidChunk, end
        <5>3. QED
          BY <1>7, <3>1, <5>1, <5>2
      <4>4. QED
        BY <4>2, <4>3
    <3>4. QED
      BY <2>2, <2>6, <3>2, <3>3
  <2>7. QED
    BY <1>1, <1>5, <2>2, <2>3, <2>4, <2>5, <2>6 DEF UploadInv
<1>16. QED
  BY <1>8, <1>9, <1>10, <1>11, <1>12, <1>13, <1>14, <1>15 DEF UAInv

\* The request asks whether the record is complete.
LEMMA AskCompletedKeeps ==
  ASSUME UAInv, NEW r \in Request, AskCompleted(r), NEW o \in Orchestrator, o = at[r]
  PROVE  UAInv'
<1>1. /\ UATypes /\ RequestInv(r) /\ ItemsInv(o) /\ pc[r] = "completed" /\ RUnlock(r)
      /\ UNCHANGED <<writer, files, published, stateVars, doubt, crashes>>
      /\ IF IsCompleted(items[o], fileSize[o]) THEN Goes(r, "lock") ELSE Ends(r)
  BY DEF UAInv, AskCompleted
<1>2. /\ OthersStay(r) /\ RequestTypes'
      /\ \/ /\ IsCompleted(items[o], fileSize[o])
            /\ pc'[r] = "lock" /\ at'[r] = at[r] /\ chunk'[r] = chunk[r]
            /\ written'[r] = written[r]
         \/ /\ ~IsCompleted(items[o], fileSize[o])
            /\ pc'[r] = "idle" /\ at'[r] = None /\ chunk'[r] = None /\ written'[r] = 0
  BY <1>1, GoesFacts, EndsFacts
<1>3. LockInv' /\ ContentInv' /\ readers' \in [Orchestrator -> SUBSET Request]
  BY <1>1, <1>2, RUnlockKeeps
<1>4. UATypes'
  BY <1>1, <1>2, <1>3 DEF UATypes, RequestTypes, stateVars
<1>5. \A q \in Request : RequestInv(q)'
  <2>1. RequestInv(r)'
    BY <1>1, <1>2 DEF RequestInv
  <2>2. QED
    BY <1>1, <1>2, <2>1, RequestsKept
<1>6. CASE IsCompleted(items[o], fileSize[o])
  <2>1. LengthInv' /\ \A x \in Orchestrator : ItemsInv(x)' /\ UploadInv(x)'
    BY <1>1, <1>2, <1>6, NoUpload DEF Working, stateVars
  <2>2. QED
    BY <1>3, <1>4, <1>5, <2>1 DEF UAInv
<1>7. CASE ~IsCompleted(items[o], fileSize[o])
  <2>1. LengthInv'
    BY <1>1 DEF UAInv, LengthInv, MaxSize, Chunks
  <2>2. ASSUME NEW x \in Orchestrator PROVE ItemsInv(x)'
    BY <1>1, ItemsFrame DEF UAInv, stateVars
  <2>3. ASSUME NEW x \in Orchestrator, x # o PROVE UploadInv(x)'
    <3>1. \A q \in Request : Working(q, x)' <=> Working(q, x)
      BY <1>2, <1>7, <2>3, ArtifactAssumption DEF Working, OthersStay
    <3>2. \A q \in Request : Working(q, x) => q # r
      BY <2>3 DEF Working
    <3>3. UploadInv(x)
      BY DEF UAInv
    <3>4. QED
      BY <1>1, <1>2, <3>1, <3>2, <3>3, UploadFrame DEF OthersStay, stateVars
  <2>4. UploadInv(o)'
    <3>1. SUFFICES ASSUME ~doubt[o], published = None PROVE UploadInv(o)'
      BY <1>1 DEF UploadInv
    <3>2. /\ \A q \in Request : Working(q, o) => chunk[q].fileSize = Size
          /\ \A l, m \in DOMAIN files[o] : l = m
          /\ fileSize[o] \in {None, Size}
          /\ \A m \in DOMAIN files[o] : \A p \in 1 .. Len(files[o][m]) :
               files[o][m][p] = "good" =>
                 \/ Recorded(items[o], p - 1)
                 \/ \E q \in Request : /\ at[q] = o /\ pc[q] = "write"
                                       /\ chunk[q].offset < p
                                       /\ p <= chunk[q].offset + written[q]
      BY <3>1 DEF UAInv, UploadInv
    <3>3. \A q \in Request : pc[q] = "write" => q # r
      BY <1>1
    <3>4. \A q \in Request : Working(q, o)' => chunk'[q].fileSize = Size
      BY <1>2, <1>7, <3>2, ArtifactAssumption DEF Working, OthersStay
    <3>5. \A m \in DOMAIN files[o] : \A p \in 1 .. Len(files[o][m]) :
             files[o][m][p] = "good" =>
               \/ Recorded(items[o], p - 1)
               \/ \E q \in Request : /\ at'[q] = o /\ pc'[q] = "write"
                                     /\ chunk'[q].offset < p
                                     /\ p <= chunk'[q].offset + written'[q]
      BY <1>2, <3>2, <3>3 DEF OthersStay
    <3>6. ASSUME \A q \in Request : ~Working(q, o)',
                 NEW m \in DOMAIN files[o], files[o][m] = Content
          PROVE  FALSE
      <4>1. Size \in Nat \ {0} /\ Len(Content) = Size
            /\ \A p \in 1 .. Size : Content[p] = "good"
        <5>1. Size \in Nat \ {0}
          BY ArtifactAssumption
        <5>2. QED
          BY <5>1 DEF Content
      <4>2. \A q \in Request : ~(at'[q] = o /\ pc'[q] = "write")
        BY <3>6 DEF Working
      <4>3. \A p \in 1 .. Size : Recorded(items[o], p - 1)
        BY <3>5, <3>6, <4>1, <4>2
      <4>4. \A p \in 0 .. Size - 1 : Recorded(items[o], p)
        <5>1. ASSUME NEW p \in 0 .. Size - 1 PROVE Recorded(items[o], p)
          <6>1. p + 1 \in 1 .. Size /\ (p + 1) - 1 = p
            BY <4>1
          <6>2. QED
            BY <4>3, <6>1
        <5>2. QED
          BY <5>1
      <4>5. fileSize[o] = Size
        <5>1. SUFFICES ASSUME fileSize[o] = None PROVE FALSE
          BY <3>2
        <5>2. items[o] = {}
          BY <1>1, <5>1 DEF ItemsInv
        <5>3. Recorded(items[o], 0) /\ 0 \in Nat
          BY <4>1, <4>4
        <5>4. QED
          BY <5>2, <5>3, NoItems
      <4>6. \A i \in items[o] : i.offset <= Size
        BY <1>1, <4>1, <4>5, ArtifactAssumption DEF ItemsInv
      <4>7. IsCompleted(items[o], Size)
        BY <1>1, <4>1, <4>4, <4>6, CompletedExact DEF ItemsInv
      <4>8. QED
        BY <1>7, <4>5, <4>7
    <3>7. QED
      BY <1>1, <3>2, <3>4, <3>5, <3>6 DEF UploadInv, stateVars, Content
  <2>5. QED
    BY <1>3, <1>4, <1>5, <2>1, <2>2, <2>3, <2>4 DEF UAInv
<1>8. QED
  BY <1>6, <1>7

\* The checksum is computed under the lock.
LEMMA CheckArtifactKeeps ==
  ASSUME UAInv, NEW r \in Request, CheckArtifact(r), NEW o \in Orchestrator, o = at[r]
  PROVE  UAInv'
<1>1. /\ UATypes /\ LockInv /\ ContentInv /\ LengthInv /\ RequestInv(r)
      /\ pc[r] = "lock" /\ readers[o] = {} /\ writer[o] = None /\ AfterCheck(r)
      /\ UNCHANGED <<readers, files, published, stateVars, doubt, crashes>>
  BY DEF UAInv, CheckArtifact, CanLock
<1>2. CASE published = None /\ validateChecksum(r)
  <2>1. Goes(r, "rename") /\ writer' = [writer EXCEPT ![o] = r]
    BY <1>1, <1>2 DEF AfterCheck
  <2>2. /\ OthersStay(r) /\ RequestTypes' /\ pc'[r] = "rename" /\ at'[r] = at[r]
        /\ chunk'[r] = chunk[r] /\ written'[r] = written[r]
    BY <1>1, <2>1, GoesFacts
  <2>3. /\ writer'[o] = r /\ writer' \in [Orchestrator -> Request \cup {None}]
        /\ \A x \in Orchestrator : x # o => writer'[x] = writer[x]
    BY <1>1, <2>1 DEF UATypes
  <2>4. UATypes'
    BY <1>1, <2>2, <2>3 DEF UATypes, RequestTypes, stateVars
  <2>5. \A q \in Request : RequestInv(q)'
    <3>1. RequestInv(r)'
      BY <1>1, <2>2 DEF RequestInv
    <3>2. QED
      BY <1>1, <2>2, <3>1, RequestsKept
  <2>6. LockInv'
    <3>1. \A q \in Request : q # r /\ pc[q] = "rename" => at[q] # o
      BY <1>1, ArtifactAssumption DEF LockInv
    <3>2. \A q \in Request : pc'[q] = "rename" => writer'[at'[q]] = q
      <4>1. ASSUME NEW q \in Request, pc'[q] = "rename", q # r
            PROVE  writer'[at'[q]] = q
        <5>1. pc[q] = "rename" /\ at'[q] = at[q] /\ at[q] # o /\ writer[at[q]] = q
          BY <1>1, <2>2, <3>1, <4>1 DEF OthersStay, LockInv
        <5>2. at[q] \in Orchestrator
          BY <1>1, <5>1 DEF UAInv, UATypes, RequestInv
        <5>3. QED
          BY <2>3, <5>1, <5>2
      <4>2. QED
        BY <2>2, <2>3, <4>1
    <3>3. \A q \in Request :
             pc'[q] \in {"write", "completed"} => q \in readers'[at'[q]]
      BY <1>1, <2>2 DEF LockInv, OthersStay
    <3>4. \A x \in Orchestrator : \A q \in readers'[x] :
             at'[q] = x /\ pc'[q] \in {"write", "completed"}
      BY <1>1, <2>2 DEF LockInv, OthersStay, UATypes
    <3>5. ASSUME NEW x \in Orchestrator, writer'[x] # None
          PROVE  /\ readers'[x] = {}
                 /\ at'[writer'[x]] = x /\ pc'[writer'[x]] = "rename"
      <4>1. CASE x = o
        BY <1>1, <2>2, <2>3, <4>1
      <4>2. CASE x # o
        <5>1. writer'[x] = writer[x] /\ writer[x] \in Request /\ writer[x] # r
          BY <1>1, <2>3, <3>5, <4>2 DEF UATypes, LockInv
        <5>2. QED
          BY <1>1, <2>2, <3>5, <5>1 DEF LockInv, OthersStay
      <4>3. QED
        BY <4>1, <4>2
    <3>6. QED
      BY <3>2, <3>3, <3>4, <3>5 DEF LockInv
  <2>7. ContentInv'
    <3>1. files[o][chunk[r].name] = Content
      BY <1>2 DEF validateChecksum
    <3>2. \A q \in Request :
             pc'[q] = "rename" => files'[at'[q]][chunk'[q].name] = Content
      BY <1>1, <2>2, <3>1 DEF ContentInv, OthersStay
    <3>3. QED
      BY <1>1, <1>2, <3>2 DEF ContentInv, PublishedIntact, Content
  <2>8. LengthInv' /\ \A x \in Orchestrator : ItemsInv(x)' /\ UploadInv(x)'
    BY <1>1, <2>2, NoUpload DEF Working, stateVars
  <2>9. QED
    BY <2>4, <2>5, <2>6, <2>7, <2>8 DEF UAInv
<1>3. CASE ~(published = None /\ validateChecksum(r))
  <2>1. Ends(r) /\ UNCHANGED writer
    BY <1>1, <1>3 DEF AfterCheck
  <2>2. /\ OthersStay(r) /\ RequestTypes' /\ pc'[r] = "idle" /\ at'[r] = None
        /\ chunk'[r] = None /\ written'[r] = 0
    BY <1>1, <2>1, EndsFacts
  <2>3. UATypes'
    BY <1>1, <2>1, <2>2 DEF UATypes, RequestTypes, stateVars
  <2>4. \A q \in Request : RequestInv(q)'
    <3>1. RequestInv(r)'
      BY <2>2 DEF RequestInv
    <3>2. QED
      BY <1>1, <2>2, <3>1, RequestsKept
  <2>5. LockInv' /\ ContentInv'
    BY <1>1, <2>1, <2>2, NoLock
  <2>6. LengthInv'
    BY <1>1 DEF LengthInv, MaxSize, Chunks
  <2>7. ASSUME NEW x \in Orchestrator PROVE ItemsInv(x)'
    BY <1>1, ItemsFrame DEF UAInv, stateVars
  <2>8. ASSUME NEW x \in Orchestrator, x # o PROVE UploadInv(x)'
    <3>1. \A q \in Request : Working(q, x)' <=> Working(q, x)
      BY <2>2, <2>8, ArtifactAssumption DEF Working, OthersStay
    <3>2. \A q \in Request : Working(q, x) => q # r
      BY <2>8 DEF Working
    <3>3. UploadInv(x)
      BY DEF UAInv
    <3>4. QED
      BY <1>1, <2>2, <3>1, <3>2, <3>3, UploadFrame DEF OthersStay, stateVars
  <2>9. UploadInv(o)'
    <3>1. SUFFICES ASSUME ~doubt[o], published = None PROVE UploadInv(o)'
      BY <1>1 DEF UploadInv
    <3>2. /\ \A q \in Request : Working(q, o) => chunk[q].fileSize = Size
          /\ \A l, m \in DOMAIN files[o] : l = m
          /\ fileSize[o] \in {None, Size}
          /\ \A m \in DOMAIN files[o] : \A p \in 1 .. Len(files[o][m]) :
               files[o][m][p] = "good" =>
                 \/ Recorded(items[o], p - 1)
                 \/ \E q \in Request : /\ at[q] = o /\ pc[q] = "write"
                                       /\ chunk[q].offset < p
                                       /\ p <= chunk[q].offset + written[q]
      BY <3>1 DEF UAInv, UploadInv
    <3>3. \A q \in Request : pc[q] = "write" => q # r
      BY <1>1
    <3>4. \A q \in Request : Working(q, o)' => chunk'[q].fileSize = Size
      BY <2>2, <3>2, ArtifactAssumption DEF Working, OthersStay
    <3>5. \A m \in DOMAIN files[o] : \A p \in 1 .. Len(files[o][m]) :
             files[o][m][p] = "good" =>
               \/ Recorded(items[o], p - 1)
               \/ \E q \in Request : /\ at'[q] = o /\ pc'[q] = "write"
                                     /\ chunk'[q].offset < p
                                     /\ p <= chunk'[q].offset + written'[q]
      BY <2>2, <3>2, <3>3 DEF OthersStay
    <3>6. chunk[r].fileSize = Size
      BY <1>1, <3>2 DEF Working
    <3>7. Len(Content) = Size
      BY ArtifactAssumption DEF Content
    <3>8. files[o][chunk[r].name] # Content
      BY <1>1, <1>3, <3>1, <3>6, <3>7 DEF validateChecksum
    <3>9. \A m \in DOMAIN files[o] : files[o][m] # Content
      BY <1>1, <3>2, <3>8 DEF RequestInv
    <3>10. QED
      BY <1>1, <3>2, <3>4, <3>5, <3>9 DEF UploadInv, stateVars, Content
  <2>10. QED
    BY <2>3, <2>4, <2>5, <2>6, <2>7, <2>8, <2>9 DEF UAInv
<1>4. QED
  BY <1>2, <1>3

\* The working directory becomes the artifact.
LEMMA MoveArtifactKeeps ==
  ASSUME UAInv, NEW r \in Request, MoveArtifact(r), NEW o \in Orchestrator, o = at[r]
  PROVE  UAInv'
<1>1. /\ UATypes /\ LockInv /\ ContentInv /\ LengthInv /\ RequestInv(r)
      /\ pc[r] = "rename" /\ Ends(r)
      /\ writer' = [writer EXCEPT ![o] = None]
      /\ UNCHANGED <<readers, files, doubt, crashes>>
  BY DEF UAInv, MoveArtifact
<1>2. \/ /\ published = None /\ published' = o
         /\ fileSize' = [fileSize EXCEPT ![o] = None]
         /\ items' = [items EXCEPT ![o] = {}]
      \/ published # None /\ UNCHANGED <<published, fileSize, items>>
  BY DEF MoveArtifact, stateVars
<1>3. /\ OthersStay(r) /\ RequestTypes' /\ pc'[r] = "idle" /\ at'[r] = None
      /\ chunk'[r] = None /\ written'[r] = 0
  BY <1>1, EndsFacts
<1>4. /\ writer[o] = r /\ readers[o] = {} /\ r # None
      /\ files[o][chunk[r].name] = Content /\ chunk[r].name \in DOMAIN files[o]
  BY <1>1, ArtifactAssumption DEF LockInv, ContentInv, RequestInv
<1>5. /\ writer'[o] = None /\ writer' \in [Orchestrator -> Request \cup {None}]
      /\ \A x \in Orchestrator : x # o => writer'[x] = writer[x]
  BY <1>1 DEF UATypes
<1>6. UATypes'
  <2>1. /\ fileSize' \in [Orchestrator -> {None} \cup {d.fileSize : d \in Chunks}]
        /\ items' \in [Orchestrator -> SUBSET Item]
        /\ published' \in Orchestrator \cup {None}
    BY <1>1, <1>2 DEF UATypes
  <2>2. QED
    BY <1>1, <1>3, <1>5, <2>1 DEF UATypes, RequestTypes, Chunks
<1>7. \A q \in Request : RequestInv(q)'
  <2>1. RequestInv(r)'
    BY <1>3 DEF RequestInv
  <2>2. QED
    BY <1>1, <1>3, <2>1, RequestsKept
<1>8. LockInv'
  BY <1>1, <1>3, UnlockKeeps
<1>9. ContentInv'
  <2>1. \A q \in Request :
           pc'[q] = "rename" => files'[at'[q]][chunk'[q].name] = Content
    BY <1>1, <1>3 DEF ContentInv, OthersStay
  <2>2. published' # None => readers'[published'] = {}
    BY <1>1, <1>2, <1>4 DEF ContentInv
  <2>3. PublishedIntact'
    BY <1>1, <1>2, <1>4 DEF ContentInv, PublishedIntact, Content
  <2>4. QED
    BY <2>1, <2>2, <2>3 DEF ContentInv, Content
<1>10. LengthInv'
  BY <1>1 DEF LengthInv, MaxSize, Chunks
<1>11. ASSUME NEW x \in Orchestrator PROVE ItemsInv(x)'
  <2>1. CASE items'[x] = {} /\ fileSize'[x] = None
    BY <2>1, NoItems DEF ItemsInv
  <2>2. CASE items'[x] = items[x] /\ fileSize'[x] = fileSize[x]
    BY <1>1, <2>2, ItemsFrame DEF UAInv
  <2>3. QED
    BY <1>1, <1>2, <2>1, <2>2 DEF UATypes
<1>12. ASSUME NEW x \in Orchestrator PROVE UploadInv(x)'
  <2>1. published' # None
    BY <1>2, ArtifactAssumption
  <2>2. QED
    BY <2>1 DEF UploadInv
<1>13. QED
  BY <1>6, <1>7, <1>8, <1>9, <1>10, <1>11, <1>12 DEF UAInv

\* A killed orchestrator loses its records, its locks and its requests.
LEMMA RestartKeeps ==
  ASSUME UAInv, NEW o \in Orchestrator, Restart(o)
  PROVE  UAInv'
<1>1. /\ UATypes /\ LockInv /\ ContentInv /\ LengthInv
      /\ crashes < MaxCrashes /\ crashes' = crashes + 1
      /\ UNCHANGED published
  BY DEF UAInv, Restart
<1>2. \A q \in Request :
         IF at[q] = o
           THEN /\ pc'[q] = "idle" /\ at'[q] = None /\ chunk'[q] = None
                /\ written'[q] = 0
           ELSE /\ pc'[q] = pc[q] /\ at'[q] = at[q] /\ chunk'[q] = chunk[q]
                /\ written'[q] = written[q]
  BY DEF Restart
<1>3. /\ readers'[o] = {} /\ writer'[o] = None /\ ~doubt'[o]
      /\ items'[o] = {} /\ fileSize'[o] = None
      /\ files'[o] = IF published = o THEN files[o] ELSE <<>>
      /\ \A x \in Orchestrator : x # o =>
           /\ readers'[x] = readers[x] /\ writer'[x] = writer[x]
           /\ doubt'[x] = doubt[x] /\ items'[x] = items[x]
           /\ fileSize'[x] = fileSize[x] /\ files'[x] = files[x]
  BY <1>1 DEF Restart, UATypes
<1>4. UATypes'
  <2>1. RequestTypes'
    BY <1>1 DEF Restart, UATypes, RequestTypes
  <2>2. files' \in [Orchestrator -> Dirs]
    <3>1. files'[o] \in Dirs
      BY <1>1, <1>3, EmptyDir DEF UATypes
    <3>2. QED
      BY <1>1, <1>3, <3>1 DEF Restart, UATypes
  <2>3. /\ readers' \in [Orchestrator -> SUBSET Request]
        /\ writer' \in [Orchestrator -> Request \cup {None}]
        /\ fileSize' \in [Orchestrator -> {None} \cup {d.fileSize : d \in Chunks}]
        /\ items' \in [Orchestrator -> SUBSET Item]
        /\ doubt' \in [Orchestrator -> BOOLEAN]
    BY <1>1 DEF Restart, UATypes
  <2>4. crashes' \in 0 .. MaxCrashes
    BY <1>1, ArtifactAssumption DEF UATypes
  <2>5. QED
    BY <1>1, <2>1, <2>2, <2>3, <2>4 DEF UATypes, RequestTypes, Chunks
<1>5. ASSUME NEW q \in Request PROVE RequestInv(q)'
  <2>1. RequestInv(q)
    BY DEF UAInv
  <2>2. CASE at[q] = o
    BY <1>2, <2>2 DEF RequestInv
  <2>3. CASE at[q] # o
    <3>1. pc[q] # "idle" => at[q] \in Orchestrator
      BY <1>1, <2>1 DEF RequestInv, UATypes
    <3>2. QED
      BY <1>2, <1>3, <2>1, <2>3, <3>1 DEF RequestInv
  <2>4. QED
    BY <2>2, <2>3
<1>6. \A q \in Request : pc'[q] # "idle" =>
         /\ at[q] \in Orchestrator /\ at[q] # o
         /\ pc'[q] = pc[q] /\ at'[q] = at[q] /\ chunk'[q] = chunk[q]
         /\ written'[q] = written[q]
  BY <1>1, <1>2 DEF UAInv, RequestInv, UATypes
<1>7. LockInv'
  <2>1. \A q \in Request : pc'[q] = "rename" => writer'[at'[q]] = q
    BY <1>1, <1>3, <1>6 DEF LockInv
  <2>2. \A q \in Request :
           pc'[q] \in {"write", "completed"} => q \in readers'[at'[q]]
    BY <1>1, <1>3, <1>6 DEF LockInv
  <2>3. ASSUME NEW x \in Orchestrator, NEW q \in readers'[x]
        PROVE  at'[q] = x /\ pc'[q] \in {"write", "completed"}
    <3>1. x # o /\ q \in readers[x] /\ q \in Request
      BY <1>1, <1>3, <2>3 DEF UATypes
    <3>2. QED
      BY <1>1, <1>2, <3>1 DEF LockInv
  <2>4. ASSUME NEW x \in Orchestrator, writer'[x] # None
        PROVE  /\ readers'[x] = {}
               /\ at'[writer'[x]] = x /\ pc'[writer'[x]] = "rename"
    <3>1. x # o /\ writer'[x] = writer[x] /\ writer[x] \in Request
      BY <1>1, <1>3, <2>4 DEF UATypes
    <3>2. QED
      BY <1>1, <1>2, <1>3, <2>4, <3>1 DEF LockInv
  <2>5. QED
    BY <2>1, <2>2, <2>3, <2>4 DEF LockInv
<1>8. ContentInv'
  <2>1. \A q \in Request :
           pc'[q] = "rename" => files'[at'[q]][chunk'[q].name] = Content
    BY <1>1, <1>3, <1>6 DEF ContentInv
  <2>2. published # None => /\ readers'[published] = {}
                            /\ files'[published] = files[published]
    BY <1>1, <1>3 DEF ContentInv, UATypes
  <2>3. QED
    BY <1>1, <2>1, <2>2 DEF ContentInv, PublishedIntact, Content
<1>9. LengthInv'
  <2>1. \A m \in DOMAIN files'[o] : Len(files'[o][m]) <= MaxSize
    BY <1>1, <1>3, EmptyDir DEF LengthInv
  <2>2. QED
    BY <1>1, <1>3, <2>1 DEF LengthInv, MaxSize, Chunks
<1>10. ASSUME NEW x \in Orchestrator PROVE ItemsInv(x)'
  <2>1. CASE x = o
    BY <1>3, <2>1, NoItems DEF ItemsInv
  <2>2. CASE x # o
    BY <1>3, <2>2, ItemsFrame DEF UAInv
  <2>3. QED
    BY <2>1, <2>2
<1>11. ASSUME NEW x \in Orchestrator PROVE UploadInv(x)'
  <2>1. CASE x = o
    <3>1. \A q \in Request : ~Working(q, x)'
      BY <1>6, <2>1 DEF Working
    <3>2. published = None => DOMAIN files'[x] = {}
      BY <1>3, <2>1, EmptyDir, ArtifactAssumption
    <3>3. QED
      BY <1>1, <1>3, <2>1, <3>1, <3>2 DEF UploadInv, Content
  <2>2. CASE x # o
    <3>1. \A q \in Request : Working(q, x)' <=> Working(q, x)
      BY <1>2, <2>2, ArtifactAssumption DEF Working
    <3>2. \A q \in Request : Working(q, x) =>
             /\ chunk'[q] = chunk[q] /\ written'[q] = written[q] /\ pc'[q] = pc[q]
      BY <1>2, <2>2 DEF Working
    <3>3. UploadInv(x)
      BY DEF UAInv
    <3>4. QED
      BY <1>1, <1>3, <2>2, <3>1, <3>2, <3>3, UploadFrame
  <2>3. QED
    BY <2>1, <2>2
<1>12. QED
  BY <1>4, <1>5, <1>7, <1>8, <1>9, <1>10, <1>11 DEF UAInv

\* UAInv holds before the first request.
LEMMA UAInvInit == Init => UAInv
<1> SUFFICES ASSUME Init PROVE UAInv
  OBVIOUS
<1>1. \A o \in Orchestrator : files[o] = <<>> /\ files[o] \in Dirs /\ DOMAIN files[o] = {}
  BY EmptyDir DEF Init
<1>2. UATypes
  <2>1. files \in [Orchestrator -> Dirs]
    BY <1>1 DEF Init
  <2>2. 0 \in 0 .. MaxCrashes
    BY ArtifactAssumption
  <2>3. QED
    BY <2>1, <2>2 DEF Init, UATypes
<1>3. \A r \in Request : RequestInv(r)
  BY DEF Init, RequestInv
<1>4. LockInv /\ ContentInv
  BY DEF Init, LockInv, ContentInv, PublishedIntact
<1>5. LengthInv
  BY <1>1 DEF LengthInv
<1>6. \A o \in Orchestrator : ItemsInv(o)
  BY NoItems DEF Init, ItemsInv
<1>7. \A o \in Orchestrator : UploadInv(o)
  BY <1>1 DEF Init, UploadInv, Working
<1>8. QED
  BY <1>2, <1>3, <1>4, <1>5, <1>6, <1>7 DEF UAInv

\* Every step of the orchestrators keeps UAInv.
LEMMA UAInvNext == UAInv /\ [Next]_vars => UAInv'
<1> SUFFICES ASSUME UAInv, [Next]_vars PROVE UAInv'
  OBVIOUS
<1>1. ASSUME NEW r \in Request, BeginUpload(r) \/ BeginExtract(r) PROVE UAInv'
  BY <1>1, BeginKeeps
<1>2. ASSUME NEW r \in Request, RequestStep(r) PROVE UAInv'
  <2>1. CASE ExtractFile(r) \/ MoveExtracted(r)
    BY <2>1, ExtractKeeps
  <2>2. CASE OpenChunk(r)
    BY <2>2, OpenChunkKeeps
  <2>3. CASE WriteByte(r) \/ UpdateState(r) \/ AskCompleted(r)
             \/ CheckArtifact(r) \/ MoveArtifact(r)
    <3>1. at[r] \in Orchestrator
      BY <2>3 DEF UAInv, UATypes, RequestInv, WriteByte, UpdateState, AskCompleted,
        CheckArtifact, MoveArtifact
    <3>2. QED
      BY <2>3, <3>1, WriteByteKeeps, UpdateStateKeeps, AskCompletedKeeps,
        CheckArtifactKeeps, MoveArtifactKeeps
  <2>4. QED
    BY <1>2, <2>1, <2>2, <2>3 DEF RequestStep
<1>3. ASSUME NEW o \in Orchestrator, Restart(o) PROVE UAInv'
  BY <1>3, RestartKeeps
<1>4. ASSUME NEW r \in Request, RequestFails(r) PROVE UAInv'
  <2>1. CASE OpenFails(r) \/ ExtractFails(r)
    BY <2>1, ExtractKeeps
  <2>2. CASE WriteFails(r) \/ CheckFails(r) \/ MoveFails(r)
    <3>1. at[r] \in Orchestrator
      BY <2>2 DEF UAInv, UATypes, RequestInv, WriteFails, CheckFails, MoveFails
    <3>2. QED
      BY <2>2, <3>1, FailsKeeps
  <2>3. QED
    BY <1>4, <2>1, <2>2 DEF RequestFails
<1>5. CASE UNCHANGED vars
  <2>1. UNCHANGED <<pc, at, chunk, written, readers, writer, files, published,
                    fileSize, items, doubt, crashes>>
    BY <1>5 DEF vars, requestVars, lockVars, stateVars
  <2>2. UATypes' /\ LengthInv'
    BY <2>1 DEF UAInv, UATypes, LengthInv, MaxSize, Chunks
  <2>3. \A r \in Request : RequestInv(r)'
    BY <2>1 DEF UAInv, RequestInv
  <2>4. LockInv' /\ ContentInv'
    BY <2>1 DEF UAInv, LockInv, ContentInv, PublishedIntact, Content
  <2>5. ASSUME NEW o \in Orchestrator PROVE ItemsInv(o)' /\ UploadInv(o)'
    <3>1. ItemsInv(o) /\ UploadInv(o)
      BY DEF UAInv
    <3>2. ItemsInv(o)'
      BY <2>1, <3>1, ItemsFrame
    <3>3. UploadInv(o)'
      BY <2>1, <3>1, UploadFrame DEF Working
    <3>4. QED
      BY <3>2, <3>3
  <2>6. QED
    BY <2>2, <2>3, <2>4, <2>5 DEF UAInv
<1>6. QED
  BY <1>1, <1>2, <1>3, <1>4, <1>5 DEF Next

\* UAInv is an inductive invariant of the orchestrators.
LEMMA UAInvHolds == Spec => []UAInv
BY UAInvInit, UAInvNext, PTL DEF Spec

-----------------------------------------------------------------------------
(* The published directory, and what is extracted from it.                 *)

\* No step changes the published directory or publishes another one.
LEMMA PublishedStays ==
  ASSUME UAInv, Next, published # None
  PROVE  published' = published /\ files'[published] = files[published]
<1>1. UATypes /\ published \in Orchestrator
  BY DEF UAInv, UATypes
<1>2. ASSUME NEW r \in Request,
             \/ BeginUpload(r) \/ BeginExtract(r) \/ RequestStep(r) \/ RequestFails(r)
      PROVE  published' = published /\ files'[published] = files[published]
  <2>1. CASE BeginUpload(r) \/ BeginExtract(r) \/ UpdateState(r) \/ AskCompleted(r)
             \/ CheckArtifact(r) \/ ExtractFile(r) \/ MoveExtracted(r)
             \/ RequestFails(r)
    BY <2>1 DEF BeginUpload, BeginExtract, UpdateState, AskCompleted, CheckArtifact,
      ExtractFile, MoveExtracted, RequestFails, OpenFails, WriteFails, CheckFails,
      MoveFails, ExtractFails
  <2>2. CASE OpenChunk(r) \/ MoveArtifact(r)
    BY <2>2 DEF OpenChunk, MoveArtifact
  <2>3. CASE WriteByte(r)
    <3>1. pc[r] = "write" /\ published # at[r]
      BY <2>3, WriterFacts DEF WriteByte
    <3>2. QED
      BY <1>1, <2>3, <3>1 DEF WriteByte, UATypes
  <2>4. QED
    BY <1>2, <2>1, <2>2, <2>3 DEF RequestStep
<1>3. ASSUME NEW o \in Orchestrator, Restart(o)
      PROVE  published' = published /\ files'[published] = files[published]
  BY <1>1, <1>3 DEF Restart, UATypes
<1>4. QED
  BY <1>2, <1>3 DEF Next

\* Who extracts has found a single file, and what was extracted was right.
ExtractInv ==
  /\ unpacked \in [Request -> {None, Content}]
  /\ \A r \in Request : unpacked[r] # None => pc[r] = "moveExtracted"
  /\ \A r \in Request :
       pc[r] = "extract" => published # None /\ SingleFile(files[published])
  /\ extracted \in {None, Content}

\* A request that is not extracting, or stops, has nothing unpacked.
LEMMA ExtractFrame ==
  ASSUME UAInv, ExtractInv, NEW r \in Request, OthersStay(r), UNCHANGED extractVars,
         pc[r] # "moveExtracted", pc'[r] # "extract",
         published # None =>
           published' = published /\ files'[published] = files[published]
  PROVE  ExtractInv'
<1>1. unpacked[r] = None /\ UNCHANGED <<unpacked, extracted>>
  BY DEF ExtractInv, extractVars
<1>2. \A q \in Request : unpacked'[q] # None => pc'[q] = "moveExtracted"
  BY <1>1 DEF ExtractInv, OthersStay
<1>3. ASSUME NEW q \in Request, pc'[q] = "extract"
      PROVE  published' # None /\ SingleFile(files'[published'])
  BY <1>3 DEF ExtractInv, OthersStay, SingleFile
<1>4. QED
  BY <1>1, <1>2, <1>3 DEF ExtractInv, Content

\* Every step keeps ExtractInv.
LEMMA ExtractInvNext == UAInv /\ ExtractInv /\ [Next]_vars => ExtractInv'
<1> SUFFICES ASSUME UAInv, ExtractInv, [Next]_vars PROVE ExtractInv'
  OBVIOUS
<1>1. CASE UNCHANGED vars
  BY <1>1 DEF vars, requestVars, extractVars, ExtractInv, SingleFile, Content
<1>2. ASSUME Next PROVE ExtractInv'
  <2>1. published # None =>
          published' = published /\ files'[published] = files[published]
    BY <1>2, PublishedStays
  <2>2. UATypes
    BY DEF UAInv
  <2>3. ASSUME NEW r \in Request, BeginExtract(r) PROVE ExtractInv'
    <3>1. /\ UNCHANGED <<unpacked, extracted, files, published>>
          /\ published # None /\ SingleFile(files[published])
          /\ pc[r] = "idle" /\ pc' = [pc EXCEPT ![r] = "extract"]
      BY <2>3 DEF BeginExtract, extractVars
    <3>2. unpacked[r] = None
      BY <3>1 DEF ExtractInv
    <3>3. \A q \in Request : unpacked'[q] # None => pc'[q] = "moveExtracted"
      BY <2>2, <3>1, <3>2 DEF ExtractInv, UATypes
    <3>4. QED
      BY <3>1, <3>3 DEF ExtractInv, SingleFile, Content
  <2>4. ASSUME NEW r \in Request,
               \/ BeginUpload(r) \/ OpenChunk(r) \/ WriteByte(r) \/ UpdateState(r)
               \/ AskCompleted(r) \/ CheckArtifact(r) \/ MoveArtifact(r)
               \/ RequestFails(r) /\ ~ExtractFails(r)
        PROVE  ExtractInv'
    <3>1. UNCHANGED extractVars /\ pc[r] # "moveExtracted"
      BY <2>4 DEF BeginUpload, OpenChunk, WriteByte, UpdateState, AskCompleted,
        CheckArtifact, MoveArtifact, RequestFails, OpenFails, WriteFails, CheckFails,
        MoveFails
    <3>2. OthersStay(r) /\ pc'[r] # "extract"
      <4>1. CASE BeginUpload(r) \/ WriteByte(r)
        BY <2>2, <4>1 DEF BeginUpload, WriteByte, OthersStay, UATypes
      <4>2. CASE RequestFails(r) \/ MoveArtifact(r)
        BY <2>2, <4>2, EndsFacts DEF RequestFails, OpenFails, WriteFails, CheckFails,
          MoveFails, ExtractFails, MoveArtifact
      <4>3. CASE OpenChunk(r) \/ UpdateState(r) \/ AskCompleted(r) \/ CheckArtifact(r)
        BY <2>2, <4>3, EndsFacts, GoesFacts
           DEF OpenChunk, UpdateState, AskCompleted, CheckArtifact, AfterCheck
      <4>4. QED
        BY <2>4, <4>1, <4>2, <4>3
    <3>3. QED
      BY <2>1, <3>1, <3>2, ExtractFrame
  <2>5. ASSUME NEW r \in Request, ExtractFile(r) PROVE ExtractInv'
    <3>1. /\ pc[r] = "extract" /\ UNCHANGED <<files, published, extracted>>
          /\ Goes(r, "moveExtracted")
      BY <2>5 DEF ExtractFile
    <3>2. published # None /\ SingleFile(files[published]) /\ PublishedIntact
      BY <3>1 DEF ExtractInv, UAInv, ContentInv
    <3>3. \A n \in DOMAIN files[published] : files[published][n] = Content
      BY <3>2 DEF SingleFile, PublishedIntact
    <3>4. unpacked' = [unpacked EXCEPT ![r] = Content]
      BY <2>5, <3>3 DEF ExtractFile
    <3>5. OthersStay(r) /\ pc'[r] = "moveExtracted"
      BY <2>2, <3>1, GoesFacts
    <3>6. unpacked' \in [Request -> {None, Content}]
      BY <3>4 DEF ExtractInv
    <3>7. \A q \in Request : unpacked'[q] # None => pc'[q] = "moveExtracted"
      BY <3>4, <3>5 DEF ExtractInv, OthersStay
    <3>8. \A q \in Request : pc'[q] = "extract" => pc[q] = "extract"
      BY <3>5 DEF OthersStay
    <3>9. QED
      BY <3>1, <3>6, <3>7, <3>8 DEF ExtractInv, SingleFile, Content
  <2>6. ASSUME NEW r \in Request, MoveExtracted(r) \/ ExtractFails(r) PROVE ExtractInv'
    <3>1. /\ UNCHANGED <<files, published>> /\ Ends(r)
          /\ unpacked' = [unpacked EXCEPT ![r] = None]
          /\ extracted' \in {extracted, unpacked[r]}
      BY <2>6 DEF MoveExtracted, ExtractFails
    <3>2. OthersStay(r) /\ pc'[r] = "idle"
      BY <2>2, <3>1, EndsFacts
    <3>3. unpacked' \in [Request -> {None, Content}] /\ extracted' \in {None, Content}
      BY <3>1 DEF ExtractInv
    <3>4. \A q \in Request : unpacked'[q] # None => pc'[q] = "moveExtracted"
      BY <3>1, <3>2 DEF ExtractInv, OthersStay
    <3>5. \A q \in Request : pc'[q] = "extract" => pc[q] = "extract"
      BY <3>2 DEF OthersStay
    <3>6. QED
      BY <3>1, <3>3, <3>4, <3>5 DEF ExtractInv, SingleFile, Content
  <2>7. ASSUME NEW o \in Orchestrator, Restart(o) PROVE ExtractInv'
    <3>1. /\ UNCHANGED extracted
          /\ \A q \in Request :
               /\ pc'[q] = IF at[q] = o THEN "idle" ELSE pc[q]
               /\ unpacked'[q] = IF at[q] = o THEN None ELSE unpacked[q]
      BY <2>7 DEF Restart
    <3>2. unpacked' \in [Request -> {None, Content}]
      BY <2>7 DEF Restart, ExtractInv
    <3>3. \A q \in Request : pc'[q] = "extract" => pc[q] = "extract"
      BY <3>1
    <3>4. QED
      BY <2>1, <3>1, <3>2, <3>3 DEF ExtractInv, SingleFile, Content
  <2>8. QED
    BY <1>2, <2>3, <2>4, <2>5, <2>6, <2>7 DEF Next, RequestStep
<1>3. QED
  BY <1>1, <1>2

\* Whatever is extracted comes from a file that was checked.
LEMMA ExtractInvHolds == Spec => []ExtractInv
<1>1. Init => ExtractInv
  BY DEF Init, ExtractInv
<1>2. QED
  BY <1>1, UAInvHolds, ExtractInvNext, PTL DEF Spec

-----------------------------------------------------------------------------
(* The theorems.                                                           *)

\* The state of the orchestrators and of their requests is of its type: the
\* lock of a checksum has readers or one writer, and no file and no range
\* record is longer than the longest file that clients announce.
THEOREM UserArtifactsTypes == Spec => []TypeOK
<1>1. UAInv /\ ExtractInv => TypeOK
  <2> SUFFICES ASSUME UAInv, ExtractInv PROVE TypeOK
    OBVIOUS
  <2>1. UATypes /\ LockInv /\ LengthInv
    BY DEF UAInv
  <2>2. ASSUME NEW r \in Request
        PROVE  /\ at[r] = None <=> pc[r] = "idle"
               /\ chunk[r] = None <=> pc[r] \in {"idle", "extract", "moveExtracted"}
               /\ chunk[r] = None => written[r] = 0
               /\ chunk[r] # None => chunk[r] \in Chunks /\ written[r] \in 0 .. chunk[r].size
    <3>1. RequestInv(r)
      BY DEF UAInv
    <3>2. chunk[r] # None => chunk[r] \in Chunks /\ written[r] \in 0 .. chunk[r].size
      <4>1. SUFFICES ASSUME chunk[r] # None
                     PROVE  chunk[r] \in Chunks /\ written[r] \in 0 .. chunk[r].size
        OBVIOUS
      <4>2. chunk[r] \in Chunks /\ written[r] \in Nat /\ written[r] <= chunk[r].size
        BY <2>1, <3>1, <4>1 DEF UATypes, RequestInv
      <4>3. QED
        BY <4>2, ChunkFacts
    <3>3. QED
      BY <3>1, <3>2 DEF RequestInv
  <2>3. ASSUME NEW o \in Orchestrator
        PROVE  /\ writer[o] # None => readers[o] = {}
               /\ DOMAIN files[o] \subseteq Names
               /\ \A n \in DOMAIN files[o] : Len(files[o][n]) <= MaxSize
               /\ fileSize[o] \in {None} \cup {c.fileSize : c \in Chunks}
               /\ items[o] \subseteq [offset : 0 .. MaxSize, isUpdated : BOOLEAN]
    <3>1. DOMAIN files[o] \subseteq Names
      BY <2>1, DirFacts DEF UATypes
    <3>2. ASSUME NEW i \in items[o]
          PROVE  i \in [offset : 0 .. MaxSize, isUpdated : BOOLEAN]
      <4>1. ItemsInv(o) /\ i \in Item
        BY <2>1, <3>2 DEF UAInv, UATypes
      <4>2. fileSize[o] # None /\ i.offset <= fileSize[o]
        BY <3>2, <4>1 DEF ItemsInv
      <4>3. PICK c \in Chunks : fileSize[o] = c.fileSize
        BY <2>1, <4>2 DEF UATypes
      <4>4. i.offset \in Nat /\ MaxSize \in Nat /\ c.fileSize \in Nat /\ c.fileSize <= MaxSize
        BY <4>1, <4>3, ChunkFacts DEF Item
      <4>5. i.offset \in 0 .. MaxSize
        BY <4>2, <4>3, <4>4
      <4>6. QED
        BY <4>1, <4>5 DEF Item
    <3>3. QED
      BY <2>1, <3>1, <3>2 DEF LockInv, LengthInv, UATypes
  <2>4. /\ DOMAIN unpacked = Request
        /\ \A r \in Request : unpacked[r] # None => pc[r] = "moveExtracted"
    BY DEF ExtractInv
  <2>5. QED
    BY <2>1, <2>2, <2>3, <2>4 DEF TypeOK, UATypes
<1>2. QED
  BY <1>1, UAInvHolds, ExtractInvHolds, PTL

\* What moveArtifactIfNeeded has renamed to the path of the artifact has the
\* artifact's checksum, for any number of orchestrators and requests, whatever
\* the chunks and whoever is killed.
THEOREM PublishedIntactHolds == Spec => []PublishedIntact
<1>1. UAInv => PublishedIntact
  BY DEF UAInv, ContentInv
<1>2. QED
  BY <1>1, UAInvHolds, PTL

\* No request writes into a directory that was renamed to the path of the
\* artifact, and no rename replaces it: the lock is held from the checksum to
\* the rename, and a reader finds the artifact before it opens a file.
THEOREM PublishedImmutableHolds == Spec => PublishedImmutable
<1>1. UAInv /\ [Next]_vars =>
        [published # None => /\ published' = published
                             /\ files'[published] = files[published]]_vars
  BY PublishedStays
<1>2. QED
  BY <1>1, UAInvHolds, PTL DEF Spec, PublishedImmutable

\* What ExtractArtifact leaves at the path of the extracted artifact is made from a
\* file with the artifact's checksum: a directory with a second file is refused,
\* and one that was accepted does not change until it is read.
THEOREM ExtractedIntactHolds == Spec => []ExtractedIntact
<1>1. ExtractInv => ExtractedIntact
  BY DEF ExtractInv, ExtractedIntact
<1>2. QED
  BY <1>1, ExtractInvHolds, PTL

\* The tree of a chunkState says exactly which bytes were uploaded.
THEOREM ChunkStateExactHolds == Spec => []ChunkStateExact
<1>1. UAInv => ChunkStateExact
  <2> SUFFICES ASSUME UAInv PROVE ChunkStateExact
    OBVIOUS
  <2>1. ASSUME NEW o \in Orchestrator PROVE Alternating(items[o])
    BY PairedAlternating DEF UAInv, ItemsInv
  <2>2. ASSUME NEW o \in Orchestrator, Unused PROVE items[o] = {}
    <3>1. DOMAIN files[o] = {}
      BY <2>2, EmptyDir DEF Unused
    <3>2. QED
      BY <3>1 DEF UAInv, ItemsInv
  <2>3. ASSUME NEW o \in Orchestrator, Unused,
               NEW a \in Ranges, NEW b \in Ranges, NEW c \in Ranges
        PROVE  LET its == Update(Update(Update(items[o], a[1], a[2]), b[1], b[2]), c[1], c[2])
                   bytes == UNION {r[1] .. r[2] - 1 : r \in {a, b, c}}
               IN  /\ \A p \in 0 .. RangeSize :
                        p \in bytes <=> \E i \in getItemOrPrev(its, p) : i.isUpdated
                   /\ IsCompleted(its, RangeSize) <=> bytes = 0 .. RangeSize - 1
                   /\ Alternating(its)
    <3>1. items[o] = {}
      BY <2>2, <2>3
    <3>2. QED
      BY <3>1, ThreeUpdates, Zenon
  <2>4. QED
    BY <2>1, <2>3, Zenon DEF ChunkStateExact
<1>2. QED
  BY <1>1, UAInvHolds, PTL

\* A complete and right artifact does not stay in a working directory when the
\* requests are done: of the requests that record the last chunks at least one
\* finds the record complete, takes the lock and moves the directory.
THEOREM NotForgottenHolds == Spec => []NotForgotten
<1>1. UAInv => NotForgotten
  BY DEF UAInv, UploadInv, NotForgotten, Working
<1>2. QED
  BY <1>1, UAInvHolds, PTL
=============================================================================
