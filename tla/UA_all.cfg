SPECIFICATION FairSpec
CONSTANTS
  o1 = o1  o2 = o2  r1 = r1  r2 = r2
  None = None
  Orchestrator = {o1, o2}
  Request = {r1, r2}
  Upload <- MixedUpload
  Size = 2
  MaxCrashes = 1
INVARIANTS TypeOK PublishedIntact ExtractedIntact ChunkStateExact NotForgotten
PROPERTIES PublishedImmutable RequestEnds
