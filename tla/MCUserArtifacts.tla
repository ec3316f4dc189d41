--------------------------- MODULE MCUserArtifacts ---------------------------
EXTENDS UserArtifacts, TLC

CONSTANTS o1, o2, r1, r2

C(name, offset, size, total, good) ==
  [name |-> name, offset |-> offset, size |-> size, fileSize |-> total, good |-> good]

\* The two halves, the first half damaged, the whole, and a chunk that misleads about
\* the name and the length.  The second orchestrator only gets the whole.
Whole == C("a", 0, 2, 2, TRUE)
MixedUpload ==
  (o1 :> {C("a", 0, 1, 2, TRUE), C("a", 1, 1, 2, TRUE), C("a", 0, 1, 2, FALSE), Whole,
          C("b", 1, 1, 3, TRUE)})
  @@ (o2 :> {Whole})
=============================================================================
