SPECIFICATION Spec
CONSTANTS
  w1 = w1
  w2 = w2
  r1 = r1
  Writers <- TwoWriters
  Readers <- Nobody
  Candidates <- TwoGroups
  States <- OffOn
  GroupNames <- ThreeNames
  MaxGroups = 2
  Faults = FALSE
INVARIANTS NoLostUpdate
