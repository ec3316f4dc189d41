SPECIFICATION Spec
CONSTANTS
  w1 = w1
  w2 = w2
  r1 = r1
  Writers <- OneWriter
  Readers <- OneReader
  Candidates <- ThreeGroups
  States <- OffOn
  GroupNames <- ThreeNames
  MaxGroups = 2
  Faults = TRUE
INVARIANTS TypeOK UniqueGroups
PROPERTIES ImplementsAbstract
