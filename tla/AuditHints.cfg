CONSTANTS
  h1 = h1
  h2 = h2
  h3 = h3
  Ids <- ThreeIds
  MaxDetours = 3
SPECIFICATION FairSpec
INVARIANTS TypeOK CompleteWithoutLeftovers
PROPERTIES ReportedWithPatches HintsLeadToComplete
CHECK_DEADLOCK FALSE
