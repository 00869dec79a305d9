CONSTANTS
  Pairs <- Outcomes
  OneSided = OneSided
  MaxBenchmarks = 2
  MinImprovement = 3
  RegressionTol = 2
SPECIFICATION Spec
INVARIANTS ProvedIsAWin GateAgreesWithCheck ReadsOwnTable WarnsOfSubtests
CHECK_DEADLOCK FALSE
