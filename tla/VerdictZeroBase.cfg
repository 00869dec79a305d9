CONSTANTS
  Pairs <- Outcomes
  OneSided = OneSided
  MaxBenchmarks = 1
  MinImprovement = 3
  RegressionTol = 2
SPECIFICATION Spec
INVARIANT BeyondToleranceKills
CHECK_DEADLOCK FALSE
