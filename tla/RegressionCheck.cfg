CONSTANTS
  p1 = p1
  p2 = p2
  c1 = c1
  c2 = c2
  c3 = c3
  i1 = i1
  Nil = Nil
  Ids <- OneId
  Procs <- TwoProcs
  Refs = {"main", "HEAD"}
  Commits <- ThreeCommits
  BenchAt <- ThreeBenches
SPECIFICATION Spec
SYMMETRY Perms
INVARIANTS TypeOK MeasuresWhatItBuilt DecidesOnlyWithBenchmark FreshCheckMeasuresRefs
