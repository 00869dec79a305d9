CONSTANTS
  p1 = p1
  p2 = p2
  p3 = p3
  NoFile = NoFile
  NoPid = NoPid
  Procs <- TwoProcs
  Faults <- OnlyOverlap
SPECIFICATION Spec
INVARIANT MutualExclusion
