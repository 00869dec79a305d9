CONSTANTS
  p1 = p1
  p2 = p2
  p3 = p3
  NoFile = NoFile
  NoPid = NoPid
  Procs <- ThreeProcs
  Faults <- AllFaults
SPECIFICATION FairSpec
INVARIANTS TypeOK OrderlyExclusion LockNamesMeasurer StaleReclaimed OrderlyInv
PROPERTIES MutexSpec AcquireReturns
