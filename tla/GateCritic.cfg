CONSTANTS
  h1 = h1
  h2 = h2
  p1 = p1
  p2 = p2
  Nil = Nil
  Ids <- OneId
  DepIds <- None
  Procs <- TwoProcs
  Sources <- HeadOnly
  Broken <- None
  Tests <- Authored
  BenchesOf <- AuthoredBenches
  FirstHyps <- OnlyAnyB
  Scopes <- NoScope
  Strays <- None
  Edits <- None
  Quiet = TRUE
  Kills <- None
SPECIFICATION Spec
PROPERTY OnlyTheGateProves
