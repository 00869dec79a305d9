CONSTANTS
  h1 = h1
  h2 = h2
  p1 = p1
  p2 = p2
  Nil = Nil
  Ids <- OneId
  DepIds <- OneId
  Procs <- TwoProcs
  Sources <- GoodAndBad
  Broken <- Bad
  Tests <- Authored
  BenchesOf <- AuthoredBenches
  FirstHyps <- AnyHyp
  Scopes <- CodeOrDep
  Strays <- FileOnly
  Edits <- SomeEdits
  Quiet = TRUE
  Kills <- AllButSha
SPECIFICATION Spec
SYMMETRY AlikeProcs
INVARIANTS
  TypeOK RulerFixed ProvedPassesTests ScopeRespected LockMatchesCommand ProofShowsItsTable
PROPERTY OnlyProofsPromote
