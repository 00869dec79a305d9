-------------------------- MODULE MCHypothesisGate --------------------------
(* Small instances of HypothesisGate for TLC. *)
EXTENDS HypothesisGate, TLC

CONSTANTS h1, h2, p1, p2

OneId == {h1}
TwoIds == {h1, h2}
TwoProcs == {p1, p2}
AlikeProcs == Permutations(TwoProcs)
None == {}
NoScope == {"none"}
CodeOrDep == {"code", "dep"}

HeadOnly == {"head"}
GoodAndBad == {"head", "good", "bad"}
Bad == {"bad"}
FileOnly == {"file"}

\* HEAD has one benchmark; the agent may author another beside it.
Authored == {"head", "c"}
AuthoredBenches == [t \in Authored |-> IF t = "head" THEN {"B"} ELSE {"B", "C"}]

\* An edit is reverted; or breaks the source; or changes it and authors a benchmark; or changes it
\* and a file outside the scope.
SomeEdits ==
  {HeadTree,
   [src |-> "bad", tests |-> "head", stray |-> "none"],
   [src |-> "good", tests |-> "c", stray |-> "none"],
   [src |-> "good", tests |-> "head", stray |-> "file"]}

\* The benchmark is to be found; or it is named and to be authored.
AnyB == [name |-> "", needs |-> TRUE]
NeedsC == [name |-> "C", needs |-> TRUE]
OnlyAnyB == {AnyB}
AnyHyp == {AnyB, NeedsC}

\* A kill between the two outputs of a baseline is left out: RulerFixed fails then.
AllButSha ==
  {"optin", "tree", "bench", "load", "save", "compile", "patch", "exists", "lock",
   "gate", "tests", "candidate", "measure", "decide", "critic"}
=============================================================================
