--------------------------- MODULE HypothesisGate ---------------------------
(***************************************************************************)
(* One audit's hypotheses on their way through the benchmark gate          *)
(* (src/internal/gate/gate.go, the store in src/internal/model/model.go,   *)
(* the critic, scope and clean commands of src/cmd/go-perf-agent).         *)
(*                                                                         *)
(* The commands are processes that share only files: hypotheses.json,      *)
(* scope.json, and per hypothesis its worktree wt/<id> and in runs/<id> the *)
(* baseline binary, the hash of its tests, benchstat's table and the       *)
(* verdict.  One action is one step of a command that reads or writes some *)
(* of them; between two steps anybody else may act: other commands, and    *)
(* the agent that edits the worktree.                                      *)
(*                                                                         *)
(*   baseline: optin -> tree -> bench [-> load -> save] -> compile -> sha  *)
(*   verdict:  exists -> lock -> gate -> tests -> candidate -> measure     *)
(*             -> decide                                                   *)
(*   validate: a baseline, patch, then a verdict                           *)
(*   critic:   read (its first action) -> critic                           *)
(*                                                                         *)
(* The lock is taken for granted here: BenchLock is about it.              *)
(* Bug_X is a plausible bug of X.                                          *)
(***************************************************************************)
EXTENDS Naturals, FiniteSets

CONSTANTS
  Ids,        \* the hypotheses
  DepIds,     \* those whose change is in a dependency of the module
  Procs,      \* the commands that run at the same time
  Nil,        \* no file, nobody
  Sources,    \* what the package's source may be; "head" is HEAD's
  Broken,     \* the sources that fail their tests
  Tests,      \* what its _test.go files may be; "head" is HEAD's
  BenchesOf,  \* the benchmarks that each of them declares
  FirstHyps,  \* what HYPOTHESIZE may write for a hypothesis
  Scopes,     \* what scope.json may say: "none" (no such file), "code" (ours
              \*   only), "dep" (a dependency too)
  Strays,     \* .go changes outside the scope: "file" in a directory git knows,
              \*   "newdir" in an untracked one, "commit" committed by the agent
  Edits,      \* what an edit or a patch may leave in a worktree
  Quiet,      \* nobody touches a worktree while a command uses it
  Kills       \* the points at which a command may be killed

Names == UNION {BenchesOf[t] : t \in Tests}
Hyp == [name : Names \cup {""}, needs : BOOLEAN]
Tree == [src : Sources, tests : Tests, stray : Strays \cup {"none"}]

ASSUME GateAssumption ==
  /\ DepIds \subseteq Ids /\ Broken \subseteq Sources \ {"head"}
  /\ "head" \in Sources /\ "head" \in Tests /\ Nil \notin Procs \cup Tests
  /\ FirstHyps \subseteq Hyp
  /\ Scopes \subseteq {"none", "code", "dep"}
  /\ Strays \subseteq {"file", "newdir", "commit"}
  /\ Edits \subseteq Tree /\ Quiet \in BOOLEAN

VARIABLES
  hyps,     \* hypotheses.json: the benchmark of each hypothesis
  scope,    \* scope.json
  wt,       \* the worktrees
  bin,      \* runs/<id>/baseline.test: the tree it was compiled from
  sha,      \* runs/<id>/baseline-tests.sha: the tests it is the hash of
  table,    \* runs/<id>/benchstat.txt: the command that wrote it; Nil if it is empty
  verdict,  \* runs/<id>/verdict.json
  lock,     \* who holds the bench lock
  proc      \* the commands

files == <<hyps, scope, wt, bin, sha, table, verdict>>
vars == <<files, lock, proc>>

HeadTree == [src |-> "head", tests |-> "head", stray |-> "none"]
Idle == [pc |-> "idle", id |-> Nil, validate |-> FALSE, hyp |-> Nil, mem |-> Nil]

Init ==
  /\ hyps \in [Ids -> FirstHyps]
  /\ scope \in Scopes
  /\ wt = [i \in Ids |-> Nil] /\ bin = [i \in Ids |-> Nil] /\ sha = [i \in Ids |-> Nil]
  /\ table = [i \in Ids |-> Nil]
  /\ verdict = [i \in Ids |-> Nil]
  /\ lock = Nil
  /\ proc = [p \in Procs |-> Idle]

Locked == {"gate", "tests", "candidate", "measure", "decide"}

At(p, pc) == proc[p].pc = pc
Id(p) == proc[p].id
Goto(p, pc) == proc' = [proc EXCEPT ![p].pc = pc]

\* Bug: the lock is not released.
Bug_Return(p) == proc' = [proc EXCEPT ![p] = Idle] /\ UNCHANGED lock

\* The command returns, with a result or an error; a deferred call frees the lock.
Return(p) ==
  /\ proc' = [proc EXCEPT ![p] = Idle]
  /\ lock' = IF lock = p THEN Nil ELSE lock

\* verdict.json of a command that measured, or gave up before: run is the
\* measurement that proves it (not in the file); writeVerdict copies the table
\* that it finds, which may be of an older run.
Record(p, status, run, measured) ==
  LET i == Id(p)
  IN verdict' = [verdict EXCEPT ![i] =
       [status |-> status, run |-> run,
        table |-> IF table[i] = Nil THEN "none"
                  ELSE IF measured /\ table[i] = p THEN "own" ELSE "old"]]

\* Bug: a status that the schema does not have.
Bug_Placeholder ==
  [status |-> "needs_benchmark", run |-> Nil, table |-> "none"]

\* What Baseline writes when it cannot go on.
Placeholder ==
  [status |-> "need_more_data", run |-> Nil, table |-> "none"]

NeedMoreData(i) == verdict' = [verdict EXCEPT ![i] = Placeholder]

\* The worktree may change: no command but those of own is using it.
Free(i, own) == Quiet => \A p \in Procs \ own : Id(p) # i \/ At(p, "critic")

-----------------------------------------------------------------------------
(* Baseline *)

\* `bench baseline` or `validate` loads the hypothesis.
Baseline(p, i) ==
  /\ At(p, "idle")
  /\ \E v \in BOOLEAN :
       proc' = [proc EXCEPT ![p] =
         [pc |-> "optin", id |-> i, validate |-> v, hyp |-> hyps[i], mem |-> Nil]]
  /\ UNCHANGED <<files, lock>>

needsDependencyOptIn(i) == i \in DepIds /\ scope = "code"

OptIn(p) ==
  /\ At(p, "optin")
  /\ IF needsDependencyOptIn(Id(p))
     THEN NeedMoreData(Id(p)) /\ Return(p)
     ELSE Goto(p, "tree") /\ UNCHANGED <<verdict, lock>>
  /\ UNCHANGED <<hyps, scope, wt, bin, sha, table>>

\* A worktree that is there is used as it is, whatever it contains.
Worktree(p) ==
  /\ At(p, "tree")
  /\ \/ /\ wt[Id(p)] # Nil
        /\ Goto(p, "bench") /\ UNCHANGED <<wt, lock>>
     \/ /\ wt[Id(p)] = Nil
        /\ wt' = [wt EXCEPT ![Id(p)] = HeadTree]
        /\ Goto(p, "bench") /\ UNCHANGED lock
     \/ wt[Id(p)] = Nil /\ Return(p) /\ UNCHANGED wt   \* git worktree add failed
  /\ UNCHANGED <<hyps, scope, bin, sha, table, verdict>>

detectBenchmarks(i) == IF wt[i] = Nil THEN {} ELSE BenchesOf[wt[i].tests]

AfterBaseline(p) ==
  IF proc[p].validate THEN Goto(p, "patch") /\ UNCHANGED lock ELSE Return(p)

\* The benchmark that the hypothesis names, or an only one if it names none.
Adoptable(name, benches) ==
  IF name # "" THEN {name} \cap benches
  ELSE IF Cardinality(benches) = 1 THEN benches ELSE {}

\* A benchmark that is named and needs no authoring is not looked for.
ResolveBenchmark(p) ==
  LET h == proc[p].hyp
      adopt == Adoptable(h.name, detectBenchmarks(Id(p)))
  IN /\ At(p, "bench")
     /\ \/ /\ ~h.needs /\ h.name # ""
           /\ Goto(p, "compile") /\ UNCHANGED <<verdict, lock>>
        \/ /\ h.needs \/ h.name = ""
           /\ \E b \in adopt :
                proc' = [proc EXCEPT ![p].pc = "load", ![p].hyp.name = b]
           /\ UNCHANGED <<verdict, lock>>
        \/ /\ h.needs \/ h.name = ""
           /\ adopt = {}
           /\ NeedMoreData(Id(p))
           /\ AfterBaseline(p)
     /\ UNCHANGED <<hyps, scope, wt, bin, sha, table>>

\* SetBenchmarkName reads all hypotheses, and writes all of them back.
LoadHypotheses(p) ==
  /\ At(p, "load")
  /\ proc' = [proc EXCEPT ![p].pc = "save", ![p].mem = hyps]
  /\ UNCHANGED <<files, lock>>

SetBenchmarkName(p) ==
  /\ At(p, "save")
  /\ hyps' = [proc[p].mem EXCEPT ![Id(p)] = [name |-> proc[p].hyp.name, needs |-> FALSE]]
  /\ Goto(p, "compile")
  /\ UNCHANGED <<scope, wt, bin, sha, table, verdict, lock>>

\* A compile error leaves the binary of an earlier baseline in place.
CompileBaseline(p) ==
  /\ At(p, "compile")
  /\ \/ /\ wt[Id(p)] # Nil
        /\ bin' = [bin EXCEPT ![Id(p)] = wt[Id(p)]]
        /\ Goto(p, "sha") /\ UNCHANGED lock
     \/ Return(p) /\ UNCHANGED bin
  /\ UNCHANGED <<hyps, scope, wt, sha, table, verdict>>

\* Bug: the names of the files are hashed, their contents are not.
Bug_testFilesHash(i) == "head"

testFilesHash(i) == IF wt[i] = Nil THEN "empty" ELSE wt[i].tests

SnapshotTests(p) ==
  /\ At(p, "sha")
  /\ sha' = [sha EXCEPT ![Id(p)] = testFilesHash(Id(p))]
  /\ AfterBaseline(p)
  /\ UNCHANGED <<hyps, scope, wt, bin, table, verdict>>

\* `validate` applies its patch, if it was given one and git can apply it.
ApplyPatch(p) ==
  /\ At(p, "patch")
  /\ \/ Goto(p, "exists") /\ UNCHANGED <<wt, lock>>
     \/ /\ wt[Id(p)] # Nil /\ Free(Id(p), {p})
        /\ \E t \in Edits : wt' = [wt EXCEPT ![Id(p)] = t]
        /\ Goto(p, "exists") /\ UNCHANGED lock
     \/ Return(p) /\ UNCHANGED wt
  /\ UNCHANGED <<hyps, scope, bin, sha, table, verdict>>

-----------------------------------------------------------------------------
(* Verdict *)

\* `bench verdict` begins.
Verdict(p, i) ==
  /\ At(p, "idle")
  /\ proc' = [proc EXCEPT ![p] = [Idle EXCEPT !.pc = "exists", !.id = i]]
  /\ UNCHANGED <<files, lock>>

\* It loads the hypothesis and looks for the worktree and the baseline binary.
CheckBaseline(p) ==
  /\ At(p, "exists")
  /\ IF wt[Id(p)] = Nil \/ bin[Id(p)] = Nil
     THEN Return(p)
     ELSE /\ proc' = [proc EXCEPT ![p].pc = "lock", ![p].hyp = hyps[Id(p)], ![p].mem = Nil]
          /\ UNCHANGED lock
  /\ UNCHANGED files

\* Bug: the lock is taken over from whoever holds it.
Bug_TakeLock(p) == At(p, "lock") /\ lock' = p /\ Goto(p, "gate") /\ UNCHANGED files

TakeLock(p) ==
  /\ At(p, "lock")
  /\ IF lock = Nil THEN lock' = p /\ Goto(p, "gate") ELSE Return(p)
  /\ UNCHANGED files

\* git status --porcelain lists a change in a file's own line only when it knows
\* the directory, and does not list what is committed.
Listed == {"file"}

\* Bug: only changes of tracked files are looked at.
Bug_OutOfScope(i) ==
  scope = "code" /\ wt[i] # Nil /\ i \in DepIds /\ wt[i].src # "head"

OutOfScope(i) ==
  /\ scope # "none" /\ wt[i] # Nil
  /\ wt[i].stray \in Listed \/ (scope = "code" /\ i \in DepIds /\ wt[i].src # "head")

ChangedRuler(i) == sha[i] # Nil /\ testFilesHash(i) # sha[i]

Reject(p) ==
  Record(p, "rejected", Nil, FALSE) /\ Return(p)

structuralGate(p) ==
  /\ At(p, "gate")
  /\ IF ChangedRuler(Id(p)) \/ OutOfScope(Id(p))
     THEN Reject(p)
     ELSE /\ proc' = [proc EXCEPT ![p].pc = "tests",
                                  ![p].mem = [scope |-> scope, base |-> Nil, cand |-> Nil]]
          /\ UNCHANGED <<verdict, lock>>
  /\ UNCHANGED <<hyps, scope, wt, bin, sha, table>>

\* Bug: the exit status of go test is ignored.
Bug_TestsPass(i) == wt[i] # Nil

TestsPass(i) == wt[i] # Nil /\ wt[i].src \notin Broken

\* Tests of a source that is not broken may still fail, by flaking.
RunTests(p) ==
  /\ At(p, "tests")
  /\ \/ Reject(p)
     \/ /\ TestsPass(Id(p))
        /\ Goto(p, "candidate") /\ UNCHANGED <<verdict, lock>>
  /\ UNCHANGED <<hyps, scope, wt, bin, sha, table>>

CompileCandidate(p) ==
  /\ At(p, "candidate")
  /\ \/ /\ wt[Id(p)] # Nil
        /\ proc' = [proc EXCEPT ![p].pc = "measure", ![p].mem.cand = wt[Id(p)]]
        /\ UNCHANGED lock
     \/ Return(p)
  /\ UNCHANGED files

\* interleaveBenchstat: an error of benchstat's first run, for the CSV, is returned;
\* one of its second run, for the table, leaves an empty file.
Measure(p) ==
  /\ At(p, "measure")
  /\ \/ /\ \E written \in {p, Nil} : table' = [table EXCEPT ![Id(p)] = written]
        /\ proc' = [proc EXCEPT ![p].pc = "decide", ![p].mem.base = bin[Id(p)]]
        /\ UNCHANGED lock
     \/ Return(p) /\ UNCHANGED table
  /\ UNCHANGED <<hyps, scope, wt, bin, sha, verdict>>

\* Both binaries ran the benchmark; a name that neither has measures nothing.
Ran(p) ==
  LET run == proc[p].mem
  IN /\ run.base # Nil
     /\ proc[p].hyp.name \in BenchesOf[run.base.tests] \cap BenchesOf[run.cand.tests]

\* VerdictRule is about the decision; here the numbers may say anything.
Decide(p) ==
  /\ At(p, "decide")
  /\ \/ Ran(p) /\ Record(p, "proved", proc[p].mem, TRUE)
     \/ Record(p, "rejected", Nil, TRUE)
     \/ UNCHANGED verdict   \* the hypothesis names an unknown metric
  /\ Return(p)
  /\ UNCHANGED <<hyps, scope, wt, bin, sha, table>>

-----------------------------------------------------------------------------
(* The critic, the user, the agent *)

CriticRead(p, i) ==
  /\ At(p, "idle") /\ verdict[i] # Nil
  /\ proc' = [proc EXCEPT ![p] = [Idle EXCEPT !.pc = "critic", !.id = i, !.mem = verdict[i]]]
  /\ UNCHANGED <<files, lock>>

\* Bug: the critic decides both ways.
Bug_ApplyCritic(v, reject) ==
  [v EXCEPT !.status = IF reject THEN "need_more_data" ELSE "proved"]

\* A rejection downgrades a proved verdict (run is then nobody's proof), and is a
\* note on any other; the note itself is left out.
ApplyCritic(v, reject) ==
  IF reject /\ v.status = "proved"
  THEN [v EXCEPT !.status = "need_more_data", !.run = Nil]
  ELSE v

CriticWrite(p) ==
  /\ At(p, "critic")
  /\ \E reject \in BOOLEAN :
       verdict' = [verdict EXCEPT ![Id(p)] = ApplyCritic(proc[p].mem, reject)]
  /\ Return(p)
  /\ UNCHANGED <<hyps, scope, wt, bin, sha, table>>

\* `clean` removes every worktree and leaves the runs.
Clean ==
  /\ \A i \in Ids : Free(i, {})
  /\ \E i \in Ids : wt[i] # Nil
  /\ wt' = [i \in Ids |-> Nil]
  /\ UNCHANGED <<hyps, scope, bin, sha, table, verdict, lock, proc>>

SetScope ==
  /\ \E s \in Scopes \ {scope} : scope' = s
  /\ UNCHANGED <<hyps, wt, bin, sha, table, verdict, lock, proc>>

\* The agent edits the worktree: the source, a benchmark, a test, another file.
Edit(i) ==
  /\ wt[i] # Nil /\ Free(i, {})
  /\ \E t \in Edits \ {wt[i]} : wt' = [wt EXCEPT ![i] = t]
  /\ UNCHANGED <<hyps, scope, bin, sha, table, verdict, lock, proc>>

\* A command is killed; its lock is stale and will be reclaimed.
Crash(p) ==
  /\ proc[p].pc \in Kills \ {"idle"}
  /\ Return(p)
  /\ UNCHANGED files

Step(p) ==
  \/ OptIn(p) \/ Worktree(p) \/ ResolveBenchmark(p) \/ LoadHypotheses(p)
  \/ SetBenchmarkName(p) \/ CompileBaseline(p) \/ SnapshotTests(p) \/ ApplyPatch(p)
  \/ CheckBaseline(p) \/ TakeLock(p) \/ structuralGate(p) \/ RunTests(p)
  \/ CompileCandidate(p) \/ Measure(p) \/ Decide(p) \/ CriticWrite(p)

Next ==
  \/ \E p \in Procs : Step(p) \/ Crash(p)
  \/ \E p \in Procs, i \in Ids : Baseline(p, i) \/ Verdict(p, i) \/ CriticRead(p, i)
  \/ \E i \in Ids : Edit(i)
  \/ Clean \/ SetScope

Spec == Init /\ [][Next]_vars

-----------------------------------------------------------------------------
(* Properties *)

Run == [scope : Scopes, base : Tree \cup {Nil}, cand : Tree \cup {Nil}]
VerdictFile ==
  [status : {"proved", "rejected", "need_more_data"}, run : Run \cup {Nil},
   table : {"none", "own", "old"}]

\* Type invariant of the files and of the lock.
TypeOK ==
  /\ hyps \in [Ids -> Hyp] /\ scope \in Scopes
  /\ wt \in [Ids -> Tree \cup {Nil}] /\ bin \in [Ids -> Tree \cup {Nil}]
  /\ sha \in [Ids -> Tests \cup {Nil, "empty"}]
  /\ table \in [Ids -> Procs \cup {Nil}]
  /\ verdict \in [Ids -> VerdictFile \cup {Nil}]
  /\ lock \in Procs \cup {Nil}

Status(i) == IF verdict[i] = Nil THEN "none" ELSE verdict[i].status
Measurement(i) == verdict[i].run

\* "cannot change the ruler" (structuralGate): a proved candidate was measured
\* with the tests and benchmarks that its baseline was measured with.
RulerFixed ==
  \A i \in Ids : Status(i) = "proved" /\ Measurement(i).base # Nil =>
    Measurement(i).base.tests = Measurement(i).cand.tests

\* "a faster-but-wrong change is a rejection" (Verdict): what was measured for a
\* proved verdict passed its tests.
ProvedPassesTests ==
  \A i \in Ids : Status(i) = "proved" => Measurement(i).cand.src \notin Broken

\* "must stay inside scope" (structuralGate): a proved candidate has no change
\* outside the scope that was set when the gate looked.
ScopeRespected ==
  \A i \in Ids : Status(i) = "proved" /\ Measurement(i).scope # "none" =>
    /\ Measurement(i).cand.stray = "none"
    /\ i \in DepIds /\ Measurement(i).scope = "code" => Measurement(i).cand.src = "head"

\* Every way out of Verdict frees the lock, and none frees another's.
LockMatchesCommand == \A p \in Procs : lock = p <=> proc[p].pc \in Locked

\* "the full benchstat table, baseline vs candidate" (verdict.schema.json): the
\* table shown with a proof, when benchstat gave one, is of the measurement that
\* proved it, because the lock is held from the measurement to the verdict.
ProofShowsItsTable ==
  \A i \in Ids : Status(i) = "proved" => verdict[i].table # "old"

\* A verdict becomes proved only by a decision about a measurement, or by a
\* critic that read a proof and writes it back, whatever replaced it meanwhile.
OnlyProofsPromote ==
  [][\A i \in Ids : Status(i) # "proved" /\ Status(i)' = "proved" =>
       \E p \in Procs : Id(p) = i /\
         \/ At(p, "decide")
         \/ At(p, "critic") /\ proc[p].mem.status = "proved"]_vars

\* "it can never promote a rejection" (CriticReview): only a measurement proves.
\* It fails: a critic that read a proof writes it back over a later rejection.
OnlyTheGateProves ==
  [][\A i \in Ids : Status(i) # "proved" /\ Status(i)' = "proved" =>
       \E p \in Procs : Id(p) = i /\ At(p, "decide")]_vars

\* A benchmark that was adopted for a hypothesis stays in hypotheses.json, "so a
\* bench baseline re-run after authoring proceeds" (SetBenchmarkName).
\* It fails: a baseline of another hypothesis writes back what it had read before.
AdoptionSticks ==
  [][\A i \in Ids : hyps[i].name # "" => hyps'[i].name = hyps[i].name]_vars
=============================================================================
