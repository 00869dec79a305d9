# A TLA+ model of go-perf-agent

go-perf-agent audits a Go module: it collects telemetry, ranks hot code, takes
hypotheses ("change this, it gets faster"), and decides each of them with a
benchmark gate. The Go binary does the deterministic work in short commands that
share nothing but files under `.go-perf-agent/`; agents and engineers edit code in
git worktrees between and during the commands. The hard part is therefore not any
single function but what the files mean when commands, edits, kills and a second
terminal come between each other. This directory models that part, checks it with
TLC and proves parts of it with TLAPS.

## 1. Inventory

| part | code | state it keeps | operations | what makes it correct |
|---|---|---|---|---|
| bench lock | `internal/gate/lock.go` | `bench.lock` (a pid) | acquire, probe, reclaim, release | one measurement at a time; a dead holder never blocks; always returns |
| benchstat reader, verdict rule | `internal/gate/benchstat.go`, `decideVerdict` and the end of `Regression` in `gate.go` | none | parse, count rows, decide, invert | reads its own metric's row; proved = a win above the floor without a loss beyond tolerance; gate and regression check agree |
| hypothesis gate | `internal/gate/gate.go`, `cmd/.../validate.go` | `wt/<id>`, `runs/<id>/{baseline.test, baseline-tests.sha, benchstat.txt, verdict.json}` | `bench baseline`, `bench verdict`, `validate`, `validate --all` | the ruler is fixed, tests pass, scope is respected, the lock is freed, the baseline is HEAD |
| store | `internal/model/model.go` | `hypotheses.json`, `verdict.json` | load, get, SetBenchmarkName, ApplyCritic, WriteJSON | no update is lost; a file is whole |
| critic, scope, clean | `cmd/.../{critic,scope,clean}.go` | the same files, `scope.json` | veto, set, remove | only downgrades; keeps scope.json; does not break a run |
| regression check | `Regression`, `buildBenchAt` in `gate.go`, `cmd/.../regression.go` | `wt/<id>-base`, `wt/<id>-head`, `regression.json` | `bench regression` | the refs it records are the ones it measured |
| report and status | `internal/report/*`, `cmd/.../{report,status}.go` | `report.md`, `patches/` | report, status | complete = a verdict for every hypothesis; a patch is what was measured |
| collection | `internal/collect/*`, `cmd/.../collect.go` | `profiles/`, `traces/`, `deployed_version` | search, fetch, retry, time out, pin | a transient failure is retried, a permanent one is not, a stuck gcx ends; partial results are kept and not called missing |
| ranking and scope matching | `internal/hotspot/*`, `internal/pprof` | `hotspots.json` | ParseFlat, Gather, Rank, InScope, ResolvePkg | percentages per metric, an order that does not depend on maps or files, exclude wins |
| diff targets | `internal/diff/*`, `cmd/.../{diff,scope}.go` | `diff.json`, `hotspots.json`, `scope.json` | parse, map hunks to functions, overlay, write three files | every edited function is a target; hot ones first; targets come with their scope; excludes survive |
| trace reader | `internal/trace`, `cmd/.../trace.go` | none | Summarize | self times add up |
| shell | `cmd/.../{main,check}.go`, `internal/helper` | none | flags, tool probes, exec | pure I/O |

How they interact: by files, by the bench lock, by the exit status of `go`, `git`
and `benchstat`, and by nothing else. No command locks `hypotheses.json`,
`verdict.json` or a worktree. The behaviours that are hard to test follow from
that: a command that is killed between two files, two commands that read and
rewrite one file, an edit between a check and its use, a file of an earlier run
that is taken for this run's. `PROJECT.json` lists each as a hazard at its line.

## 2. Modules

**`BenchLock`** (`lock.go`). One action is one system call on the lock file or one
`kill(pid, 0)`, since that is where processes interleave: `Create`/`CreateFails`
(open with O_EXCL), `WritePid`, `ReadHolder`, `ProbeHolder`, `RemoveStale`,
`Release`. `pc[p]` is where the process with pid `p` is; a pid whose process is gone
can be given to a new bench (`Start`) or to an unrelated program (`Foreign`).
`Crash` can come at any step. `Faults` switches on overlapping acquisitions, a pid
that is not written (the code ignores that error) and `clean --all`, which deletes
the lock. `orderly` is a ghost: true until the first of these three faults happens.
**`MeasurementMutex`** is what the comment in the code promises, up to that fault.

**`VerdictRule`** (`benchstat.go`, `decideVerdict`, `Regression`). A report is what
was measured; `Csv` renders it as benchstat does (external), and the translated
`parseBenchstat` (the first row of a section that only an empty line ends),
`decideVerdict` and `regressionStatus` read it back. The properties compare the
outcome with the report, never with the CSV.

**`HypothesisGate`** (the rest of `gate.go` up to the regression check, the store,
critic, scope, clean). Commands are processes with a program counter; each action
is a step that reads or writes one of the shared files. The contents of a worktree
are three values: the package's source, its `_test.go` files (which decide the
benchmarks it declares) and a change outside the scope. `baseline.test` is the tree
it was compiled from; `baseline-tests.sha` is the tests it hashes. `verdict.json`
has, besides its status and table, the measurement that proves it (`run`: a ghost the
properties need). A `benchstat.txt` is of the command that wrote it, or empty: the error
of benchstat's second run is ignored (`gate.go`, 341). What the numbers say is left open
(`VerdictRule`), the bench lock is a mutex (`BenchLock`). `validate --all` is a sequence
of baselines.

**`RegressionCheck`** (`Regression`, `buildBenchAt`). One action per worktree, per
compilation, for the two `benchExists` runs, for the measurement and for the write.
Refs are functions to commits and move at any time; `clean` removes worktrees
without looking at the lock; checks are killed. `seen`, `reused` and `built` are
ghosts: the commits a ref named while the check ran, the worktrees it did not
create, the commits it compiled. The decision itself is `VerdictRule`'s `Check`.

**`AuditStatus`** (`internal/report`, `report`, `status`). The loop as one engineer
drives it, a command at a time. `Stage` is `Complete`: which stage to run next, from
two counts and three existence tests. `Follow` runs that stage; `Detour` is anything
else, `MaxDetours` times: stages out of order, hypotheses rewritten, a critic's veto,
files torn by a kill, `clean`, and a `clean --all` that stops after any of the entries
it deletes in the order of their names. A torn `hypotheses.json` counts as an empty one;
a `report` that is killed has written its patches and no, some or all rows of `report.md`.

**`Collect`** (`internal/collect`, and `telemetryCoverage` of the report). A command
that asks gcx goes from `call` through attempts (`Answer`, `Fail`, `TimeOut`, with
`Wake` after a backoff) `back` to its caller, which is `NextType`, `SearchDone`,
`NextTrace` or `ExemplarsDone`; `collect profiles` ends with `Pin`. gcx itself writes the
profiles, so an attempt that is killed may have written one, or half of one
(`Interrupted`). A search result is a sequence of ids and durations; `Slowest` gives
every order that the unstable sort may leave. `Missing` is what the report calls
missing, computed from the files alone, as the code does. `got` and `tried` are ghosts:
what a command fetched, and which traces it asked for.

**`HotspotRanking`** (`ParseFlat`, `Rank`, `InScope`, `ResolvePkg`, `Gather`) and
**`ChangedFuncs`** (`FromGit`, `FromPR`, `funcsForRanges`, `Packages`) are the pure
functions behind the two commands that write `hotspots.json`. A symbol is a number
(its place in the alphabet) with an import path. Go maps have no order, so an operator
whose code sorts what came out of a map gives the set of all results it may have; the
code is right when that set has one element. A diff is an edit script, line by line;
`Hunks` and `Header` are what git prints of it, and `MustTarget` is the reference:
the functions that the script edits, as far as the mode can see them. `GoDiff` says
which scripts a diff of Go files may be: the lines a function had were in one piece and
began with its declaration, and a function that only loses lines, and not all of them,
loses one between two that it keeps (the line that closes it is the only one of its kind,
`}` without indentation). It leaves out files in which two functions have one symbol
(`init`), a kept line that changes from one function to another, and text of a raw string
that begins in column 0 inside a function: git puts such a line into a hunk's header, and
`FromPR` then names no function, or one that the text happens to spell.

**`Targets`** composes both: `hotspots`, `target-diff` and `scope` as commands that read,
then write one file after the other, and may be killed before or in the middle of each
write; `Change` is the engineer who edits, commits or collects, `CleanAll` is a
`clean --all` that stops anywhere among the files it deletes. Every file has the number of
the command that wrote it, which is how the properties tell a scope from an older one.

`Bug_X` next to a definition `X` is a plausible bug of it (no O_EXCL, an uncounted
attempt, the last row for the first, an ignored exit status, a missing release, a
lock that is taken over). `PROJECT.json` pairs each checked property with one that
breaks it.

How they compose: `HypothesisGate` and `RegressionCheck` take the lock as a mutex in one
step (`TakeLock`), for all of open, pid, probe and reclaim. `BenchLock` is shown to
implement that up to the first overlap of two acquisitions, lost pid or `clean --all`
(`MutexSpec`, `LockRefinement`), and `lock_overlap` shows that it does not beyond. What
the two modules say of concurrent commands is therefore said of commands whose
acquisitions do not overlap; that measurements exclude each other is a statement of
`BenchLock` alone, and neither of them claims it. Both leave open what the numbers say, which is
`VerdictRule`; `AuditStatus` takes a whole gate as one step that ends with a verdict;
`Targets` runs `ChangedFuncs` and `HotspotRanking` in its commands, on profiles as
`Collect` leaves them (a torn one is a profile that does not parse), and what it leaves
in `scope.json` is the scope of `HypothesisGate` (`"code"` or `"dep"`).

## 3. Runs

| run | question | instance | outcome |
|---|---|---|---|
| `lock_protocol` | exclusion, reclaim and refinement of the mutex up to the first fault; does acquiring always return, in two attempts at most, through all of them | 3 pids, all faults | holds |
| `lock_overlap` | exclusion when two start together | 2 pids | **violated** |
| `verdict_rule` | is a proved candidate a win; is the right row read, the reader warned; do the commands agree | 6 outcomes per metric, 2 subtests, rows of one file only | holds |
| `verdict_zero_base` | does a loss from zero cancel a win | 6 outcomes per metric | **violated** |
| `gate` | can a source that fails its tests, a change out of scope that git lists, or a changed ruler be proved; is the lock freed, a proof's table its own, a promotion a measurement's or a proof's copy | 2 commands and critics on 1 dependency hypothesis, edits, kills, changing scope | holds |
| `critic_promotes` | is it only a measurement that proves | 2 commands on 1 hypothesis | **violated** |
| `adoption_lost` | does an adopted benchmark stay in `hypotheses.json` | 2 baselines of 2 hypotheses | **violated** |
| `regression_check` | is a check about what it built, about commits that have the benchmark, about its refs if it made its worktrees | 2 commands, 1 label, 2 refs, 3 commits | holds |
| `regression_reuse` | is every check about its refs | the same | **violated** |
| `audit_hints` | do the hints lead to a complete loop from wherever detours led; is a complete loop complete | 3 hypotheses, 3 detours | holds |
| `collect` | are retries justified, do commands end, is the result of a partial fetch honest, are the slowest traces tried, are the reported gaps real, is the pinned version one that was fetched | 2 commands after each other, 1 service, 1 version, 2 traces | holds |
| `targets` | is every edited function a target, are hot ones first, is the ranking reproducible, do targets come with their scope, do excludes survive | every 8-line edit in every mode; histories of 3 commands with kills and cleans | holds |

Each violated run checks one sentence of the code's own comments; the finding in
`PROJECT.json` quotes it and says what the trace shows. In short:

* `lock_overlap`: one process has created the lock file and not yet written its pid; a
  second one reads an empty file, takes it for stale, unlinks it and creates its own.
* `verdict_zero_base`: allocations grow from 0, benchstat prints `?`, which is no growth.
* `critic_promotes`: two critics read a proof. One rejects it, and the verdict is
  `need_more_data`; the other one passes it and writes the whole file back, with `proved`.
  A `bench verdict` that rejects between the two steps of one critic is undone likewise.
  `OnlyProofsPromote` is what remains true: a critic writes `proved` only if it read it.
* `adoption_lost`: two baselines, of two hypotheses, both read `hypotheses.json` in
  `SetBenchmarkName`. The second one to write it writes the empty name of the other
  hypothesis back; its next baseline asks for a benchmark again, or adopts another.
* `regression_reuse`: a ref has moved since the first check of a label made its worktree.

Some properties hold in the instance that is run and not in others; the instances are
chosen by constants, and none of these is hidden by the model:

* `RulerFixed`, `ProvedPassesTests` and `ScopeRespected` need `Quiet`: a worktree is
  checked, tested and compiled in three steps (`gate.go`, 234), and an edit between them
  is not seen. With `Quiet = FALSE` each of them fails.
* `RulerFixed` needs that no command is killed between the binary of its baseline and the
  hash of its tests: with `"sha"` in `Kills` it fails, because there is then no hash, or an
  older one, and `Verdict` skips or misjudges the comparison (`gate.go`, 126).
* `ProofShowsItsTable` is about tables that benchstat gave; a proof may have an empty one.
  A rejection before the measurement carries the table of an earlier run.
* `ScopeRespected` holds for `Strays = {"file"}`. `git status --porcelain` shows an
  untracked directory as one line that does not end in `.go`, and does not show what
  is committed: with `"newdir"` or `"commit"` the property fails.
* `DecidesOnlyWithBenchmark` is about benchmarks that are absent. One that is there and
  fails (`"fails"`) gives no row on its side, and the check is `clean`.
* `MutualExclusion` also fails with `Faults = {"clean"}`: `clean --all` deletes a live lock.
* `CompleteWithoutLeftovers` needs its premise. `status.go` (74) compares the number of
  verdict files with the number of hypotheses: a verdict of a hypothesis that was
  rewritten away makes a loop complete in which another one has none
  (`CompleteMeansVerdicts`, the second part of the property, fails alone).
* `GapsAreReal` is one direction. The report also says that coverage is full when no
  exemplars were asked for, when the search found nothing and when a profile is torn.
* `HotFirst` compares functions that are profiled in the same metrics. In the overlay
  the last row of a symbol wins (`target.go`, 49), its smallest weight, so a function
  that is also a little hot in another metric may rank behind one that is only cpu hot.
  A share that `round4` makes 0 weighs as much as none. Methods of `main` packages and of
  generic types have another symbol in a profile than in a diff (`diff.go`, 247), so the
  overlay never matches them; they are left out.
* `RankReproducible` is about what decides the loop: symbol, metric, share and candidacy.
  The source of a row that two files have is that of the first one. The model adds
  integers; the code adds the same numbers as floats, exact below 2^53, above which the
  order of a map may show in the last digit.
* `EditedFunctionsTargeted` asks of each mode what it can see. A pull request's patch
  names the function ahead of each hunk (`diff.go`, 171): with three lines of context an
  edit in the first lines of a function is attributed to the one before it.
  `committed` looks up HEAD's line numbers in the working tree; a file that does not
  parse is dropped without a word.
* `TargetsInScope` is about includes. Every changed function is `in_scope` and a
  candidate (`diff.go`, 84), also in a package that `scope.json` excludes; `hotspots`
  would not make it one. `ResolvePkg` (`hotspot.go`, 122) gives no package to the
  module's root and to `main`: the ranking never makes a candidate of either.
  Only one direction is stated: an older `hotspots.json` may stay with the `scope.json` of
  a `target-diff` that was killed between the two, or that of `scope`, and nothing in the
  code notices. A `clean --all` that stops half way leaves the candidates without `diff.json`.
* `ExcludesSurvive` does not cover a `scope.json` that a kill has torn: `LoadScope` takes
  it for an absent one. Nor two commands at a time: a `scope` between the read and the
  write of a `target-diff` is lost.

### Bounds and why they are enough

* Pids: two processes make every race of the lock; the third lets one reclaim while
  another measures and a third arrives. Nothing is counted but the two attempts; the run
  has half a million states.
* `VerdictRule`: the six pairs of centers are the two sides of the floor, the two
  sides of the tolerance, no change, and a zero base. Percentages are whole.
  `MaxBenchmarks` is two: the parser distinguishes only the first row from the rest.
* `HypothesisGate` has no counters: sources, tests and strays are small sets of contents,
  `Edits` are the trees that an edit or a patch may leave (`SomeEdits`: HEAD's, a broken
  source, a better one with an authored benchmark, one with a file out of scope), and they
  go back and forth without bound. In `gate` the hypothesis is in a dependency, so that
  both rules about scope apply: `"code"` forbids its change, `"dep"` allows it and forbids
  strays. Hypotheses share only `hypotheses.json` and the lock, so one is enough for the
  gate; `adoption_lost` needs two. Two commands are enough for every read-modify-write
  race; they are alike, so TLC permutes them (no liveness is checked with it). `Quiet` says
  that nobody (agent, `clean`, another command's patch) changes a worktree while a command
  uses it; `Kills` are the steps at which a command may be killed (`AllButSha` in `gate`:
  all but the one above). The run has 1.5 million states. The violated runs have no edits
  and no kills: their races need neither.
* `RegressionCheck`: one label, since different labels share nothing but the lock; a
  commit of each kind (the benchmark runs, is absent, fails), and two refs that move
  between them without bound. Symmetry only permutes the commands.
* `AuditStatus`: three hypotheses let counts agree for different sets in more than one
  way; three detours are enough for a rewrite, a kill and a partial clean in one
  history. Nothing else is bounded.
* `Collect`: `MaxCommands` is two, one to leave files and one to find them, in one slot,
  since a second collection at the same time shares no state of the first but the files
  (the theorems of `CollectProofs` are for any number of both, but for `HonestResults`). `Dumps` is 0 to 2 and a search
  finds up to two traces, slower, faster, as slow, or without an id. Three attempts are
  the code's own constant.
* `Targets`: two functions with a line between them, three lines each, make every way
  a hunk meets a function: first line, last line, both, neither, and all of it deleted
  or added; a line may also be in neither version, which makes a function one line
  shorter and lets neighbours touch. `Context` is one line. `CommandsIn` lets an edit be looked at once (it is a
  pure function), a set of profiles twice, and the two worlds of `Later` have histories
  of three: `scope`, `target-diff` and what reads them. `Tops` is all or one.

### Fairness

`BenchLock` assumes weak fairness of each process's own system calls: a running process
is scheduled. Nothing is assumed about crashes, new commands or the end of a measurement.
`HypothesisGate` and `RegressionCheck` assume nothing, and state no liveness: their
commands wait for nobody (`TakeLock` returns at once), and that a command's own steps come
to an end is a matter of their control flow.
`AuditStatus` assumes that the engineer goes on doing what `status` asks for, that a
ranking asked for by status finds a candidate, and that a `report` that is not killed
ends; its property is that this, and no other knowledge, is enough.
`Collect` assumes weak fairness of the engine's own next step, the deadline of an attempt
included; that gcx ever answers is not assumed. It is assumed that the killed gcx leaves
no child that keeps its output open: `Cmd.Wait` would wait for it. `Targets` assumes
nothing, and states no liveness.

## 4. Proofs

`BenchLockProofs`, for any set of pids:

* `TypeCorrect`: the type invariant, for every kind of fault.
* `OrderlyCorrect`: `OrderlyInv` is invariant, for every kind of fault, with crashes
  anywhere and pids used again. It says what holds while `orderly` does, that is, up to the
  first overlap of two acquisitions, lost pid or deletion of the lock; no assumption is
  made about `Faults`. Mutual exclusion alone is not inductive: a step to "measuring" is
  safe because the file was created by that process and still is (`CreatorWrites`), a
  removal because whoever is about to remove looked at the pid of the measuring process, if
  there is one (`ProbesMeasurer`, `RemovesOnlyStale`), and the second attempt succeeds
  because nobody could recreate the file (`SecondAttemptFindsNone`). TLC checks
  `OrderlyInv` in `lock_protocol`.
* `OrderlyMutualExclusion`, `OrderlyReclaim`, `OrderlyLockNames` follow from it;
  `LockRefinement` maps each step to a `Take`, a `Drop`, the `Fault` or a stutter of
  `MeasurementMutex`.

The restriction is not idle: `lock_overlap` is the counterexample beyond it.

`VerdictRuleProofs`, for any reports, floor and tolerance:

* `NoContradiction`: what `bench verdict` proves, `bench regression` with the same
  tolerance does not call a regression. The invariant `Answers` ties each stored answer
  to the decision on the (unchanging) report.
* `StricterKeepsLess`: the decision is monotone in its two flags.
* `ReadsItsMetric`: what `parseBenchstat` reads for a metric is the first comparable row of
  that metric's own section, for any number of benchmarks. The CSV is cut into its parts
  (`Sections`, `Joins`), and in each part the lines that the parser may stop at are found
  as least elements of sets of line numbers (`Least`); no recursion is involved. The arms
  of `CellOf` exclude each other, so that the proof need not know an order of them.
* `ProvedMeansWin`: the decision on what is read is about the report, whose zero base is
  the premise that `verdict_zero_base` shows to be needed.
* `WarningsCorrect`: the row counter of the parser counts the comparable rows.

`HypothesisGateProofs`, for any hypotheses, commands, contents, kills and edits:

* `TypeCorrect`: the type invariant; `TypeInv` adds what each command holds at its step.
* `LockCorrect`: the bench lock is held by exactly the command that is between taking it
  and its end (`LockInv` adds that every command has a program counter).
* `TableCorrect`: the table in a proved verdict is of the measurement that proved it, or
  absent. `TableInv` adds what a critic has read and is about to write back, and that the
  table is its own, or empty, for a command that decides; a table of another command in
  between is ruled out by `LockInv`, hence by the lock being a mutex.
* `PromotionsAreProofs`: a verdict becomes proved only by a decision about a measurement of
  its hypothesis, or by a critic that read a proof. It is an action property, for any
  number of concurrent commands and critics; that the second case is real, and may undo a
  rejection, is what `critic_promotes` shows.

`GateVerdictProofs`, for the same, when `Quiet` holds (the definition `Undisturbed`):

* `ProofPassed`: what a proved verdict measured passed its tests.
* `ProofInScope`: it is inside the scope that its gate read, if git lists every stray
  change (`Strays \subseteq Listed`).
* `ProofKeepsRuler`: it was compared with a baseline that has the same tests, if no
  baseline is killed between its binary and its hash (`"sha" \notin Kills`).

  One invariant, `GateInv`, gives all three. Each command relies on its worktree from a
  certain step on (`Stands`): after the structural gate the tree is in scope and its tests
  are the binary's, after the tests its source is not broken, after the compilation the
  candidate is that tree. What is hard is the other commands: a second baseline of the
  same hypothesis may replace the binary under a running verdict, and is harmless only
  because it compiles the same worktree (`StandsKept`). The hash is of the binary's tests
  or there is a command about to write it (`HashMatches`); this is what a kill breaks.
  The critic's copy of a verdict is part of the invariant too, since it may be written
  back after anything.

`RegressionCheckProofs`, for any labels, commands, refs and commits, with refs that move,
kills and `clean` at any time:

* `MeasuresOwn`, `DecidesOnBoth` and `FreshMeasuresRefs` from `CheckInv`: only the holder of
  the lock is on its way, the binaries in its directory are the ones it compiled, and
  each is of a commit that its ref had while it ran, unless the worktree was there before.
* `TypeCorrect`: the type invariant.

`CollectProofs`, for any number of commands, services, versions and results:

* `RetriesCorrect`: no attempt after a success, a permanent failure or the third one.
* `PinsCorrect`: an action property from `PinInv` (what is remembered was fetched).
* `TypeCorrect`: the type invariant, with what a command has at each step.
* `GapsCorrect`: nothing that a finished command has fetched is reported missing, for any
  number of concurrent commands.
* `SlowestCorrect`: for any search result and any order that the unstable sort leaves, a
  trace that was not asked for has as many slower ones as were wanted.
* `HonestResults`, when commands come one at a time (its hypothesis: a second collection of
  the service, killed while gcx writes, tears the first one's files). `FileInv(G)` says that
  the profiles a command fetched, in this attempt or before, are in `G`: whole ones under
  the hypothesis, and otherwise just not absent, which is what `GapsCorrect` needs. One
  proof serves both.

`TargetsProofs`, for any module, diffs, profiles and number of commands:

* `ExcludesKept`: the job of a `target-diff` has the excludes that are configured.
* `TargetsStayInScope`: from `ScopeInv`: the numbers of the files never exceed the number of
  commands, a job has the latest, and when it reaches a file the earlier ones have it.
* `EditsAreTargets`, for any scripts that satisfy `GoDiff` and any `Context` of at least a
  line. A hunk's range is computed from how many lines of the new file are before and in
  it (`RangeOfHunk`, `CountParts`), so a range reaches from before one place of the script
  to after another. An added line is in its own hunk; a deleted one is in a hunk between
  two lines that the function keeps, also if that hunk is attributed to the line above it
  (`GitFindsEdited`). In a patch, the last declaration ahead of a hunk that begins inside
  a function is that function's (`PRFindsBegun`). `EditedInv` carries what was found
  through the writes.
* `HotRanksFirst`: the overlay is in the order of the shares, with each symbol and metric
  once (`Overlaid`), hence the weight of a function is the least of its shares
  (`WeightIsLeast`), and the candidates are in the order of those weights.
* `RankingIsReproducible`, for any finite set of profiles in any order of their files. What
  `sort.Slice` may give is known from its comparison only (`SortingsRanked`); two
  sortings of corresponding sets correspond at each place if no two elements are
  unordered (`SortedAlike`). That is why each read of a profile gives the same weights
  (`ParseIsUnique`), and why two rankings have the same rows (`RankMoved`): sums do not
  depend on the order (`SumMoves`), so rows of the same files in another order
  differ only in their source.

  The sums and the sortings are recursive. The library's induction theorems cannot be used
  here (an operator is a parameter of theirs), but its well-founded minimum can: `Least`
  gives each set of numbers a least element, `Induct` is induction over a set, and with it
  the recursive functions exist (`SumsExist`, `SortingsGrow`).

`AuditStatusProofs`, for any finite set of hypotheses and any number of detours:

* `TypeCorrect`: the type invariant.
* `PatchesFirst`: an action property from `PatchInv` (while a report is rendered, the patch
  of every proof with a worktree is there).
* `CompleteIsComplete`: as long as every verdict is of a listed hypothesis, comparing two
  numbers is as good as comparing the sets (`SubsetAsLarge`, with `ListedIds` for the
  finiteness). What the assumption stands for is under "Runs".

Only model-checked: liveness (`AcquireReturns`, `HintsLeadToComplete`, `CollectEnds`),
because fairness is out of the prover's reach. Every other property of a passing run is a
theorem, under the hypotheses named with it. `TakeLock` being one step, no theorem about `HypothesisGate` or
`RegressionCheck` says that the lock excludes anybody; those that rest on it
(`LockCorrect`, `TableCorrect`, `MeasuresOwn`) say what the holder relies on.

## 5. Not modelled

* The trace reader: a pure summary of one JSON document for display. No command reads it.
* The layout of `report.md` and the content of patches. That the patch in the report is the
  worktree's diff at the time of the report, and not of what was measured
  (`report.go`, 132), and that `status` does not notice a report older than the verdicts
  (`status.go`, 78), follow from the code without any interleaving; `AuditStatus` keeps which
  rows and patches there are.
* `check`, flags, usage texts, `internal/helper`: I/O without a decision that the loop
  depends on. The deadline of `RunCtx` is part of `Collect`.
* The spelling of names: how a symbol is split into package, receiver and function, how
  ids are made safe for file names, globbing. Symbols and ids are values here.
* Errors of writing a file, other than by a kill.
* The end-to-end harness and its fixtures, vendored code, the pattern catalog, the prompts.
