-------------------------- MODULE RegressionCheck ---------------------------
(***************************************************************************)
(* `bench regression` (Regression in src/internal/gate/gate.go): is a      *)
(* benchmark slower at the head ref than at the base ref?                  *)
(*                                                                         *)
(* A check with a label id builds the benchmark in the worktrees           *)
(* wt/<id>-base and wt/<id>-head, runs the two binaries runs/<id>/base.test *)
(* and head.test, and writes runs/<id>/regression.json.  It holds the      *)
(* bench lock from start to end.  Around it the refs move, `clean` removes *)
(* worktrees and the command may be killed.                                *)
(*                                                                         *)
(*   add -> compile (base) -> add -> compile (head) -> exists -> measure   *)
(*     -> write                                                            *)
(*                                                                         *)
(* What the numbers say is VerdictRule's.  Bug_X is a plausible bug of X.  *)
(***************************************************************************)
EXTENDS FiniteSets

CONSTANTS
  Ids,      \* the labels of checks (--id)
  Procs,    \* the commands
  Refs,     \* git refs
  Commits,
  BenchAt,  \* what the benchmark is at each commit: "absent", "runs", or
            \*   "fails" (it is there and produces no result)
  Nil

Sides == {"base", "head"}

ASSUME RegressionAssumption ==
  /\ BenchAt \in [Commits -> {"absent", "runs", "fails"}]
  /\ Nil \notin Commits \cup Procs

VARIABLES
  refs,    \* the commit of each ref
  wt,      \* the commit of each worktree
  bin,     \* the commit each binary was compiled from
  record,  \* regression.json: its status
  lock,    \* who holds the bench lock
  proc     \* the commands

vars == <<refs, wt, bin, record, lock, proc>>

Idle == [pc |-> "idle"]
None == [s \in Sides |-> Nil]

Init ==
  /\ refs \in [Refs -> Commits]
  /\ wt = [i \in Ids |-> None] /\ bin = [i \in Ids |-> None]
  /\ record = [i \in Ids |-> Nil]
  /\ lock = Nil
  /\ proc = [p \in Procs |-> Idle]

At(p, pc) == proc[p].pc = pc
Id(p) == proc[p].id
Side(p) == proc[p].side
Goto(p, pc) == proc' = [proc EXCEPT ![p].pc = pc] /\ UNCHANGED lock

Return(p) ==
  /\ proc' = [proc EXCEPT ![p] = Idle]
  /\ lock' = IF lock = p THEN Nil ELSE lock

\* Bug: the lock is taken over from whoever holds it.
Bug_TakeLock(p) == lock' = p

\* A check that finds the lock taken fails at once and changes nothing.
TakeLock(p) == lock = Nil /\ lock' = p

\* seen (not in the code): the commits each ref had while the check ran; reused
\* and built: the worktrees it found, the commits it compiled.
Regression(p, i, opts) ==
  /\ At(p, "idle") /\ TakeLock(p)
  /\ proc' = [proc EXCEPT ![p] =
       [pc |-> "add", id |-> i, side |-> "base", opts |-> opts, reused |-> {},
        seen |-> [s \in Sides |-> {refs[opts[s]]}], built |-> None,
        measured |-> None, status |-> Nil]]
  /\ UNCHANGED <<refs, wt, bin, record>>

\* Bug: both worktrees are created at the base ref.
Bug_RefCommit(p) == refs[proc[p].opts["base"]]

RefCommit(p) == refs[proc[p].opts[Side(p)]]

\* buildBenchAt uses a worktree that is there at whatever commit it is.
AddWorktree(p) ==
  /\ At(p, "add")
  /\ \/ /\ wt[Id(p)][Side(p)] # Nil
        /\ proc' = [proc EXCEPT ![p].pc = "compile", ![p].reused = @ \cup {Side(p)}]
        /\ UNCHANGED <<wt, lock>>
     \/ /\ wt[Id(p)][Side(p)] = Nil
        /\ wt' = [wt EXCEPT ![Id(p)][Side(p)] = RefCommit(p)]
        /\ Goto(p, "compile")
     \/ wt[Id(p)][Side(p)] = Nil /\ Return(p) /\ UNCHANGED wt   \* git failed
  /\ UNCHANGED <<refs, bin, record>>

\* The worktree may have been removed, or the package does not compile.
Compile(p) ==
  LET tree == wt[Id(p)][Side(p)]
  IN /\ At(p, "compile")
     /\ \/ /\ tree # Nil
           /\ bin' = [bin EXCEPT ![Id(p)][Side(p)] = tree]
           /\ proc' = [proc EXCEPT ![p].built[Side(p)] = tree, ![p].side = "head",
                         ![p].pc = IF Side(p) = "base" THEN "add" ELSE "exists"]
           /\ UNCHANGED lock
        \/ Return(p) /\ UNCHANGED bin
     /\ UNCHANGED <<refs, wt, record>>

\* The check has looked at the two binaries, and will write what it found.
Found(p, status) ==
  /\ proc' = [proc EXCEPT ![p].pc = "write", ![p].status = status,
                          ![p].measured = bin[Id(p)]]
  /\ UNCHANGED lock

\* Bug: the base binary is asked twice.
Bug_Lacking(built) == BenchAt[built["base"]] = "absent"

\* One of the two binaries does not have the benchmark.
Lacking(built) == \E s \in Sides : BenchAt[built[s]] = "absent"

CheckBenches(p) ==
  /\ At(p, "exists")
  /\ IF Lacking(bin[Id(p)])
     THEN Found(p, "inconclusive") ELSE Goto(p, "measure")
  /\ UNCHANGED <<refs, wt, bin, record>>

\* Bug: a status that the schema does not have.
Bug_Outcomes(p) == {"improvement", "regression", "clean"}

\* The errors of the runs are ignored: without a result on both sides there is
\* no row to compare, and so no regression.
Outcomes(p) ==
  IF /\ wt[Id(p)]["head"] # Nil
     /\ \A s \in Sides : BenchAt[bin[Id(p)][s]] = "runs"
  THEN {"regression", "clean"} ELSE {"clean"}

Measure(p) ==
  /\ At(p, "measure")
  /\ \/ \E status \in Outcomes(p) : Found(p, status)
     \/ Return(p)   \* benchstat failed
  /\ UNCHANGED <<refs, wt, bin, record>>

WriteRegression(p) ==
  /\ At(p, "write")
  /\ record' = [record EXCEPT ![Id(p)] = proc[p].status]
  /\ Return(p)
  /\ UNCHANGED <<refs, wt, bin>>

-----------------------------------------------------------------------------
(* The surroundings *)

\* A commit, a fetch or a checkout moves a ref.
MoveRef(r, c) ==
  /\ refs[r] # c
  /\ refs' = [refs EXCEPT ![r] = c]
  /\ proc' = [p \in Procs |->
       IF At(p, "idle") THEN proc[p]
       ELSE [proc[p] EXCEPT !.seen =
         [s \in Sides |-> IF proc[p].opts[s] = r THEN @[s] \cup {c} ELSE @[s]]]]
  /\ UNCHANGED <<wt, bin, record, lock>>

\* `clean` removes the worktrees, whoever uses them.
Clean ==
  /\ \E i \in Ids : wt[i] # None
  /\ wt' = [i \in Ids |-> None]
  /\ UNCHANGED <<refs, bin, record, lock, proc>>

\* A check is killed; the next one reclaims its lock.
Crash(p) ==
  /\ ~At(p, "idle")
  /\ Return(p)
  /\ UNCHANGED <<refs, wt, bin, record>>

Next ==
  \/ \E p \in Procs : AddWorktree(p) \/ Compile(p) \/ CheckBenches(p) \/ Measure(p)
                        \/ WriteRegression(p) \/ Crash(p)
  \/ \E p \in Procs, i \in Ids, opts \in [Sides -> Refs] : Regression(p, i, opts)
  \/ \E r \in Refs, c \in Commits : MoveRef(r, c)
  \/ Clean

Spec == Init /\ [][Next]_vars

-----------------------------------------------------------------------------
(* Properties *)

\* Type invariant of the files and of the lock.
TypeOK ==
  /\ refs \in [Refs -> Commits]
  /\ wt \in [Ids -> [Sides -> Commits \cup {Nil}]]
  /\ bin \in [Ids -> [Sides -> Commits \cup {Nil}]]
  /\ record \in [Ids -> {Nil, "regression", "clean", "inconclusive"}]
  /\ lock \in Procs \cup {Nil}

\* "serialize measurement" (Regression): the binaries that a check is about are
\* those it compiled, not what another check with its label put there.
MeasuresWhatItBuilt ==
  \A p \in Procs : At(p, "write") => proc[p].measured = proc[p].built

\* "both binaries must actually contain the benchmark, else we'd be comparing
\* nothing" (Regression): a decision is about two commits that contain it.
DecidesOnlyWithBenchmark ==
  \A p \in Procs : At(p, "write") /\ proc[p].status # "inconclusive" =>
    \A s \in Sides : BenchAt[proc[p].measured[s]] # "absent"

\* What the check measured is what its refs named while it ran.
MeasuredRefs(p) == \A s \in Sides : proc[p].measured[s] \in proc[p].seen[s]

\* "builds the benchmark in a worktree at each ref" (Regression), for a check that
\* had to create both worktrees.
FreshCheckMeasuresRefs ==
  \A p \in Procs : At(p, "write") /\ proc[p].reused = {} => MeasuredRefs(p)

\* "builds the benchmark in a worktree at each ref" (Regression), for every check.
CheckMeasuresRefs == \A p \in Procs : At(p, "write") => MeasuredRefs(p)
=============================================================================
