------------------------ MODULE RegressionCheckProofs ------------------------
(***************************************************************************)
(* Proofs about RegressionCheck, for any labels, commands, refs and        *)
(* commits, with refs that move, `clean` and kills at any time.            *)
(***************************************************************************)
EXTENDS RegressionCheck, TLAPS

Trees == [Sides -> Commits \cup {Nil}]

\* A check that is on its way.
Checks ==
  [pc : {"add", "compile", "exists", "measure", "write"}, id : Ids, side : Sides,
   opts : [Sides -> Refs], reused : SUBSET Sides, seen : [Sides -> SUBSET Commits],
   built : Trees, measured : Trees, status : {Nil, "regression", "clean", "inconclusive"}]

\* What the check c compiled for side s is of its ref, unless it found the worktree.
Fresh(c, s) == s \in c.reused \/ c.built[s] \in c.seen[s]

\* The binary of side s among b is the one that c compiled.
Has(c, s, b) == c.built[s] = b[c.id][s] /\ Fresh(c, s)

\* What c relies on is there, with refs r, worktrees w and binaries b.
Sound(c, r, w, b) ==
  /\ \A s \in Sides : r[c.opts[s]] \in c.seen[s]
  /\ c.pc \in {"add", "compile"} /\ c.side = "head" => Has(c, "base", b)
  /\ c.pc = "compile" =>
       c.side \in c.reused \/ w[c.id][c.side] \in c.seen[c.side] \cup {Nil}
  /\ c.pc \in {"exists", "measure"} => \A s \in Sides : Has(c, s, b)
  /\ c.pc = "measure" => ~Lacking(b[c.id])
  /\ c.pc = "write" =>
       /\ c.measured = c.built /\ \A s \in Sides : Fresh(c, s)
       /\ c.status # "inconclusive" => ~Lacking(c.measured)

\* Only the holder of the lock is on its way, and everything it relies on is there.
CheckInv ==
  /\ refs \in [Refs -> Commits] /\ wt \in [Ids -> Trees] /\ bin \in [Ids -> Trees]
  /\ proc \in [Procs -> Checks \cup {Idle}]
  /\ \A p \in Procs : ~At(p, "idle") => proc[p] \in Checks /\ lock = p /\ Sound(proc[p], refs, wt, bin)

-----------------------------------------------------------------------------
(* Steps of a check *)

\* Only p moves; refs, worktrees and binaries change as they may.
LEMMA MoveKeeps ==
  ASSUME CheckInv, NEW p \in Procs, ~At(p, "idle"), NEW c \in Checks,
         proc' = [proc EXCEPT ![p] = c], lock' = lock, refs' = refs,
         wt' \in [Ids -> Trees], bin' \in [Ids -> Trees], Sound(c, refs', wt', bin')
  PROVE  CheckInv'
<1>1. lock = p
  BY DEF CheckInv
<1>2. proc'[p] = c /\ \A q \in Procs \ {p} : proc'[q] = proc[q] /\ At(q, "idle")
  BY <1>1 DEF CheckInv
<1>3. proc' \in [Procs -> Checks \cup {Idle}] /\ refs' \in [Refs -> Commits]
  BY DEF CheckInv
<1>4. Sound(proc'[p], refs', wt', bin')
  BY <1>2 DEF Sound, Has, Fresh
<1> QED
  BY <1>1, <1>2, <1>3, <1>4 DEF CheckInv, At

LEMMA ReturnKeeps ==
  ASSUME CheckInv, NEW p \in Procs, Return(p), UNCHANGED <<refs, wt, bin>>
  PROVE  CheckInv'
<1>1. \A q \in Procs \ {p} : proc'[q] = proc[q]
  BY DEF Return, CheckInv
<1>2. proc'[p] = Idle /\ proc' \in [Procs -> Checks \cup {Idle}]
  BY DEF Return, CheckInv
<1>3. \A q \in Procs \ {p} : ~At(q, "idle") => lock = q /\ lock' = lock
  BY DEF Return, CheckInv
<1>4. \A q \in Procs : Sound(proc[q], refs, wt, bin) /\ proc'[q] = proc[q] => Sound(proc'[q], refs', wt', bin')
  BY DEF Sound, Has, Fresh
<1> QED
  BY <1>1, <1>2, <1>3, <1>4 DEF CheckInv, At, Idle

\* A check that is on its way is typed, sound and holds the lock.
LEMMA OnItsWay ==
  ASSUME CheckInv, NEW p \in Procs, NEW at \in {"add", "compile", "exists", "measure", "write"},
         At(p, at)
  PROVE  /\ ~At(p, "idle") /\ proc[p] \in Checks /\ lock = p /\ Sound(proc[p], refs, wt, bin)
         /\ proc[p].pc = at
BY DEF CheckInv, At

LEMMA RegressionKeeps ==
  ASSUME CheckInv, NEW p \in Procs, NEW i \in Ids, NEW opts \in [Sides -> Refs],
         Regression(p, i, opts)
  PROVE  CheckInv'
<1> DEFINE c == [pc |-> "add", id |-> i, side |-> "base", opts |-> opts, reused |-> {},
        seen |-> [s \in Sides |-> {refs[opts[s]]}], built |-> None,
        measured |-> None, status |-> Nil]
<1>1. c \in Checks
  BY DEF Checks, Trees, None, Sides, CheckInv
<1>2. proc' = [proc EXCEPT ![p] = c] /\ lock = Nil /\ lock' = p
  BY DEF Regression, TakeLock
<1>3. c.pc = "add" /\ c.side = "base" /\ \A s \in Sides : refs[c.opts[s]] \in c.seen[s]
  OBVIOUS
<1>4. \A q \in Procs : At(q, "idle")
  BY <1>2, RegressionAssumption DEF CheckInv
<1> HIDE DEF c
<1>5. UNCHANGED <<refs, wt, bin>>
  BY DEF Regression
<1>6. \A q \in Procs \ {p} : At(q, "idle")'
  BY <1>2, <1>4 DEF At, CheckInv
<1>7. proc'[p] = c
  BY <1>2 DEF CheckInv
<1>8. Sound(proc'[p], refs', wt', bin')
  BY <1>3, <1>5, <1>7 DEF Sound
<1>9. proc' \in [Procs -> Checks \cup {Idle}]
  BY <1>1, <1>2 DEF CheckInv
<1> QED
  BY <1>1, <1>2, <1>5, <1>6, <1>7, <1>8, <1>9 DEF CheckInv

LEMMA AddWorktreeKeeps ==
  ASSUME CheckInv, NEW p \in Procs, AddWorktree(p)
  PROVE  CheckInv'
<1> DEFINE i == Id(p)  s == Side(p)
<1>1. At(p, "add") /\ refs' = refs /\ bin' = bin
  BY DEF AddWorktree
<1>2. ~At(p, "idle") /\ proc[p] \in Checks /\ Sound(proc[p], refs, wt, bin) /\ proc[p].pc = "add"
  BY <1>1, OnItsWay
<1>3. i \in Ids /\ s \in Sides /\ bin' \in [Ids -> Trees]
  BY <1>1, <1>2 DEF Checks, Id, Side, CheckInv
<1>4. CASE /\ wt[i][s] # Nil /\ wt' = wt /\ lock' = lock
           /\ proc' = [proc EXCEPT ![p].pc = "compile", ![p].reused = @ \cup {s}]
  <2> DEFINE c == [proc[p] EXCEPT !.pc = "compile", !.reused = @ \cup {s}]
  <2>1. c \in Checks /\ c.pc = "compile" /\ c.reused = proc[p].reused \cup {s}
    BY <1>2, <1>3 DEF Checks
  <2>2. /\ c.id = i /\ c.side = s /\ c.opts = proc[p].opts /\ c.seen = proc[p].seen
        /\ c.built = proc[p].built
    BY <1>2 DEF Checks, Id, Side
  <2>3. proc' = [proc EXCEPT ![p] = c]
    BY <1>4 DEF CheckInv
  <2> HIDE DEF c
  <2>4. Sound(c, refs', wt', bin')
    BY <1>1, <1>2, <1>4, <2>1, <2>2 DEF Sound, Has, Fresh, Id, Side
  <2> QED
    BY <1>1, <1>2, <1>3, <1>4, <2>1, <2>3, <2>4, MoveKeeps DEF CheckInv
<1>5. CASE /\ wt' = [wt EXCEPT ![i][s] = RefCommit(p)] /\ Goto(p, "compile")
  <2> DEFINE c == [proc[p] EXCEPT !.pc = "compile"]
  <2>1. c \in Checks /\ c.pc = "compile" /\ c.reused = proc[p].reused
    BY <1>2 DEF Checks
  <2>2. /\ c.id = i /\ c.side = s /\ c.opts = proc[p].opts /\ c.seen = proc[p].seen
        /\ c.built = proc[p].built
    BY <1>2 DEF Checks, Id, Side
  <2>3. proc' = [proc EXCEPT ![p] = c] /\ lock' = lock
    BY <1>5 DEF CheckInv, Goto
  <2> HIDE DEF c
  <2>4. RefCommit(p) = refs[c.opts[s]] /\ RefCommit(p) \in c.seen[s] /\ RefCommit(p) \in Commits
    BY <1>2, <1>3, <2>2 DEF RefCommit, Sound, Side, Checks, CheckInv
  <2>5. wt[i] \in Trees
    BY <1>3 DEF CheckInv
  <2>6. wt' \in [Ids -> Trees] /\ wt'[i][s] = RefCommit(p)
    BY <1>3, <1>5, <2>4, <2>5 DEF CheckInv, Trees
  <2>7. Sound(c, refs', wt', bin')
    BY <1>1, <1>2, <2>1, <2>2, <2>4, <2>6 DEF Sound, Has, Fresh, Id, Side
  <2> QED
    BY <1>1, <1>2, <1>3, <2>1, <2>3, <2>6, <2>7, MoveKeeps
<1>6. CASE Return(p) /\ wt' = wt
  BY <1>1, <1>6, ReturnKeeps
<1> QED
  BY <1>4, <1>5, <1>6 DEF AddWorktree

LEMMA CompileKeeps ==
  ASSUME CheckInv, NEW p \in Procs, Compile(p)
  PROVE  CheckInv'
<1> DEFINE i == Id(p)  s == Side(p)  tree == wt[i][s]
<1>1. At(p, "compile") /\ refs' = refs /\ wt' = wt
  BY DEF Compile
<1>2. ~At(p, "idle") /\ proc[p] \in Checks /\ Sound(proc[p], refs, wt, bin) /\ proc[p].pc = "compile"
  BY <1>1, OnItsWay
<1>3. i \in Ids /\ s \in Sides /\ wt' \in [Ids -> Trees]
  BY <1>1, <1>2 DEF Checks, Id, Side, CheckInv
<1>4. CASE /\ tree # Nil /\ bin' = [bin EXCEPT ![i][s] = tree] /\ lock' = lock
           /\ proc' = [proc EXCEPT ![p].built[s] = tree, ![p].side = "head",
                         ![p].pc = IF s = "base" THEN "add" ELSE "exists"]
  <2> DEFINE at == IF s = "base" THEN "add" ELSE "exists"
             c == [proc[p] EXCEPT !.built[s] = tree, !.side = "head", !.pc = at]
  <2>1. tree \in Commits /\ bin[i] \in Trees
    BY <1>3, <1>4 DEF CheckInv, Trees
  <2>2. proc[p].built \in Trees
    BY <1>2 DEF Checks
  <2>3. /\ c.pc = at /\ c.side = "head" /\ c.built = [proc[p].built EXCEPT ![s] = tree]
        /\ c.id = i /\ c.reused = proc[p].reused
        /\ c.opts = proc[p].opts /\ c.seen = proc[p].seen
    BY <1>2 DEF Checks, Id, Side
  <2>4. c.built \in Trees /\ c.built[s] = tree /\ \A t \in Sides \ {s} : c.built[t] = proc[p].built[t]
    BY <1>3, <2>1, <2>2, <2>3 DEF Trees
  <2>5. c \in Checks
    BY <1>2, <2>2, <2>1 DEF Checks, Trees, Sides
  <2>6. proc' = [proc EXCEPT ![p] = c]
    BY <1>4 DEF CheckInv
  <2>7. bin' \in [Ids -> Trees] /\ bin'[i][s] = tree /\ \A t \in Sides \ {s} : bin'[i][t] = bin[i][t]
    BY <1>3, <1>4, <2>1 DEF CheckInv, Trees
  <2> HIDE DEF c
  <2>8. s \in proc[p].reused \/ tree \in proc[p].seen[s]
    BY <1>2, <2>1, RegressionAssumption DEF Sound, Id, Side
  <2>9. Has(c, s, bin')
    BY <2>3, <2>4, <2>7, <2>8 DEF Has, Fresh
  <2>10. s = "head" => Has(c, "base", bin')
    BY <1>2, <2>3, <2>4, <2>7 DEF Has, Fresh, Sound, Sides, Id, Side
  <2>11. Sound(c, refs', wt', bin')
    BY <1>1, <1>2, <1>3, <2>3, <2>9, <2>10 DEF Sound, Sides
  <2> QED
    BY <1>1, <1>2, <1>3, <1>4, <2>5, <2>6, <2>7, <2>11, MoveKeeps
<1>5. CASE Return(p) /\ bin' = bin
  BY <1>1, <1>5, ReturnKeeps
<1> QED
  BY <1>4, <1>5 DEF Compile

\* The check has looked at binaries that are its own, and decides only if they
\* have the benchmark.
LEMMA FoundKeeps ==
  ASSUME CheckInv, NEW p \in Procs, proc[p].pc \in {"exists", "measure"},
         NEW status \in {"regression", "clean", "inconclusive"}, Found(p, status),
         status # "inconclusive" => ~Lacking(bin[Id(p)]), UNCHANGED <<refs, wt, bin>>
  PROVE  CheckInv'
<1> DEFINE i == Id(p)
           c == [proc[p] EXCEPT !.pc = "write", !.status = status, !.measured = bin[i]]
<1>1. ~At(p, "idle") /\ proc[p] \in Checks /\ Sound(proc[p], refs, wt, bin)
  BY DEF CheckInv, At
<1>2. i \in Ids /\ bin[i] \in Trees /\ proc[p].built \in Trees
  BY <1>1 DEF Checks, Id, CheckInv
<1>3. /\ c.pc = "write" /\ c.measured = bin[i] /\ c.status = status
      /\ c.id = i /\ c.opts = proc[p].opts /\ c.seen = proc[p].seen
      /\ c.built = proc[p].built /\ c.reused = proc[p].reused
  BY <1>1 DEF Checks, Id
<1>4. c \in Checks
  BY <1>1, <1>2 DEF Checks
<1>5. proc' = [proc EXCEPT ![p] = c] /\ lock' = lock
  BY DEF CheckInv, Found
<1> HIDE DEF c
<1>6. \A s \in Sides : proc[p].built[s] = bin[i][s] /\ Fresh(c, s)
  BY <1>1, <1>3 DEF Sound, Has, Fresh, Id
<1>7. c.measured = c.built
  BY <1>2, <1>3, <1>6 DEF Trees
<1>8. Sound(c, refs', wt', bin')
  BY <1>1, <1>3, <1>6, <1>7 DEF Sound
<1> QED
  BY <1>1, <1>4, <1>5, <1>8, MoveKeeps DEF CheckInv

LEMMA CheckBenchesKeeps ==
  ASSUME CheckInv, NEW p \in Procs, CheckBenches(p)
  PROVE  CheckInv'
<1> DEFINE c == [proc[p] EXCEPT !.pc = "measure"]
<1>1. proc[p].pc = "exists" /\ UNCHANGED <<refs, wt, bin>>
  BY DEF CheckBenches, At
<1>2. ~At(p, "idle") /\ proc[p] \in Checks /\ Sound(proc[p], refs, wt, bin)
  BY <1>1, OnItsWay DEF At
<1>3. CASE Found(p, "inconclusive")
  BY <1>1, <1>3, FoundKeeps
<1>4. CASE ~Lacking(bin[Id(p)]) /\ Goto(p, "measure")
  <2>1. /\ c \in Checks /\ c.pc = "measure" /\ c.id = Id(p) /\ c.opts = proc[p].opts
        /\ c.seen = proc[p].seen /\ c.built = proc[p].built /\ c.reused = proc[p].reused
    BY <1>2 DEF Checks, Id
  <2>2. proc' = [proc EXCEPT ![p] = c] /\ lock' = lock
    BY <1>4 DEF CheckInv, Goto
  <2> HIDE DEF c
  <2>3. Sound(c, refs', wt', bin')
    BY <1>1, <1>2, <1>4, <2>1 DEF Sound, Has, Fresh, Id
  <2> QED
    BY <1>1, <1>2, <2>1, <2>2, <2>3, MoveKeeps DEF CheckInv
<1> QED
  BY <1>3, <1>4 DEF CheckBenches

LEMMA MeasureKeeps ==
  ASSUME CheckInv, NEW p \in Procs, Measure(p)
  PROVE  CheckInv'
<1>1. proc[p].pc = "measure" /\ UNCHANGED <<refs, wt, bin>>
  BY DEF Measure, At
<1>2. ~Lacking(bin[Id(p)])
  BY <1>1, OnItsWay DEF At, Sound, Id
<1>3. ASSUME NEW status \in Outcomes(p), Found(p, status) PROVE CheckInv'
  BY <1>1, <1>2, <1>3, FoundKeeps DEF Outcomes
<1> QED
  BY <1>1, <1>3, ReturnKeeps DEF Measure

-----------------------------------------------------------------------------
(* Steps of the surroundings *)

LEMMA MoveRefKeeps ==
  ASSUME CheckInv, NEW r \in Refs, NEW k \in Commits, MoveRef(r, k)
  PROVE  CheckInv'
<1> DEFINE Seen(q) == [s \in Sides |->
             IF proc[q].opts[s] = r THEN proc[q].seen[s] \cup {k} ELSE proc[q].seen[s]]
<1>1. /\ refs' \in [Refs -> Commits] /\ refs'[r] = k
      /\ \A x \in Refs \ {r} : refs'[x] = refs[x]
  BY DEF MoveRef, CheckInv
<1>2. UNCHANGED <<wt, bin, lock>> /\ DOMAIN proc' = Procs
  BY DEF MoveRef
<1>3. ASSUME NEW q \in Procs, At(q, "idle") PROVE proc'[q] = proc[q]
  BY <1>3 DEF MoveRef
<1>4. ASSUME NEW q \in Procs, ~At(q, "idle")
      PROVE  proc'[q] \in Checks /\ lock' = q /\ Sound(proc'[q], refs', wt', bin')
  <2>1. proc[q] \in Checks /\ lock = q /\ Sound(proc[q], refs, wt, bin)
    BY <1>4 DEF CheckInv
  <2>2. proc'[q] = [proc[q] EXCEPT !.seen = Seen(q)]
    BY <1>4 DEF MoveRef
  <2>3. Seen(q) \in [Sides -> SUBSET Commits]
    BY <2>1 DEF Checks
  <2>4. \A s \in Sides : proc[q].seen[s] \subseteq Seen(q)[s]
                         /\ (proc[q].opts[s] = r => k \in Seen(q)[s])
    OBVIOUS
  <2> HIDE DEF Seen
  <2>5. /\ proc'[q] \in Checks /\ proc'[q].seen = Seen(q) /\ proc'[q].pc = proc[q].pc
        /\ proc'[q].id = proc[q].id /\ proc'[q].side = proc[q].side
        /\ proc'[q].opts = proc[q].opts /\ proc'[q].reused = proc[q].reused
        /\ proc'[q].built = proc[q].built /\ proc'[q].measured = proc[q].measured
        /\ proc'[q].status = proc[q].status
    BY <2>1, <2>2, <2>3 DEF Checks
  <2>6. proc[q].opts \in [Sides -> Refs] /\ proc[q].side \in Sides
    BY <2>1 DEF Checks
  <2>7. \A s \in Sides : refs'[proc[q].opts[s]] \in Seen(q)[s]
    BY <1>1, <2>1, <2>4, <2>6 DEF Sound
  <2>8. \A s \in Sides : Fresh(proc[q], s) => Fresh(proc'[q], s)
    BY <2>4, <2>5 DEF Fresh
  <2>9. Sound(proc'[q], refs', wt', bin')
    BY <1>2, <2>1, <2>4, <2>5, <2>6, <2>7, <2>8 DEF Sound, Has, Sides
  <2> QED
    BY <1>2, <2>1, <2>5, <2>9
<1>5. proc' \in [Procs -> Checks \cup {Idle}]
  <2>1. proc' = [q \in Procs |-> proc'[q]]
    BY DEF MoveRef
  <2>2. \A q \in Procs : proc'[q] \in Checks \cup {Idle}
    BY <1>3, <1>4 DEF CheckInv
  <2> QED
    BY <2>1, <2>2
<1> QED
  BY <1>1, <1>2, <1>3, <1>4, <1>5 DEF CheckInv, At

LEMMA CleanKeeps ==
  ASSUME CheckInv, Clean
  PROVE  CheckInv'
<1>1. wt' \in [Ids -> Trees] /\ UNCHANGED <<refs, bin, lock, proc>>
  BY DEF Clean, None, Trees, Sides
<1>2. \A i \in Ids, s \in Sides : wt'[i][s] = Nil
  BY DEF Clean, None
<1>3. ASSUME NEW q \in Procs, ~At(q, "idle")
      PROVE  Sound(proc[q], refs, wt', bin)
  <2>1. proc[q].id \in Ids /\ proc[q].side \in Sides /\ Sound(proc[q], refs, wt, bin)
    BY <1>3 DEF CheckInv, Checks
  <2> QED
    BY <1>2, <2>1 DEF Sound
<1> QED
  BY <1>1, <1>3 DEF CheckInv, At

LEMMA CheckNext ==
  ASSUME CheckInv, [Next]_vars
  PROVE  CheckInv'
<1>1. ASSUME NEW p \in Procs, WriteRegression(p) \/ Crash(p) PROVE CheckInv'
  BY <1>1, ReturnKeeps DEF WriteRegression, Crash
<1>2. CASE UNCHANGED vars
  BY <1>2 DEF vars, CheckInv, At
<1> QED
  BY <1>1, <1>2, AddWorktreeKeeps, CompileKeeps, CheckBenchesKeeps, MeasureKeeps,
     RegressionKeeps, MoveRefKeeps, CleanKeeps DEF Next

LEMMA CheckInvariant == Spec => []CheckInv
<1>1. Init => CheckInv
  BY DEF Init, CheckInv, None, Trees, Sides, Idle, At
<1> QED
  BY <1>1, CheckNext, PTL DEF Spec

-----------------------------------------------------------------------------

\* No check writes a result about a binary that another check with its label put
\* there: the lock is held from the first worktree to the record.
THEOREM MeasuresOwn == Spec => []MeasuresWhatItBuilt
<1>1. CheckInv => MeasuresWhatItBuilt
  BY DEF CheckInv, MeasuresWhatItBuilt, At, Sound
<1> QED
  BY <1>1, CheckInvariant, PTL

\* A decision is about two commits that have the benchmark, whatever they are.
THEOREM DecidesOnBoth == Spec => []DecidesOnlyWithBenchmark
<1>1. CheckInv => DecidesOnlyWithBenchmark
  BY DEF CheckInv, DecidesOnlyWithBenchmark, At, Sound, Lacking
<1> QED
  BY <1>1, CheckInvariant, PTL

\* A check that created both of its worktrees is about commits that its refs had
\* while it ran, however they and `clean` move.
THEOREM FreshMeasuresRefs == Spec => []FreshCheckMeasuresRefs
<1>1. ASSUME CheckInv, NEW p \in Procs, At(p, "write"), proc[p].reused = {}
      PROVE  MeasuredRefs(p)
  <2>1. Sound(proc[p], refs, wt, bin) /\ proc[p].pc = "write"
    BY <1>1, OnItsWay
  <2> QED
    BY <1>1, <2>1 DEF MeasuredRefs, Sound, Fresh
<1>2. CheckInv => FreshCheckMeasuresRefs
  BY <1>1 DEF FreshCheckMeasuresRefs
<1> QED
  BY <1>2, CheckInvariant, PTL

-----------------------------------------------------------------------------
(* The record and the lock *)

RecordInv ==
  /\ record \in [Ids -> {Nil, "regression", "clean", "inconclusive"}]
  /\ lock \in Procs \cup {Nil}

LEMMA RecordNext ==
  ASSUME CheckInv, RecordInv, [Next]_vars
  PROVE  RecordInv'
<1>1. ASSUME NEW p \in Procs, Return(p), record' = record PROVE RecordInv'
  BY <1>1 DEF RecordInv, Return
<1>2. ASSUME NEW p \in Procs, lock' = p, record' = record PROVE RecordInv'
  BY <1>2 DEF RecordInv
<1>3. ASSUME NEW p \in Procs, WriteRegression(p) PROVE RecordInv'
  <2>1. proc[p].status \in {Nil, "regression", "clean", "inconclusive"}
    BY <1>3, OnItsWay DEF WriteRegression, Checks
  <2> QED
    BY <1>3, <2>1 DEF WriteRegression, RecordInv, Return
<1>4. CASE UNCHANGED <<record, lock>>
  BY <1>4 DEF RecordInv
<1>5. ASSUME NEW p \in Procs, AddWorktree(p) \/ Compile(p) \/ CheckBenches(p) \/ Measure(p) \/ Crash(p)
      PROVE  record' = record /\ (Return(p) \/ lock' = lock)
  BY <1>5 DEF AddWorktree, Compile, CheckBenches, Measure, Crash, Goto, Found
<1>6. ASSUME NEW p \in Procs, NEW i \in Ids, NEW opts \in [Sides -> Refs], Regression(p, i, opts)
      PROVE  RecordInv'
  BY <1>2, <1>6 DEF Regression, TakeLock
<1>7. ASSUME NEW r \in Refs, NEW c \in Commits, MoveRef(r, c) PROVE UNCHANGED <<record, lock>>
  BY <1>7 DEF MoveRef
<1>8. CASE Clean \/ UNCHANGED vars
  BY <1>4, <1>8 DEF Clean, vars
<1> QED
  BY <1>1, <1>3, <1>4, <1>5, <1>6, <1>7, <1>8 DEF Next

\* The worktrees and binaries are of commits, and regression.json has a status that
\* the schema knows, for checks in any order and killed anywhere.
THEOREM TypeCorrect == Spec => []TypeOK
<1>1. Init => CheckInv /\ RecordInv
  BY DEF Init, CheckInv, RecordInv, None, Trees, Sides, Idle, At
<1>2. CheckInv /\ RecordInv /\ [Next]_vars => CheckInv' /\ RecordInv'
  BY CheckNext, RecordNext
<1>3. CheckInv /\ RecordInv => TypeOK
  BY DEF CheckInv, RecordInv, TypeOK, Trees
<1> QED
  BY <1>1, <1>2, <1>3, PTL DEF Spec
=============================================================================
