-------------------------- MODULE GateVerdictProofs ---------------------------
(***************************************************************************)
(* Proofs about what HypothesisGate proves, for any number of commands,    *)
(* hypotheses and contents of worktrees, when nobody changes a worktree    *)
(* that a command uses: what is measured is what was tested and found      *)
(* within the scope, and, when no command is killed between a baseline's   *)
(* binary and the hash of its tests, is compared with a baseline that has  *)
(* the same tests.                                                         *)
(***************************************************************************)
EXTENDS HypothesisGate, TLAPS

\* The assumption under which the gate's checks and its measurement are about one tree.
Undisturbed == Quiet = TRUE

\* What a measurement of hypothesis i has to be for a proof.
InScope(i, sc, t) ==
  Strays \subseteq Listed /\ sc # "none" =>
    t.stray = "none" /\ (i \in DepIds /\ sc = "code" => t.src = "head")

SameRuler(b, t) == "sha" \in Kills \/ b.tests = t.tests

Judged(i, run) ==
  /\ run.cand.src \notin Broken
  /\ InScope(i, run.scope, run.cand)
  /\ run.base # Nil => SameRuler(run.base, run.cand)

VerdictOk(v, i) ==
  \/ v = Nil
  \/ {"status", "run"} \subseteq DOMAIN v /\ (v.status = "proved" => Judged(i, v.run))

\* A command at these points relies on its worktree and its baseline.
Holding == {"sha", "lock"} \cup Locked

\* What a command r relies on, with worktrees w and binaries b.
Stands(r, w, b) ==
  /\ {"pc", "id", "mem"} \subseteq DOMAIN r
  /\ r.pc # "idle" => r.id \in Ids
  /\ r.pc = "sha" => b[r.id] = w[r.id]
  /\ r.pc \in Holding => w[r.id] # Nil /\ b[r.id] # Nil
  /\ r.pc \in {"tests", "candidate", "measure"} =>
       /\ {"scope", "base", "cand"} \subseteq DOMAIN r.mem
       /\ InScope(r.id, r.mem.scope, w[r.id]) /\ SameRuler(b[r.id], w[r.id])
  /\ r.pc \in {"candidate", "measure"} => w[r.id].src \notin Broken
  /\ r.pc = "measure" => r.mem.cand = w[r.id]
  /\ r.pc = "decide" => Judged(r.id, r.mem)
  /\ r.pc = "critic" => r.mem # Nil /\ VerdictOk(r.mem, r.id)

\* The hash is of the tests in the binary, or a command is about to write it.
HashMatches(i) ==
  \/ "sha" \in Kills \/ bin[i] = Nil \/ sha[i] = bin[i].tests
  \/ \E p \in Procs : proc[p].pc = "sha" /\ proc[p].id = i

GateInv ==
  /\ wt \in [Ids -> Tree \cup {Nil}] /\ bin \in [Ids -> Tree \cup {Nil}]
  /\ DOMAIN sha = Ids /\ DOMAIN verdict = Ids /\ DOMAIN proc = Procs
  /\ \A p \in Procs : Stands(proc[p], wt, bin)
  /\ \A i \in Ids : VerdictOk(verdict[i], i) /\ HashMatches(i)

-----------------------------------------------------------------------------

\* What a command relies on survives a step that leaves its worktree alone, and its
\* baseline or compiles the baseline again from that worktree.
LEMMA StandsKept ==
  ASSUME NEW r, Stands(r, wt, bin),
         r.pc \in Holding =>
           wt'[r.id] = wt[r.id] /\ (bin'[r.id] = bin[r.id] \/ bin'[r.id] = wt[r.id])
  PROVE  Stands(r, wt', bin')
<1>1. r.pc \in {"sha", "tests", "candidate", "measure"} => r.pc \in Holding
  BY DEF Holding, Locked
<1> QED
  BY <1>1 DEF Stands, SameRuler

\* The command p moves and becomes r.
LEMMA Moves ==
  ASSUME GateInv, NEW p \in Procs, NEW r, proc' = [proc EXCEPT ![p] = r],
         Stands(r, wt', bin'),
         wt' \in [Ids -> Tree \cup {Nil}], bin' \in [Ids -> Tree \cup {Nil}],
         DOMAIN sha' = Ids, DOMAIN verdict' = Ids,
         \A i \in Ids : VerdictOk(verdict'[i], i),
         \A i \in Ids : HashMatches(i)',
         \A q \in Procs \ {p} : proc[q].pc \in Holding =>
           /\ wt'[Id(q)] = wt[Id(q)]
           /\ bin'[Id(q)] = bin[Id(q)] \/ bin'[Id(q)] = wt[Id(q)]
  PROVE  GateInv'
<1>1. \A q \in Procs \ {p} : proc'[q] = proc[q] /\ Stands(proc[q], wt', bin')
  BY StandsKept DEF GateInv, Id
<1>2. proc'[p] = r /\ DOMAIN proc' = Procs
  BY DEF GateInv
<1> QED
  BY <1>1, <1>2 DEF GateInv

\* It changes neither worktree nor baseline, and has not its hash to write.
LEMMA QuietMove ==
  ASSUME GateInv, NEW p \in Procs, NEW r, proc' = [proc EXCEPT ![p] = r],
         Stands(r, wt, bin), UNCHANGED <<wt, bin, sha>>, proc[p].pc # "sha" \/ "sha" \in Kills,
         DOMAIN verdict' = Ids, \A i \in Ids : VerdictOk(verdict'[i], i)
  PROVE  GateInv'
<1>1. \A q \in Procs \ {p} : proc'[q] = proc[q]
  BY DEF GateInv
<1>2. \A i \in Ids : HashMatches(i)'
  BY <1>1 DEF GateInv, HashMatches
<1>3. Stands(r, wt', bin')
  OBVIOUS
<1> QED
  BY <1>2, <1>3, Moves DEF GateInv

LEMMA IdleFacts == {"pc", "id", "mem"} \subseteq DOMAIN Idle /\ Idle.pc = "idle"
BY DEF Idle

\* A command that returns relies on nothing.
LEMMA Returns ==
  ASSUME GateInv, NEW p \in Procs, Return(p), UNCHANGED <<wt, bin, sha>>,
         proc[p].pc # "sha" \/ "sha" \in Kills,
         DOMAIN verdict' = Ids, \A i \in Ids : VerdictOk(verdict'[i], i)
  PROVE  GateInv'
<1>1. Stands(Idle, wt, bin)
  BY IdleFacts DEF Stands, Holding, Locked
<1> QED
  BY <1>1, QuietMove DEF Return

\* The verdicts that are there stay, or one of them becomes v.
LEMMA VerdictsKept ==
  ASSUME GateInv, verdict' = verdict
  PROVE  DOMAIN verdict' = Ids /\ \A i \in Ids : VerdictOk(verdict'[i], i)
BY DEF GateInv

LEMMA VerdictWritten ==
  ASSUME GateInv, NEW i \in Ids, NEW v, VerdictOk(v, i), verdict' = [verdict EXCEPT ![i] = v]
  PROVE  DOMAIN verdict' = Ids /\ \A j \in Ids : VerdictOk(verdict'[j], j)
BY DEF GateInv

\* A verdict that proves nothing.
LEMMA NoProof ==
  ASSUME NEW v, NEW i, {"status", "run"} \subseteq DOMAIN v, v.status # "proved"
  PROVE  VerdictOk(v, i)
BY DEF VerdictOk

LEMMA Rejected ==
  ASSUME GateInv, NEW p \in Procs, Id(p) \in Ids, NEW s, s # "proved", NEW m,
         Record(p, s, Nil, m)
  PROVE  DOMAIN verdict' = Ids /\ \A i \in Ids : VerdictOk(verdict'[i], i)
<1> DEFINE shown == IF table[Id(p)] = Nil THEN "none"
                    ELSE IF m /\ table[Id(p)] = p THEN "own" ELSE "old"
           v == [status |-> s, run |-> Nil, table |-> shown]
<1>1. verdict' = [verdict EXCEPT ![Id(p)] = v]
  BY DEF Record
<1> HIDE DEF shown
<1>2. {"status", "run"} \subseteq DOMAIN v /\ v.status = s
  OBVIOUS
<1> HIDE DEF v
<1> QED
  BY <1>1, <1>2, NoProof, VerdictWritten

LEMMA NotProvedYet ==
  ASSUME GateInv, NEW i \in Ids, NeedMoreData(i)
  PROVE  DOMAIN verdict' = Ids /\ \A j \in Ids : VerdictOk(verdict'[j], j)
<1>1. {"status", "run"} \subseteq DOMAIN Placeholder /\ Placeholder.status # "proved"
  BY DEF Placeholder
<1> QED
  BY <1>1, NoProof, VerdictWritten DEF NeedMoreData

\* The points at which a command relies on nothing but its hypothesis.
Careless == {"optin", "tree", "bench", "load", "save", "compile", "patch", "exists"}

LEMMA CarelessStands ==
  ASSUME NEW r, {"pc", "id", "mem"} \subseteq DOMAIN r, r.pc \in Careless, r.id \in Ids, NEW w, NEW b
  PROVE  Stands(r, w, b)
BY DEF Stands, Careless, Holding, Locked

\* A command goes on to such a point.
LEMMA GoesCareless ==
  ASSUME GateInv, NEW p \in Procs, NEW at \in Careless, Goto(p, at), Id(p) \in Ids,
         UNCHANGED <<wt, bin, sha>>, proc[p].pc # "sha",
         DOMAIN verdict' = Ids, \A i \in Ids : VerdictOk(verdict'[i], i)
  PROVE  GateInv'
<1> DEFINE r == [proc[p] EXCEPT !.pc = at]
<1>1. {"pc", "id", "mem"} \subseteq DOMAIN proc[p]
  BY DEF GateInv, Stands
<1>2. {"pc", "id", "mem"} \subseteq DOMAIN r /\ r.pc = at /\ r.id = Id(p)
  BY <1>1 DEF Id
<1>3. proc' = [proc EXCEPT ![p] = r]
  BY DEF Goto, GateInv
<1> HIDE DEF r
<1> QED
  BY <1>2, <1>3, CarelessStands, QuietMove

LEMMA AfterBaselineKeeps ==
  ASSUME GateInv, NEW p \in Procs, AfterBaseline(p), Id(p) \in Ids,
         UNCHANGED <<wt, bin, sha>>, proc[p].pc # "sha",
         DOMAIN verdict' = Ids, \A i \in Ids : VerdictOk(verdict'[i], i)
  PROVE  GateInv'
BY Returns, GoesCareless DEF AfterBaseline, Careless

-----------------------------------------------------------------------------
(* Steps of a baseline *)

\* Nobody else relies on a worktree that is not there.
LEMMA AbsentWorktree ==
  ASSUME GateInv, NEW i \in Ids, wt[i] = Nil, NEW q \in Procs, proc[q].pc \in Holding
  PROVE  Id(q) # i
BY DEF GateInv, Stands, Id

LEMMA HasId ==
  ASSUME GateInv, NEW p \in Procs, proc[p].pc # "idle"
  PROVE  Id(p) \in Ids /\ {"pc", "id", "mem"} \subseteq DOMAIN proc[p]
         /\ Stands(proc[p], wt, bin)
BY DEF GateInv, Stands, Id

LEMMA WorktreeKeeps ==
  ASSUME GateInv, NEW p \in Procs, Worktree(p)
  PROVE  GateInv'
<1> DEFINE i == Id(p)
           r == [proc[p] EXCEPT !.pc = "bench"]
<1>1. /\ proc[p].pc = "tree" /\ i \in Ids /\ {"pc", "id", "mem"} \subseteq DOMAIN proc[p]
      /\ UNCHANGED <<bin, sha, verdict>>
  BY HasId DEF Worktree, At
<1>2. DOMAIN verdict' = Ids /\ \A j \in Ids : VerdictOk(verdict'[j], j)
  BY <1>1, VerdictsKept
<1>3. CASE Goto(p, "bench") /\ wt' = wt
  BY <1>1, <1>2, <1>3, GoesCareless DEF Careless
<1>4. CASE wt[i] = Nil /\ wt' = [wt EXCEPT ![i] = HeadTree] /\ Goto(p, "bench")
  <2>1. wt' \in [Ids -> Tree \cup {Nil}] /\ \A j \in Ids \ {i} : wt'[j] = wt[j]
    <3>1. "none" \in Strays \cup {"none"}
      OBVIOUS
    <3>2. HeadTree \in Tree
      BY <3>1, GateAssumption DEF HeadTree, Tree
    <3> QED
      BY <1>4, <3>2 DEF GateInv
  <2>2. \A q \in Procs \ {p} : proc[q].pc \in Holding =>
           wt'[Id(q)] = wt[Id(q)] /\ bin'[Id(q)] = bin[Id(q)]
    BY <1>1, <1>4, <2>1, AbsentWorktree, HasId DEF Holding, Locked
  <2>3. proc' = [proc EXCEPT ![p] = r] /\ {"pc", "id", "mem"} \subseteq DOMAIN r
        /\ r.pc = "bench" /\ r.id = i
    BY <1>1, <1>4 DEF Goto, GateInv, Id
  <2> HIDE DEF r
  <2>4. Stands(r, wt', bin')
    BY <1>1, <2>3, CarelessStands DEF Careless
  <2>5. \A q \in Procs \ {p} : proc'[q] = proc[q]
    BY <2>3 DEF GateInv
  <2>6. \A j \in Ids : HashMatches(j)'
    BY <1>1, <2>5 DEF GateInv, HashMatches
  <2>7. bin' \in [Ids -> Tree \cup {Nil}] /\ DOMAIN sha' = Ids
    BY <1>1 DEF GateInv
  <2> QED
    BY <1>2, <2>1, <2>2, <2>3, <2>4, <2>6, <2>7, Moves
<1>5. CASE Return(p) /\ wt' = wt
  BY <1>1, <1>2, <1>5, Returns
<1> QED
  BY <1>3, <1>4, <1>5 DEF Worktree

LEMMA ResolveKeeps ==
  ASSUME GateInv, NEW p \in Procs, ResolveBenchmark(p)
  PROVE  GateInv'
<1> USE DEF Careless
<1>1. /\ proc[p].pc = "bench" /\ Id(p) \in Ids /\ {"pc", "id", "mem"} \subseteq DOMAIN proc[p]
      /\ UNCHANGED <<wt, bin, sha>>
  BY HasId DEF ResolveBenchmark, At
<1>2. CASE Goto(p, "compile") /\ UNCHANGED verdict
  BY <1>1, <1>2, VerdictsKept, GoesCareless
<1>3. ASSUME NEW n, proc' = [proc EXCEPT ![p].pc = "load", ![p].hyp.name = n], UNCHANGED verdict
      PROVE  GateInv'
  <2> DEFINE r == [proc[p] EXCEPT !.pc = "load", !.hyp.name = n]
  <2>1. proc' = [proc EXCEPT ![p] = r]
    BY <1>3 DEF GateInv
  <2>2. {"pc", "id", "mem"} \subseteq DOMAIN r /\ r.pc = "load" /\ r.id = Id(p)
    BY <1>1 DEF Id
  <2> HIDE DEF r
  <2> QED
    BY <1>1, <1>3, <2>1, <2>2, CarelessStands, VerdictsKept, QuietMove
<1>4. CASE NeedMoreData(Id(p)) /\ AfterBaseline(p)
  BY <1>1, <1>4, NotProvedYet, AfterBaselineKeeps
<1> QED
  BY <1>2, <1>3, <1>4 DEF ResolveBenchmark

LEMMA LoadKeeps ==
  ASSUME GateInv, NEW p \in Procs, LoadHypotheses(p)
  PROVE  GateInv'
<1> DEFINE r == [proc[p] EXCEPT !.pc = "save", !.mem = hyps]
<1>1. /\ proc[p].pc = "load" /\ Id(p) \in Ids /\ {"pc", "id", "mem"} \subseteq DOMAIN proc[p]
      /\ UNCHANGED <<wt, bin, sha, verdict>>
  BY HasId DEF LoadHypotheses, At, files
<1>2. proc' = [proc EXCEPT ![p] = r]
  BY DEF GateInv, LoadHypotheses
<1>3. {"pc", "id", "mem"} \subseteq DOMAIN r /\ r.pc = "save" /\ r.id = Id(p)
  BY <1>1 DEF Id
<1> HIDE DEF r
<1> QED
  BY <1>1, <1>2, <1>3, CarelessStands, VerdictsKept, QuietMove DEF Careless

\* The binary is compiled from the worktree: whoever relies on the worktree may go on,
\* and the hash is what p has to write next.
LEMMA CompileKeeps ==
  ASSUME GateInv, NEW p \in Procs, CompileBaseline(p)
  PROVE  GateInv'
<1> DEFINE i == Id(p)
           r == [proc[p] EXCEPT !.pc = "sha"]
<1>1. /\ proc[p].pc = "compile" /\ i \in Ids /\ {"pc", "id", "mem"} \subseteq DOMAIN proc[p]
      /\ UNCHANGED <<wt, sha, verdict>>
  BY HasId DEF CompileBaseline, At
<1>2. DOMAIN verdict' = Ids /\ \A j \in Ids : VerdictOk(verdict'[j], j)
  BY <1>1, VerdictsKept
<1>3. CASE wt[i] # Nil /\ bin' = [bin EXCEPT ![i] = wt[i]] /\ Goto(p, "sha")
  <2>1. bin' \in [Ids -> Tree \cup {Nil}] /\ wt' \in [Ids -> Tree \cup {Nil}] /\ DOMAIN sha' = Ids
        /\ bin'[i] = wt[i] /\ \A j \in Ids \ {i} : bin'[j] = bin[j]
    BY <1>1, <1>3 DEF GateInv
  <2>2. \A q \in Procs \ {p} : proc[q].pc \in Holding =>
           wt'[Id(q)] = wt[Id(q)] /\ (bin'[Id(q)] = bin[Id(q)] \/ bin'[Id(q)] = wt[Id(q)])
    BY <1>1, <2>1, HasId DEF Holding, Locked
  <2>3. proc' = [proc EXCEPT ![p] = r] /\ {"pc", "id", "mem"} \subseteq DOMAIN r
        /\ r.pc = "sha" /\ r.id = i
    BY <1>1, <1>3 DEF Goto, GateInv, Id
  <2> HIDE DEF r
  <2>4. Stands(r, wt', bin')
    BY <1>1, <1>3, <2>1, <2>3 DEF Stands
  <2>5. proc'[p] = r /\ \A q \in Procs \ {p} : proc'[q] = proc[q]
    BY <2>3 DEF GateInv
  <2>6. \A j \in Ids : HashMatches(j)'
    BY <1>1, <2>1, <2>3, <2>5 DEF GateInv, HashMatches
  <2> QED
    BY <1>2, <2>1, <2>2, <2>3, <2>4, <2>6, Moves
<1>4. CASE Return(p) /\ bin' = bin
  BY <1>1, <1>2, <1>4, Returns
<1> QED
  BY <1>3, <1>4 DEF CompileBaseline

\* The hash is of the worktree, and so of the binary.
LEMMA SnapshotKeeps ==
  ASSUME GateInv, NEW p \in Procs, SnapshotTests(p)
  PROVE  GateInv'
<1> DEFINE i == Id(p)
<1>1. /\ proc[p].pc = "sha" /\ i \in Ids /\ {"pc", "id", "mem"} \subseteq DOMAIN proc[p]
      /\ UNCHANGED <<wt, bin, verdict>>
  BY HasId DEF SnapshotTests, At
<1>2. DOMAIN verdict' = Ids /\ \A j \in Ids : VerdictOk(verdict'[j], j)
  BY <1>1, VerdictsKept
<1>3. DOMAIN sha' = Ids /\ sha'[i] = bin[i].tests /\ \A j \in Ids \ {i} : sha'[j] = sha[j]
  <2>1. sha' = [sha EXCEPT ![i] = testFilesHash(i)]
    BY DEF SnapshotTests
  <2>2. bin[i] = wt[i] /\ wt[i] # Nil
    BY <1>1, HasId DEF Stands, Holding, Id
  <2> QED
    BY <1>1, <2>1, <2>2 DEF GateInv, testFilesHash
<1>4. ASSUME NEW r, proc' = [proc EXCEPT ![p] = r], Stands(r, wt, bin) PROVE GateInv'
  <2>1. \A q \in Procs \ {p} : proc'[q] = proc[q]
    BY <1>4 DEF GateInv
  <2>2. \A j \in Ids : HashMatches(j)'
    <3>1. ASSUME NEW j \in Ids, j = i PROVE HashMatches(j)'
      BY <1>1, <1>3, <3>1 DEF HashMatches
    <3>2. ASSUME NEW j \in Ids \ {i} PROVE HashMatches(j)'
      <4>1. \A q \in Procs : proc[q].id = j => q # p
        BY DEF Id
      <4> QED
        BY <1>1, <1>3, <2>1, <4>1 DEF HashMatches, GateInv
    <3> QED
      BY <3>1, <3>2
  <2>3. Stands(r, wt', bin')
    BY <1>1, <1>4
  <2> QED
    BY <1>1, <1>2, <1>3, <1>4, <2>2, <2>3, Moves DEF GateInv
<1>5. CASE Return(p)
  <2>1. Stands(Idle, wt, bin)
    BY IdleFacts DEF Stands, Holding, Locked
  <2> QED
    BY <1>4, <1>5, <2>1 DEF Return
<1>6. CASE Goto(p, "patch")
  <2> DEFINE r == [proc[p] EXCEPT !.pc = "patch"]
  <2>1. proc' = [proc EXCEPT ![p] = r] /\ {"pc", "id", "mem"} \subseteq DOMAIN r
        /\ r.pc = "patch" /\ r.id = i
    BY <1>1, <1>6 DEF Goto, GateInv, Id
  <2> HIDE DEF r
  <2> QED
    BY <1>1, <1>4, <2>1, CarelessStands DEF Careless
<1> QED
  BY <1>5, <1>6 DEF SnapshotTests, AfterBaseline

LEMMA ApplyPatchKeeps ==
  ASSUME Undisturbed, GateInv, NEW p \in Procs, ApplyPatch(p)
  PROVE  GateInv'
<1> DEFINE i == Id(p)
           r == [proc[p] EXCEPT !.pc = "exists"]
<1>1. /\ proc[p].pc = "patch" /\ i \in Ids /\ {"pc", "id", "mem"} \subseteq DOMAIN proc[p]
      /\ UNCHANGED <<bin, sha, verdict>>
  BY HasId DEF ApplyPatch, At
<1>2. DOMAIN verdict' = Ids /\ \A j \in Ids : VerdictOk(verdict'[j], j)
  BY <1>1, VerdictsKept
<1>3. CASE Goto(p, "exists") /\ wt' = wt
  BY <1>1, <1>2, <1>3, GoesCareless DEF Careless
<1>4. ASSUME Free(i, {p}), NEW t \in Tree, wt' = [wt EXCEPT ![i] = t], Goto(p, "exists")
      PROVE  GateInv'
  <2>1. wt' \in [Ids -> Tree \cup {Nil}] /\ \A j \in Ids \ {i} : wt'[j] = wt[j]
    BY <1>1, <1>4 DEF GateInv
  <2>2. \A q \in Procs \ {p} : proc[q].pc \in Holding =>
           wt'[Id(q)] = wt[Id(q)] /\ bin'[Id(q)] = bin[Id(q)]
    BY <1>1, <1>4, <2>1, HasId DEF Free, Undisturbed, At, Holding, Locked
  <2>3. proc' = [proc EXCEPT ![p] = r] /\ {"pc", "id", "mem"} \subseteq DOMAIN r
        /\ r.pc = "exists" /\ r.id = i
    BY <1>1, <1>4 DEF Goto, GateInv, Id
  <2> HIDE DEF r
  <2>4. Stands(r, wt', bin')
    BY <1>1, <2>3, CarelessStands DEF Careless
  <2>5. \A q \in Procs \ {p} : proc'[q] = proc[q]
    BY <2>3 DEF GateInv
  <2>6. \A j \in Ids : HashMatches(j)'
    BY <1>1, <2>5 DEF GateInv, HashMatches
  <2>7. bin' \in [Ids -> Tree \cup {Nil}] /\ DOMAIN sha' = Ids
    BY <1>1 DEF GateInv
  <2> QED
    BY <1>2, <2>1, <2>2, <2>3, <2>4, <2>6, <2>7, Moves
<1>5. CASE Return(p) /\ wt' = wt
  BY <1>1, <1>2, <1>5, Returns
<1> QED
  BY <1>3, <1>4, <1>5, GateAssumption DEF ApplyPatch

-----------------------------------------------------------------------------
(* Steps of a verdict *)

\* p goes on to a point at which it relies on what it has just checked.
LEMMA GoesOn ==
  ASSUME GateInv, NEW p \in Procs, NEW at, Goto(p, at), Id(p) \in Ids,
         UNCHANGED <<wt, bin, sha, verdict>>, proc[p].pc # "sha",
         \A r : {"pc", "id", "mem"} \subseteq DOMAIN r /\ r.pc = at /\ r.id = Id(p)
                  /\ r.mem = proc[p].mem => Stands(r, wt, bin)
  PROVE  GateInv'
<1> DEFINE r == [proc[p] EXCEPT !.pc = at]
<1>1. {"pc", "id", "mem"} \subseteq DOMAIN proc[p]
  BY DEF GateInv, Stands
<1>2. {"pc", "id", "mem"} \subseteq DOMAIN r /\ r.pc = at /\ r.id = Id(p) /\ r.mem = proc[p].mem
  BY <1>1 DEF Id
<1>3. proc' = [proc EXCEPT ![p] = r]
  BY DEF Goto, GateInv
<1> HIDE DEF r
<1> QED
  BY <1>2, <1>3, VerdictsKept, QuietMove

LEMMA CheckBaselineKeeps ==
  ASSUME GateInv, NEW p \in Procs, CheckBaseline(p)
  PROVE  GateInv'
<1> DEFINE r == [proc[p] EXCEPT !.pc = "lock", !.hyp = hyps[Id(p)], !.mem = Nil]
<1>1. /\ proc[p].pc = "exists" /\ Id(p) \in Ids /\ {"pc", "id", "mem"} \subseteq DOMAIN proc[p]
      /\ UNCHANGED <<wt, bin, sha, verdict>>
  BY HasId DEF CheckBaseline, At, files
<1>2. CASE Return(p)
  BY <1>1, <1>2, VerdictsKept, Returns
<1>3. CASE /\ wt[Id(p)] # Nil /\ bin[Id(p)] # Nil
           /\ proc' = [proc EXCEPT ![p].pc = "lock", ![p].hyp = hyps[Id(p)], ![p].mem = Nil]
  <2>1. proc' = [proc EXCEPT ![p] = r]
    BY <1>3 DEF GateInv
  <2>2. {"pc", "id", "mem"} \subseteq DOMAIN r /\ r.pc = "lock" /\ r.id = Id(p)
    BY <1>1 DEF Id
  <2> HIDE DEF r
  <2>3. Stands(r, wt, bin)
    BY <1>1, <1>3, <2>2 DEF Stands
  <2> QED
    BY <1>1, <2>1, <2>3, VerdictsKept, QuietMove
<1> QED
  BY <1>2, <1>3 DEF CheckBaseline

LEMMA TakeLockKeeps ==
  ASSUME GateInv, NEW p \in Procs, TakeLock(p)
  PROVE  GateInv'
<1>1. /\ proc[p].pc = "lock" /\ Id(p) \in Ids /\ UNCHANGED <<wt, bin, sha, verdict>>
  BY HasId DEF TakeLock, At, files
<1>2. wt[Id(p)] # Nil /\ bin[Id(p)] # Nil
  BY <1>1, HasId DEF Stands, Holding, Id
<1>3. CASE Return(p)
  BY <1>1, <1>3, VerdictsKept, Returns
<1>4. CASE Goto(p, "gate")
  BY <1>1, <1>2, <1>4, GoesOn DEF Stands
<1> QED
  BY <1>3, <1>4 DEF TakeLock

\* The hash that the gate compares is of the tests in the baseline.
LEMMA RulerChecked ==
  ASSUME GateInv, NEW i \in Ids, wt[i] # Nil, bin[i] # Nil, ~ChangedRuler(i)
  PROVE  SameRuler(bin[i], wt[i])
<1>1. bin[i] \in Tree
  BY DEF GateInv
<1>2. bin[i].tests # Nil
  BY <1>1, GateAssumption DEF Tree
<1>3. CASE sha[i] = bin[i].tests
  BY <1>2, <1>3 DEF ChangedRuler, testFilesHash, SameRuler
<1>4. ASSUME NEW p \in Procs, proc[p].pc = "sha", proc[p].id = i PROVE SameRuler(bin[i], wt[i])
  BY <1>4 DEF GateInv, Stands, SameRuler
<1> QED
  BY <1>3, <1>4 DEF GateInv, HashMatches, SameRuler

LEMMA ScopeChecked ==
  ASSUME NEW i \in Ids, wt[i] \in Tree, wt[i] # Nil, ~OutOfScope(i)
  PROVE  InScope(i, scope, wt[i])
<1>1. wt[i].stray \in Strays \cup {"none"}
  BY DEF Tree
<1> QED
  BY <1>1 DEF OutOfScope, InScope

LEMMA StructuralKeeps ==
  ASSUME GateInv, NEW p \in Procs, structuralGate(p)
  PROVE  GateInv'
<1> DEFINE i == Id(p)
           m == [scope |-> scope, base |-> Nil, cand |-> Nil]
           r == [proc[p] EXCEPT !.pc = "tests", !.mem = m]
<1>1. /\ proc[p].pc = "gate" /\ i \in Ids /\ {"pc", "id", "mem"} \subseteq DOMAIN proc[p]
      /\ UNCHANGED <<wt, bin, sha>>
  BY HasId DEF structuralGate, At
<1>2. wt[i] # Nil /\ bin[i] # Nil
  BY <1>1, HasId DEF Stands, Holding, Locked, Id
<1>3. CASE Reject(p)
  BY <1>1, <1>3, Rejected, Returns DEF Reject
<1>4. CASE /\ ~ChangedRuler(i) /\ ~OutOfScope(i) /\ UNCHANGED verdict
           /\ proc' = [proc EXCEPT ![p].pc = "tests", ![p].mem = m]
  <2>1. proc' = [proc EXCEPT ![p] = r]
    BY <1>4 DEF GateInv
  <2>2. /\ {"pc", "id", "mem"} \subseteq DOMAIN r /\ r.pc = "tests" /\ r.id = i
        /\ r.mem = m /\ m.scope = scope
        /\ {"scope", "base", "cand"} \subseteq DOMAIN m
    BY <1>1 DEF Id
  <2> HIDE DEF r, m
  <2>3. InScope(i, scope, wt[i]) /\ SameRuler(bin[i], wt[i])
    BY <1>1, <1>2, <1>4, RulerChecked, ScopeChecked DEF GateInv
  <2>4. Stands(r, wt, bin)
    BY <1>1, <1>2, <2>2, <2>3 DEF Stands
  <2> QED
    BY <1>1, <1>4, <2>1, <2>4, VerdictsKept, QuietMove
<1> QED
  BY <1>3, <1>4 DEF structuralGate

LEMMA RunTestsKeeps ==
  ASSUME GateInv, NEW p \in Procs, RunTests(p)
  PROVE  GateInv'
<1>1. /\ proc[p].pc = "tests" /\ Id(p) \in Ids /\ UNCHANGED <<wt, bin, sha>>
  BY HasId DEF RunTests, At
<1>2. /\ wt[Id(p)] # Nil /\ bin[Id(p)] # Nil
      /\ InScope(Id(p), proc[p].mem.scope, wt[Id(p)]) /\ SameRuler(bin[Id(p)], wt[Id(p)])
      /\ {"scope", "base", "cand"} \subseteq DOMAIN proc[p].mem
  BY <1>1, HasId DEF Stands, Holding, Locked, Id
<1>3. CASE Reject(p)
  BY <1>1, <1>3, Rejected, Returns DEF Reject
<1>4. CASE TestsPass(Id(p)) /\ Goto(p, "candidate") /\ UNCHANGED verdict
  BY <1>1, <1>2, <1>4, GoesOn DEF Stands, TestsPass
<1> QED
  BY <1>3, <1>4 DEF RunTests

\* The candidate is compiled from the tree that was tested.
LEMMA CandidateKeeps ==
  ASSUME GateInv, NEW p \in Procs, CompileCandidate(p)
  PROVE  GateInv'
<1> DEFINE r == [proc[p] EXCEPT !.pc = "measure", !.mem.cand = wt[Id(p)]]
<1>1. /\ proc[p].pc = "candidate" /\ Id(p) \in Ids /\ {"pc", "id", "mem"} \subseteq DOMAIN proc[p]
      /\ UNCHANGED <<wt, bin, sha, verdict>>
  BY HasId DEF CompileCandidate, At, files
<1>2. /\ wt[Id(p)] # Nil /\ bin[Id(p)] # Nil /\ wt[Id(p)].src \notin Broken
      /\ InScope(Id(p), proc[p].mem.scope, wt[Id(p)]) /\ SameRuler(bin[Id(p)], wt[Id(p)])
      /\ {"scope", "base", "cand"} \subseteq DOMAIN proc[p].mem
  BY <1>1, HasId DEF Stands, Holding, Locked, Id
<1>3. CASE Return(p)
  BY <1>1, <1>3, VerdictsKept, Returns
<1>4. CASE proc' = [proc EXCEPT ![p].pc = "measure", ![p].mem.cand = wt[Id(p)]]
  <2>1. proc' = [proc EXCEPT ![p] = r]
    BY <1>4 DEF GateInv
  <2>2. /\ {"pc", "id", "mem"} \subseteq DOMAIN r /\ r.pc = "measure" /\ r.id = Id(p)
        /\ r.mem = [proc[p].mem EXCEPT !.cand = wt[Id(p)]]
    BY <1>1 DEF Id
  <2> HIDE DEF r
  <2>3. /\ r.mem.scope = proc[p].mem.scope /\ r.mem.cand = wt[Id(p)]
        /\ {"scope", "base", "cand"} \subseteq DOMAIN r.mem
    BY <1>2, <2>2
  <2>4. Stands(r, wt, bin)
    BY <1>1, <1>2, <2>2, <2>3 DEF Stands
  <2> QED
    BY <1>1, <2>1, <2>4, VerdictsKept, QuietMove
<1> QED
  BY <1>3, <1>4 DEF CompileCandidate

LEMMA MeasureKeeps ==
  ASSUME GateInv, NEW p \in Procs, Measure(p)
  PROVE  GateInv'
<1> DEFINE i == Id(p)
           r == [proc[p] EXCEPT !.pc = "decide", !.mem.base = bin[i]]
<1>1. /\ proc[p].pc = "measure" /\ i \in Ids /\ {"pc", "id", "mem"} \subseteq DOMAIN proc[p]
      /\ UNCHANGED <<wt, bin, sha, verdict>>
  BY HasId DEF Measure, At
<1>2. /\ wt[i] # Nil /\ bin[i] # Nil
      /\ proc[p].mem.cand = wt[i] /\ wt[i].src \notin Broken
      /\ InScope(i, proc[p].mem.scope, wt[i]) /\ SameRuler(bin[i], wt[i])
      /\ {"scope", "base", "cand"} \subseteq DOMAIN proc[p].mem
  BY <1>1, HasId DEF Stands, Holding, Locked, Id
<1>3. CASE Return(p)
  BY <1>1, <1>3, VerdictsKept, Returns
<1>4. CASE proc' = [proc EXCEPT ![p].pc = "decide", ![p].mem.base = bin[i]]
  <2>1. proc' = [proc EXCEPT ![p] = r]
    BY <1>4 DEF GateInv
  <2>2. /\ {"pc", "id", "mem"} \subseteq DOMAIN r /\ r.pc = "decide" /\ r.id = i
        /\ r.mem = [proc[p].mem EXCEPT !.base = bin[i]]
    BY <1>1 DEF Id
  <2> HIDE DEF r
  <2>3. r.mem.scope = proc[p].mem.scope /\ r.mem.cand = wt[i] /\ r.mem.base = bin[i]
    BY <1>2, <2>2
  <2>4. Judged(i, r.mem)
    BY <1>2, <2>3 DEF Judged
  <2>5. Stands(r, wt, bin)
    BY <1>1, <1>2, <2>2, <2>4 DEF Stands
  <2> QED
    BY <1>1, <2>1, <2>5, VerdictsKept, QuietMove
<1> QED
  BY <1>3, <1>4 DEF Measure

LEMMA DecideKeeps ==
  ASSUME GateInv, NEW p \in Procs, Decide(p)
  PROVE  GateInv'
<1> DEFINE i == Id(p)
<1>1. /\ proc[p].pc = "decide" /\ i \in Ids /\ Return(p) /\ UNCHANGED <<wt, bin, sha>>
      /\ Judged(i, proc[p].mem)
  BY HasId DEF Decide, At, Stands, Id
<1>2. CASE Record(p, "proved", proc[p].mem, TRUE)
  <2> DEFINE shown == IF table[i] = Nil THEN "none"
                      ELSE IF TRUE /\ table[i] = p THEN "own" ELSE "old"
             v == [status |-> "proved", run |-> proc[p].mem, table |-> shown]
  <2>1. verdict' = [verdict EXCEPT ![i] = v]
    BY <1>2 DEF Record
  <2> HIDE DEF shown
  <2>2. {"status", "run"} \subseteq DOMAIN v /\ v.run = proc[p].mem
    OBVIOUS
  <2> HIDE DEF v
  <2>3. VerdictOk(v, i)
    BY <1>1, <2>2 DEF VerdictOk
  <2> QED
    BY <1>1, <2>1, <2>3, VerdictWritten, Returns
<1>3. CASE Record(p, "rejected", Nil, TRUE)
  BY <1>1, <1>3, Rejected, Returns
<1>4. CASE UNCHANGED verdict
  BY <1>1, <1>4, VerdictsKept, Returns
<1> QED
  BY <1>2, <1>3, <1>4 DEF Decide

\* The critic writes back what it read, with its own mark, and proves nothing new.
LEMMA CriticKeeps ==
  ASSUME GateInv, NEW p \in Procs, CriticWrite(p)
  PROVE  GateInv'
<1> DEFINE i == Id(p)
           v == proc[p].mem
<1>1. /\ proc[p].pc = "critic" /\ i \in Ids /\ Return(p) /\ UNCHANGED <<wt, bin, sha>>
      /\ v # Nil /\ VerdictOk(v, i)
  BY HasId DEF CriticWrite, At, Stands, Id
<1>2. PICK reject \in BOOLEAN : verdict' = [verdict EXCEPT ![i] = ApplyCritic(v, reject)]
  BY DEF CriticWrite
<1> DEFINE w == [v EXCEPT !.status = "need_more_data", !.run = Nil]
<1>3. \/ w.status = "need_more_data" /\ {"status", "run"} \subseteq DOMAIN w
      \/ ApplyCritic(v, reject) = v
  BY <1>1 DEF ApplyCritic, VerdictOk
<1>4. ApplyCritic(v, reject) \in {v, w}
  BY DEF ApplyCritic
<1>5. VerdictOk(w, i) \/ ApplyCritic(v, reject) = v
  <2> HIDE DEF w
  <2> QED
    BY <1>3 DEF VerdictOk
<1> DEFINE u == ApplyCritic(v, reject)
<1> HIDE DEF w
<1>6. VerdictOk(u, i)
  BY <1>1, <1>4, <1>5
<1> QED
  BY <1>1, <1>2, <1>3, <1>6, VerdictWritten, Returns

-----------------------------------------------------------------------------
(* The rest of the steps *)

LEMMA OptInKeeps ==
  ASSUME GateInv, NEW p \in Procs, OptIn(p)
  PROVE  GateInv'
<1>1. proc[p].pc = "optin" /\ Id(p) \in Ids /\ UNCHANGED <<wt, bin, sha>>
  BY HasId DEF OptIn, At
<1>2. CASE NeedMoreData(Id(p)) /\ Return(p)
  BY <1>1, <1>2, NotProvedYet, Returns
<1>3. CASE Goto(p, "tree") /\ UNCHANGED verdict
  BY <1>1, <1>3, VerdictsKept, GoesCareless DEF Careless
<1> QED
  BY <1>2, <1>3 DEF OptIn

LEMMA SetNameKeeps ==
  ASSUME GateInv, NEW p \in Procs, SetBenchmarkName(p)
  PROVE  GateInv'
<1>1. proc[p].pc = "save" /\ Id(p) \in Ids /\ Goto(p, "compile") /\ UNCHANGED <<wt, bin, sha, verdict>>
  BY HasId DEF SetBenchmarkName, At
<1> QED
  BY <1>1, VerdictsKept, GoesCareless DEF Careless

\* An idle command starts as r.
LEMMA Starts ==
  ASSUME GateInv, NEW p \in Procs, At(p, "idle"), NEW r, proc' = [proc EXCEPT ![p] = r],
         Stands(r, wt, bin), UNCHANGED files
  PROVE  GateInv'
BY VerdictsKept, QuietMove DEF At, files

LEMMA BaselineKeeps ==
  ASSUME GateInv, NEW p \in Procs, NEW i \in Ids, Baseline(p, i)
  PROVE  GateInv'
<1> DEFINE r(v) == [pc |-> "optin", id |-> i, validate |-> v, hyp |-> hyps[i], mem |-> Nil]
<1>1. At(p, "idle") /\ UNCHANGED files /\ \E v \in BOOLEAN : proc' = [proc EXCEPT ![p] = r(v)]
  BY Zenon DEF Baseline
<1>2. \A v : {"pc", "id", "mem"} \subseteq DOMAIN r(v) /\ r(v).pc = "optin" /\ r(v).id = i
  OBVIOUS
<1> HIDE DEF r
<1> QED
  BY <1>1, <1>2, CarelessStands, Starts DEF Careless

LEMMA VerdictKeeps ==
  ASSUME GateInv, NEW p \in Procs, NEW i \in Ids, Verdict(p, i)
  PROVE  GateInv'
<1> DEFINE r == [Idle EXCEPT !.pc = "exists", !.id = i]
<1>1. {"pc", "id", "mem"} \subseteq DOMAIN r /\ r.pc = "exists" /\ r.id = i
  BY DEF Idle
<1>2. At(p, "idle") /\ proc' = [proc EXCEPT ![p] = r] /\ UNCHANGED files
  BY DEF Verdict
<1> HIDE DEF r
<1> QED
  BY <1>1, <1>2, CarelessStands, Starts DEF Careless

LEMMA CriticReadKeeps ==
  ASSUME GateInv, NEW p \in Procs, NEW i \in Ids, CriticRead(p, i)
  PROVE  GateInv'
<1> DEFINE r == [Idle EXCEPT !.pc = "critic", !.id = i, !.mem = verdict[i]]
<1>1. {"pc", "id", "mem"} \subseteq DOMAIN r /\ r.pc = "critic" /\ r.id = i /\ r.mem = verdict[i]
  BY DEF Idle
<1>2. /\ At(p, "idle") /\ proc' = [proc EXCEPT ![p] = r] /\ UNCHANGED files
      /\ verdict[i] # Nil /\ VerdictOk(verdict[i], i)
  BY DEF CriticRead, GateInv
<1> HIDE DEF r
<1>3. Stands(r, wt, bin)
  BY <1>1, <1>2 DEF Stands, Holding, Locked
<1> QED
  BY <1>2, <1>3, Starts

LEMMA CrashKeeps ==
  ASSUME GateInv, NEW p \in Procs, Crash(p)
  PROVE  GateInv'
BY VerdictsKept, Returns DEF Crash, files

\* Nobody relies on a worktree that may change.
LEMMA NobodyHolds ==
  ASSUME Undisturbed, NEW i, Free(i, {}), NEW p \in Procs, proc[p].pc \in Holding
  PROVE  proc[p].id # i
BY DEF Undisturbed, Free, At, Id, Holding, Locked

LEMMA EditKeeps ==
  ASSUME Undisturbed, GateInv, NEW i \in Ids, Edit(i)
  PROVE  GateInv'
<1>1. /\ UNCHANGED <<bin, sha, verdict, proc>> /\ Free(i, {})
      /\ wt' \in [Ids -> Tree \cup {Nil}] /\ \A j \in Ids \ {i} : wt'[j] = wt[j]
  BY GateAssumption DEF Edit, GateInv
<1>2. \A p \in Procs : Stands(proc[p], wt', bin')
  <2> TAKE p \in Procs
  <2>1. proc[p].pc \in Holding => proc[p].id \in Ids \ {i}
    BY <1>1, NobodyHolds DEF GateInv, Stands, Holding, Locked
  <2> QED
    BY <1>1, <2>1, StandsKept DEF GateInv
<1>3. \A j \in Ids : VerdictOk(verdict'[j], j) /\ HashMatches(j)'
  BY <1>1 DEF GateInv, HashMatches
<1> QED
  BY <1>1, <1>2, <1>3 DEF GateInv

LEMMA CleanKeeps ==
  ASSUME Undisturbed, GateInv, Clean
  PROVE  GateInv'
<1>1. /\ UNCHANGED <<bin, sha, verdict, proc>> /\ \A i \in Ids : Free(i, {})
      /\ wt' \in [Ids -> Tree \cup {Nil}]
  BY DEF Clean
<1>2. \A p \in Procs : Stands(proc[p], wt', bin')
  <2> TAKE p \in Procs
  <2>1. proc[p].pc \notin Holding
    BY <1>1, NobodyHolds DEF GateInv, Stands, Holding, Locked
  <2> QED
    BY <1>1, <2>1, StandsKept DEF GateInv
<1>3. \A j \in Ids : VerdictOk(verdict'[j], j) /\ HashMatches(j)'
  BY <1>1 DEF GateInv, HashMatches
<1> QED
  BY <1>1, <1>2, <1>3 DEF GateInv

LEMMA NothingMoves ==
  ASSUME GateInv, UNCHANGED <<wt, bin, sha, verdict, proc>>
  PROVE  GateInv'
<1>1. \A j \in Ids : HashMatches(j)'
  BY DEF GateInv, HashMatches
<1> QED
  BY <1>1 DEF GateInv

LEMMA GateStep ==
  ASSUME Undisturbed, GateInv, NEW p \in Procs, Step(p)
  PROVE  GateInv'
BY OptInKeeps, WorktreeKeeps, ResolveKeeps, LoadKeeps, SetNameKeeps, CompileKeeps,
   SnapshotKeeps, ApplyPatchKeeps, CheckBaselineKeeps, TakeLockKeeps, StructuralKeeps,
   RunTestsKeeps, CandidateKeeps, MeasureKeeps, DecideKeeps, CriticKeeps DEF Step

LEMMA GateNext ==
  ASSUME Undisturbed, GateInv, [Next]_vars
  PROVE  GateInv'
<1>1. CASE SetScope \/ UNCHANGED vars
  BY <1>1, NothingMoves DEF SetScope, vars, files
<1>2. CASE Clean \/ \E i \in Ids : Edit(i)
  BY <1>2, EditKeeps, CleanKeeps
<1>3. CASE \E p \in Procs : Step(p) \/ Crash(p)
  BY <1>3, GateStep, CrashKeeps
<1>4. CASE \E p \in Procs, i \in Ids : Baseline(p, i) \/ Verdict(p, i) \/ CriticRead(p, i)
  BY <1>4, BaselineKeeps, VerdictKeeps, CriticReadKeeps
<1> QED
  BY <1>1, <1>2, <1>3, <1>4 DEF Next

LEMMA GateInit == Init => GateInv
<1> SUFFICES ASSUME Init PROVE GateInv
  OBVIOUS
<1>1. \A p \in Procs : Stands(proc[p], wt, bin)
  BY IdleFacts DEF Init, Stands, Holding, Locked
<1>2. \A i \in Ids : VerdictOk(verdict[i], i) /\ HashMatches(i)
  BY DEF Init, VerdictOk, HashMatches
<1> QED
  BY <1>1, <1>2 DEF Init, GateInv

\* What was measured for a proved verdict is a tree that passed its tests, whatever
\* commands run beside it, as long as nobody changes a worktree that a command uses.
THEOREM ProofPassed == ASSUME Undisturbed PROVE Spec => []ProvedPassesTests
<1>1. Init => GateInv
  BY GateInit
<1>2. GateInv /\ [Next]_vars => GateInv'
  BY GateNext
<1>3. GateInv => ProvedPassesTests
  BY DEF GateInv, VerdictOk, Judged, ProvedPassesTests, Status, Measurement
<1> QED
  BY <1>1, <1>2, <1>3, PTL DEF Spec

\* ... and it is inside the scope that the gate read, if git lists every stray change.
THEOREM ProofInScope ==
  ASSUME Undisturbed, Strays \subseteq Listed PROVE Spec => []ScopeRespected
<1>1. Init => GateInv
  BY GateInit
<1>2. GateInv /\ [Next]_vars => GateInv'
  BY GateNext
<1>3. GateInv => ScopeRespected
  BY DEF GateInv, VerdictOk, Judged, InScope, ScopeRespected, Status, Measurement
<1> QED
  BY <1>1, <1>2, <1>3, PTL DEF Spec

\* ... and has the tests and benchmarks of its baseline, if no command is killed
\* between the baseline's binary and the hash of its tests.
THEOREM ProofKeepsRuler == ASSUME Undisturbed, "sha" \notin Kills PROVE Spec => []RulerFixed
<1>1. Init => GateInv
  BY GateInit
<1>2. GateInv /\ [Next]_vars => GateInv'
  BY GateNext
<1>3. GateInv => RulerFixed
  BY DEF GateInv, VerdictOk, Judged, SameRuler, RulerFixed, Status, Measurement
<1> QED
  BY <1>1, <1>2, <1>3, PTL DEF Spec
=============================================================================
