------------------------ MODULE HypothesisGateProofs -------------------------
(***************************************************************************)
(* Proofs about HypothesisGate, for any hypotheses, commands, contents of  *)
(* worktrees, kills and edits: the lock, the table of a proof, what makes  *)
(* a verdict a proof, and the types.                                       *)
(***************************************************************************)
EXTENDS HypothesisGate, TLAPS

-----------------------------------------------------------------------------
(* The lock *)

HasPc == DOMAIN proc = Procs /\ \A p \in Procs : "pc" \in DOMAIN proc[p]
LockInv == HasPc /\ LockMatchesCommand

\* Only p moves, and it stays on its side of the lock.
LEMMA MoveKeepsLock ==
  ASSUME LockInv, NEW p \in Procs, NEW r, "pc" \in DOMAIN r,
         proc' = [proc EXCEPT ![p] = r], lock' = lock,
         r.pc \in Locked <=> proc[p].pc \in Locked
  PROVE  LockInv'
BY DEF LockInv, HasPc, LockMatchesCommand

LEMMA ReturnKeepsLock ==
  ASSUME LockInv, NEW p \in Procs, Return(p)
  PROVE  LockInv'
BY GateAssumption DEF LockInv, HasPc, LockMatchesCommand, Return, Idle, Locked

LEMMA GotoKeepsLock ==
  ASSUME LockInv, NEW p \in Procs, NEW at, Goto(p, at), lock' = lock,
         at \in Locked <=> proc[p].pc \in Locked
  PROVE  LockInv'
<1> DEFINE r == [proc[p] EXCEPT !.pc = at]
<1>1. "pc" \in DOMAIN r /\ r.pc = at /\ proc' = [proc EXCEPT ![p] = r]
  BY DEF Goto, LockInv, HasPc
<1> HIDE DEF r
<1> QED
  BY <1>1, MoveKeepsLock

\* A command that starts; nothing is locked by it yet.
LEMMA StartKeepsLock ==
  ASSUME LockInv, NEW p \in Procs, At(p, "idle"), lock' = lock, NEW r, "pc" \in DOMAIN r,
         r.pc \in {"optin", "exists", "critic"}, proc' = [proc EXCEPT ![p] = r]
  PROVE  LockInv'
BY MoveKeepsLock DEF At, Locked

LEMMA LockStep ==
  ASSUME LockInv, NEW p \in Procs, Step(p)
  PROVE  LockInv'
<1> USE DEF At, Locked
<1>1. CASE OptIn(p)
  BY <1>1, ReturnKeepsLock, GotoKeepsLock DEF OptIn
<1>2. CASE Worktree(p)
  BY <1>2, ReturnKeepsLock, GotoKeepsLock DEF Worktree
<1>3. CASE ResolveBenchmark(p)
  <2>1. ASSUME NEW b, proc' = [proc EXCEPT ![p].pc = "load", ![p].hyp.name = b],
               proc[p].pc = "bench", lock' = lock
        PROVE  LockInv'
    <3> DEFINE r == [proc[p] EXCEPT !.pc = "load", !.hyp.name = b]
    <3>1. "pc" \in DOMAIN r /\ r.pc = "load" /\ proc' = [proc EXCEPT ![p] = r]
      BY <2>1 DEF LockInv, HasPc
    <3> HIDE DEF r
    <3> QED
      BY <2>1, <3>1, MoveKeepsLock
  <2> QED
    BY <1>3, <2>1, ReturnKeepsLock, GotoKeepsLock DEF ResolveBenchmark, AfterBaseline
<1>4. CASE LoadHypotheses(p)
  <2> DEFINE r == [proc[p] EXCEPT !.pc = "save", !.mem = hyps]
  <2>1. "pc" \in DOMAIN r /\ r.pc = "save" /\ proc' = [proc EXCEPT ![p] = r]
    BY <1>4 DEF LoadHypotheses, LockInv, HasPc
  <2> HIDE DEF r
  <2> QED
    BY <1>4, <2>1, MoveKeepsLock DEF LoadHypotheses
<1>5. CASE SetBenchmarkName(p)
  BY <1>5, GotoKeepsLock DEF SetBenchmarkName
<1>6. CASE CompileBaseline(p)
  BY <1>6, ReturnKeepsLock, GotoKeepsLock DEF CompileBaseline
<1>7. CASE SnapshotTests(p)
  BY <1>7, ReturnKeepsLock, GotoKeepsLock DEF SnapshotTests, AfterBaseline
<1>8. CASE ApplyPatch(p)
  BY <1>8, ReturnKeepsLock, GotoKeepsLock DEF ApplyPatch
<1>9. CASE CheckBaseline(p)
  <2> DEFINE r == [proc[p] EXCEPT !.pc = "lock", !.hyp = hyps[Id(p)], !.mem = Nil]
  <2>1. "pc" \in DOMAIN r /\ r.pc = "lock"
    BY DEF LockInv, HasPc
  <2>2. CASE Return(p)
    BY <2>2, ReturnKeepsLock
  <2>3. CASE proc' = [proc EXCEPT ![p].pc = "lock", ![p].hyp = hyps[Id(p)], ![p].mem = Nil]
             /\ lock' = lock
    <3>1. proc' = [proc EXCEPT ![p] = r]
      BY <2>3 DEF LockInv, HasPc
    <3>2. proc[p].pc = "exists"
      BY <1>9 DEF CheckBaseline
    <3> HIDE DEF r
    <3> QED
      BY <2>1, <2>3, <3>1, <3>2, MoveKeepsLock
  <2> QED
    BY <1>9, <2>2, <2>3 DEF CheckBaseline
<1>10. CASE TakeLock(p)
  <2>1. CASE lock = Nil /\ lock' = p /\ Goto(p, "gate")
    BY <2>1, GateAssumption DEF Goto, LockInv, HasPc, LockMatchesCommand
  <2> QED
    BY <1>10, <2>1, ReturnKeepsLock DEF TakeLock
<1>11. CASE structuralGate(p)
  <2>1. CASE Return(p)
    BY <2>1, ReturnKeepsLock
  <2>2. ASSUME NEW m, proc' = [proc EXCEPT ![p].pc = "tests", ![p].mem = m],
               proc[p].pc = "gate", lock' = lock
        PROVE  LockInv'
    <3> DEFINE r == [proc[p] EXCEPT !.pc = "tests", !.mem = m]
    <3>1. "pc" \in DOMAIN r /\ r.pc = "tests" /\ proc' = [proc EXCEPT ![p] = r]
      BY <2>2 DEF LockInv, HasPc
    <3> HIDE DEF r
    <3> QED
      BY <2>2, <3>1, MoveKeepsLock
  <2> QED
    BY <1>11, <2>1, <2>2 DEF structuralGate, Reject
<1>12. CASE RunTests(p)
  BY <1>12, ReturnKeepsLock, GotoKeepsLock DEF RunTests, Reject
<1>13. CASE CompileCandidate(p)
  <2> DEFINE r == [proc[p] EXCEPT !.pc = "measure", !.mem.cand = wt[Id(p)]]
  <2>1. "pc" \in DOMAIN r /\ r.pc = "measure"
    BY DEF LockInv, HasPc
  <2>2. CASE proc' = [proc EXCEPT ![p].pc = "measure", ![p].mem.cand = wt[Id(p)]]
             /\ lock' = lock
    <3>1. proc' = [proc EXCEPT ![p] = r]
      BY <2>2 DEF LockInv, HasPc
    <3>2. proc[p].pc = "candidate"
      BY <1>13 DEF CompileCandidate
    <3> HIDE DEF r
    <3> QED
      BY <2>1, <2>2, <3>1, <3>2, MoveKeepsLock
  <2> QED
    BY <1>13, <2>2, ReturnKeepsLock DEF CompileCandidate
<1>14. CASE Measure(p)
  <2> DEFINE r == [proc[p] EXCEPT !.pc = "decide", !.mem.base = bin[Id(p)]]
  <2>1. "pc" \in DOMAIN r /\ r.pc = "decide"
    BY DEF LockInv, HasPc
  <2>2. CASE proc' = [proc EXCEPT ![p].pc = "decide", ![p].mem.base = bin[Id(p)]]
             /\ lock' = lock
    <3>1. proc' = [proc EXCEPT ![p] = r]
      BY <2>2 DEF LockInv, HasPc
    <3>2. proc[p].pc = "measure"
      BY <1>14 DEF Measure
    <3> HIDE DEF r
    <3> QED
      BY <2>1, <2>2, <3>1, <3>2, MoveKeepsLock
  <2> QED
    BY <1>14, <2>2, ReturnKeepsLock DEF Measure
<1>15. CASE Decide(p) \/ CriticWrite(p)
  BY <1>15, ReturnKeepsLock DEF Decide, CriticWrite
<1> QED
  BY <1>1, <1>2, <1>3, <1>4, <1>5, <1>6, <1>7, <1>8, <1>9, <1>10, <1>11, <1>12, <1>13, <1>14,
     <1>15 DEF Step

LEMMA LockNext ==
  ASSUME LockInv, [Next]_vars
  PROVE  LockInv'
<1>1. ASSUME NEW p \in Procs, Step(p) PROVE LockInv'
  BY <1>1, LockStep
<1>2. ASSUME NEW p \in Procs, Crash(p) PROVE LockInv'
  BY <1>2, ReturnKeepsLock DEF Crash
<1>3. ASSUME NEW p \in Procs, NEW i \in Ids, Baseline(p, i) PROVE LockInv'
  <2> DEFINE r(v) == [pc |-> "optin", id |-> i, validate |-> v, hyp |-> hyps[i], mem |-> Nil]
  <2>1. At(p, "idle") /\ lock' = lock /\ \E v \in BOOLEAN : proc' = [proc EXCEPT ![p] = r(v)]
    BY <1>3, Zenon DEF Baseline
  <2>2. \A v : "pc" \in DOMAIN r(v) /\ r(v).pc = "optin"
    BY Zenon
  <2> HIDE DEF r
  <2> QED
    BY <2>1, <2>2, StartKeepsLock
<1>4. ASSUME NEW p \in Procs, NEW i \in Ids, Verdict(p, i) PROVE LockInv'
  <2> DEFINE r == [Idle EXCEPT !.pc = "exists", !.id = i]
  <2>1. "pc" \in DOMAIN r /\ r.pc = "exists"
    BY DEF Idle
  <2>2. At(p, "idle") /\ proc' = [proc EXCEPT ![p] = r] /\ lock' = lock
    BY <1>4 DEF Verdict
  <2> HIDE DEF r
  <2> QED
    BY <2>1, <2>2, StartKeepsLock
<1>5. ASSUME NEW p \in Procs, NEW i \in Ids, CriticRead(p, i) PROVE LockInv'
  <2> DEFINE r == [Idle EXCEPT !.pc = "critic", !.id = i, !.mem = verdict[i]]
  <2>1. "pc" \in DOMAIN r /\ r.pc = "critic"
    BY DEF Idle
  <2>2. At(p, "idle") /\ proc' = [proc EXCEPT ![p] = r] /\ lock' = lock
    BY <1>5 DEF CriticRead
  <2> HIDE DEF r
  <2> QED
    BY <2>1, <2>2, StartKeepsLock
<1>6. CASE UNCHANGED <<lock, proc>>
  BY <1>6 DEF LockInv, HasPc, LockMatchesCommand
<1>7. CASE Clean \/ SetScope \/ \E i \in Ids : Edit(i)
  BY <1>6, <1>7 DEF Clean, SetScope, Edit
<1> QED
  BY <1>1, <1>2, <1>3, <1>4, <1>5, <1>6, <1>7 DEF Next, vars

\* A command holds the bench lock exactly while it judges a candidate: every way out
\* frees it, an error or a kill included, and no command frees another's.
THEOREM LockCorrect == Spec => []LockMatchesCommand
<1>1. Init => LockInv
  BY GateAssumption DEF Init, LockInv, HasPc, LockMatchesCommand, Idle, Locked
<1>2. LockInv /\ [Next]_vars => LockInv'
  BY LockNext
<1>3. LockInv => LockMatchesCommand
  BY DEF LockInv
<1> QED
  BY <1>1, <1>2, <1>3, PTL DEF Spec

-----------------------------------------------------------------------------
(* The table of a proof *)

\* A verdict that is not a proof, or has the table of its own measurement or none.
TableOk(v) ==
  v = Nil \/ ({"status", "table"} \subseteq DOMAIN v /\ (v.status = "proved" => v.table # "old"))

\* The table in its hypothesis' directory is r's, or empty, when r decides; t is all tables.
Shows(r, p, t) ==
  /\ {"pc", "id", "mem"} \subseteq DOMAIN r
  /\ r.pc # "idle" => r.id \in Ids
  /\ r.pc = "decide" => t[r.id] \in {p, Nil}
  /\ r.pc = "critic" => r.mem # Nil /\ TableOk(r.mem)

TableInv ==
  /\ LockInv /\ DOMAIN table = Ids /\ DOMAIN verdict = Ids
  /\ \A p \in Procs : Shows(proc[p], p, table)
  /\ \A i \in Ids : TableOk(verdict[i])

Verdicts == DOMAIN verdict = Ids /\ \A i \in Ids : TableOk(verdict[i])

\* p becomes r and neither decides nor reviews next.
LEMMA PlainMove ==
  ASSUME TableInv, LockInv', NEW p \in Procs, NEW r, proc' = [proc EXCEPT ![p] = r],
         {"pc", "id", "mem"} \subseteq DOMAIN r, r.pc \notin {"decide", "critic"},
         r.pc # "idle" => r.id \in Ids, table' = table, Verdicts'
  PROVE  TableInv'
<1>1. \A q \in Procs \ {p} : proc'[q] = proc[q]
  BY DEF TableInv, LockInv, HasPc
<1>2. proc'[p] = r
  BY DEF TableInv, LockInv, HasPc
<1> QED
  BY <1>1, <1>2 DEF TableInv, Shows, Verdicts

LEMMA PlainReturn ==
  ASSUME TableInv, LockInv', NEW p \in Procs, Return(p), table' = table, Verdicts'
  PROVE  TableInv'
<1>1. {"pc", "id", "mem"} \subseteq DOMAIN Idle /\ Idle.pc = "idle"
  BY DEF Idle
<1> QED
  BY <1>1, PlainMove DEF Return

LEMMA PlainGoto ==
  ASSUME TableInv, LockInv', NEW p \in Procs, NEW at, Goto(p, at), proc[p].pc # "idle",
         at \notin {"decide", "critic"}, table' = table, Verdicts'
  PROVE  TableInv'
<1> DEFINE r == [proc[p] EXCEPT !.pc = at]
<1>1. {"pc", "id", "mem"} \subseteq DOMAIN proc[p] /\ Id(p) \in Ids
  BY DEF TableInv, Shows, Id
<1>2. {"pc", "id", "mem"} \subseteq DOMAIN r /\ r.pc = at /\ r.id \in Ids
  BY <1>1 DEF Id
<1>3. proc' = [proc EXCEPT ![p] = r]
  BY DEF Goto, TableInv, LockInv, HasPc
<1> HIDE DEF r
<1> QED
  BY <1>2, <1>3, PlainMove

LEMMA SameVerdicts ==
  ASSUME TableInv, verdict' = verdict
  PROVE  Verdicts'
BY DEF TableInv, Verdicts

LEMMA OneVerdict ==
  ASSUME TableInv, NEW i \in Ids, NEW v, TableOk(v), verdict' = [verdict EXCEPT ![i] = v]
  PROVE  Verdicts'
BY DEF TableInv, Verdicts

LEMMA NoProofWritten ==
  ASSUME TableInv, NEW i \in Ids, NeedMoreData(i)
  PROVE  Verdicts'
<1>1. TableOk(Placeholder)
  BY DEF Placeholder, TableOk
<1> QED
  BY <1>1, OneVerdict DEF NeedMoreData

\* What a command records is a proof only if the table is its own or empty.
LEMMA Recorded ==
  ASSUME TableInv, NEW p \in Procs, Id(p) \in Ids, NEW s, NEW run, NEW m,
         s = "proved" => m /\ table[Id(p)] \in {p, Nil}, Record(p, s, run, m)
  PROVE  Verdicts'
<1> DEFINE shown == IF table[Id(p)] = Nil THEN "none"
                    ELSE IF m /\ table[Id(p)] = p THEN "own" ELSE "old"
           v == [status |-> s, run |-> run, table |-> shown]
<1>1. verdict' = [verdict EXCEPT ![Id(p)] = v]
  BY DEF Record
<1>2. s = "proved" => shown # "old"
  BY GateAssumption
<1> HIDE DEF shown
<1>3. {"status", "table"} \subseteq DOMAIN v /\ v.status = s /\ v.table = shown
  OBVIOUS
<1> HIDE DEF v
<1>4. TableOk(v)
  BY <1>2, <1>3 DEF TableOk
<1> QED
  BY <1>1, <1>4, OneVerdict

LEMMA Running ==
  ASSUME TableInv, NEW p \in Procs, proc[p].pc # "idle"
  PROVE  {"pc", "id", "mem"} \subseteq DOMAIN proc[p] /\ Id(p) \in Ids
BY DEF TableInv, Shows, Id

\* Nobody but the one who measures is past the lock, so no one else decides.
LEMMA MeasureTable ==
  ASSUME TableInv, LockInv', NEW p \in Procs, Measure(p)
  PROVE  TableInv'
<1> DEFINE r == [proc[p] EXCEPT !.pc = "decide", !.mem.base = bin[Id(p)]]
<1>1. /\ proc[p].pc = "measure" /\ Verdicts'
      /\ {"pc", "id", "mem"} \subseteq DOMAIN proc[p] /\ Id(p) \in Ids
  BY Running, SameVerdicts DEF Measure, At
<1> DOMAIN proc = Procs
  BY DEF TableInv, LockInv, HasPc
<1>2. CASE Return(p) /\ UNCHANGED table
  BY <1>1, <1>2, PlainReturn
<1>3. ASSUME NEW t \in {p, Nil}, table' = [table EXCEPT ![Id(p)] = t],
             proc' = [proc EXCEPT ![p].pc = "decide", ![p].mem.base = bin[Id(p)]]
      PROVE  TableInv'
  <2>1. proc' = [proc EXCEPT ![p] = r]
    BY <1>3
  <2>2. {"pc", "id", "mem"} \subseteq DOMAIN r /\ r.pc = "decide" /\ r.id = Id(p)
    BY <1>1 DEF Id
  <2> HIDE DEF r
  <2>3. \A q \in Procs \ {p} : proc'[q] = proc[q] /\ proc[q].pc # "decide"
    BY <1>1, <2>1 DEF TableInv, LockInv, HasPc, LockMatchesCommand, Locked
  <2>4. Shows(r, p, table')
    BY <1>1, <1>3, <2>2 DEF Shows, TableInv
  <2>5. proc'[p] = r
    BY <2>1 DEF TableInv, LockInv, HasPc
  <2>6. \A q \in Procs \ {p} : Shows(proc'[q], q, table')
    BY <2>3 DEF TableInv, Shows
  <2> QED
    BY <1>1, <1>3, <2>4, <2>5, <2>6 DEF TableInv, Verdicts
<1> QED
  BY <1>2, <1>3 DEF Measure

LEMMA DecideTable ==
  ASSUME TableInv, LockInv', NEW p \in Procs, Decide(p)
  PROVE  TableInv'
<1>1. proc[p].pc = "decide" /\ Id(p) \in Ids /\ table[Id(p)] \in {p, Nil}
  BY DEF Decide, At, TableInv, Shows, Id
<1>2. Verdicts'
  BY <1>1, Recorded, SameVerdicts DEF Decide
<1> QED
  BY <1>2, PlainReturn DEF Decide

LEMMA CriticTable ==
  ASSUME TableInv, LockInv', NEW p \in Procs, CriticWrite(p)
  PROVE  TableInv'
<1> DEFINE i == Id(p)
           v == proc[p].mem
           w == [v EXCEPT !.status = "need_more_data", !.run = Nil]
<1>1. proc[p].pc = "critic" /\ i \in Ids /\ v # Nil /\ TableOk(v)
  BY DEF CriticWrite, At, TableInv, Shows, Id
<1>2. PICK reject \in BOOLEAN : verdict' = [verdict EXCEPT ![i] = ApplyCritic(v, reject)]
  BY DEF CriticWrite
<1>3. w.status = "need_more_data" /\ {"status", "table"} \subseteq DOMAIN w
  BY <1>1 DEF TableOk
<1>4. ApplyCritic(v, reject) \in {v, w}
  BY DEF ApplyCritic
<1> HIDE DEF w
<1>5. TableOk(w)
  BY <1>3 DEF TableOk
<1>6. TableOk(ApplyCritic(v, reject))
  BY <1>1, <1>4, <1>5
<1> QED
  BY <1>1, <1>2, <1>6, OneVerdict, PlainReturn DEF CriticWrite

LEMMA TableStep ==
  ASSUME TableInv, LockInv', NEW p \in Procs, Step(p)
  PROVE  TableInv'
<1> USE DEF At, files
<1> DEFINE i == Id(p)
<1> DOMAIN proc = Procs
  BY DEF TableInv, LockInv, HasPc
<1>1. CASE Return(p) /\ table' = table /\ Verdicts'
  BY <1>1, PlainReturn
<1>2. ASSUME NEW at, Goto(p, at), proc[p].pc # "idle", at \notin {"decide", "critic"},
             table' = table, Verdicts'
      PROVE  TableInv'
  BY <1>2, PlainGoto
<1>3. CASE OptIn(p)
  <2>1. Verdicts'
    BY <1>3, NoProofWritten, SameVerdicts, Running DEF OptIn
  <2> QED
    BY <1>1, <1>2, <1>3, <2>1 DEF OptIn
<1>4. CASE Worktree(p)
  BY <1>1, <1>2, <1>4, SameVerdicts DEF Worktree
<1>5. CASE ResolveBenchmark(p)
  <2>1. Verdicts' /\ proc[p].pc = "bench" /\ table' = table
    BY <1>5, NoProofWritten, SameVerdicts, Running DEF ResolveBenchmark
  <2>2. ASSUME NEW n, proc' = [proc EXCEPT ![p].pc = "load", ![p].hyp.name = n]
        PROVE  TableInv'
    <3> DEFINE r == [proc[p] EXCEPT !.pc = "load", !.hyp.name = n]
    <3>1. proc' = [proc EXCEPT ![p] = r]
      BY <2>2
    <3>2. {"pc", "id", "mem"} \subseteq DOMAIN r /\ r.pc = "load" /\ r.id \in Ids
      BY <2>1, Running DEF Id
    <3> HIDE DEF r
    <3> QED
      BY <2>1, <3>1, <3>2, PlainMove
  <2> QED
    BY <1>1, <1>2, <1>5, <2>1, <2>2 DEF ResolveBenchmark, AfterBaseline
<1>6. CASE LoadHypotheses(p)
  <2> DEFINE r == [proc[p] EXCEPT !.pc = "save", !.mem = hyps]
  <2>1. proc' = [proc EXCEPT ![p] = r] /\ proc[p].pc = "load" /\ table' = table /\ Verdicts'
    BY <1>6, SameVerdicts DEF LoadHypotheses
  <2>2. {"pc", "id", "mem"} \subseteq DOMAIN r /\ r.pc = "save" /\ r.id \in Ids
    BY <2>1, Running DEF Id
  <2> HIDE DEF r
  <2> QED
    BY <2>1, <2>2, PlainMove
<1>7. CASE SetBenchmarkName(p)
  BY <1>2, <1>7, SameVerdicts DEF SetBenchmarkName
<1>8. CASE CompileBaseline(p)
  BY <1>1, <1>2, <1>8, SameVerdicts DEF CompileBaseline
<1>9. CASE SnapshotTests(p)
  BY <1>1, <1>2, <1>9, SameVerdicts DEF SnapshotTests, AfterBaseline
<1>10. CASE ApplyPatch(p)
  BY <1>1, <1>2, <1>10, SameVerdicts DEF ApplyPatch
<1>11. CASE CheckBaseline(p)
  <2> DEFINE r == [proc[p] EXCEPT !.pc = "lock", !.hyp = hyps[i], !.mem = Nil]
  <2>1. proc[p].pc = "exists" /\ table' = table /\ Verdicts'
    BY <1>11, SameVerdicts DEF CheckBaseline
  <2>2. CASE proc' = [proc EXCEPT ![p].pc = "lock", ![p].hyp = hyps[i], ![p].mem = Nil]
    <3>1. proc' = [proc EXCEPT ![p] = r]
      BY <2>2
    <3>2. {"pc", "id", "mem"} \subseteq DOMAIN r /\ r.pc = "lock" /\ r.id \in Ids
      BY <2>1, Running DEF Id
    <3> HIDE DEF r
    <3> QED
      BY <2>1, <3>1, <3>2, PlainMove
  <2> QED
    BY <1>1, <1>11, <2>1, <2>2 DEF CheckBaseline
<1>12. CASE TakeLock(p)
  BY <1>1, <1>2, <1>12, SameVerdicts DEF TakeLock
<1>13. CASE structuralGate(p)
  <2>1. proc[p].pc = "gate" /\ table' = table /\ Verdicts'
    BY <1>13, Recorded, SameVerdicts, Running DEF structuralGate, Reject
  <2>2. ASSUME NEW m, proc' = [proc EXCEPT ![p].pc = "tests", ![p].mem = m]
        PROVE  TableInv'
    <3> DEFINE r == [proc[p] EXCEPT !.pc = "tests", !.mem = m]
    <3>1. proc' = [proc EXCEPT ![p] = r]
      BY <2>2
    <3>2. {"pc", "id", "mem"} \subseteq DOMAIN r /\ r.pc = "tests" /\ r.id \in Ids
      BY <2>1, Running DEF Id
    <3> HIDE DEF r
    <3> QED
      BY <2>1, <3>1, <3>2, PlainMove
  <2> QED
    BY <1>1, <1>13, <2>1, <2>2 DEF structuralGate, Reject
<1>14. CASE RunTests(p)
  <2>1. Verdicts'
    BY <1>14, Recorded, SameVerdicts, Running DEF RunTests, Reject
  <2> QED
    BY <1>1, <1>2, <1>14, <2>1 DEF RunTests, Reject
<1>15. CASE CompileCandidate(p)
  <2> DEFINE r == [proc[p] EXCEPT !.pc = "measure", !.mem.cand = wt[i]]
  <2>1. proc[p].pc = "candidate" /\ table' = table /\ Verdicts'
    BY <1>15, SameVerdicts DEF CompileCandidate
  <2>2. CASE proc' = [proc EXCEPT ![p].pc = "measure", ![p].mem.cand = wt[i]]
    <3>1. proc' = [proc EXCEPT ![p] = r]
      BY <2>2
    <3>2. {"pc", "id", "mem"} \subseteq DOMAIN r /\ r.pc = "measure" /\ r.id \in Ids
      BY <2>1, Running DEF Id
    <3> HIDE DEF r
    <3> QED
      BY <2>1, <3>1, <3>2, PlainMove
  <2> QED
    BY <1>1, <1>15, <2>1, <2>2 DEF CompileCandidate
<1> QED
  BY <1>3, <1>4, <1>5, <1>6, <1>7, <1>8, <1>9, <1>10, <1>11, <1>12, <1>13, <1>14, <1>15,
     MeasureTable, DecideTable, CriticTable DEF Step

LEMMA TableNext ==
  ASSUME TableInv, [Next]_vars
  PROVE  TableInv'
<1>1. LockInv'
  BY LockNext DEF TableInv
<1>2. ASSUME NEW p \in Procs, Step(p) PROVE TableInv'
  BY <1>1, <1>2, TableStep
<1>3. ASSUME NEW p \in Procs, Crash(p) PROVE TableInv'
  BY <1>1, <1>3, SameVerdicts, PlainReturn DEF Crash, files
<1>4. ASSUME NEW p \in Procs, NEW i \in Ids, Baseline(p, i) PROVE TableInv'
  <2> DEFINE r(v) == [pc |-> "optin", id |-> i, validate |-> v, hyp |-> hyps[i], mem |-> Nil]
  <2>1. UNCHANGED files /\ \E v \in BOOLEAN : proc' = [proc EXCEPT ![p] = r(v)]
    BY <1>4, Zenon DEF Baseline
  <2>2. \A v : {"pc", "id", "mem"} \subseteq DOMAIN r(v) /\ r(v).pc = "optin" /\ r(v).id = i
    OBVIOUS
  <2> HIDE DEF r
  <2>3. PICK v \in BOOLEAN : proc' = [proc EXCEPT ![p] = r(v)]
    BY <2>1
  <2>4. table' = table /\ Verdicts'
    BY <2>1, SameVerdicts DEF files
  <2> QED
    BY <1>1, <2>2, <2>3, <2>4, PlainMove
<1>5. ASSUME NEW p \in Procs, NEW i \in Ids, Verdict(p, i) PROVE TableInv'
  <2> DEFINE r == [Idle EXCEPT !.pc = "exists", !.id = i]
  <2>1. {"pc", "id", "mem"} \subseteq DOMAIN r /\ r.pc = "exists" /\ r.id = i
    BY DEF Idle
  <2>2. proc' = [proc EXCEPT ![p] = r] /\ UNCHANGED files
    BY <1>5 DEF Verdict
  <2> HIDE DEF r
  <2> QED
    BY <1>1, <2>1, <2>2, SameVerdicts, PlainMove DEF files
<1>6. ASSUME NEW p \in Procs, NEW i \in Ids, CriticRead(p, i) PROVE TableInv'
  <2> DEFINE r == [Idle EXCEPT !.pc = "critic", !.id = i, !.mem = verdict[i]]
  <2>1. {"pc", "id", "mem"} \subseteq DOMAIN r /\ r.pc = "critic" /\ r.id = i /\ r.mem = verdict[i]
    BY DEF Idle
  <2>2. proc' = [proc EXCEPT ![p] = r] /\ UNCHANGED files /\ verdict[i] # Nil
    BY <1>6 DEF CriticRead
  <2> HIDE DEF r
  <2>3. proc'[p] = r /\ \A q \in Procs \ {p} : proc'[q] = proc[q]
    BY <2>2 DEF TableInv, LockInv, HasPc
  <2>4. table' = table /\ verdict' = verdict
    BY <2>2 DEF files
  <2>5. TableOk(verdict[i])
    BY DEF TableInv
  <2>6. Shows(r, p, table')
    BY <2>1, <2>2, <2>5 DEF Shows
  <2>7. \A q \in Procs \ {p} : Shows(proc'[q], q, table')
    BY <2>3, <2>4 DEF TableInv
  <2> QED
    BY <1>1, <2>3, <2>4, <2>6, <2>7 DEF TableInv
<1>7. CASE UNCHANGED <<table, verdict, proc>>
  BY <1>1, <1>7 DEF TableInv
<1>8. CASE Clean \/ SetScope \/ \E i \in Ids : Edit(i)
  BY <1>7, <1>8 DEF Clean, SetScope, Edit
<1> QED
  BY <1>2, <1>3, <1>4, <1>5, <1>6, <1>7, <1>8 DEF Next, vars, files

LEMMA TableInit == Init => TableInv
<1> SUFFICES ASSUME Init PROVE TableInv
  OBVIOUS
<1>1. LockInv
  BY GateAssumption DEF Init, LockInv, HasPc, LockMatchesCommand, Idle, Locked
<1>2. \A p \in Procs : Shows(proc[p], p, table)
  BY DEF Init, Shows, Idle
<1> QED
  BY <1>1, <1>2 DEF Init, TableInv, TableOk

\* The table shown with a proof is of the measurement that proved it, whatever commands,
\* critics, edits and kills there are, because the lock is held from the measurement to
\* the verdict.
THEOREM TableCorrect == Spec => []ProofShowsItsTable
<1>1. Init => TableInv
  BY TableInit
<1>2. TableInv /\ [Next]_vars => TableInv'
  BY TableNext
<1>3. TableInv => ProofShowsItsTable
  BY DEF TableInv, TableOk, ProofShowsItsTable, Status
<1> QED
  BY <1>1, <1>2, <1>3, PTL DEF Spec

-----------------------------------------------------------------------------
(* What makes a verdict a proof *)

\* A verdict that is written and is no proof promotes none.
LEMMA NoNewProof ==
  ASSUME TableInv, NEW i \in Ids, NEW j \in Ids, NEW v, verdict' = [verdict EXCEPT ![i] = v],
         v.status # "proved",
         Status(j) # "proved", Status(j)' = "proved"
  PROVE  FALSE
BY DEF TableInv, Status

Promotes(i) == Status(i) # "proved" /\ Status(i)' = "proved"

LEMMA RecordPromotes ==
  ASSUME TableInv, NEW p \in Procs, Id(p) \in Ids, NEW s, NEW run, NEW m, Record(p, s, run, m),
         NEW i \in Ids, Promotes(i)
  PROVE  s = "proved" /\ Id(p) = i
<1> DEFINE shown == IF table[Id(p)] = Nil THEN "none"
                    ELSE IF m /\ table[Id(p)] = p THEN "own" ELSE "old"
           v == [status |-> s, run |-> run, table |-> shown]
<1>1. verdict' = [verdict EXCEPT ![Id(p)] = v]
  BY DEF Record
<1> HIDE DEF shown
<1>2. v.status = s
  OBVIOUS
<1> HIDE DEF v
<1>3. Id(p) = i
  BY <1>1 DEF Promotes, Status, TableInv
<1>4. s = "proved"
  BY <1>1, <1>2, NoNewProof DEF Promotes
<1> QED
  BY <1>3, <1>4

LEMMA PlaceholderPromotes ==
  ASSUME TableInv, NEW i \in Ids, NeedMoreData(i), NEW j \in Ids, Promotes(j)
  PROVE  FALSE
<1>1. Placeholder.status # "proved"
  BY DEF Placeholder
<1> QED
  BY <1>1, NoNewProof DEF NeedMoreData, Promotes

\* A critic that turns a verdict into a proof has read a proof.
LEMMA CriticPromotes ==
  ASSUME TableInv, NEW p \in Procs, CriticWrite(p), NEW j \in Ids, Promotes(j)
  PROVE  Id(p) = j /\ At(p, "critic") /\ proc[p].mem.status = "proved"
<1> DEFINE i == Id(p)
           v == proc[p].mem
           w == [v EXCEPT !.status = "need_more_data", !.run = Nil]
<1>1. At(p, "critic") /\ i \in Ids /\ v # Nil /\ TableOk(v)
  BY DEF CriticWrite, At, TableInv, Shows, Id
<1>2. PICK reject \in BOOLEAN : verdict' = [verdict EXCEPT ![i] = ApplyCritic(v, reject)]
  BY DEF CriticWrite
<1>3. w.status = "need_more_data"
  BY <1>1 DEF TableOk
<1> HIDE DEF w
<1>4. ApplyCritic(v, reject) = v \/ ApplyCritic(v, reject) = w
  BY DEF ApplyCritic, w
<1>5. i = j
  BY <1>2 DEF Promotes, Status, TableInv
<1>6. verdict'[j] = ApplyCritic(v, reject)
  BY <1>1, <1>2, <1>5 DEF TableInv
<1>7. ApplyCritic(v, reject).status = "proved"
  BY <1>6 DEF Promotes, Status
<1> QED
  BY <1>1, <1>3, <1>4, <1>5, <1>7

LEMMA DecisionOrCritic ==
  ASSUME TableInv, [Next]_vars, NEW i \in Ids, Promotes(i)
  PROVE  \E p \in Procs : Id(p) = i /\
           \/ At(p, "decide")
           \/ At(p, "critic") /\ proc[p].mem.status = "proved"
<1> USE DEF files
<1>1. verdict' # verdict
  BY DEF Promotes, Status
<1>2. PICK p \in Procs : Step(p)
  BY <1>1 DEF Next, vars, Crash, Baseline, Verdict, CriticRead, Edit, Clean, SetScope
<1>3. TableInv /\ (proc[p].pc # "idle" => Id(p) \in Ids)
  BY Running
<1>4. CASE CriticWrite(p)
  BY <1>3, <1>4, CriticPromotes
<1>5. ~OptIn(p)
  BY <1>1, <1>3, PlaceholderPromotes DEF OptIn, At
<1>6. ~ResolveBenchmark(p)
  BY <1>1, <1>3, PlaceholderPromotes DEF ResolveBenchmark, At
<1>7. ~structuralGate(p) /\ ~RunTests(p)
  <2>1. ASSUME Id(p) \in Ids, Record(p, "rejected", Nil, FALSE) PROVE FALSE
    <3>1. TableInv /\ i \in Ids /\ Promotes(i)
      BY <1>3
    <3>2. \A s, run, m : Record(p, s, run, m) => s = "proved"
      BY <2>1, <3>1, RecordPromotes
    <3>3. Record(p, "rejected", Nil, FALSE)
      BY <2>1
    <3> QED
      BY <3>2, <3>3
  <2> QED
    BY <1>1, <1>3, <2>1 DEF structuralGate, RunTests, Reject, At
<1>8. CASE Decide(p)
  BY <1>1, <1>3, <1>8, RecordPromotes DEF Decide, At
<1> QED
  BY <1>1, <1>2, <1>4, <1>5, <1>6, <1>7, <1>8 DEF Step, Worktree, LoadHypotheses,
     SetBenchmarkName, CompileBaseline, SnapshotTests, ApplyPatch, CheckBaseline, TakeLock,
     CompileCandidate, Measure

\* A verdict becomes proved by a decision about a measurement, or by a critic that had
\* read a proof, for any number of commands: no rejection is promoted, but one that was
\* written since the critic's read is lost.
THEOREM PromotionsAreProofs == Spec => OnlyProofsPromote
<1>1. Init => TableInv
  BY TableInit
<1>2. TableInv /\ [Next]_vars => TableInv'
  BY TableNext
<1>3. TableInv /\ [Next]_vars =>
        [\A i \in Ids : Status(i) # "proved" /\ Status(i)' = "proved" =>
           \E p \in Procs : Id(p) = i /\
             \/ At(p, "decide")
             \/ At(p, "critic") /\ proc[p].mem.status = "proved"]_vars
  BY DecisionOrCritic DEF Promotes
<1> QED
  BY <1>1, <1>2, <1>3, PTL DEF Spec, OnlyProofsPromote

-----------------------------------------------------------------------------
(* Types.  A command at some points has the hypothesis it loaded, all       *)
(* hypotheses, what it measures or a verdict.                              *)

Naming == {"optin", "tree", "bench", "load", "save"}
Measuring == {"tests", "candidate", "measure", "decide"}

Typed(r) ==
  /\ {"pc", "id", "validate", "hyp", "mem"} \subseteq DOMAIN r
  /\ r.pc # "idle" => r.id \in Ids
  /\ r.pc \in Naming => r.hyp \in Hyp
  /\ r.pc = "save" => r.mem \in [Ids -> Hyp]
  /\ r.pc \in Measuring => r.mem \in Run
  /\ r.pc = "critic" => r.mem \in VerdictFile

FilesTyped ==
  /\ hyps \in [Ids -> Hyp] /\ scope \in Scopes
  /\ wt \in [Ids -> Tree \cup {Nil}] /\ bin \in [Ids -> Tree \cup {Nil}]
  /\ sha \in [Ids -> Tests \cup {Nil, "empty"}]
  /\ table \in [Ids -> Procs \cup {Nil}]
  /\ verdict \in [Ids -> VerdictFile \cup {Nil}]

TypeInv ==
  /\ FilesTyped /\ lock \in Procs \cup {Nil} /\ DOMAIN proc = Procs
  /\ \A p \in Procs : Typed(proc[p])

\* p becomes r.
LEMMA TypedMove ==
  ASSUME TypeInv, NEW p \in Procs, NEW r, Typed(r), proc' = [proc EXCEPT ![p] = r],
         FilesTyped', lock' \in Procs \cup {Nil}
  PROVE  TypeInv'
<1>1. DOMAIN proc' = Procs /\ proc'[p] = r /\ \A q \in Procs \ {p} : proc'[q] = proc[q]
  BY DEF TypeInv
<1>2. \A q \in Procs : Typed(proc'[q])
  BY <1>1 DEF TypeInv
<1> QED
  BY <1>1, <1>2 DEF TypeInv

LEMMA TypedReturn ==
  ASSUME TypeInv, NEW p \in Procs, Return(p), FilesTyped'
  PROVE  TypeInv'
<1>1. Typed(Idle)
  BY DEF Typed, Idle, Naming, Measuring
<1>2. proc' = [proc EXCEPT ![p] = Idle] /\ lock' \in Procs \cup {Nil}
  BY DEF Return, TypeInv
<1> QED
  BY <1>1, <1>2, TypedMove

\* It goes on with what it has.
LEMMA TypedGoto ==
  ASSUME TypeInv, NEW p \in Procs, NEW at, Goto(p, at), proc[p].pc # "idle",
         at \notin {"save", "critic"}, at \in Naming => proc[p].pc \in Naming,
         at \in Measuring => proc[p].pc \in Measuring,
         FilesTyped', lock' \in Procs \cup {Nil}
  PROVE  TypeInv'
<1> DEFINE r == [proc[p] EXCEPT !.pc = at]
<1>1. Typed(proc[p])
  BY DEF TypeInv
<1>2. {"pc", "id", "validate", "hyp", "mem"} \subseteq DOMAIN r /\ r.pc = at
      /\ r.id = proc[p].id /\ r.hyp = proc[p].hyp /\ r.mem = proc[p].mem
  BY <1>1 DEF Typed
<1>3. proc' = [proc EXCEPT ![p] = r]
  BY DEF Goto, TypeInv
<1> HIDE DEF r
<1>4. Typed(r)
  BY <1>1, <1>2 DEF Typed
<1> QED
  BY <1>3, <1>4, TypedMove

\* Nothing but one verdict is written.
LEMMA TypedVerdict ==
  ASSUME TypeInv, NEW i \in Ids, NEW v \in VerdictFile, verdict' = [verdict EXCEPT ![i] = v],
         UNCHANGED <<hyps, scope, wt, bin, sha, table>>
  PROVE  FilesTyped'
BY DEF TypeInv, FilesTyped

LEMMA TypedPlaceholder ==
  ASSUME TypeInv, NEW i \in Ids, NeedMoreData(i), UNCHANGED <<hyps, scope, wt, bin, sha, table>>
  PROVE  FilesTyped'
<1>1. Placeholder \in VerdictFile
  BY DEF Placeholder, VerdictFile
<1> QED
  BY <1>1, TypedVerdict DEF NeedMoreData

LEMMA TypedRecord ==
  ASSUME TypeInv, NEW p \in Procs, Id(p) \in Ids, NEW s \in {"proved", "rejected"},
         NEW run \in Run \cup {Nil}, NEW m, Record(p, s, run, m),
         UNCHANGED <<hyps, scope, wt, bin, sha, table>>
  PROVE  FilesTyped'
<1> DEFINE shown == IF table[Id(p)] = Nil THEN "none"
                    ELSE IF m /\ table[Id(p)] = p THEN "own" ELSE "old"
           v == [status |-> s, run |-> run, table |-> shown]
<1>1. verdict' = [verdict EXCEPT ![Id(p)] = v]
  BY DEF Record
<1>2. shown \in {"none", "own", "old"}
  BY Zenon
<1> HIDE DEF shown
<1>3. v \in VerdictFile
  BY <1>2 DEF VerdictFile
<1> HIDE DEF v
<1> QED
  BY <1>1, <1>3, TypedVerdict

LEMMA SameFiles ==
  ASSUME TypeInv, UNCHANGED files
  PROVE  FilesTyped'
BY DEF TypeInv, FilesTyped, files

LEMMA InIds ==
  ASSUME TypeInv, NEW p \in Procs, proc[p].pc # "idle"
  PROVE  Id(p) \in Ids /\ Typed(proc[p])
BY DEF TypeInv, Typed, Id

\* The benchmarks of a worktree are names.
LEMMA Detected ==
  ASSUME TypeInv, NEW i \in Ids
  PROVE  detectBenchmarks(i) \subseteq Names /\ testFilesHash(i) \in Tests \cup {"empty"}
<1>1. wt[i] # Nil => wt[i].tests \in Tests
  BY DEF TypeInv, FilesTyped, Tree
<1> QED
  BY <1>1 DEF detectBenchmarks, testFilesHash, Names

\* The steps of a baseline.
LEMMA BaselineTyped ==
  ASSUME TypeInv, NEW p \in Procs,
         OptIn(p) \/ Worktree(p) \/ ResolveBenchmark(p) \/ LoadHypotheses(p)
           \/ SetBenchmarkName(p) \/ CompileBaseline(p) \/ SnapshotTests(p) \/ ApplyPatch(p)
  PROVE  TypeInv'
<1> USE DEF At
<1> DEFINE i == Id(p)
<1> DOMAIN proc = Procs /\ lock \in Procs \cup {Nil}
  BY DEF TypeInv
<1>1. proc[p].pc # "idle" => i \in Ids /\ Typed(proc[p])
  BY InIds
<1>2. CASE OptIn(p)
  <2>1. FilesTyped'
    BY <1>1, <1>2, SameFiles, TypedPlaceholder DEF OptIn, files
  <2> QED
    BY <1>2, <2>1, TypedReturn, TypedGoto DEF OptIn, Naming, Measuring
<1>3. CASE Worktree(p)
  <2>1. HeadTree \in Tree
    BY GateAssumption DEF HeadTree, Tree
  <2>2. FilesTyped'
    BY <1>1, <1>3, <2>1 DEF Worktree, TypeInv, FilesTyped
  <2> QED
    BY <1>3, <2>2, TypedReturn, TypedGoto DEF Worktree, Naming, Measuring
<1>4. CASE ResolveBenchmark(p)
  <2>1. FilesTyped' /\ proc[p].pc = "bench" /\ Typed(proc[p]) /\ i \in Ids
    BY <1>1, <1>4, SameFiles, TypedPlaceholder DEF ResolveBenchmark, files
  <2>2. ASSUME NEW b \in Adoptable(proc[p].hyp.name, detectBenchmarks(i)),
               proc' = [proc EXCEPT ![p].pc = "load", ![p].hyp.name = b], lock' = lock
        PROVE  TypeInv'
    <3> DEFINE r == [proc[p] EXCEPT !.pc = "load", !.hyp.name = b]
               h == [proc[p].hyp EXCEPT !.name = b]
    <3>1. b \in Names
      BY <2>1, <2>2, Detected DEF Adoptable
    <3>2. proc[p].hyp \in Hyp
      BY <2>1 DEF Typed, Naming
    <3>3. h \in Hyp
      BY <3>1, <3>2 DEF Hyp
    <3>4. {"pc", "id", "validate", "hyp", "mem"} \subseteq DOMAIN r /\ r.pc = "load"
          /\ r.id = i /\ r.hyp = h
      BY <2>1 DEF Typed, Id
    <3>5. proc' = [proc EXCEPT ![p] = r]
      BY <2>2
    <3> HIDE DEF r, h
    <3>6. Typed(r)
      BY <2>1, <3>3, <3>4 DEF Typed, Measuring
    <3> QED
      BY <2>1, <2>2, <3>5, <3>6, TypedMove
  <2>3. CASE AfterBaseline(p) \/ (Goto(p, "compile") /\ lock' = lock)
    BY <2>1, <2>3, TypedReturn, TypedGoto DEF AfterBaseline, Naming, Measuring
  <2> QED
    BY <1>4, <2>2, <2>3 DEF ResolveBenchmark
<1>5. CASE LoadHypotheses(p)
  <2> DEFINE r == [proc[p] EXCEPT !.pc = "save", !.mem = hyps]
  <2>1. FilesTyped' /\ proc' = [proc EXCEPT ![p] = r] /\ lock' = lock
        /\ proc[p].pc = "load" /\ Typed(proc[p]) /\ i \in Ids
    BY <1>1, <1>5, SameFiles DEF LoadHypotheses
  <2>2. {"pc", "id", "validate", "hyp", "mem"} \subseteq DOMAIN r /\ r.pc = "save"
        /\ r.id = i /\ r.hyp = proc[p].hyp /\ r.mem = hyps
    BY <2>1 DEF Typed, Id
  <2> HIDE DEF r
  <2>3. Typed(r)
    BY <2>1, <2>2 DEF Typed, Naming, Measuring, TypeInv, FilesTyped
  <2> QED
    BY <2>1, <2>3, TypedMove
<1>6. CASE SetBenchmarkName(p)
  <2>1. proc[p].mem \in [Ids -> Hyp] /\ proc[p].hyp \in Hyp /\ i \in Ids
    BY <1>1, <1>6 DEF SetBenchmarkName, Typed, Naming
  <2>2. [name |-> proc[p].hyp.name, needs |-> FALSE] \in Hyp
    BY <2>1 DEF Hyp
  <2>3. FilesTyped'
    BY <1>6, <2>1, <2>2 DEF SetBenchmarkName, TypeInv, FilesTyped
  <2> QED
    BY <1>6, <2>3, TypedGoto DEF SetBenchmarkName, Naming, Measuring
<1>7. CASE CompileBaseline(p)
  <2>1. FilesTyped'
    BY <1>1, <1>7 DEF CompileBaseline, TypeInv, FilesTyped
  <2> QED
    BY <1>7, <2>1, TypedReturn, TypedGoto DEF CompileBaseline, Naming, Measuring
<1>8. CASE SnapshotTests(p)
  <2>1. FilesTyped'
    BY <1>1, <1>8, Detected DEF SnapshotTests, TypeInv, FilesTyped
  <2> QED
    BY <1>8, <2>1, TypedReturn, TypedGoto DEF SnapshotTests, AfterBaseline, Naming, Measuring
<1>9. CASE ApplyPatch(p)
  <2>1. FilesTyped'
    BY <1>1, <1>9, GateAssumption DEF ApplyPatch, TypeInv, FilesTyped
  <2> QED
    BY <1>9, <2>1, TypedReturn, TypedGoto DEF ApplyPatch, Naming, Measuring
<1> QED
  BY <1>2, <1>3, <1>4, <1>5, <1>6, <1>7, <1>8, <1>9

\* The steps of a verdict.
LEMMA VerdictTyped ==
  ASSUME TypeInv, NEW p \in Procs,
         CheckBaseline(p) \/ TakeLock(p) \/ structuralGate(p) \/ RunTests(p)
           \/ CompileCandidate(p) \/ Measure(p) \/ Decide(p)
  PROVE  TypeInv'
<1> USE DEF At
<1> DEFINE i == Id(p)
<1> DOMAIN proc = Procs /\ lock \in Procs \cup {Nil}
  BY DEF TypeInv
<1>1. proc[p].pc # "idle" => i \in Ids /\ Typed(proc[p])
  BY InIds
<1>2. CASE CheckBaseline(p)
  <2> DEFINE r == [proc[p] EXCEPT !.pc = "lock", !.hyp = hyps[i], !.mem = Nil]
  <2>1. FilesTyped' /\ proc[p].pc = "exists" /\ Typed(proc[p]) /\ i \in Ids
    BY <1>1, <1>2, SameFiles DEF CheckBaseline
  <2>2. CASE proc' = [proc EXCEPT ![p].pc = "lock", ![p].hyp = hyps[i], ![p].mem = Nil]
             /\ lock' = lock
    <3>1. proc' = [proc EXCEPT ![p] = r]
      BY <2>2
    <3>2. {"pc", "id", "validate", "hyp", "mem"} \subseteq DOMAIN r /\ r.pc = "lock" /\ r.id = i
      BY <2>1 DEF Typed, Id
    <3> HIDE DEF r
    <3>3. Typed(r)
      BY <2>1, <3>2 DEF Typed, Naming, Measuring
    <3> QED
      BY <2>1, <2>2, <3>1, <3>3, TypedMove
  <2> QED
    BY <1>2, <2>1, <2>2, TypedReturn DEF CheckBaseline
<1>3. CASE TakeLock(p)
  BY <1>3, SameFiles, TypedReturn, TypedGoto DEF TakeLock, Naming, Measuring
<1>4. CASE structuralGate(p)
  <2> DEFINE m == [scope |-> scope, base |-> Nil, cand |-> Nil]
             r == [proc[p] EXCEPT !.pc = "tests", !.mem = m]
  <2>1. proc[p].pc = "gate" /\ Typed(proc[p]) /\ i \in Ids
    BY <1>1, <1>4 DEF structuralGate
  <2>2. CASE Reject(p)
    <3>1. FilesTyped'
      BY <1>4, <2>1, <2>2, TypedRecord DEF structuralGate, Reject
    <3> QED
      BY <2>2, <3>1, TypedReturn DEF Reject
  <2>3. CASE proc' = [proc EXCEPT ![p].pc = "tests", ![p].mem = m] /\ UNCHANGED <<verdict, lock>>
    <3>1. FilesTyped'
      BY <1>4, <2>3, SameFiles DEF structuralGate, files
    <3>2. m \in Run
      BY DEF Run, TypeInv, FilesTyped
    <3>3. proc' = [proc EXCEPT ![p] = r]
      BY <2>3
    <3> HIDE DEF m
    <3>4. {"pc", "id", "validate", "hyp", "mem"} \subseteq DOMAIN r /\ r.pc = "tests"
          /\ r.id = i /\ r.mem = m
      BY <2>1 DEF Typed, Id
    <3> HIDE DEF r
    <3>5. Typed(r)
      BY <2>1, <3>2, <3>4 DEF Typed, Naming
    <3> QED
      BY <2>3, <3>1, <3>3, <3>5, TypedMove
  <2> QED
    BY <1>4, <2>2, <2>3 DEF structuralGate
<1>5. CASE RunTests(p)
  <2>1. FilesTyped'
    BY <1>1, <1>5, SameFiles, TypedRecord DEF RunTests, Reject, files
  <2> QED
    BY <1>5, <2>1, TypedReturn, TypedGoto DEF RunTests, Reject, Naming, Measuring
<1>6. CASE CompileCandidate(p)
  <2> DEFINE m == [proc[p].mem EXCEPT !.cand = wt[i]]
             r == [proc[p] EXCEPT !.pc = "measure", !.mem.cand = wt[i]]
  <2>1. FilesTyped' /\ proc[p].pc = "candidate" /\ Typed(proc[p]) /\ i \in Ids
    BY <1>1, <1>6, SameFiles DEF CompileCandidate
  <2>2. CASE proc' = [proc EXCEPT ![p].pc = "measure", ![p].mem.cand = wt[i]] /\ lock' = lock
    <3>1. proc[p].mem \in Run /\ wt[i] \in Tree \cup {Nil}
      BY <2>1 DEF Typed, Measuring, TypeInv, FilesTyped
    <3>2. m \in Run
      BY <3>1 DEF Run
    <3>3. proc' = [proc EXCEPT ![p] = r]
      BY <2>2
    <3>4. {"pc", "id", "validate", "hyp", "mem"} \subseteq DOMAIN r /\ r.pc = "measure"
          /\ r.id = i /\ r.mem = m
      BY <2>1 DEF Typed, Id
    <3> HIDE DEF r, m
    <3>5. Typed(r)
      BY <2>1, <3>2, <3>4 DEF Typed, Naming
    <3> QED
      BY <2>1, <2>2, <3>3, <3>5, TypedMove
  <2> QED
    BY <1>6, <2>1, <2>2, TypedReturn DEF CompileCandidate
<1>7. CASE Measure(p)
  <2> DEFINE m == [proc[p].mem EXCEPT !.base = bin[i]]
             r == [proc[p] EXCEPT !.pc = "decide", !.mem.base = bin[i]]
  <2>1. FilesTyped' /\ proc[p].pc = "measure" /\ Typed(proc[p]) /\ i \in Ids
    BY <1>1, <1>7 DEF Measure, TypeInv, FilesTyped
  <2>2. CASE proc' = [proc EXCEPT ![p].pc = "decide", ![p].mem.base = bin[i]] /\ lock' = lock
    <3>1. proc[p].mem \in Run /\ bin[i] \in Tree \cup {Nil}
      BY <2>1 DEF Typed, Measuring, TypeInv, FilesTyped
    <3>2. m \in Run
      BY <3>1 DEF Run
    <3>3. proc' = [proc EXCEPT ![p] = r]
      BY <2>2
    <3>4. {"pc", "id", "validate", "hyp", "mem"} \subseteq DOMAIN r /\ r.pc = "decide"
          /\ r.id = i /\ r.mem = m
      BY <2>1 DEF Typed, Id
    <3> HIDE DEF r, m
    <3>5. Typed(r)
      BY <2>1, <3>2, <3>4 DEF Typed, Naming
    <3> QED
      BY <2>1, <2>2, <3>3, <3>5, TypedMove
  <2> QED
    BY <1>7, <2>1, <2>2, TypedReturn DEF Measure
<1>8. CASE Decide(p)
  <2>1. i \in Ids /\ proc[p].mem \in Run /\ UNCHANGED <<hyps, scope, wt, bin, sha, table>>
    BY <1>1, <1>8 DEF Decide, Typed, Measuring
  <2>2. FilesTyped'
    BY <1>8, <2>1, SameFiles, TypedRecord DEF Decide, files
  <2> QED
    BY <1>8, <2>2, TypedReturn DEF Decide
<1> QED
  BY <1>2, <1>3, <1>4, <1>5, <1>6, <1>7, <1>8

\* The critic's verdict is one that the schema knows.
LEMMA CriticTyped ==
  ASSUME TypeInv, NEW p \in Procs, CriticWrite(p)
  PROVE  TypeInv'
<1>1. Id(p) \in Ids /\ proc[p].mem \in VerdictFile
  BY InIds DEF CriticWrite, At, Typed
<1>2. PICK reject \in BOOLEAN : verdict' = [verdict EXCEPT ![Id(p)] = ApplyCritic(proc[p].mem, reject)]
  BY DEF CriticWrite
<1> DEFINE v == proc[p].mem
<1>3. [v EXCEPT !.status = "need_more_data", !.run = Nil] \in VerdictFile
  BY <1>1 DEF VerdictFile
<1>4. ApplyCritic(v, reject) \in VerdictFile
  BY <1>1, <1>3 DEF ApplyCritic
<1>6. FilesTyped'
  BY <1>1, <1>2, <1>4, TypedVerdict DEF CriticWrite
<1> QED
  BY <1>6, TypedReturn DEF CriticWrite

LEMMA TypeNext ==
  ASSUME TypeInv, [Next]_vars
  PROVE  TypeInv'
<1>1. ASSUME NEW p \in Procs, Step(p) PROVE TypeInv'
  BY <1>1, BaselineTyped, VerdictTyped, CriticTyped DEF Step
<1>2. ASSUME NEW p \in Procs, Crash(p) PROVE TypeInv'
  BY <1>2, SameFiles, TypedReturn DEF Crash
<1>3. ASSUME NEW p \in Procs, NEW i \in Ids, Baseline(p, i) PROVE TypeInv'
  <2> DEFINE r(v) == [pc |-> "optin", id |-> i, validate |-> v, hyp |-> hyps[i], mem |-> Nil]
  <2>1. UNCHANGED <<files, lock>> /\ \E v \in BOOLEAN : proc' = [proc EXCEPT ![p] = r(v)]
    BY <1>3, Zenon DEF Baseline
  <2>2. hyps[i] \in Hyp
    BY DEF TypeInv, FilesTyped
  <2>3. \A v : Typed(r(v))
    BY <2>2 DEF Typed, Measuring
  <2> HIDE DEF r
  <2> QED
    BY <2>1, <2>3, SameFiles, TypedMove DEF TypeInv
<1>4. ASSUME NEW p \in Procs, NEW i \in Ids, Verdict(p, i) PROVE TypeInv'
  <2> DEFINE r == [Idle EXCEPT !.pc = "exists", !.id = i]
  <2>1. Typed(r)
    BY DEF Idle, Typed, Naming, Measuring
  <2>2. proc' = [proc EXCEPT ![p] = r] /\ UNCHANGED <<files, lock>>
    BY <1>4 DEF Verdict
  <2> HIDE DEF r
  <2> QED
    BY <2>1, <2>2, SameFiles, TypedMove DEF TypeInv
<1>5. ASSUME NEW p \in Procs, NEW i \in Ids, CriticRead(p, i) PROVE TypeInv'
  <2> DEFINE r == [Idle EXCEPT !.pc = "critic", !.id = i, !.mem = verdict[i]]
  <2>1. verdict[i] \in VerdictFile
    BY <1>5 DEF CriticRead, TypeInv, FilesTyped
  <2>2. Typed(r)
    BY <2>1 DEF Idle, Typed, Naming, Measuring
  <2>3. proc' = [proc EXCEPT ![p] = r] /\ UNCHANGED <<files, lock>>
    BY <1>5 DEF CriticRead
  <2> HIDE DEF r
  <2> QED
    BY <2>2, <2>3, SameFiles, TypedMove DEF TypeInv
<1>6. CASE Clean \/ SetScope \/ \E i \in Ids : Edit(i)
  BY <1>6, GateAssumption DEF Clean, SetScope, Edit, TypeInv, FilesTyped
<1>7. CASE UNCHANGED vars
  BY <1>7 DEF vars, files, TypeInv, FilesTyped
<1> QED
  BY <1>1, <1>2, <1>3, <1>4, <1>5, <1>6, <1>7 DEF Next

\* hypotheses.json, the verdicts, the tables and the hashes have contents that the
\* schemas allow, for commands and edits in any order and killed anywhere.
THEOREM TypeCorrect == Spec => []TypeOK
<1>1. Init => TypeInv
  <2>1. Typed(Idle)
    BY DEF Typed, Idle, Naming, Measuring
  <2> QED
    BY <2>1, GateAssumption DEF Init, TypeInv, FilesTyped
<1>2. TypeInv => TypeOK
  BY DEF TypeInv, FilesTyped, TypeOK
<1> QED
  BY <1>1, <1>2, TypeNext, PTL DEF Spec
=============================================================================
