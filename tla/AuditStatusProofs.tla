------------------------- MODULE AuditStatusProofs --------------------------
(***************************************************************************)
(* Proofs about AuditStatus, for any finite set of hypotheses and any      *)
(* detours: what `status` may conclude from two numbers, what the files    *)
(* contain, and that a report never runs ahead of its patches.             *)
(***************************************************************************)
EXTENDS AuditStatus, FiniteSetTheorems, TLAPS

(***************************************************************************)
(* hypotheses.json never lists an id outside Ids, so the two numbers that  *)
(* Complete compares are sizes of finite sets.                             *)
(***************************************************************************)
HypsOK == hyps \subseteq Ids

THEOREM ListedIds == Spec => []HypsOK
<1>1. Init => HypsOK
  BY DEF Init, HypsOK
<1>2. HypsOK /\ [Next]_vars => HypsOK'
  <2> SUFFICES ASSUME HypsOK, [Next]_vars PROVE HypsOK'
    OBVIOUS
  <2>1. ASSUME NEW found, Hotspots(found) PROVE HypsOK'
    BY <2>1 DEF HypsOK, Hotspots
  <2>2. ASSUME NEW ids \in SUBSET Ids, Hypothesize(ids) PROVE HypsOK'
    BY <2>2 DEF HypsOK, Hypothesize
  <2>3. ASSUME NEW i, NEW s, Validate(i, s) PROVE HypsOK'
    BY <2>3 DEF HypsOK, Validate
  <2>4. CASE WritePatches
    BY <2>4 DEF HypsOK, WritePatches
  <2>5. CASE Follow
    <3>1. \/ Hotspots(TRUE)
          \/ \E ids \in SUBSET Ids : Hypothesize(ids)
          \/ \E i \in Ids, s \in Statuses : Validate(i, s)
          \/ WritePatches
      BY <2>5 DEF Follow
    <3> QED
      BY <3>1, <2>1, <2>2, <2>3, <2>4
  <2>6. CASE Render
    BY <2>6 DEF HypsOK, Render
  <2>7. CASE Detour
    <3>1. ASSUME NEW i, Downgrade(i) \/ TearVerdict(i) PROVE HypsOK'
      BY <3>1 DEF HypsOK, Downgrade, TearVerdict
    <3>2. CASE TearHypotheses \/ Clean \/ KillReport
      BY <3>2 DEF HypsOK, TearHypotheses, Clean, KillReport
    <3>3. ASSUME NEW n \in 0..5, CleanAll(n) PROVE HypsOK'
      BY <3>3 DEF HypsOK, CleanAll
    <3> QED
      BY <2>7, <2>1, <2>2, <2>3, <2>4, <3>1, <3>2, <3>3 DEF Detour
  <2>8. CASE UNCHANGED vars
    BY <2>8 DEF HypsOK, vars
  <2> QED
    BY <2>5, <2>6, <2>7, <2>8 DEF Next
<1> QED
  BY <1>1, <1>2, PTL DEF Spec

(***************************************************************************)
(* A finite set that has a subset at least as large is that subset.        *)
(***************************************************************************)
LEMMA SubsetAsLarge ==
  ASSUME NEW S, IsFiniteSet(S), NEW T \in SUBSET S, ~(Cardinality(T) < Cardinality(S))
  PROVE  T = S
<1>1. Cardinality(T) <= Cardinality(S) /\ (Cardinality(S) = Cardinality(T) => S = T)
  BY FS_Subset
<1>2. Cardinality(S) \in Nat /\ Cardinality(T) \in Nat
  BY FS_Subset, FS_CardinalityType
<1> QED
  BY <1>1, <1>2

(***************************************************************************)
(* LoopState.Complete: when no verdict is of a hypothesis that is not      *)
(* listed any more, the loop is only complete with a verdict for every     *)
(* hypothesis, whatever was killed, torn, cleaned or downgraded.           *)
(***************************************************************************)
THEOREM CompleteIsComplete == Spec => []CompleteWithoutLeftovers
<1>1. HypsOK => CompleteWithoutLeftovers
  <2> SUFFICES ASSUME HypsOK, Readable \subseteq hyps, Stage = "complete"
               PROVE  hyps \subseteq Readable
    BY DEF CompleteWithoutLeftovers, CompleteMeansVerdicts
  <2>1. IsFiniteSet(hyps)
    BY AuditAssumption, FS_Subset DEF HypsOK
  <2>2. ~(Hypotheses > 0 /\ VerdictTotal < Hypotheses)
    BY DEF Stage
  <2>3. CASE Hypotheses > 0
    <3>1. ~(Cardinality(Readable) < Cardinality(hyps))
      BY <2>2, <2>3 DEF VerdictTotal, Hypotheses
    <3> QED
      BY <2>1, <3>1, SubsetAsLarge
  <2>4. CASE ~(Hypotheses > 0)
    <3>1. Cardinality(hyps) = 0
      BY <2>1, <2>4, FS_CardinalityType DEF Hypotheses
    <3> QED
      BY <2>1, <3>1, FS_EmptySet
  <2> QED
    BY <2>3, <2>4
<1> QED
  BY <1>1, ListedIds, PTL

(***************************************************************************)
(* Types.  Every step, one by one, leaves files that the schemas allow.    *)
(***************************************************************************)
LEMMA StagesTyped ==
  ASSUME TypeOK, detours' \in 0..MaxDetours,
         \/ \E found \in BOOLEAN : Hotspots(found)
         \/ \E ids \in SUBSET Ids : Hypothesize(ids)
         \/ \E i \in Ids, s \in Statuses : Validate(i, s)
         \/ WritePatches
  PROVE  TypeOK'
<1>1. ASSUME NEW found \in BOOLEAN, Hotspots(found) PROVE TypeOK'
  BY <1>1 DEF TypeOK, Hotspots
<1>2. ASSUME NEW ids \in SUBSET Ids, Hypothesize(ids) PROVE TypeOK'
  BY <1>2 DEF TypeOK, Hypothesize
<1>3. ASSUME NEW i \in Ids, NEW s \in Statuses, Validate(i, s) PROVE TypeOK'
  <2>1. wt' \subseteq Ids
    BY <1>3 DEF TypeOK, Validate
  <2> QED
    BY <1>3, <2>1 DEF TypeOK, Validate
<1>4. CASE WritePatches
  BY <1>4 DEF TypeOK, WritePatches, Patchable
<1> QED
  BY <1>1, <1>2, <1>3, <1>4

\* A report that shows some of the verdicts that can be read, all or those written in time.
LEMMA ReportTyped ==
  ASSUME TypeOK, report' = report
                 \/ \E shown \in SUBSET Readable :
                      report' = [made |-> TRUE, rows |-> [i \in shown |-> verdict[i]]]
  PROVE  /\ report'.made \in BOOLEAN /\ DOMAIN report'.rows \subseteq Ids
         /\ \A i \in DOMAIN report'.rows : report'.rows[i] \in Statuses
<1>1. Readable \subseteq Ids /\ \A i \in Readable : verdict[i] \in Statuses
  BY DEF Readable
<1>2. CASE report' = report
  BY <1>2 DEF TypeOK
<1>3. ASSUME NEW shown \in SUBSET Readable,
             report' = [made |-> TRUE, rows |-> [i \in shown |-> verdict[i]]]
      PROVE  /\ report'.made \in BOOLEAN /\ DOMAIN report'.rows \subseteq Ids
             /\ \A i \in DOMAIN report'.rows : report'.rows[i] \in Statuses
  <2>1. report'.made = TRUE /\ report'.rows = [i \in shown |-> verdict[i]]
    BY <1>3, Zenon
  <2> QED
    BY <1>1, <2>1
<1> QED
  BY <1>2, <1>3

LEMMA RenderTyped ==
  ASSUME TypeOK, Render
  PROVE  TypeOK'
<1>1. /\ report'.made \in BOOLEAN /\ DOMAIN report'.rows \subseteq Ids
      /\ \A i \in DOMAIN report'.rows : report'.rows[i] \in Statuses
  BY ReportTyped DEF Render
<1> QED
  BY <1>1 DEF TypeOK, Render

LEMMA DetourTyped ==
  ASSUME TypeOK, Detour
  PROVE  TypeOK'
<1>1. detours' \in 0..MaxDetours
  BY AuditAssumption DEF TypeOK, Detour
<1>2. ASSUME NEW i \in Ids, Downgrade(i) \/ TearVerdict(i) PROVE TypeOK'
  BY <1>1, <1>2 DEF TypeOK, Downgrade, TearVerdict, Statuses
<1>3. CASE TearHypotheses \/ Clean
  BY <1>1, <1>3 DEF TypeOK, TearHypotheses, Clean
<1>4. ASSUME NEW n \in 0..5, CleanAll(n) PROVE TypeOK'
  <2>1. /\ candidates' \in BOOLEAN /\ hyps' \subseteq Ids /\ patches' \subseteq Ids
        /\ verdict' \in [Ids -> Statuses \cup {"none", "torn"}] /\ wt' \subseteq Ids
        /\ rendering' \in BOOLEAN
    BY <1>4 DEF TypeOK, CleanAll
  <2>2. report' = report \/ report' = NoReport
    BY <1>4 DEF CleanAll
  <2>3. NoReport.made = FALSE /\ DOMAIN NoReport.rows = {}
    BY DEF NoReport
  <2>4. /\ report'.made \in BOOLEAN /\ DOMAIN report'.rows \subseteq Ids
        /\ \A i \in DOMAIN report'.rows : report'.rows[i] \in Statuses
    BY <2>2, <2>3 DEF TypeOK
  <2> QED
    BY <1>1, <2>1, <2>4 DEF TypeOK
<1>5. CASE KillReport
  <2>1. /\ report'.made \in BOOLEAN /\ DOMAIN report'.rows \subseteq Ids
        /\ \A i \in DOMAIN report'.rows : report'.rows[i] \in Statuses
    BY <1>5, ReportTyped DEF KillReport
  <2> QED
    BY <1>1, <1>5, <2>1 DEF TypeOK, KillReport
<1> QED
  BY <1>1, <1>2, <1>3, <1>4, <1>5, StagesTyped DEF Detour

LEMMA TypeNext ==
  ASSUME TypeOK, [Next]_vars
  PROVE  TypeOK'
<1>1. CASE Follow
  <2>1. detours' \in 0..MaxDetours
    BY <1>1 DEF Follow, TypeOK
  <2> QED
    BY <1>1, <2>1, StagesTyped DEF Follow
<1>2. CASE UNCHANGED vars
  BY <1>2 DEF TypeOK, vars
<1> QED
  BY <1>1, <1>2, RenderTyped, DetourTyped DEF Next

\* Every file has contents that the schemas allow: a torn verdict stays one file's,
\* and a report shows only statuses of verdicts that could be read.
THEOREM TypeCorrect == Spec => []TypeOK
<1>1. Init => TypeOK
  <2>1. NoReport.made = FALSE /\ DOMAIN NoReport.rows = {}
    BY DEF NoReport
  <2> SUFFICES ASSUME Init PROVE TypeOK
    OBVIOUS
  <2>2. /\ report.made \in BOOLEAN /\ DOMAIN report.rows \subseteq Ids
        /\ \A i \in DOMAIN report.rows : report.rows[i] \in Statuses
    BY <2>1 DEF Init
  <2>3. detours \in 0..MaxDetours
    BY AuditAssumption DEF Init
  <2> QED
    BY <2>2, <2>3 DEF Init, TypeOK
<1> QED
  BY <1>1, TypeNext, PTL DEF Spec

(***************************************************************************)
(* Patches.  `report` writes them before it renders, and nothing else runs *)
(* in between, so that every proof with a worktree has its patch when the  *)
(* report is made of the verdicts.                                         *)
(***************************************************************************)
PatchInv == rendering => Patchable \subseteq patches

LEMMA PatchNext ==
  ASSUME PatchInv, [Next]_vars
  PROVE  PatchInv'
<1>1. ASSUME ~rendering' PROVE PatchInv'
  BY <1>1 DEF PatchInv
<1>2. CASE WritePatches
  BY <1>2 DEF WritePatches, PatchInv, Patchable
<1>3. CASE Render \/ KillReport
  BY <1>1, <1>3 DEF Render, KillReport
<1>4. CASE UNCHANGED vars
  BY <1>4 DEF vars, PatchInv, Patchable
<1>5. ASSUME ~rendering, UNCHANGED rendering PROVE PatchInv'
  BY <1>1, <1>5
<1>6. CASE Follow
  BY <1>2, <1>5, <1>6 DEF Follow, Hotspots, Hypothesize, Validate
<1>7. CASE Detour
  BY <1>2, <1>3, <1>5, <1>7 DEF Detour, Hotspots, Hypothesize, Validate, Downgrade,
     TearVerdict, TearHypotheses, Clean, CleanAll
<1> QED
  BY <1>3, <1>4, <1>6, <1>7 DEF Next

\* Whatever is killed, torn or left over: when a report is written, the patch of every
\* proof that it shows is there, for the proofs that have a worktree.
THEOREM PatchesFirst == Spec => ReportedWithPatches
<1> DEFINE Patched == \A i \in wt' \cap DOMAIN report'.rows :
                        report'.rows[i] = "proved" => i \in patches'
<1>1. Init => PatchInv
  BY DEF Init, PatchInv
<1>2. PatchInv /\ [Next]_vars => [report' # report /\ report'.made => Patched]_vars
  <2> SUFFICES ASSUME PatchInv, [Next]_vars, report' # report, report'.made
               PROVE  Patched
    OBVIOUS
  <2>1. CASE Render \/ KillReport
    <3>1. /\ rendering /\ wt' = wt /\ patches' = patches
          /\ \E shown \in SUBSET Readable :
               report' = [made |-> TRUE, rows |-> [i \in shown |-> verdict[i]]]
      BY <2>1 DEF Render, KillReport
    <3>2. PICK shown \in SUBSET Readable :
            report' = [made |-> TRUE, rows |-> [i \in shown |-> verdict[i]]]
      BY <3>1
    <3>3. DOMAIN report'.rows = shown /\ \A i \in shown : report'.rows[i] = verdict[i]
      BY <3>2
    <3>4. Patchable \subseteq patches
      BY <3>1 DEF PatchInv
    <3> QED
      BY <3>1, <3>3, <3>4 DEF Patchable
  <2>2. ASSUME NEW n \in 0..5, CleanAll(n) PROVE FALSE
    BY <2>2 DEF CleanAll, NoReport
  <2>3. CASE Follow
    BY <2>3 DEF Follow, Hotspots, Hypothesize, Validate, WritePatches
  <2>4. CASE Detour
    BY <2>1, <2>2, <2>4 DEF Detour, Hotspots, Hypothesize, Validate, WritePatches, Downgrade,
       TearVerdict, TearHypotheses, Clean
  <2>5. CASE UNCHANGED vars
    BY <2>5 DEF vars
  <2> QED
    BY <2>1, <2>3, <2>4, <2>5 DEF Next
<1> QED
  BY <1>1, <1>2, PatchNext, PTL DEF Spec, ReportedWithPatches
=============================================================================
