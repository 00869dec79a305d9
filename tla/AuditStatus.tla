---------------------------- MODULE AuditStatus -----------------------------
(***************************************************************************)
(* The audit loop as `status` sees it and as an engineer drives it, one    *)
(* command at a time: collect and rank, hypothesize, validate, report      *)
(* (src/internal/report/status.go, report.go and their commands).          *)
(*                                                                         *)
(* LoopStatus counts what the stages left in the directory, and Complete   *)
(* names the stage to run next.  The model runs that stage (Follow), or    *)
(* anything else a bounded number of times: other stages, a critic, clean, *)
(* a command killed in the middle of its work.  Bug_X is a plausible bug   *)
(* of X.                                                                   *)
(***************************************************************************)
EXTENDS Naturals, FiniteSets

CONSTANTS
  Ids,        \* what hypotheses may be called
  MaxDetours  \* bound: steps that status did not ask for

ASSUME AuditAssumption == IsFiniteSet(Ids) /\ Ids # {} /\ MaxDetours \in Nat

Statuses == {"proved", "rejected", "need_more_data"}

VARIABLES
  candidates,  \* hotspots.json ranks a candidate
  hyps,        \* hypotheses.json: the ids in it
  verdict,     \* runs/<id>/verdict.json: "none", a status, or "torn"
  wt,          \* the hypotheses that have a worktree
  patches,     \* those that have a patches/<id>.patch
  report,      \* report.md: is it there, and the statuses it shows
  rendering,   \* `report` has written its patches
  detours      \* left

vars == <<candidates, hyps, verdict, wt, patches, report, rendering, detours>>

NoReport == [made |-> FALSE, rows |-> [i \in {} |-> "none"]]

Init ==
  /\ candidates = FALSE /\ hyps = {} /\ verdict = [i \in Ids |-> "none"]
  /\ wt = {} /\ patches = {}
  /\ report = NoReport
  /\ rendering = FALSE
  /\ detours = MaxDetours

-----------------------------------------------------------------------------
(* status *)

\* A verdict that cannot be parsed is not counted.
Readable == {i \in Ids : verdict[i] \in Statuses}
VerdictTotal == Cardinality(Readable)
Hypotheses == Cardinality(hyps)

\* Bug: the report is asked for before the verdicts.
Bug_Stage ==
  IF ~candidates /\ Hypotheses = 0 /\ VerdictTotal = 0 THEN "collect"
  ELSE IF candidates /\ Hypotheses = 0 THEN "hypothesize"
  ELSE IF ~report.made THEN "report"
  ELSE "complete"

\* Complete: the first case that applies.
Stage ==
  IF ~candidates /\ Hypotheses = 0 /\ VerdictTotal = 0 THEN "collect"
  ELSE IF candidates /\ Hypotheses = 0 THEN "hypothesize"
  ELSE IF Hypotheses > 0 /\ VerdictTotal < Hypotheses THEN "validate"
  ELSE IF ~report.made THEN "report"
  ELSE "complete"

-----------------------------------------------------------------------------
(* The stages *)

\* collect and hotspots; a ranking may have no candidate.
Hotspots(found) ==
  /\ candidates' = found
  /\ UNCHANGED <<hyps, verdict, wt, patches, report, rendering>>

\* The agent writes hypotheses.json.
Hypothesize(ids) ==
  /\ hyps' = ids
  /\ UNCHANGED <<candidates, verdict, wt, patches, report, rendering>>

\* The gate ends with a verdict; it may ask for more data before it has a worktree.
Validate(i, status) ==
  /\ i \in hyps
  /\ verdict' = [verdict EXCEPT ![i] = status]
  /\ wt' \in {wt \cup {i}} \cup (IF status = "need_more_data" THEN {wt} ELSE {})
  /\ UNCHANGED <<candidates, hyps, patches, report, rendering>>

\* Bug: only the hypotheses of hypotheses.json get a patch.
Bug_Patchable == {i \in wt \cap hyps : verdict[i] = "proved"}

\* A proved hypothesis whose worktree was removed gets none.
Patchable == {i \in wt : verdict[i] = "proved"}

\* The first half of `report`; the second one follows at once.
WritePatches ==
  /\ patches' = patches \cup Patchable
  /\ rendering' = TRUE
  /\ UNCHANGED <<candidates, hyps, verdict, wt, report>>

\* Without any verdict file it fails; one that cannot be parsed has no row.
Render ==
  /\ rendering
  /\ report' = IF \A i \in Ids : verdict[i] = "none" THEN report
               ELSE [made |-> TRUE, rows |-> [i \in Readable |-> verdict[i]]]
  /\ rendering' = FALSE
  /\ UNCHANGED <<candidates, hyps, verdict, wt, patches, detours>>

\* What status asks for.
Follow ==
  /\ ~rendering
  /\ \/ Stage = "collect" /\ Hotspots(TRUE)
     \/ Stage = "hypothesize" /\ \E ids \in SUBSET Ids : ids # {} /\ Hypothesize(ids)
     \/ Stage = "validate" /\ \E i \in Ids \ Readable, s \in Statuses : Validate(i, s)
     \/ Stage = "report" /\ WritePatches
  /\ UNCHANGED detours

-----------------------------------------------------------------------------
(* The detours *)

\* Bug: a status that the schema does not have.
Bug_Downgrade(i) ==
  /\ verdict[i] = "proved"
  /\ verdict' = [verdict EXCEPT ![i] = "downgraded"]
  /\ UNCHANGED <<candidates, hyps, wt, patches, report, rendering>>

\* A critic's veto.
Downgrade(i) ==
  /\ verdict[i] = "proved"
  /\ verdict' = [verdict EXCEPT ![i] = "need_more_data"]
  /\ UNCHANGED <<candidates, hyps, wt, patches, report, rendering>>

\* A command is killed while it writes verdict.json, or hypotheses.json.
TearVerdict(i) ==
  /\ i \in hyps
  /\ verdict' = [verdict EXCEPT ![i] = "torn"]
  /\ UNCHANGED <<candidates, hyps, wt, patches, report, rendering>>

TearHypotheses ==
  /\ hyps # {}
  /\ hyps' = {}
  /\ UNCHANGED <<candidates, verdict, wt, patches, report, rendering>>

Clean ==
  /\ wt # {}
  /\ wt' = {}
  /\ UNCHANGED <<candidates, hyps, verdict, patches, report, rendering>>

\* `clean --all` deletes what it lists in the order of the names; it may fail or
\* be killed after the first n.
CleanAll(n) ==
  /\ candidates' = (candidates /\ n < 1)                       \* hotspots.json
  /\ hyps' = IF n < 2 THEN hyps ELSE {}                        \* hypotheses.json
  /\ patches' = IF n < 3 THEN patches ELSE {}                  \* patches
  /\ report' = IF n < 4 THEN report ELSE NoReport              \* report.md
  /\ verdict' = IF n < 5 THEN verdict ELSE [i \in Ids |-> "none"]   \* runs
  /\ wt' = {}                                                  \* first of all
  /\ UNCHANGED rendering

\* `report` is killed between its two halves, or while it writes report.md: what is in
\* the file shows some of the rows.
KillReport ==
  /\ rendering
  /\ rendering' = FALSE
  /\ \/ UNCHANGED report
     \/ /\ \E i \in Ids : verdict[i] # "none"
        /\ \E shown \in SUBSET Readable :
             report' = [made |-> TRUE, rows |-> [i \in shown |-> verdict[i]]]
  /\ UNCHANGED <<candidates, hyps, verdict, wt, patches>>

Detour ==
  /\ detours > 0 /\ detours' = detours - 1
  /\ \/ KillReport
     \/ /\ ~rendering
        /\ \/ \E found \in BOOLEAN : Hotspots(found)
           \/ \E ids \in SUBSET Ids : ids # {} /\ Hypothesize(ids)
           \/ \E i \in Ids, s \in Statuses : Validate(i, s)
           \/ \E i \in Ids : Downgrade(i) \/ TearVerdict(i)
           \/ WritePatches \/ TearHypotheses \/ Clean
           \/ \E n \in 0..5 : CleanAll(n)

Next == Follow \/ Render \/ Detour

Spec == Init /\ [][Next]_vars

\* The engineer does what status asks for, and `report` ends.
Fairness == WF_vars(Follow) /\ WF_vars(Render)
FairSpec == Spec /\ Fairness

-----------------------------------------------------------------------------
(* Properties *)

\* Type invariant.
TypeOK ==
  /\ candidates \in BOOLEAN
  /\ hyps \subseteq Ids /\ wt \subseteq Ids /\ patches \subseteq Ids
  /\ verdict \in [Ids -> Statuses \cup {"none", "torn"}]
  /\ report.made \in BOOLEAN
  /\ DOMAIN report.rows \subseteq Ids
  /\ \A i \in DOMAIN report.rows : report.rows[i] \in Statuses
  /\ rendering \in BOOLEAN /\ detours \in 0..MaxDetours

\* "with a verdict for every hypothesis" (Complete), which only compares numbers.
CompleteMeansVerdicts == Stage = "complete" => hyps \subseteq Readable

\* The same, as long as no verdict is of a hypothesis that is not listed any more.
CompleteWithoutLeftovers == Readable \subseteq hyps => CompleteMeansVerdicts

\* "generate the per-proved patch files the report references before rendering"
\* (reportCmd.Run): when a report is written, the patch of every proof that it shows
\* is there, killed reports, leftovers and torn files or not.
ReportedWithPatches ==
  [][report' # report /\ report'.made =>
       \A i \in wt' \cap DOMAIN report'.rows :
         report'.rows[i] = "proved" => i \in patches']_vars

\* "a stalled loop points at what to run next" (Complete): whatever state the
\* detours leave, doing what status asks for reaches a complete loop.
HintsLeadToComplete == <>[](Stage = "complete")
=============================================================================
