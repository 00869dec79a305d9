---------------------------- MODULE VerdictRule -----------------------------
(***************************************************************************)
(* From benchstat's CSV to a decision (src/internal/gate/benchstat.go and  *)
(* gate.go): parseBenchstat reads one cell per metric, decideVerdict keeps *)
(* or rejects a candidate, and Regression reads the same cells with the    *)
(* verdict inverted.                                                       *)
(*                                                                         *)
(* A report is what was measured: the benchmarks that ran (one, or one per *)
(* b.Run subtest), each with the two centers of every metric and whether   *)
(* they differ significantly.  Csv is the file benchstat makes of it, a    *)
(* sequence of lines.  Bug_X is a plausible bug of X.                      *)
(***************************************************************************)
EXTENDS Integers, Sequences, FiniteSets, FiniteSetsExt

CONSTANTS
  Pairs,           \* what the two centers of a metric may be
  OneSided,        \* a benchmark that only one of the two files has
  MaxBenchmarks,   \* bound: benchmarks in a report
  MinImprovement,  \* --min-improvement: floor (%) for the proof metric
  RegressionTol    \* --regression-tol: tolerance (%) for the others

Labels == {"sec/op", "B/op", "allocs/op"}
Units == Labels \cup {"B/s"}   \* the tables of a benchmark that calls SetBytes
ProofMetrics == {"ns_op", "B_op", "allocs_op", "bogus"}

Pair == [base : Nat, new : Nat, signif : BOOLEAN]

ASSUME VerdictAssumption ==
  /\ Pairs \subseteq Pair
  /\ OneSided \notin [Labels -> Pair]
  /\ MaxBenchmarks \in Nat \ {0}
  /\ MinImprovement \in Nat
  /\ RegressionTol \in Nat

\* A benchmark takes some time; it need not allocate.
Benchmarks == {b \in [Labels -> Pairs] : b["sec/op"].base > 0} \cup {OneSided}
Reports == UNION {[1..n -> Benchmarks] : n \in 1..MaxBenchmarks}

-----------------------------------------------------------------------------
(* benchstat, as far as the gate depends on it *)

Cell == [sign : {"", "~", "-", "+", "0", "?"}, pct : Nat]
NoCell == [sign |-> "", pct |-> 0]

\* "vs base": ~ when not significant, ? when there is no percentage of a zero
\* base, else the signed percentage.
CellOf(r) ==
  LET diff == r.new - r.base
      percent(d) == (d * 100) \div r.base
  IN CASE ~r.signif                              -> [sign |-> "~", pct |-> 0]
       [] r.signif /\ diff = 0                   -> [sign |-> "0", pct |-> 0]
       [] r.signif /\ diff # 0 /\ r.base = 0     -> [sign |-> "?", pct |-> 0]
       [] r.signif /\ diff > 0 /\ r.base > 0     -> [sign |-> "+", pct |-> percent(diff)]
       [] r.signif /\ diff < 0                   -> [sign |-> "-", pct |-> percent(-diff)]

\* A line: a metric's header, a benchmark's row, the geomean row or an empty
\* line.  A row is narrow when one of the two files lacks the benchmark.
Line(kind, label, cell) == [kind |-> kind, label |-> label, cell |-> cell]
Blank == Line("blank", "none", NoCell)

\* B/s moves with sec/op; the gate never reads it.
PairOf(bench, unit) == bench[IF unit = "B/s" THEN "sec/op" ELSE unit]

LineOf(bench, unit) ==
  IF bench = OneSided THEN Line("narrow", "none", NoCell)
  ELSE Line("row", "none", CellOf(PairOf(bench, unit)))

Table(rep, unit) ==
  <<Line("header", unit, NoCell)>>
    \o [i \in DOMAIN rep |-> LineOf(rep[i], unit)]
    \o <<Line("geomean", "none", NoCell), Blank>>

Csv(rep) ==
  Table(rep, "sec/op") \o Table(rep, "B/s") \o Table(rep, "B/op") \o Table(rep, "allocs/op")

-----------------------------------------------------------------------------
(* The gate's reading of it *)

proofLabel(metric) ==
  CASE metric = "ns_op"     -> "sec/op"
    [] metric = "B_op"      -> "B/op"
    [] metric = "allocs_op" -> "allocs/op"
    [] OTHER                -> ""

\* Bug: an empty line does not end the section.
Bug_InSection(csv, label, i) ==
  \E h \in 1..(i-1) : csv[h].kind = "header" /\ csv[h].label = label

\* Only an empty line ends a section: another metric's header does not.
InSection(csv, label, i) ==
  \E h \in 1..(i-1) :
    /\ csv[h].kind = "header" /\ csv[h].label = label
    /\ \A k \in (h+1)..(i-1) : csv[k].kind # "blank"

\* The lines that are data rows of a metric's section.
DataRows(csv, label) ==
  {i \in DOMAIN csv : csv[i].kind = "row" /\ InSection(csv, label, i)}

\* Bug: the last row is read, not the first.
Bug_parseBenchstat(csv, label) ==
  IF DataRows(csv, label) = {} THEN NoCell ELSE csv[Max(DataRows(csv, label))].cell

parseBenchstat(csv, label) ==
  LET rows == DataRows(csv, label)
  IN IF rows = {} THEN NoCell ELSE csv[Min(rows)].cell

\* More than one row: the caller warns that only the first is read.
benchstatRowCount(csv, label) == Cardinality(DataRows(csv, label))

\* Bug: any improvement is a win, however small.
Bug_Wins(cell, minImprove) == cell.sign = "-"

Wins(cell, minImprove) == cell.sign = "-" /\ cell.pct >= minImprove

Worse(cell, regressTol) == cell.sign = "+" /\ cell.pct > regressTol

\* Bug: the guard is a percentage of the win it may give back.
Bug_decideVerdict(csv, label, minImprove, regressTol) ==
  /\ Wins(parseBenchstat(csv, label), minImprove)
  /\ \A other \in Labels \ {label} :
       ~Worse(parseBenchstat(csv, other), regressTol + minImprove)

decideVerdict(csv, label, minImprove, regressTol) ==
  /\ Wins(parseBenchstat(csv, label), minImprove)
  /\ \A other \in Labels \ {label} :
       ~Worse(parseBenchstat(csv, other), regressTol)

regressionStatus(csv, regressTol) ==
  IF \E m \in Labels : Worse(parseBenchstat(csv, m), regressTol)
  THEN "regression" ELSE "clean"

-----------------------------------------------------------------------------
(* One measurement, read by both commands *)

VARIABLES
  report,   \* what was measured
  metric,   \* the hypothesis's proof metric
  verdict,  \* of `bench verdict`
  check,    \* of `bench regression`
  warned    \* `bench verdict` warned of several rows

vars == <<report, metric, verdict, check, warned>>

Init ==
  /\ report \in Reports
  /\ metric \in ProofMetrics
  /\ verdict = "none" /\ check = "none" /\ warned = FALSE

\* The end of Verdict: a metric it does not know is an error.
Gate ==
  /\ verdict = "none"
  /\ LET label == proofLabel(metric)
         csv == Csv(report)
     IN IF label = ""
        THEN verdict' = "error" /\ UNCHANGED warned
        ELSE /\ warned' = (benchstatRowCount(csv, label) > 1)
             /\ verdict' = IF decideVerdict(csv, label, MinImprovement, RegressionTol)
                           THEN "proved" ELSE "rejected"
  /\ UNCHANGED <<report, metric, check>>

\* The end of Regression, for the same measurement and tolerance.
Check ==
  /\ check = "none"
  /\ LET csv == Csv(report) IN check' = regressionStatus(csv, RegressionTol)
  /\ UNCHANGED <<report, metric, verdict, warned>>

Next == Gate \/ Check

Spec == Init /\ [][Next]_vars

-----------------------------------------------------------------------------
(* Properties *)

\* Where the report has the benchmarks that the two files can be compared on.
Compared == {i \in DOMAIN report : report[i] # OneSided}
Comparable == Compared # {}

\* The pair the gate speaks about: of the first of them.
Measured(label) == report[Min(Compared)][label]

IsWin(r) ==
  /\ r.signif /\ r.new < r.base
  /\ (r.base - r.new) * 100 >= MinImprovement * r.base

\* r grew by more than the tolerance, in whole percents.
IsLoss(r) ==
  /\ r.signif /\ r.new > r.base
  /\ r.base > 0 => (r.new - r.base) * 100 >= (RegressionTol + 1) * r.base

\* parseBenchstat reads the cell of its own metric's first comparable row, never
\* one of another table or of a later subtest, and none if no row is comparable.
ReadsOwnTable ==
  LET csv == Csv(report)
  IN \A label \in Labels :
       parseBenchstat(csv, label) =
         IF Comparable THEN CellOf(Measured(label)) ELSE NoCell

\* A proved candidate really improved its proof metric by the floor, and no
\* metric with a base above zero grew beyond the tolerance.
ProvedIsAWin ==
  verdict = "proved" =>
    LET label == proofLabel(metric)
    IN /\ Comparable /\ IsWin(Measured(label))
       /\ \A other \in Labels \ {label} :
            Measured(other).base > 0 => ~IsLoss(Measured(other))

\* The two commands never contradict each other: what the gate proves, the
\* regression check of the same measurement does not call a regression.
GateAgreesWithCheck == verdict = "proved" => check # "regression"

\* The gate warns exactly when it read only some of the comparable subtests.
WarnsOfSubtests ==
  verdict \in {"proved", "rejected"} => (warned <=> Cardinality(Compared) > 1)

\* "a significant regression on another metric only kills the win if it exceeds
\* regressTol" (decideVerdict): one that exceeds it does kill the win.
BeyondToleranceKills ==
  verdict = "proved" =>
    \A other \in Labels \ {proofLabel(metric)} : ~IsLoss(Measured(other))
=============================================================================
