-------------------------- MODULE VerdictRuleProofs -------------------------
(***************************************************************************)
(* Proofs about VerdictRule for every floor, every tolerance and every     *)
(* set of measurements.  Of the decision alone: a stricter gate never      *)
(* keeps more, and what is kept is no regression.  Of the percentages: a   *)
(* cell that passes the floor is an improvement of the two centers by it.  *)
(* Of the CSV, line by line: the cell read for a metric is that of the     *)
(* first comparable benchmark in the metric's own table, however many      *)
(* benchmarks the report has.  Together: what `bench verdict` proves is a  *)
(* win of the measurement.                                                 *)
(***************************************************************************)
EXTENDS VerdictRule, FiniteSetTheorems, FunctionTheorems, TLAPS

\* A decision depends on the cells alone, so that these facts need not know how
\* they are read: whatever is kept is not a regression under the same tolerance.
LEMMA KeptIsNoRegression ==
  ASSUME NEW csv, NEW label \in Labels,
         decideVerdict(csv, label, MinImprovement, RegressionTol)
  PROVE  regressionStatus(csv, RegressionTol) = "clean"
<1>1. ~Worse(parseBenchstat(csv, label), RegressionTol)
  BY DEF decideVerdict, Wins, Worse
<1>2. \A m \in Labels \ {label} : ~Worse(parseBenchstat(csv, m), RegressionTol)
  BY DEF decideVerdict
<1> QED
  BY <1>1, <1>2 DEF regressionStatus

\* Raising the floor or lowering the tolerance never turns a rejection into a win.
THEOREM StricterKeepsLess ==
  ASSUME NEW csv, NEW label \in Labels,
         \A m \in Labels : parseBenchstat(csv, m).pct \in Nat,
         NEW floor \in Nat, NEW tol \in Nat,
         NEW stricterFloor \in Nat, NEW stricterTol \in Nat,
         stricterFloor >= floor, stricterTol =< tol,
         decideVerdict(csv, label, stricterFloor, stricterTol)
  PROVE  decideVerdict(csv, label, floor, tol)
<1>1. Wins(parseBenchstat(csv, label), floor)
  BY DEF decideVerdict, Wins
<1>2. ASSUME NEW m \in Labels \ {label} PROVE ~Worse(parseBenchstat(csv, m), tol)
  BY <1>2 DEF decideVerdict, Worse
<1> QED
  BY <1>1, <1>2 DEF decideVerdict

-----------------------------------------------------------------------------
(* Percentages.  benchstat's cell says in whole percents what the two       *)
(* centers are, and the thresholds mean what they say of the centers.       *)

LEMMA WholePercent ==
  ASSUME NEW x \in Nat, NEW b \in Nat \ {0}, NEW m \in Nat
  PROVE  /\ x \div b \in Nat
         /\ x \div b >= m => x >= m * b
         /\ x \div b <= m => x < (m + 1) * b
<1> DEFINE q == x \div b
<1>1. q \in Nat /\ q * b <= x /\ x < (q + 1) * b
  OBVIOUS
<1> HIDE DEF q
<1>2. q >= m => q * b >= m * b
  BY <1>1
<1>3. q <= m => (q + 1) * b <= (m + 1) * b
  BY <1>1
<1>4. m * b \in Nat /\ (m + 1) * b \in Nat /\ q * b \in Nat /\ (q + 1) * b \in Nat
  BY <1>1
<1> QED
  BY <1>1, <1>2, <1>3, <1>4 DEF q

LEMMA CellTyped ==
  ASSUME NEW r \in Pair
  PROVE  CellOf(r) \in Cell
<1> DEFINE diff == r.new - r.base
<1>1. diff \in Int /\ r.base \in Nat /\ r.new \in Nat /\ r.signif \in BOOLEAN
  BY DEF Pair
<1>2. ASSUME r.base # 0, diff > 0 PROVE (diff * 100) \div r.base \in Nat
  BY <1>1, <1>2, WholePercent
<1>3. ASSUME r.base # 0, diff < 0 PROVE ((-diff) * 100) \div r.base \in Nat
  BY <1>1, <1>3, WholePercent
<1>4. CASE ~r.signif \/ diff = 0 \/ r.base = 0
  <2>1. \/ CellOf(r) = [sign |-> "~", pct |-> 0]
        \/ CellOf(r) = [sign |-> "0", pct |-> 0]
        \/ CellOf(r) = [sign |-> "?", pct |-> 0]
    BY <1>1, <1>4 DEF CellOf
  <2>2. \A s \in {"~", "0", "?"} : [sign |-> s, pct |-> 0] \in Cell
    BY DEF Cell
  <2> QED
    BY <2>1, <2>2, Zenon
<1>5. CASE r.signif /\ r.base # 0 /\ diff > 0
  <2>1. CellOf(r) = [sign |-> "+", pct |-> (diff * 100) \div r.base]
    BY <1>1, <1>5 DEF CellOf
  <2> QED
    BY <1>2, <1>5, <2>1 DEF Cell
<1>6. CASE r.signif /\ r.base # 0 /\ diff < 0
  <2>1. CellOf(r) = [sign |-> "-", pct |-> ((-diff) * 100) \div r.base]
    BY <1>1, <1>6 DEF CellOf
  <2> QED
    BY <1>3, <1>6, <2>1 DEF Cell
<1> QED
  BY <1>1, <1>4, <1>5, <1>6

\* A cell that wins under the floor is a win of the centers, and one that is not worse
\* than the tolerance is no loss, unless the base is zero.
LEMMA WinMeansWin ==
  ASSUME NEW r \in Pair, Wins(CellOf(r), MinImprovement)
  PROVE  IsWin(r)
<1> DEFINE diff == r.new - r.base
<1>1. diff \in Int /\ r.base \in Nat /\ r.new \in Nat /\ r.signif \in BOOLEAN
      /\ MinImprovement \in Nat
  BY VerdictAssumption DEF Pair
<1>2. r.signif /\ diff < 0 /\ r.base # 0 /\ ((-diff) * 100) \div r.base >= MinImprovement
  BY <1>1 DEF CellOf, Wins
<1>3. (-diff) * 100 \in Nat /\ r.base \in Nat \ {0}
  BY <1>1, <1>2
<1>4. (-diff) * 100 >= MinImprovement * r.base
  BY <1>1, <1>2, <1>3, WholePercent
<1> QED
  BY <1>1, <1>2, <1>4 DEF IsWin

LEMMA NotWorseMeansNoLoss ==
  ASSUME NEW r \in Pair, ~Worse(CellOf(r), RegressionTol), r.base > 0
  PROVE  ~IsLoss(r)
<1> DEFINE diff == r.new - r.base
<1>1. diff \in Int /\ r.base \in Nat \ {0} /\ r.new \in Nat /\ r.signif \in BOOLEAN
      /\ RegressionTol \in Nat
  BY VerdictAssumption DEF Pair
<1>2. ASSUME r.signif, diff > 0 PROVE diff * 100 < (RegressionTol + 1) * r.base
  <2>1. CellOf(r) = [sign |-> "+", pct |-> (diff * 100) \div r.base]
    BY <1>1, <1>2 DEF CellOf
  <2>0. diff * 100 \in Nat
    BY <1>1, <1>2
  <2>2. diff * 100 \in Nat /\ (diff * 100) \div r.base \in Nat
    <3> HIDE DEF diff
    <3> QED
      BY <1>1, <2>0, WholePercent
  <2>3. (diff * 100) \div r.base <= RegressionTol
    BY <1>1, <2>1, <2>2 DEF Worse
  <2> QED
    BY <1>1, <2>2, <2>3, WholePercent
<1>3. diff * 100 \in Int /\ (RegressionTol + 1) * r.base \in Int
  BY <1>1
<1> QED
  BY <1>1, <1>2, <1>3 DEF IsLoss

-----------------------------------------------------------------------------
(* The CSV.  Four tables after each other, each of a header, a row for every *)
(* benchmark, the geomean and an empty line: so the rows that are read for a *)
(* metric are those of its own table, whatever its place.                   *)

LEMMA Least ==
  ASSUME NEW T \in SUBSET Nat, T # {}
  PROVE  Min(T) \in T /\ \A n \in T : Min(T) <= n
<1> DEFINE R == {ss \in Nat \X Nat : ss[1] < ss[2]}
<1>1. IsWellFoundedOn(R, Nat)
  BY NatLessThanWellFounded DEF OpToRel
<1>2. \A x, y \in Nat : x < y => <<x, y>> \in R
  OBVIOUS
<1> HIDE DEF R
<1>3. PICK m \in T : \A n \in T : ~ (<<n, m>> \in R)
  BY <1>1, WFMin
<1>4. \A n \in T : ~ (n < m)
  BY <1>2, <1>3
<1>5. \A n \in T : m <= n
  BY <1>4
<1> QED
  BY <1>5 DEF Min

Lines == [kind : {"header", "row", "narrow", "geomean", "blank"},
          label : Units \cup {"none"}, cell : Cell]

\* What is where in two sequences of lines after each other.
Joins(s, t) ==
  /\ s \o t \in Seq(Lines) /\ Len(s \o t) = Len(s) + Len(t)
  /\ \A i \in 1..Len(s) : (s \o t)[i] = s[i]
  /\ \A i \in 1..Len(t) : (s \o t)[Len(s) + i] = t[i]

LEMMA Concat ==
  \A s, t \in Seq(Lines) : Joins(s, t)
<1> DEFINE S == Lines
<1> HIDE DEF S
<1>1. \A s, t \in Seq(S) :
        /\ s \o t \in Seq(S) /\ Len(s \o t) = Len(s) + Len(t)
        /\ \A i \in 1..Len(s) : (s \o t)[i] = s[i]
        /\ \A i \in 1..Len(t) : (s \o t)[Len(s) + i] = t[i]
  OBVIOUS
<1> QED
  BY <1>1 DEF S, Joins

LEMMA TwoLines ==
  \A x, y \in Lines : <<x, y>> \in Seq(Lines) /\ <<x>> \in Seq(Lines)
<1> DEFINE S == Lines
<1> HIDE DEF S
<1>1. \A x, y \in S : <<x, y>> \in Seq(S) /\ <<x>> \in Seq(S)
  OBVIOUS
<1> QED
  BY <1>1 DEF S

ReportOk(rep) == rep \in Seq(Benchmarks)

\* A benchmark that both files have has a pair of centers for every metric.
LEMMA PairOk ==
  ASSUME NEW b \in Benchmarks, b # OneSided
  PROVE  b \in [Labels -> Pair] /\ \A unit \in Units : PairOf(b, unit) \in Pair
<1>1. b \in [Labels -> Pair]
  BY VerdictAssumption DEF Benchmarks
<1> QED
  BY <1>1 DEF PairOf, Units, Labels

LEMMA LineTyped ==
  ASSUME NEW b \in Benchmarks, NEW unit \in Units
  PROVE  LineOf(b, unit) \in Lines
<1>1. NoCell \in Cell
  BY DEF NoCell, Cell
<1>2. b # OneSided => CellOf(PairOf(b, unit)) \in Cell
  BY PairOk, CellTyped
<1> QED
  BY <1>1, <1>2 DEF LineOf, Line, Lines

\* A table, line by line.
LEMMA TableLines ==
  ASSUME NEW rep, ReportOk(rep), NEW unit \in Units
  PROVE  /\ Table(rep, unit) \in Seq(Lines)
         /\ Len(Table(rep, unit)) = Len(rep) + 3
         /\ Table(rep, unit)[1] = Line("header", unit, NoCell)
         /\ \A i \in 1..Len(rep) : Table(rep, unit)[i + 1] = LineOf(rep[i], unit)
         /\ Table(rep, unit)[Len(rep) + 2] = Line("geomean", "none", NoCell)
         /\ Table(rep, unit)[Len(rep) + 3] = Blank
<1> DEFINE n == Len(rep)
           a == <<Line("header", unit, NoCell)>>
           b == [i \in DOMAIN rep |-> LineOf(rep[i], unit)]
           c == <<Line("geomean", "none", NoCell), Blank>>
<1>1. n \in Nat /\ DOMAIN rep = 1..n /\ \A i \in 1..n : rep[i] \in Benchmarks
  BY DEF ReportOk
<1>2. NoCell \in Cell
  BY DEF NoCell, Cell
<1>3. a \in Seq(Lines) /\ Len(a) = 1 /\ a[1] = Line("header", unit, NoCell)
  <2>1. Line("header", unit, NoCell) \in Lines
    BY <1>2 DEF Line, Lines
  <2>2. Len(a) = 1 /\ a[1] = Line("header", unit, NoCell)
    OBVIOUS
  <2> QED
    BY <2>1, <2>2, TwoLines, Zenon
<1>4. c \in Seq(Lines) /\ Len(c) = 2 /\ c[1] = Line("geomean", "none", NoCell) /\ c[2] = Blank
  <2>1. Line("geomean", "none", NoCell) \in Lines /\ Blank \in Lines
    BY <1>2 DEF Line, Lines, Blank
  <2>2. Len(c) = 2 /\ c[1] = Line("geomean", "none", NoCell) /\ c[2] = Blank
    OBVIOUS
  <2> QED
    BY <2>1, <2>2, TwoLines, Zenon
<1>5. b \in Seq(Lines) /\ Len(b) = n /\ \A i \in 1..n : b[i] = LineOf(rep[i], unit)
  <2>1. \A i \in 1..n : LineOf(rep[i], unit) \in Lines
    BY <1>1, LineTyped
  <2>2. b \in [1..n -> Lines]
    BY <1>1, <2>1
  <2> QED
    BY <1>1, <2>2
<1>6. Table(rep, unit) = a \o b \o c
  BY DEF Table
<1> HIDE DEF a, b, c, n
<1>7. /\ a \o b \in Seq(Lines) /\ Len(a \o b) = 1 + n
      /\ \A i \in 1..1 : (a \o b)[i] = a[i]
      /\ \A i \in 1..n : (a \o b)[1 + i] = b[i]
  <2>1. Joins(a, b)
    BY <1>3, <1>5, Concat, Zenon
  <2> QED
    BY <1>3, <1>5, <2>1 DEF Joins
<1>8. 1 + n \in Nat
  BY <1>1
<1>9. /\ (a \o b) \o c \in Seq(Lines) /\ Len((a \o b) \o c) = (1 + n) + 2
      /\ \A i \in 1..(1 + n) : ((a \o b) \o c)[i] = (a \o b)[i]
      /\ \A i \in 1..2 : ((a \o b) \o c)[(1 + n) + i] = c[i]
  <2>1. Joins(a \o b, c)
    BY <1>4, <1>7, Concat, Zenon
  <2> QED
    BY <1>4, <1>7, <2>1 DEF Joins
<1> DEFINE t == (a \o b) \o c
<1> HIDE DEF t
<1>10. t \in Seq(Lines) /\ Len(t) = n + 3
  BY <1>1, <1>9 DEF t
<1>11. t[1] = a[1] /\ t[n + 2] = c[1] /\ t[n + 3] = c[2]
  <2>1. 1 \in 1..1 /\ 1 \in 1..(1 + n) /\ 1 \in 1..2 /\ 2 \in 1..2
        /\ (1 + n) + 1 = n + 2 /\ (1 + n) + 2 = n + 3
    BY <1>1
  <2> QED
    BY <1>7, <1>9, <2>1 DEF t
<1>12. \A i \in 1..n : t[i + 1] = b[i]
  <2>1. \A i \in 1..n : 1 + i = i + 1 /\ 1 + i \in 1..(1 + n)
    BY <1>1
  <2> QED
    BY <1>7, <1>9, <2>1 DEF t
<1> QED
  BY <1>3, <1>4, <1>5, <1>6, <1>10, <1>11, <1>12 DEF n, t

\* Concatenation, from the left.
LEMMA CsvLines ==
  ASSUME NEW rep, ReportOk(rep)
  PROVE  LET T == Len(rep) + 3
             csv == Csv(rep)
         IN  /\ T \in Nat /\ DOMAIN csv = 1..(4 * T)
             /\ \A j \in 1..T : /\ csv[j] = Table(rep, "sec/op")[j]
                                /\ csv[T + j] = Table(rep, "B/s")[j]
                                /\ csv[2 * T + j] = Table(rep, "B/op")[j]
                                /\ csv[3 * T + j] = Table(rep, "allocs/op")[j]
<1> DEFINE T == Len(rep) + 3
           a == Table(rep, "sec/op")
           b == Table(rep, "B/s")
           c == Table(rep, "B/op")
           d == Table(rep, "allocs/op")
<1>1. T \in Nat
  BY DEF ReportOk
<1>2. /\ a \in Seq(Lines) /\ Len(a) = T /\ b \in Seq(Lines) /\ Len(b) = T
      /\ c \in Seq(Lines) /\ Len(c) = T /\ d \in Seq(Lines) /\ Len(d) = T
  BY TableLines DEF Units, Labels
<1>3. Csv(rep) = ((a \o b) \o c) \o d
  BY DEF Csv
<1> HIDE DEF T, a, b, c, d
<1>4. /\ a \o b \in Seq(Lines) /\ Len(a \o b) = T + T
      /\ \A j \in 1..T : (a \o b)[j] = a[j] /\ (a \o b)[T + j] = b[j]
  <2>1. Joins(a, b)
    BY <1>2, Concat, Zenon
  <2> QED
    BY <1>2, <2>1 DEF Joins
<1>5. /\ (a \o b) \o c \in Seq(Lines) /\ Len((a \o b) \o c) = (T + T) + T
      /\ \A j \in 1..(T + T) : ((a \o b) \o c)[j] = (a \o b)[j]
      /\ \A j \in 1..T : ((a \o b) \o c)[(T + T) + j] = c[j]
  <2>1. Joins(a \o b, c)
    BY <1>2, <1>4, Concat, Zenon
  <2> QED
    BY <1>2, <1>4, <2>1 DEF Joins
<1>6. /\ ((a \o b) \o c) \o d \in Seq(Lines)
      /\ Len(((a \o b) \o c) \o d) = ((T + T) + T) + T
      /\ \A j \in 1..((T + T) + T) : (((a \o b) \o c) \o d)[j] = ((a \o b) \o c)[j]
      /\ \A j \in 1..T : (((a \o b) \o c) \o d)[((T + T) + T) + j] = d[j]
  <2>1. Joins((a \o b) \o c, d)
    BY <1>2, <1>5, Concat, Zenon
  <2> QED
    BY <1>2, <1>5, <2>1 DEF Joins
<1> DEFINE csv == Csv(rep)
<1> HIDE DEF csv
<1>7. csv \in Seq(Lines) /\ Len(csv) = 4 * T
  BY <1>1, <1>3, <1>6 DEF csv
<1>8. ASSUME NEW j \in 1..T
      PROVE  /\ csv[j] = a[j] /\ csv[T + j] = b[j]
             /\ csv[2 * T + j] = c[j] /\ csv[3 * T + j] = d[j]
  <2>1. /\ j \in 1..(T + T) /\ j \in 1..((T + T) + T)
        /\ T + j \in 1..(T + T) /\ T + j \in 1..((T + T) + T)
        /\ (T + T) + j \in 1..((T + T) + T)
        /\ 2 * T + j = (T + T) + j /\ 3 * T + j = ((T + T) + T) + j
    BY <1>1
  <2> QED
    BY <1>3, <1>4, <1>5, <1>6, <2>1 DEF csv
<1>9. DOMAIN csv = 1..(4 * T)
  BY <1>7
<1> QED
  BY <1>1, <1>8, <1>9 DEF T, a, b, c, d, csv

\* Where the table of a metric starts, in tables of length T.
Before(label, T) ==
  CASE label = "sec/op" -> 0 [] label = "B/op" -> 2 * T [] label = "allocs/op" -> 3 * T

\* The header of a table is its first line, and an empty one its last.
LEMMA TableKinds ==
  ASSUME NEW rep, ReportOk(rep), NEW unit \in Units, NEW j \in 1..(Len(rep) + 3)
  PROVE  /\ Table(rep, unit)[j].kind = "header" <=> j = 1
         /\ j = 1 => Table(rep, unit)[j].label = unit
         /\ Table(rep, unit)[j].kind = "blank" <=> j = Len(rep) + 3
<1> DEFINE n == Len(rep)
           t == Table(rep, unit)
<1>1. n \in Nat /\ \A i \in 1..n : rep[i] \in Benchmarks
  BY DEF ReportOk
<1>2. /\ t[1] = Line("header", unit, NoCell)
      /\ \A i \in 1..n : t[i + 1] = LineOf(rep[i], unit)
      /\ t[n + 2] = Line("geomean", "none", NoCell)
      /\ t[n + 3] = Blank
  BY TableLines
<1> HIDE DEF t, n
<1>3. \A i \in 1..n : t[i + 1].kind \in {"row", "narrow"}
  <2>1. \A b : LineOf(b, unit).kind \in {"row", "narrow"}
    BY DEF LineOf, Line
  <2> QED
    BY <1>2, <2>1, Zenon
<1>4. /\ t[1].kind = "header" /\ t[1].label = unit
      /\ t[n + 2].kind = "geomean" /\ t[n + 3].kind = "blank"
  <2>1. \A x : x = Line("header", unit, NoCell) => x.kind = "header" /\ x.label = unit
    BY DEF Line
  <2>2. \A x : x = Line("geomean", "none", NoCell) => x.kind = "geomean"
    BY DEF Line
  <2>3. \A x : x = Blank => x.kind = "blank"
    BY DEF Line, Blank
  <2> QED
    BY <1>2, <2>1, <2>2, <2>3, Zenon
<1>5. CASE j \in {1, n + 2, n + 3}
  BY <1>1, <1>4, <1>5 DEF t, n
<1>6. CASE j \notin {1, n + 2, n + 3}
  <2>1. j - 1 \in 1..n /\ j = (j - 1) + 1
    BY <1>1, <1>6 DEF n
  <2>2. t[j].kind \in {"row", "narrow"}
    BY <1>3, <2>1
  <2> QED
    BY <1>6, <2>2 DEF t, n
<1> QED
  BY <1>5, <1>6

\* In the file, a metric's header is the first line of its own table.
LEMMA OneHeader ==
  ASSUME NEW rep, ReportOk(rep), NEW label \in Labels, NEW i \in DOMAIN Csv(rep)
  PROVE  Csv(rep)[i].kind = "header" /\ Csv(rep)[i].label = label
           <=> i = Before(label, Len(rep) + 3) + 1
<1> DEFINE T == Len(rep) + 3
           csv == Csv(rep)
           Starts(l, unit) == l.kind = "header" /\ l.label = unit
<1>1. T \in Nat \ {0} /\ DOMAIN csv = 1..(4 * T)
  BY CsvLines DEF ReportOk
<1>2. ASSUME NEW unit \in Units, NEW j \in 1..T
      PROVE  Starts(Table(rep, unit)[j], label) <=> j = 1 /\ unit = label
  BY <1>2, TableKinds
<1>3. /\ "sec/op" \in Units /\ "B/s" \in Units /\ "B/op" \in Units /\ "allocs/op" \in Units
      /\ label \in {"sec/op", "B/op", "allocs/op"}
  BY DEF Units, Labels
<1>4. ASSUME NEW j \in 1..T
      PROVE  /\ Starts(csv[j], label) <=> j = 1 /\ label = "sec/op"
             /\ ~ Starts(csv[T + j], label)
             /\ Starts(csv[2 * T + j], label) <=> j = 1 /\ label = "B/op"
             /\ Starts(csv[3 * T + j], label) <=> j = 1 /\ label = "allocs/op"
  <2>1. /\ csv[j] = Table(rep, "sec/op")[j] /\ csv[T + j] = Table(rep, "B/s")[j]
        /\ csv[2 * T + j] = Table(rep, "B/op")[j] /\ csv[3 * T + j] = Table(rep, "allocs/op")[j]
    BY <1>4, CsvLines
  <2>2. \A unit \in Units : Starts(Table(rep, unit)[j], label) <=> j = 1 /\ unit = label
    BY <1>2, <1>4
  <2> HIDE DEF Starts, csv, T
  <2> QED
    BY <1>3, <2>1, <2>2
<1> HIDE DEF Starts, csv, T
<1>5. \/ i \in 1..T
      \/ \E j \in 1..T : i = T + j
      \/ \E j \in 1..T : i = 2 * T + j
      \/ \E j \in 1..T : i = 3 * T + j
  <2>1. i \in 1..(4 * T)
    BY <1>1 DEF csv
  <2>2. \/ i \in 1..T \/ i - T \in 1..T \/ i - 2 * T \in 1..T \/ i - 3 * T \in 1..T
    BY <1>1, <2>1
  <2>3. i = T + (i - T) /\ i = 2 * T + (i - 2 * T) /\ i = 3 * T + (i - 3 * T)
    BY <1>1, <2>1
  <2> QED
    BY <2>2, <2>3
<1>6. /\ label = "sec/op" => Before(label, T) = 0
      /\ label = "B/op" => Before(label, T) = 2 * T
      /\ label = "allocs/op" => Before(label, T) = 3 * T
  BY DEF Before
<1>7. Starts(csv[i], label) <=> i = Before(label, T) + 1
  <2>1. CASE i \in 1..T
    BY <1>1, <1>3, <1>4, <1>6, <2>1
  <2>2. ASSUME NEW j \in 1..T, i = T + j PROVE Starts(csv[i], label) <=> i = Before(label, T) + 1
    <3>1. ~ Starts(csv[i], label)
      BY <1>4, <2>2, Zenon
    <3>2. i # Before(label, T) + 1
      BY <1>1, <1>3, <1>6, <2>2
    <3> QED
      BY <3>1, <3>2
  <2>3. ASSUME NEW j \in 1..T, i = 2 * T + j PROVE Starts(csv[i], label) <=> i = Before(label, T) + 1
    <3>1. Starts(csv[i], label) <=> j = 1 /\ label = "B/op"
      BY <1>4, <2>3, Zenon
    <3>2. i = Before(label, T) + 1 <=> j = 1 /\ label = "B/op"
      BY <1>1, <1>3, <1>6, <2>3
    <3> QED
      BY <3>1, <3>2
  <2>4. ASSUME NEW j \in 1..T, i = 3 * T + j PROVE Starts(csv[i], label) <=> i = Before(label, T) + 1
    <3>1. Starts(csv[i], label) <=> j = 1 /\ label = "allocs/op"
      BY <1>4, <2>4, Zenon
    <3>2. i = Before(label, T) + 1 <=> j = 1 /\ label = "allocs/op"
      BY <1>1, <1>3, <1>6, <2>4
    <3> QED
      BY <3>1, <3>2
  <2> QED
    BY <1>5, <2>1, <2>2, <2>3, <2>4
<1> QED
  BY <1>7 DEF Starts, csv, T

\* The benchmarks of a report that both files have, and the first of them.
ComparedIn(rep) == {i \in DOMAIN rep : rep[i] # OneSided}

\* The rows read for a metric are its own table's, one per benchmark that can be
\* compared and in the report's order, and hold that metric's cell.
LEMMA RowsOfOwnTable ==
  ASSUME NEW rep, ReportOk(rep), NEW label \in Labels
  PROVE  LET o == Before(label, Len(rep) + 3)
             csv == Csv(rep)
         IN  /\ o \in Nat
             /\ \A i \in Nat : i \in DataRows(csv, label)
                                 <=> i - (o + 1) \in ComparedIn(rep)
             /\ DataRows(csv, label) \in SUBSET Nat
             /\ \A k \in ComparedIn(rep) : csv[o + 1 + k].cell = CellOf(rep[k][label])
<1> DEFINE n == Len(rep)
           T == n + 3
           o == Before(label, T)
           csv == Csv(rep)
           tab == Table(rep, label)
<1>1. n \in Nat /\ T \in Nat /\ DOMAIN csv = 1..(4 * T) /\ DOMAIN rep = 1..n
      /\ \A i \in 1..n : rep[i] \in Benchmarks
  BY CsvLines DEF ReportOk
<1>2. o \in {0, 2 * T, 3 * T} /\ \A j \in 1..T : csv[o + j] = tab[j]
  <2>1. \A j \in 1..T : 0 + j = j
    OBVIOUS
  <2>2. \A j \in 1..T : /\ csv[j] = Table(rep, "sec/op")[j]
                        /\ csv[2 * T + j] = Table(rep, "B/op")[j]
                        /\ csv[3 * T + j] = Table(rep, "allocs/op")[j]
    BY CsvLines
  <2> HIDE DEF T, csv
  <2> QED
    BY <2>1, <2>2 DEF Labels, Before
<1>3. label \in Units
  BY DEF Units
<1>4. \A i \in 1..(4 * T) : csv[i].kind = "header" /\ csv[i].label = label <=> i = o + 1
  BY <1>1, OneHeader
<1>5. \A j \in 1..T : tab[j].kind = "blank" <=> j = T
  BY <1>3, TableKinds
<1>6. /\ tab[1].kind # "row" /\ tab[n + 2].kind # "row" /\ tab[n + 3].kind # "row"
      /\ \A k \in 1..n : tab[k + 1] = LineOf(rep[k], label)
  <2>1. \A k, l, x : Line(k, l, x).kind = k
    BY DEF Line
  <2> HIDE DEF n
  <2> QED
    BY <1>3, <2>1, TableLines DEF Blank, n
<1>7. ASSUME NEW k \in 1..n
      PROVE  /\ tab[k + 1].kind = "row" <=> rep[k] # OneSided
             /\ rep[k] # OneSided => tab[k + 1].cell = CellOf(rep[k][label])
  <2>1. LineOf(rep[k], label) = IF rep[k] = OneSided THEN Line("narrow", "none", NoCell)
                                ELSE Line("row", "none", CellOf(rep[k][label]))
    BY DEF LineOf, PairOf, Labels
  <2>2. \A a, l, x : Line(a, l, x).kind = a /\ Line(a, l, x).cell = x
    BY DEF Line
  <2> QED
    BY <1>6, <1>7, <2>1, <2>2
<1> HIDE DEF n, csv, tab, o
<1>8. ASSUME NEW i \in 1..(4 * T)
      PROVE  InSection(csv, label, i) <=> i \in (o + 2)..(o + T)
  <2>1. 1..(4 * T) \subseteq Int /\ o \in Nat /\ o + T \in 1..(4 * T) /\ o + 1 \in 1..(4 * T)
    BY <1>1, <1>2 DEF T
  <2>2. csv[o + T].kind = "blank"
    BY <1>1, <1>2, <1>5 DEF T
  <2>3. \A k \in (o + 2)..(o + T - 1) : csv[k].kind # "blank"
    <3>1. \A k \in (o + 2)..(o + T - 1) : k - o \in 1..T /\ k - o # T /\ k = o + (k - o)
      BY <1>1, <2>1
    <3> QED
      BY <1>2, <1>5, <3>1
  <2>4. CASE i \in (o + 2)..(o + T)
    <3>1. o + 1 \in 1..(i - 1) /\ \A k \in (o + 1 + 1)..(i - 1) : k \in (o + 2)..(o + T - 1)
      BY <1>1, <2>1, <2>4
    <3> QED
      BY <1>4, <2>1, <2>3, <2>4, <3>1 DEF InSection
  <2>5. CASE i \notin (o + 2)..(o + T)
    <3> SUFFICES ASSUME NEW h \in 1..(i - 1), csv[h].kind = "header", csv[h].label = label,
                        \A k \in (h + 1)..(i - 1) : csv[k].kind # "blank"
                 PROVE  FALSE
      BY <2>5 DEF InSection
    <3>1. h \in 1..(4 * T)
      BY <1>1
    <3>2. h = o + 1
      BY <1>4, <3>1
    <3>3. o + T \in (h + 1)..(i - 1)
      BY <1>1, <2>1, <2>5, <3>2 DEF T
    <3> QED
      BY <2>2, <3>3
  <2> QED
    BY <2>4, <2>5
<1>9. ASSUME NEW i \in Nat
      PROVE  i \in DataRows(csv, label) <=> i - (o + 1) \in ComparedIn(rep)
  <2>1. i \in DataRows(csv, label)
          <=> i \in (o + 2)..(o + T) /\ csv[i].kind = "row"
    BY <1>1, <1>2, <1>8 DEF DataRows, T
  <2>2. CASE i \in (o + 2)..(o + T)
    <3>1. i - o \in 1..T /\ i = o + (i - o) /\ i - o = (i - (o + 1)) + 1
          /\ (i - o \in {n + 2, n + 3} \/ i - (o + 1) \in 1..n)
          /\ (i - o \in {n + 2, n + 3} => i - (o + 1) \notin 1..n)
      BY <1>1, <1>2, <2>2 DEF T
    <3>2. csv[i] = tab[i - o]
      BY <1>2, <3>1
    <3>3. csv[i].kind = "row" => i - (o + 1) \in 1..n
      BY <1>6, <3>1, <3>2
    <3>4. i - (o + 1) \in 1..n => (csv[i].kind = "row" <=> rep[i - (o + 1)] # OneSided)
      BY <1>7, <3>1, <3>2
    <3> QED
      BY <1>1, <2>1, <2>2, <3>3, <3>4 DEF ComparedIn
  <2>3. CASE i \notin (o + 2)..(o + T)
    <3>1. i - (o + 1) \notin 1..n
      BY <1>1, <1>2, <2>3 DEF T
    <3> QED
      BY <1>1, <2>1, <2>3, <3>1 DEF ComparedIn
  <2> QED
    BY <2>2, <2>3
<1>10. ASSUME NEW k \in ComparedIn(rep) PROVE csv[o + 1 + k].cell = CellOf(rep[k][label])
  <2>1. k \in 1..n /\ rep[k] # OneSided /\ k + 1 \in 1..T /\ o + 1 + k = o + (k + 1)
    BY <1>1, <1>2 DEF ComparedIn, T
  <2> QED
    BY <1>2, <1>7, <2>1
<1>11. DataRows(csv, label) \in SUBSET Nat
  BY <1>1 DEF DataRows
<1>12. o \in Nat
  BY <1>1, <1>2
<1> QED
  BY <1>9, <1>10, <1>11, <1>12 DEF csv, o, n, T

\* So the cell read is the first comparable benchmark's, and the rows counted are
\* the comparable ones.
LEMMA ReadsFirst ==
  ASSUME NEW rep, ReportOk(rep), NEW label \in Labels
  PROVE  /\ parseBenchstat(Csv(rep), label) =
              IF ComparedIn(rep) # {} THEN CellOf(rep[Min(ComparedIn(rep))][label]) ELSE NoCell
         /\ benchstatRowCount(Csv(rep), label) = Cardinality(ComparedIn(rep))
<1> DEFINE o == Before(label, Len(rep) + 3)
           csv == Csv(rep)
           rows == DataRows(csv, label)
           cmp == ComparedIn(rep)
<1>1. /\ o \in Nat
      /\ \A i \in Nat : i \in rows <=> i - (o + 1) \in cmp
      /\ rows \in SUBSET Nat
      /\ \A k \in cmp : csv[o + 1 + k].cell = CellOf(rep[k][label])
  BY RowsOfOwnTable
<1>2. cmp \in SUBSET Nat /\ IsFiniteSet(cmp)
  <2>1. Len(rep) \in Nat /\ DOMAIN rep = 1..Len(rep)
    BY DEF ReportOk
  <2>2. cmp \subseteq 1..Len(rep) /\ IsFiniteSet(1..Len(rep))
    BY <2>1, FS_Interval DEF ComparedIn
  <2> QED
    BY <2>1, <2>2, FS_Subset
<1>3. parseBenchstat(csv, label) = IF rows = {} THEN NoCell ELSE csv[Min(rows)].cell
  BY DEF parseBenchstat
<1>4. benchstatRowCount(csv, label) = Cardinality(rows)
  BY DEF benchstatRowCount
<1> HIDE DEF o, csv, rows, cmp
<1>5. \A k \in cmp : o + 1 + k \in rows /\ (o + 1 + k) - (o + 1) = k
  BY <1>1, <1>2
<1>6. \A i \in rows : i - (o + 1) \in cmp /\ i - (o + 1) \in Nat
  BY <1>1, <1>2
<1>7. rows = {} <=> cmp = {}
  BY <1>5, <1>6
<1>8. ASSUME cmp # {} PROVE csv[Min(rows)].cell = CellOf(rep[Min(cmp)][label])
  <2> DEFINE i == Min(rows)
             k == Min(cmp)
  <2>1. i \in rows /\ \A j \in rows : i <= j
    BY <1>1, <1>7, <1>8, Least
  <2>2. k \in cmp /\ \A j \in cmp : k <= j
    BY <1>2, <1>8, Least
  <2> HIDE DEF i, k
  <2>3. i <= o + 1 + k
    BY <1>5, <2>1, <2>2
  <2>4. k <= i - (o + 1)
    BY <1>6, <2>1, <2>2
  <2>5. i = o + 1 + k
    BY <1>1, <1>2, <2>1, <2>2, <2>3, <2>4
  <2> QED
    BY <1>1, <2>2, <2>5 DEF i, k
<1>9. Cardinality(rows) = Cardinality(cmp)
  <2> DEFINE f == [k \in cmp |-> o + 1 + k]
  <2>1. f \in [cmp -> rows]
    BY <1>5
  <2>2. \A k, j \in cmp : f[k] = f[j] => k = j
    BY <1>1, <1>2
  <2>3. \A i \in rows : \E k \in cmp : f[k] = i
    <3> SUFFICES ASSUME NEW i \in rows PROVE \E k \in cmp : f[k] = i
      OBVIOUS
    <3>0. i \in Nat /\ o \in Nat
      BY <1>1
    <3>2. i - (o + 1) \in cmp
      BY <1>6
    <3>1. f[i - (o + 1)] = o + 1 + (i - (o + 1)) /\ o + 1 + (i - (o + 1)) = i
      BY <3>0, <3>2
    <3> HIDE DEF f
    <3> QED
      BY <3>1, <3>2
  <2> HIDE DEF f
  <2>4. f \in Bijection(cmp, rows)
    BY <2>1, <2>2, <2>3, Fun_IsBij
  <2> QED
    <3>1. ExistsBijection(cmp, rows)
      BY <2>4, Fun_ExistsBij
    <3> QED
      BY <1>2, <3>1, FS_Bijection
<1> QED
  BY <1>3, <1>4, <1>7, <1>8, <1>9 DEF csv, rows, cmp

-----------------------------------------------------------------------------
(* The commands.  What each has answered is what the rule says of the       *)
(* measurement's CSV, and the measurement does not change.                  *)

Answers ==
  /\ ReportOk(report) /\ metric \in ProofMetrics
  /\ verdict \in {"proved", "rejected"} =>
       /\ proofLabel(metric) \in Labels
       /\ warned <=> benchstatRowCount(Csv(report), proofLabel(metric)) > 1
  /\ verdict = "proved" =>
       decideVerdict(Csv(report), proofLabel(metric), MinImprovement, RegressionTol)
  /\ check = "regression" => regressionStatus(Csv(report), RegressionTol) = "regression"

LEMMA AnswersInit == Init => Answers
<1> SUFFICES ASSUME Init PROVE Answers
  OBVIOUS
<1>1. PICK n \in 1..MaxBenchmarks : report \in [1..n -> Benchmarks]
  BY DEF Init, Reports
<1>2. n \in Nat
  BY VerdictAssumption
<1>3. ReportOk(report)
  <2> DEFINE S == Benchmarks
  <2> HIDE DEF S
  <2>1. report \in [1..n -> S] => report \in Seq(S)
    BY <1>2
  <2> QED
    BY <1>1, <2>1 DEF S, ReportOk
<1> QED
  BY <1>3 DEF Init, Answers

LEMMA AnswersNext == Answers /\ [Next]_vars => Answers'
<1> SUFFICES ASSUME Answers, [Next]_vars PROVE Answers'
  OBVIOUS
<1>1. CASE Gate
  <2>1. proofLabel(metric) # "" => proofLabel(metric) \in Labels
    BY DEF proofLabel, Labels
  <2>2. UNCHANGED <<report, metric, check>>
    BY <1>1 DEF Gate
  <2>3. verdict' \in {"proved", "rejected"} =>
          /\ proofLabel(metric) # ""
          /\ warned' <=> benchstatRowCount(Csv(report), proofLabel(metric)) > 1
    BY <1>1 DEF Gate
  <2>4. verdict' = "proved" =>
          decideVerdict(Csv(report), proofLabel(metric), MinImprovement, RegressionTol)
    BY <1>1 DEF Gate
  <2> QED
    BY <2>1, <2>2, <2>3, <2>4 DEF Answers
<1>2. CASE Check
  BY <1>2 DEF Check, Answers
<1>3. CASE UNCHANGED vars
  BY <1>3 DEF vars, Answers
<1> QED
  BY <1>1, <1>2, <1>3 DEF Next

LEMMA AnswersAlways == Spec => []Answers
BY AnswersInit, AnswersNext, PTL DEF Spec

\* What the benchmark that is read measured of a metric.
LEMMA MeasuredPair ==
  ASSUME Answers, Comparable, NEW label \in Labels
  PROVE  Measured(label) \in Pair
<1>1. Compared \in SUBSET Nat /\ Compared # {}
  BY DEF Answers, ReportOk, Compared, Comparable
<1>2. Min(Compared) \in Compared
  BY <1>1, Least
<1>3. report[Min(Compared)] \in Benchmarks /\ report[Min(Compared)] # OneSided
  BY <1>2 DEF Answers, ReportOk, Compared
<1> QED
  BY <1>3, PairOk DEF Measured

\* The gate proves nothing that the regression check of the same measurement
\* calls a regression.
THEOREM NoContradiction == Spec => []GateAgreesWithCheck
<1>1. Answers => GateAgreesWithCheck
  BY KeptIsNoRegression DEF Answers, GateAgreesWithCheck
<1> QED
  BY <1>1, AnswersAlways, PTL

\* For any number of benchmarks, parseBenchstat reads the cell of its own metric's
\* first comparable row, and nothing when there is none.
LEMMA OwnTable == Answers => ReadsOwnTable
<1>1. Compared = ComparedIn(report)
  BY DEF Compared, ComparedIn
<1> QED
  BY <1>1, ReadsFirst DEF Answers, ReadsOwnTable, Comparable, Measured

THEOREM ReadsItsMetric == Spec => []ReadsOwnTable
BY OwnTable, AnswersAlways, PTL

\* A verdict of proved is an improvement of the proof metric by the floor, of the
\* measurement and not of its formatting, and no metric with a base above zero
\* grew beyond the tolerance.
THEOREM ProvedMeansWin == Spec => []ProvedIsAWin
<1>1. Answers => ProvedIsAWin
  <2> SUFFICES ASSUME Answers, verdict = "proved"
               PROVE  LET label == proofLabel(metric)
                      IN /\ Comparable /\ IsWin(Measured(label))
                         /\ \A other \in Labels \ {label} :
                              Measured(other).base > 0 => ~IsLoss(Measured(other))
    BY DEF ProvedIsAWin
  <2> DEFINE label == proofLabel(metric)
             csv == Csv(report)
  <2>1. label \in Labels /\ decideVerdict(csv, label, MinImprovement, RegressionTol)
    BY DEF Answers
  <2>2. \A m \in Labels : parseBenchstat(csv, m) =
                            IF Comparable THEN CellOf(Measured(m)) ELSE NoCell
    BY OwnTable DEF ReadsOwnTable
  <2> HIDE DEF label, csv
  <2>3. Wins(parseBenchstat(csv, label), MinImprovement)
    BY <2>1 DEF decideVerdict
  <2>4. Comparable
    <3>1. ~ Wins(NoCell, MinImprovement)
      BY DEF Wins, NoCell
    <3> QED
      BY <2>1, <2>2, <2>3, <3>1
  <2>5. IsWin(Measured(label))
    BY <2>1, <2>2, <2>3, <2>4, MeasuredPair, WinMeansWin
  <2>6. ASSUME NEW other \in Labels \ {label}, Measured(other).base > 0
        PROVE  ~IsLoss(Measured(other))
    <3>1. ~ Worse(CellOf(Measured(other)), RegressionTol)
      BY <2>1, <2>2, <2>4, <2>6 DEF decideVerdict
    <3> QED
      BY <2>4, <2>6, <3>1, MeasuredPair, NotWorseMeansNoLoss
  <2> QED
    BY <2>4, <2>5, <2>6 DEF label
<1> QED
  BY <1>1, AnswersAlways, PTL

\* The gate warns of several rows exactly when more than one benchmark can be
\* compared.
THEOREM WarningsCorrect == Spec => []WarnsOfSubtests
<1>1. Answers => WarnsOfSubtests
  <2>1. Compared = ComparedIn(report)
    BY DEF Compared, ComparedIn
  <2> QED
    BY <2>1, ReadsFirst DEF Answers, WarnsOfSubtests
<1> QED
  BY <1>1, AnswersAlways, PTL
=============================================================================
