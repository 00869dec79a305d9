--------------------------- MODULE TargetsProofs -----------------------------
(***************************************************************************)
(* Proofs about Targets, for any diffs, profiles and scopes, any number of *)
(* commands, and kills at any write: what `scope` excluded stays excluded  *)
(* (ExcludesKept), candidates come with their scope (TargetsStayInScope),  *)
(* an edited function is a candidate (EditsAreTargets), a hot one comes    *)
(* first (HotRanksFirst), and a ranking is the only one that the profiles  *)
(* can have (RankingIsReproducible).                                       *)
(*                                                                         *)
(* The last two rest on what sums and sortings are.  Both are defined by   *)
(* recursive functions: that such a function exists, and what it is at n,  *)
(* is proved by Induct.                                                    *)
(***************************************************************************)
EXTENDS Targets, FiniteSetTheorems, TLAPS

-----------------------------------------------------------------------------
(* Excludes.  ExcludesSurvive is about the file; between commands it depends *)
(* on what a command holds that has read the file and not written it yet.    *)

ExcludesInv ==
  /\ ExcludesSurvive
  /\ pc = "scope" /\ job.by # "scope" => lost \/ job.exclude = configured

\* A command that starts leaves the file; what it read of it is still there.
LEMMA StartKeepsExcludes ==
  ASSUME ExcludesInv, NEW at, NEW j, Start(at, j),
         at = "scope" /\ j.by # "scope" => j.exclude = scope.exclude
  PROVE  ExcludesInv'
BY DEF ExcludesInv, ExcludesSurvive, Start

\* Every command, write and kill keeps that.
LEMMA ExcludesNext ==
  ASSUME ExcludesInv, [Next]_vars
  PROVE  ExcludesInv'
<1>1. CASE TargetDiff
  BY <1>1, StartKeepsExcludes DEF TargetDiff, Excludes
<1>2. CASE WriteScope
  <2>1. pc' # "scope" /\ scope'.exclude = job.exclude
    BY <1>2 DEF WriteScope, Wrote, Writes
  <2>2. pc = "scope"
    BY <1>2 DEF WriteScope, Wrote
  <2>3. CASE job.by = "scope"
    BY <1>2, <2>1, <2>3 DEF WriteScope, ExcludesInv, ExcludesSurvive
  <2>4. CASE job.by # "scope"
    BY <1>2, <2>1, <2>2, <2>4 DEF WriteScope, ExcludesInv, ExcludesSurvive
  <2> QED
    BY <2>3, <2>4
<1>3. CASE WriteDiff \/ WriteHotspots
  <2>1. pc' # "scope" /\ UNCHANGED <<scope, configured, lost>>
    BY <1>3 DEF WriteDiff, WriteHotspots, Wrote, Writes
  <2> QED
    BY <2>1 DEF ExcludesInv, ExcludesSurvive
<1>4. CASE Crash
  BY <1>4 DEF Crash, ExcludesInv, ExcludesSurvive
<1>5. CASE Change
  BY <1>5 DEF Change, ExcludesInv, ExcludesSurvive
<1>6. ASSUME NEW sc \in Scopes, SetScope(sc) PROVE ExcludesInv'
  BY <1>6, StartKeepsExcludes DEF SetScope
<1>7. ASSUME NEW top \in Tops, Hotspots(top) PROVE ExcludesInv'
  BY <1>7, StartKeepsExcludes DEF Hotspots
<1>8. ASSUME NEW n \in 0..3, CleanAll(n) PROVE ExcludesInv'
  BY <1>8 DEF CleanAll, ExcludesInv, ExcludesSurvive
<1>9. CASE UNCHANGED vars
  BY <1>9 DEF vars, ExcludesInv, ExcludesSurvive
<1> QED
  BY <1>1, <1>2, <1>3, <1>4, <1>5, <1>6, <1>7, <1>8, <1>9 DEF Next

\* target-diff keeps what `scope` excluded, through any sequence of commands and kills,
\* as long as no kill tears scope.json itself.
THEOREM ExcludesKept == Spec => []ExcludesSurvive
<1>1. Init => ExcludesInv
  BY DEF Init, ExcludesInv, ExcludesSurvive, NoScope
<1>2. ExcludesInv /\ [Next]_vars => ExcludesInv'
  BY ExcludesNext
<1>3. ExcludesInv => ExcludesSurvive
  BY DEF ExcludesInv
<1> QED
  BY <1>1, <1>2, <1>3, PTL DEF Spec

-----------------------------------------------------------------------------
(* Candidates and their scope.  Numbers grow, and a command has a greater one *)
(* than every file.  While target-diff is between its writes, the files that  *)
(* it has written are its own, and the candidates not yet written are in the  *)
(* packages that it holds.                                                    *)

Numbers ==
  /\ started \in Nat /\ scope.no \in Nat /\ diffjson.no \in Nat /\ hots.no \in Nat
  /\ scope.no <= started /\ diffjson.no <= started /\ hots.no <= started

JobHolds ==
  pc \in {"scope", "diff", "hots"} =>
    /\ job.no = started /\ hots.no < started
    /\ pc = "diff" => job.by = "target-diff"
    /\ pc = "scope" => job.by # "hotspots"
    /\ job.by = "target-diff" =>
         /\ \A i \in DOMAIN job.rows : job.rows[i].package \in job.include
         /\ pc \in {"diff", "hots"} => scope.no = started /\ scope.include = job.include
         /\ pc = "hots" => diffjson.no = started

ScopeInv == Numbers /\ JobHolds /\ TargetsInScope

\* A command that starts changes no file, and has the next number.
LEMMA StartKeepsScope ==
  ASSUME ScopeInv, NEW at \in {"scope", "hots", "refused"}, NEW j, Start(at, j),
         at # "refused" => j.no = started + 1,
         at = "scope" => j.by # "hotspots",
         j.by = "target-diff" =>
           at # "hots" /\ \A i \in DOMAIN j.rows : j.rows[i].package \in j.include
  PROVE  ScopeInv'
<1>1. Numbers'
  BY DEF ScopeInv, Numbers, Start
<1>2. JobHolds'
  BY DEF ScopeInv, Numbers, JobHolds, Start
<1>3. TargetsInScope'
  BY DEF ScopeInv, TargetsInScope, Start
<1> QED
  BY <1>1, <1>2, <1>3 DEF ScopeInv

\* Every candidate is one of the changed functions, whatever their order.
LEMMA CandidatesInPackages ==
  ASSUME NEW fs, NEW overlay, NEW rows \in ToHotspots(fs, overlay)
  PROVE  \A i \in DOMAIN rows : rows[i].package \in Packages(fs)
<1> DEFINE w == [i \in DOMAIN fs |-> Weight(fs[i], overlay)]
<1>1. PICK q \in Bijection(DOMAIN fs, DOMAIN fs) :
        rows = [k \in DOMAIN fs |-> Changed(fs[q[k]], w[q[k]])]
  BY Zenon DEF ToHotspots
<1>2. \A k \in DOMAIN fs : q[k] \in DOMAIN fs
  BY DEF Bijection, Injection
<1>3. \A f, v : Changed(f, v).package = PackageDir(f)
  BY DEF Changed
<1> HIDE DEF w
<1> QED
  BY <1>1, <1>2, <1>3 DEF Packages

\* A command that ends, or is killed, with its files as they should be.
LEMMA EndKeepsScope ==
  ASSUME Numbers', TargetsInScope', pc' = "idle"
  PROVE  ScopeInv'
BY DEF ScopeInv, JobHolds

\* Every command, write and kill keeps that.
LEMMA ScopeNext ==
  ASSUME ScopeInv, [Next]_vars
  PROVE  ScopeInv'
<1> USE DEF ScopeInv
<1>1. CASE TargetDiff
  <2> DEFINE fs == ChangedFuncs(world.mode, world.files)
             must == MustTarget(world.mode, world.files)
             J(rows, overlay) ==
               [by |-> "target-diff", no |-> started + 1, rows |-> rows,
                include |-> Packages(fs), exclude |-> Excludes(scope),
                must |-> must, overlay |-> overlay]
  <2>1. CASE Start("refused", Nil)
    <3>1. pc' = "refused" /\ UNCHANGED <<scope, diffjson, hots>> /\ started' = started + 1
      BY <2>1 DEF Start
    <3> QED
      BY <3>1 DEF Numbers, JobHolds, TargetsInScope
  <2>2. ASSUME NEW overlay, NEW rows \in ToHotspots(fs, overlay), Start("scope", J(rows, overlay))
        PROVE  ScopeInv'
    <3>1. \A i \in DOMAIN rows : rows[i].package \in Packages(fs)
      BY <2>2, CandidatesInPackages
    <3> DEFINE j == J(rows, overlay)
    <3>2. j.by = "target-diff" /\ j.no = started + 1 /\ j.rows = rows /\ j.include = Packages(fs)
      OBVIOUS
    <3> HIDE DEF j, fs
    <3> QED
      BY <2>2, <3>1, <3>2, StartKeepsScope DEF j
  <2>3. Head(Writes) = "scope"
    BY DEF Writes
  <2> QED
    BY <1>1, <2>1, <2>2, <2>3 DEF TargetDiff
<1>2. CASE WriteScope
  <2>1. pc = "scope" /\ scope' = [no |-> job.no, include |-> job.include, exclude |-> job.exclude]
        /\ UNCHANGED <<started, diffjson, hots>>
    BY <1>2 DEF WriteScope, Wrote
  <2>2. Numbers' /\ TargetsInScope'
    BY <2>1 DEF Numbers, JobHolds, TargetsInScope
  <2>3. CASE pc' = "idle"
    BY <2>2, <2>3, EndKeepsScope
  <2>4. CASE job.by = "target-diff" /\ pc' = "diff" /\ UNCHANGED job
    BY <2>1, <2>2, <2>4 DEF Numbers, JobHolds
  <2> QED
    BY <1>2, <2>3, <2>4 DEF WriteScope, Wrote, Writes
<1>3. CASE WriteDiff
  <2>1. pc = "diff" /\ diffjson' = [no |-> job.no] /\ UNCHANGED <<started, scope, hots>>
    BY <1>3 DEF WriteDiff, Wrote
  <2>2. Numbers' /\ TargetsInScope'
    BY <2>1 DEF Numbers, JobHolds, TargetsInScope
  <2>3. pc' = "hots" /\ UNCHANGED job
    BY <1>3, <2>1 DEF WriteDiff, Wrote, Writes, JobHolds
  <2> QED
    BY <2>1, <2>2, <2>3 DEF Numbers, JobHolds
<1>4. CASE WriteHotspots
  <2>1. pc = "hots" /\ pc' = "idle" /\ UNCHANGED <<started, scope, diffjson>>
        /\ hots' = [by |-> job.by, no |-> job.no, rows |-> job.rows, must |-> job.must]
    BY <1>4 DEF WriteHotspots, Wrote, Writes
  <2>2. Numbers' /\ TargetsInScope'
    BY <2>1 DEF Numbers, JobHolds, TargetsInScope
  <2> QED
    BY <2>1, <2>2, EndKeepsScope
<1>5. CASE Crash
  <2>1. pc' = "idle" /\ started' = started
    BY <1>5 DEF Crash
  <2>2. CASE UNCHANGED <<scope, diffjson, hots>>
    BY <2>1, <2>2, EndKeepsScope DEF Numbers, TargetsInScope
  <2>3. CASE pc = "scope" /\ scope' = NoScope(job.no) /\ UNCHANGED <<diffjson, hots>>
    BY <2>1, <2>3, EndKeepsScope DEF Numbers, JobHolds, TargetsInScope, NoScope
  <2>4. CASE pc = "diff" /\ diffjson' = [no |-> job.no] /\ UNCHANGED <<scope, hots>>
    BY <2>1, <2>4, EndKeepsScope DEF Numbers, JobHolds, TargetsInScope
  <2>5. CASE hots' = NoHots /\ UNCHANGED <<scope, diffjson>>
    BY <2>1, <2>5, EndKeepsScope DEF Numbers, TargetsInScope, NoHots
  <2> QED
    BY <1>5, <2>2, <2>3, <2>4, <2>5 DEF Crash
<1>6. CASE Change
  BY <1>6, EndKeepsScope DEF Change, Numbers, TargetsInScope
<1>7. ASSUME NEW sc \in Scopes, SetScope(sc) PROVE ScopeInv'
  BY <1>7, StartKeepsScope DEF SetScope
<1>8. ASSUME NEW top \in Tops, Hotspots(top) PROVE ScopeInv'
  <2>1. CASE Start("refused", Nil)
    <3>1. pc' = "refused" /\ UNCHANGED <<scope, diffjson, hots>> /\ started' = started + 1
      BY <2>1 DEF Start
    <3> QED
      BY <3>1 DEF Numbers, JobHolds, TargetsInScope
  <2>2. ASSUME NEW rows, Start("hots", [by |-> "hotspots", no |-> started + 1, rows |-> rows,
                                        top |-> top, must |-> {}])
        PROVE  ScopeInv'
    BY <2>2, StartKeepsScope
  <2> QED
    BY <1>8, <2>1, <2>2 DEF Hotspots
<1>9. ASSUME NEW n \in 0..3, CleanAll(n) PROVE ScopeInv'
  <2>1. /\ pc' = "idle" /\ UNCHANGED <<scope, started>>
        /\ diffjson' = diffjson \/ diffjson' = NoDiff
        /\ hots' = hots \/ hots' = NoHots
    BY <1>9 DEF CleanAll
  <2>2. NoDiff.no = 0 /\ NoHots.no = 0 /\ NoHots.by # "target-diff"
    BY DEF NoDiff, NoHots
  <2>3. Numbers'
    BY <2>1, <2>2 DEF Numbers
  <2>4. TargetsInScope'
    BY <2>1, <2>2 DEF TargetsInScope
  <2> QED
    BY <2>1, <2>3, <2>4, EndKeepsScope
<1>10. CASE UNCHANGED vars
  BY <1>10 DEF vars, Numbers, JobHolds, TargetsInScope
<1> QED
  BY <1>1, <1>2, <1>3, <1>4, <1>5, <1>6, <1>7, <1>8, <1>9, <1>10 DEF Next

\* Candidates of a diff never come with a scope or a diff of before, and are in the packages
\* of their own scope, through any sequence of commands, kills and cleans.
THEOREM TargetsStayInScope == Spec => []TargetsInScope
<1>1. Init => ScopeInv
  BY DEF Init, ScopeInv, Numbers, JobHolds, TargetsInScope, NoScope, NoDiff, NoHots
<1>2. ScopeInv /\ [Next]_vars => ScopeInv'
  BY ScopeNext
<1>3. ScopeInv => TargetsInScope
  BY DEF ScopeInv
<1> QED
  BY <1>1, <1>2, <1>3, PTL DEF Spec

-----------------------------------------------------------------------------
\* A set of numbers has a least one.
LEMMA Least ==
  ASSUME NEW T \in SUBSET Nat, T # {}
  PROVE  Min(T) \in T /\ \A n \in T : Min(T) <= n
<1> DEFINE R == {ss \in Nat \X Nat : ss[1] < ss[2]}
<1>1. IsWellFoundedOn(R, Nat)
  BY NatLessThanWellFounded DEF OpToRel
<1>2. \A x, y \in Nat : x < y => <<x, y>> \in R
  OBVIOUS
<1> HIDE DEF R
<1>3. PICK m \in T : \A n \in T : ~ (<<n, m>> \in R)
  BY <1>1, WFMin
<1>4. \A n \in T : ~ (n < m)
  BY <1>2, <1>3
<1>5. \A n \in T : m <= n
  BY <1>4
<1> QED
  BY <1>5 DEF Min

\* A set of numbers up to b has a greatest one.
LEMMA Greatest ==
  ASSUME NEW b \in Nat, NEW T \in SUBSET (0..b), T # {}
  PROVE  Max(T) \in T /\ \A n \in T : n <= Max(T)
<1> DEFINE D == {d \in Nat : b - d \in T}
<1>1. PICK x \in T : TRUE
  OBVIOUS
<1>2. b - x \in D
  <2>1. b - x \in Nat /\ b - (b - x) = x
    BY <1>1
  <2> QED
    BY <2>1
<1>3. Min(D) \in D /\ \A d \in D : Min(D) <= d
  <2>1. D # {} /\ D \in SUBSET Nat
    BY <1>2
  <2> HIDE DEF D
  <2> QED
    BY <2>1, Least
<1> DEFINE m == b - Min(D)
<1>4. m \in T
  BY <1>3
<1>5. ASSUME NEW n \in T PROVE n <= m
  <2>1. b - n \in Nat /\ b - (b - n) = n
    OBVIOUS
  <2>2. b - n \in D
    BY <2>1
  <2>3. Min(D) <= b - n /\ Min(D) \in Nat
    BY <1>3, <2>2
  <2> HIDE DEF D
  <2> QED
    BY <2>3
<1> HIDE DEF m
<1> QED
  BY <1>4, <1>5 DEF Max

-----------------------------------------------------------------------------
(* Line numbers *)

\* The lines of the new file between two places are counted by a number.
LEMMA Counting ==
  ASSUME NEW script, NEW a \in Int, NEW b \in Int
  PROVE  IsFiniteSet(New(script) \cap a..b) /\ NewCount(script, a, b) \in Nat
BY FS_Interval, FS_Intersection, FS_CardinalityType DEF NewCount

\* Lines are counted in parts.
LEMMA CountParts ==
  ASSUME NEW script, NEW a \in Nat, NEW b \in Nat, a <= b
  PROVE  NewCount(script, 1, b) = NewCount(script, 1, a) + NewCount(script, a + 1, b)
<1> DEFINE S == New(script) \cap 1..a
           T == New(script) \cap (a + 1)..b
<1>1. IsFiniteSet(S) /\ IsFiniteSet(T)
  <2>1. 1 \in Int /\ a \in Int /\ a + 1 \in Int /\ b \in Int
    OBVIOUS
  <2> QED
    BY <2>1, Counting, Zenon
<1>2. S \cap T = {} /\ S \cup T = New(script) \cap 1..b
  OBVIOUS
<1> HIDE DEF S, T
<1>3. Cardinality(S \cup T) = Cardinality(S) + Cardinality(T) - 0
  BY <1>1, <1>2, FS_Union, FS_EmptySet
<1>4. Cardinality(S) \in Nat /\ Cardinality(T) \in Nat
  BY <1>1, FS_CardinalityType
<1>5. Cardinality(S \cup T) = Cardinality(S) + Cardinality(T)
  BY <1>3, <1>4
<1> QED
  BY <1>2, <1>5, Zenon DEF NewCount, S, T

\* With more lines there are no fewer, and with a line of the new file there are more.
LEMMA CountGrows ==
  ASSUME NEW script, NEW a \in Nat, NEW b \in Nat
  PROVE  /\ a <= b => NewCount(script, 1, a) <= NewCount(script, 1, b)
         /\ a < b /\ b \in New(script) => NewCount(script, 1, a) + 1 <= NewCount(script, 1, b)
<1>1. /\ NewCount(script, 1, a) \in Nat /\ NewCount(script, 1, b) \in Nat
      /\ NewCount(script, a + 1, b) \in Nat /\ IsFiniteSet(New(script) \cap (a + 1)..b)
  <2>1. 1 \in Int /\ a \in Int /\ a + 1 \in Int /\ b \in Int
    OBVIOUS
  <2> QED
    BY <2>1, Counting, Zenon
<1>2. a <= b => NewCount(script, 1, b) = NewCount(script, 1, a) + NewCount(script, a + 1, b)
  BY CountParts
<1>3. ASSUME a < b, b \in New(script) PROVE NewCount(script, a + 1, b) # 0
  <2>1. b \in New(script) \cap (a + 1)..b
    BY <1>3
  <2> QED
    BY <1>1, <2>1, FS_EmptySet DEF NewCount
<1> QED
  BY <1>1, <1>2, <1>3

\* Line NewCount(script, 1, i) of the new file is the line i of the script, if it is there.
LEMMA NewLine ==
  ASSUME NEW script \in Seq(Line), NEW i \in New(script)
  PROVE  /\ NewCount(script, 1, i) \in DOMAIN NewLines(script)
         /\ NewLines(script)[NewCount(script, 1, i)] = script[i]
<1> DEFINE n == NewCount(script, 1, i)
<1>1. New(script) \subseteq Nat \ {0} /\ New(script) \subseteq 1..Len(script) /\ Len(script) \in Nat
  BY DEF New
<1>2. IsFiniteSet(New(script))
  <2>1. IsFiniteSet(1..Len(script))
    BY <1>1, FS_Interval
  <2> QED
    BY <1>1, <2>1, FS_Subset
<1>3. n \in Nat /\ n <= Cardinality(New(script))
  BY <1>1, <1>2, Counting, FS_Subset DEF NewCount
<1>4. 1 <= n
  <2>1. NewCount(script, 1, 0) + 1 <= n
    BY <1>1, CountGrows
  <2>2. NewCount(script, 1, 0) \in Nat
    <3>1. 0 \in Int /\ 1 \in Int
      OBVIOUS
    <3> QED
      BY <3>1, Counting, Zenon
  <2> HIDE DEF n
  <2> QED
    BY <1>3, <2>1, <2>2
<1>5. n \in 1..Cardinality(New(script))
  <2>1. Cardinality(New(script)) \in Nat
    BY <1>2, FS_CardinalityType
  <2> HIDE DEF n
  <2> QED
    BY <1>3, <1>4, <2>1
<1>6. ASSUME NEW k \in New(script), NewCount(script, 1, k) = n PROVE k = i
  <2>1. k \in Nat /\ i \in Nat /\ k \in Int /\ 1 \in Int
    BY <1>1
  <2>4. NewCount(script, 1, k) \in Nat
    BY <2>1, Counting, Zenon
  <2>2. k < i => NewCount(script, 1, k) + 1 <= n
    BY <2>1, CountGrows
  <2>3. i < k => n + 1 <= NewCount(script, 1, k)
    BY <2>1, CountGrows
  <2> HIDE DEF n
  <2> QED
    BY <1>3, <1>6, <2>1, <2>2, <2>3, <2>4
<1>7. (CHOOSE k \in New(script) : NewCount(script, 1, k) = n) = i
  BY <1>6
<1> HIDE DEF n
<1> QED
  BY <1>5, <1>7 DEF NewLines, n

-----------------------------------------------------------------------------
(* Hunks *)

\* Without context, a change is in a hunk, which has only changes.
LEMMA HunkOfChange ==
  ASSUME NEW script \in Seq(Line), NEW i \in Changes(script)
  PROVE  \E h \in Hunks(script, 0) :
           h \in Nat \X Nat /\ 0 < h[1] /\ h[1] <= i /\ i <= h[2] /\ h[1]..h[2] \subseteq Changes(script)
<1> DEFINE C == Changes(script)
<1>1. C \subseteq 1..Len(script) /\ Len(script) \in Nat /\ i \in C
  BY DEF Changes
<1>2. {k \in DOMAIN script : \E j \in Changes(script) : j - 0 <= k /\ k <= j + 0} = C
  <2>1. \A k \in C : k \in DOMAIN script /\ k - 0 <= k /\ k <= k + 0
    BY <1>1 DEF Changes
  <2>2. \A k \in DOMAIN script, j \in C : j - 0 <= k /\ k <= j + 0 => k = j
    BY <1>1
  <2> QED
    BY <2>1, <2>2
<1> DEFINE Z == {d \in Nat : i - d - 1 \notin C}
           B == {b \in Nat : i <= b /\ b + 1 \notin C}
<1> HIDE DEF C
<1>3. Min(Z) \in Z /\ \A d \in Z : Min(Z) <= d
  <2>1. i \in Z /\ Z \in SUBSET Nat
    BY <1>1
  <2> HIDE DEF Z
  <2> QED
    BY <2>1, Least
<1>4. Min(B) \in B /\ \A b \in B : Min(B) <= b
  <2>1. Len(script) \in B /\ B \in SUBSET Nat
    BY <1>1
  <2> HIDE DEF B
  <2> QED
    BY <2>1, Least
<1> DEFINE a == i - Min(Z)
           b == Min(B)
<1>5. Min(Z) \in Nat /\ a - 1 \notin C /\ b \in Nat /\ i <= b /\ b + 1 \notin C
  BY <1>3, <1>4
<1>6. ASSUME NEW c \in Int, a <= c, c <= b PROVE c \in C
  <2>1. ASSUME c < i PROVE c \in C
    <3> DEFINE d == i - c - 1
    <3>1. d \in Nat /\ d < Min(Z) /\ i - d - 1 = c
      BY <1>1, <1>5, <1>6, <2>1
    <3>2. d \notin Z
      <4> HIDE DEF d, Z
      <4> QED
        BY <1>3, <1>5, <3>1
    <3> HIDE DEF d
    <3> QED
      BY <3>1, <3>2
  <2>2. ASSUME i < c PROVE c \in C
    <3>1. c - 1 \in Nat /\ i <= c - 1 /\ c - 1 < b /\ (c - 1) + 1 = c
      BY <1>1, <1>5, <1>6, <2>2
    <3>2. c - 1 \notin B
      <4> HIDE DEF B
      <4> QED
        BY <1>4, <1>5, <3>1
    <3> QED
      BY <3>1, <3>2
  <2> QED
    BY <1>1, <2>1, <2>2
<1>7. a \in Int /\ a <= i /\ i <= b /\ a <= b
  BY <1>1, <1>5
<1>8. a \in C /\ b \in C /\ a..b \subseteq C
  <2> HIDE DEF a, b
  <2> QED
    BY <1>5, <1>6, <1>7
<1> HIDE DEF a, b, Z, B
<1>9. a \in Nat /\ 0 < a
  BY <1>1, <1>8
<1>10. <<a, b>> \in Hunks(script, 0)
  BY <1>2, <1>5, <1>7, <1>8 DEF Hunks
<1> QED
  BY <1>5, <1>7, <1>8, <1>9, <1>10 DEF C

\* The lines of the new file that a hunk stands for, from the lines before and up to it.
LEMMA RangeOfHunk ==
  ASSUME NEW script, NEW h \in Nat \X Nat, 0 < h[1], h[1] <= h[2]
  PROVE  LET p == NewCount(script, 1, h[1] - 1)
             q == NewCount(script, 1, h[2])
         IN NewRange(Header(script, h)) = IF p = q THEN <<p, p>> ELSE <<p + 1, q>>
<1> DEFINE p == NewCount(script, 1, h[1] - 1)
           q == NewCount(script, 1, h[2])
           count == NewCount(script, h[1], h[2])
<1>1. q = p + count
  <2>1. h[1] - 1 \in Nat /\ h[2] \in Nat /\ h[1] - 1 <= h[2] /\ (h[1] - 1) + 1 = h[1]
    OBVIOUS
  <2>2. q = p + NewCount(script, (h[1] - 1) + 1, h[2])
    BY <2>1, CountParts
  <2> QED
    BY <2>1, <2>2, Zenon
<1>2. p \in Nat /\ count \in Nat
  <2>1. 1 \in Int /\ h[1] \in Int /\ h[1] - 1 \in Int /\ h[2] \in Int
    OBVIOUS
  <2> QED
    BY <2>1, Counting, Zenon
<1>3. Header(script, h) = [start |-> IF count = 0 THEN p ELSE p + 1, count |-> count]
  BY DEF Header
<1> HIDE DEF p, q, count
<1>4. NewRange(Header(script, h)) = IF p = q THEN <<p, p>> ELSE <<p + 1, q>>
  BY <1>1, <1>2, <1>3 DEF NewRange
<1> QED
  BY <1>4 DEF p, q

-----------------------------------------------------------------------------
(* FromGit *)

\* A function is found when a hunk's range begins no later than one line of the function
\* and ends no earlier than another.
LEMMA FoundBetween ==
  ASSUME NEW script \in Seq(Line), NEW f \in Symbols, NEW h \in Hunks(script, 0),
         NEW c \in New(script), NEW d \in New(script), script[c].fn = f, script[d].fn = f,
         NEW r, r = NewRange(Header(script, h)), r[1] \in Int, r[2] \in Int,
         NewCount(script, 1, c) <= r[2], r[1] <= NewCount(script, 1, d)
  PROVE  f \in funcsForRanges(NewLines(script), parseUnifiedRanges(script))
<1> DEFINE lines == NewLines(script)
           size == Cardinality(New(script))
           body == {i \in DOMAIN lines : lines[i].fn = f}
           x == NewCount(script, 1, c)
           y == NewCount(script, 1, d)
<1>1. x \in DOMAIN lines /\ lines[x].fn = f /\ y \in DOMAIN lines /\ lines[y].fn = f
  BY NewLine
<1>2. DOMAIN lines = 1..size /\ size \in Nat
  <2>1. New(script) \subseteq 1..Len(script) /\ Len(script) \in Int /\ 1 \in Int
    BY DEF New
  <2>2. IsFiniteSet(New(script))
    BY <2>1, FS_Interval, FS_Subset
  <2> QED
    BY <2>2, FS_CardinalityType DEF NewLines
<1> HIDE DEF lines, size, x, y
<1>3. body # {} /\ body \in SUBSET Nat /\ body \in SUBSET (0..size) /\ x \in body /\ y \in body
  BY <1>1, <1>2
<1> HIDE DEF body
<1>4. Min(body) \in Nat /\ Min(body) <= x /\ Max(body) \in Nat /\ y <= Max(body) /\ x \in Nat /\ y \in Nat
  BY <1>2, <1>3, Least, Greatest
<1>5. Overlaps(r, Min(body), Max(body))
  BY <1>4 DEF Overlaps, x, y
<1>6. r \in parseUnifiedRanges(script)
  BY DEF parseUnifiedRanges
<1> QED
  BY <1>3, <1>5, <1>6 DEF funcsForRanges, body, lines

\* What a diff edits and leaves in the file is found, by the hunk of an added line, or by
\* that of a deleted line between two that are kept.
LEMMA GitFindsEdited ==
  ASSUME NEW script, GoDiff(script), NEW f \in Edited(script)
  PROVE  f \in funcsForRanges(NewLines(script), parseUnifiedRanges(script))
<1>1. script \in Seq(Line) /\ f \in Symbols
  BY DEF GoDiff, Edited
<1>2. \A i \in DOMAIN script : script[i].op \in {"keep", "del", "add"}
  <2>1. \A i \in DOMAIN script : script[i] \in Line
    BY <1>1
  <2> QED
    BY <2>1 DEF Line
<1>3. New(script) \subseteq Nat /\ Changes(script) \subseteq DOMAIN script /\ DOMAIN script \subseteq Nat
  BY <1>1 DEF New, Changes
<1> DEFINE N(k) == NewCount(script, 1, k)
<1>4. \A k \in Nat : N(k) \in Nat
  <2>1. \A k \in Nat : k \in Int
    OBVIOUS
  <2> QED
    BY <2>1, Counting, Zenon
<1>5. CASE \E i \in DOMAIN script : script[i].fn = f /\ script[i].op = "add"
  <2>1. PICK i \in Changes(script) \cap New(script) : script[i].fn = f
    BY <1>5 DEF Changes, New
  <2>2. PICK h \in Hunks(script, 0) : h \in Nat \X Nat /\ 0 < h[1] /\ h[1] <= i /\ i <= h[2]
    BY <1>1, <2>1, HunkOfChange
  <2>3. h[1] - 1 \in Nat /\ h[1] - 1 < i /\ i \in Nat /\ h[2] \in Nat /\ h[1] <= h[2]
    BY <1>3, <2>1, <2>2
  <2> DEFINE p == N(h[1] - 1)
             q == N(h[2])
  <2>4. p + 1 <= N(i) /\ N(i) <= q /\ p \in Nat /\ q \in Nat /\ N(i) \in Nat
    BY <1>4, <2>1, <2>2, <2>3, CountGrows
  <2>5. NewRange(Header(script, h)) = IF p = q THEN <<p, p>> ELSE <<p + 1, q>>
    BY <2>2, <2>3, RangeOfHunk
  <2> HIDE DEF p, q, N
  <2>6. NewRange(Header(script, h)) = <<p + 1, q>>
    BY <2>4, <2>5
  <2> QED
    BY <1>1, <2>1, <2>4, <2>6, FoundBetween DEF N
<1>6. CASE ~ \E i \in DOMAIN script : script[i].fn = f /\ script[i].op = "add"
  <2> DEFINE lines == {i \in DOMAIN script : script[i].fn = f}
             kept == lines \ Changes(script)
             gone == lines \ New(script)
  <2>1. lines \subseteq Old(script)
    BY <1>6 DEF Old
  <2>2. kept # {}
    BY <1>2, <1>6 DEF Edited, Changes, New
  <2>3. gone # {}
    BY <1>2, <1>6 DEF Edited, Changes, New
  <2>4. PICK i \in kept, k \in kept, j \in gone : i < j /\ j < k
    BY <1>1, <2>1, <2>2, <2>3 DEF GoDiff
  <2>5. /\ i \in New(script) \ Changes(script) /\ script[i].fn = f
        /\ k \in New(script) \ Changes(script) /\ script[k].fn = f
        /\ j \in Changes(script)
    BY <1>2, <2>4 DEF Changes, New
  <2>6. PICK h \in Hunks(script, 0) :
           h \in Nat \X Nat /\ 0 < h[1] /\ h[1] <= j /\ j <= h[2] /\ h[1]..h[2] \subseteq Changes(script)
    BY <1>1, <2>5, HunkOfChange
  <2>7. i \in Nat /\ k \in Nat /\ h[1] - 1 \in Nat /\ h[2] \in Nat /\ h[1] <= h[2]
        /\ i <= h[1] - 1 /\ h[2] < k
    <3>1. i \in Nat /\ j \in Nat /\ k \in Nat
      BY <1>3, <2>5
    <3>2. i \notin h[1]..h[2] /\ k \notin h[1]..h[2]
      BY <2>5, <2>6
    <3> QED
      BY <2>4, <2>6, <3>1, <3>2
  <2> DEFINE p == N(h[1] - 1)
             q == N(h[2])
  <2>8. /\ N(i) <= p /\ p <= q /\ q + 1 <= N(k)
        /\ p \in Nat /\ q \in Nat /\ N(i) \in Nat /\ N(k) \in Nat
    <3>1. \A a, b \in Nat : (a <= b => N(a) <= N(b)) /\ (a < b /\ b \in New(script) => N(a) + 1 <= N(b))
      BY CountGrows
    <3>2. N(i) <= p
      BY <2>7, <3>1
    <3>3. p <= q
      <4>1. h[1] - 1 <= h[2]
        BY <2>6, <2>7
      <4> QED
        BY <2>7, <3>1, <4>1
    <3>4. q + 1 <= N(k)
      BY <2>5, <2>7, <3>1
    <3> QED
      BY <1>4, <2>7, <3>2, <3>3, <3>4
  <2>9. NewRange(Header(script, h)) = IF p = q THEN <<p, p>> ELSE <<p + 1, q>>
    BY <2>6, <2>7, RangeOfHunk
  <2> HIDE DEF p, q, N
  <2> DEFINE r == NewRange(Header(script, h))
  <2>10. r[1] \in Int /\ r[2] \in Int /\ N(i) <= r[2] /\ r[1] <= N(k)
    BY <2>8, <2>9
  <2> HIDE DEF r
  <2> QED
    BY <1>1, <2>5, <2>6, <2>10, FoundBetween DEF N, r
<1> QED
  BY <1>5, <1>6

-----------------------------------------------------------------------------
(* FromPR *)

\* A hunk that begins inside a function begins with a line that is kept, and the last
\* declaration ahead of it is that of the function.
LEMMA PRFindsBegun ==
  ASSUME NEW script, GoDiff(script), NEW f \in HunkBegins(script)
  PROVE  \E h \in Hunks(script, Context) : HeaderFunc(script, h) = f
<1>1. script \in Seq(Line) /\ f \in Symbols /\ Len(script) \in Nat /\ DOMAIN script = 1..Len(script)
  BY DEF GoDiff, HunkBegins
<1> DEFINE near == {i \in DOMAIN script : \E j \in Changes(script) : j - Context <= i /\ i <= j + Context}
<1>2. PICK h \in near \X near, i \in Old(script) :
        /\ h \in Hunks(script, Context) /\ h[1] - 1 \notin near
        /\ i < h[1] /\ script[i].fn = f /\ script[h[1]].fn = f
  BY DEF HunkBegins, Hunks
<1> DEFINE b == h[1]
<1>3. b \in 1..Len(script) /\ i \in 1..Len(script) /\ b - 1 \in 1..Len(script)
  BY <1>1, <1>2 DEF Old
<1>4. b \notin Changes(script)
  <2>1. b - Context <= b - 1 /\ b - 1 <= b + Context
    BY <1>3, ChangedAssumption
  <2> QED
    BY <1>1, <1>2, <1>3, <2>1
<1> DEFINE old == {k \in Old(script) : script[k].fn = f}
           decls == {k \in Old(script) : k < b /\ script[k].decl}
<1>5. i \in old /\ b \in old
  BY <1>1, <1>2, <1>3, <1>4 DEF Old, Changes
<1>6. old \subseteq Nat /\ decls \subseteq 0..Len(script)
  BY <1>1 DEF Old
<1>7. {k \in DOMAIN script : script[k].fn = f} \cap Old(script) = old
  BY DEF Old
<1>8. /\ \A n, k \in old, j \in Old(script) : n <= j /\ j <= k => j \in old
      /\ \A n \in old : (\A k \in old : n <= k) => script[n].decl
  BY <1>1, <1>7 DEF GoDiff
<1> DEFINE first == Min(old)
<1>9. first \in old /\ \A n \in old : first <= n
  <2> HIDE DEF old
  <2> QED
    BY <1>5, <1>6, Least
<1>10. first \in decls
  <2>1. script[first].decl /\ first <= i /\ first \in Nat
    BY <1>5, <1>6, <1>8, <1>9
  <2>2. first < b
    BY <1>2, <1>3, <2>1
  <2> HIDE DEF first
  <2> QED
    BY <1>9, <2>1, <2>2
<1>11. Max(decls) \in decls /\ \A n \in decls : n <= Max(decls)
  <2> HIDE DEF decls
  <2> QED
    BY <1>1, <1>6, <1>10, Greatest
<1>12. Max(decls) \in old
  <2>1. first <= Max(decls) /\ Max(decls) \in Old(script) /\ Max(decls) < b
    BY <1>10, <1>11
  <2>2. Max(decls) <= b
    BY <1>3, <1>6, <1>11, <2>1
  <2> HIDE DEF first, decls, old
  <2> QED
    BY <1>5, <1>8, <1>9, <2>1, <2>2
<1>13. HeaderFunc(script, h) = f
  <2> HIDE DEF first
  <2> QED
    BY <1>10, <1>12 DEF HeaderFunc
<1> QED
  BY <1>2, <1>13

-----------------------------------------------------------------------------
(* ChangedFuncs *)

\* The functions that a mode finds have the files' names.
Found(mode, files) == IF mode = "pr" THEN FromPR(files) ELSE FromGit(files)

\* All that is found is in the sequence.
LEMMA SortedHasAll ==
  ASSUME NEW fs \in SUBSET Symbols
  PROVE  \A f \in fs : \E k \in DOMAIN sortFuncs(fs) : sortFuncs(fs)[k] = f
<1> DEFINE upto(f) == {g \in fs : g <= f}
<1>1. fs \subseteq Nat /\ IsFiniteSet(fs)
  BY RankingAssumption, FS_Subset
<1>2. \A f \in fs : upto(f) \in SUBSET fs /\ IsFiniteSet(upto(f))
  BY <1>1, FS_Subset
<1>3. ASSUME NEW f \in fs, NEW g \in fs, g < f PROVE Cardinality(upto(g)) # Cardinality(upto(f))
  <2>1. upto(g) \subseteq upto(f) /\ f \in upto(f) /\ f \notin upto(g)
    <3>1. f \in Nat /\ g \in Nat /\ \A x \in fs : x \in Nat
      BY <1>1
    <3>2. \A x \in fs : x <= g => x <= f
      BY <1>3, <3>1
    <3>3. f <= f /\ ~(f <= g)
      BY <1>3, <3>1
    <3> QED
      BY <3>2, <3>3
  <2> HIDE DEF upto
  <2> QED
    BY <1>2, <2>1, FS_Subset
<1>4. ASSUME NEW f \in fs, NEW g \in fs, Cardinality(upto(g)) = Cardinality(upto(f)) PROVE g = f
  <2> HIDE DEF upto
  <2> QED
    BY <1>1, <1>3, <1>4
<1> SUFFICES ASSUME NEW f \in fs PROVE \E k \in DOMAIN sortFuncs(fs) : sortFuncs(fs)[k] = f
  OBVIOUS
<1> DEFINE k == Cardinality(upto(f))
<1>5. k \in 1..Cardinality(fs)
  <2>1. f \in upto(f)
    BY <1>1
  <2> HIDE DEF upto
  <2>2. k \in Nat /\ k <= Cardinality(fs) /\ Cardinality(fs) \in Nat
    BY <1>1, <1>2, FS_Subset, FS_CardinalityType
  <2>3. k # 0
    BY <1>2, <2>1, FS_EmptySet
  <2> QED
    BY <2>2, <2>3
<1>6. (CHOOSE g \in fs : Cardinality(upto(g)) = k) = f
  <2> HIDE DEF upto
  <2> QED
    BY <1>4
<1> HIDE DEF k
<1> QED
  BY <1>5, <1>6 DEF sortFuncs

\* What is found is a set of functions, never "outside of functions".
LEMMA FindsSymbols ==
  ASSUME NEW mode, NEW files, \A x \in files : x.script \in Seq(Line)
  PROVE  Found(mode, files) \in SUBSET Symbols
<1>1. ASSUME NEW x \in files, NEW h PROVE HeaderFunc(x.script, h) \in Symbols \cup {NoFunc}
  <2>1. \A k \in DOMAIN x.script : x.script[k].fn \in Symbols \cup {NoFunc}
    <3>1. \A k \in DOMAIN x.script : x.script[k] \in Line
      OBVIOUS
    <3> QED
      BY <3>1 DEF Line
  <2> DEFINE decls == {k \in Old(x.script) : k < h[1] /\ x.script[k].decl}
  <2>2. decls # {} => Max(decls) \in decls
    <3>1. decls \subseteq 0..Len(x.script) /\ Len(x.script) \in Nat
      BY DEF Old
    <3> HIDE DEF decls
    <3> QED
      BY <3>1, Greatest
  <2> QED
    BY <2>1, <2>2 DEF HeaderFunc, Old
<1>2. FromPR(files) \in SUBSET Symbols
  BY <1>1 DEF FromPR
<1>3. FromGit(files) \in SUBSET Symbols
  BY DEF FromGit, funcsForRanges
<1> QED
  BY <1>2, <1>3 DEF Found

\* What has to be found is found, in each mode.
LEMMA FindsEdited ==
  ASSUME NEW mode \in Modes, NEW files, \A x \in files : GoDiff(x.script)
  PROVE  MustTarget(mode, files) \subseteq Found(mode, files)
<1> SUFFICES ASSUME NEW f \in MustTarget(mode, files) PROVE f \in Found(mode, files)
  OBVIOUS
<1>1. CASE mode = "pr"
  <2>1. PICK x \in files : ~x.skip /\ f \in HunkBegins(x.script)
    BY <1>1 DEF MustTarget
  <2>2. PICK h \in Hunks(x.script, Context) : HeaderFunc(x.script, h) = f
    BY <2>1, PRFindsBegun
  <2>3. f # NoFunc
    BY <2>1, ChangedAssumption DEF HunkBegins
  <2> QED
    BY <1>1, <2>1, <2>2, <2>3 DEF Found, FromPR
<1>2. CASE mode # "pr"
  <2>1. PICK x \in files : ~x.skip /\ x.tree = NewLines(x.script) /\ f \in Edited(x.script)
    BY <1>2 DEF MustTarget, Modes
  <2>2. f \in funcsForRanges(x.tree, parseUnifiedRanges(x.script))
    BY <2>1, GitFindsEdited
  <2> QED
    BY <1>2, <2>1, <2>2 DEF Found, FromGit
<1> QED
  BY <1>1, <1>2

\* What has to be found is in the sequence.
LEMMA ChangedHasEdited ==
  ASSUME NEW mode \in Modes, NEW files, \A x \in files : GoDiff(x.script)
  PROVE  LET fs == ChangedFuncs(mode, files)
         IN \A f \in MustTarget(mode, files) : \E k \in DOMAIN fs : fs[k] = f
<1>1. Found(mode, files) \in SUBSET Symbols
  BY FindsSymbols DEF GoDiff
<1>2. ChangedFuncs(mode, files) = sortFuncs(Found(mode, files))
  BY DEF ChangedFuncs, Found
<1> QED
  BY <1>1, <1>2, FindsEdited, SortedHasAll

-----------------------------------------------------------------------------
(* EditedFunctionsTargeted.  What target-diff is about to write names all    *)
(* that it has to target, like what it wrote.                                *)

\* The functions of candidates.
Names(rows) == {rows[i].symbol : i \in DOMAIN rows}

\* No function is lost in the ranking, whatever the weights.
LEMMA RankingKeepsAll ==
  ASSUME NEW fs, NEW overlay, NEW rows \in ToHotspots(fs, overlay)
  PROVE  \A k \in DOMAIN fs : fs[k] \in Names(rows)
<1> DEFINE w == [i \in DOMAIN fs |-> Weight(fs[i], overlay)]
<1>1. PICK q \in Bijection(DOMAIN fs, DOMAIN fs) :
        rows = [k \in DOMAIN fs |-> Changed(fs[q[k]], w[q[k]])]
  BY Zenon DEF ToHotspots
<1>2. \A f, v : Changed(f, v).symbol = f
  BY DEF Changed
<1>3. \A k \in DOMAIN fs : \E n \in DOMAIN fs : q[n] = k
  BY DEF Bijection, Surjection
<1> HIDE DEF w
<1> QED
  BY <1>1, <1>2, <1>3 DEF Names

\* What TargetsAssumption says of the worlds is true of what clean leaves of one, too.
WorldOK ==
  /\ world.mode \in Modes /\ \A x \in world.files : GoDiff(x.script)
  /\ IsFiniteSet(DOMAIN world.profiles)
  /\ \A i \in DOMAIN world.profiles : IsProfile(world.profiles[i])

\* Every command, write, kill and clean keeps that.
LEMMA WorldNext ==
  ASSUME WorldOK, [Next]_vars
  PROVE  WorldOK'
<1>1. CASE UNCHANGED world
  BY <1>1 DEF WorldOK
<1>2. CASE world' \in Later
  BY <1>2, TargetsAssumption DEF WorldOK
<1>3. CASE world' = [mode |-> world.mode, files |-> world.files, profiles |-> << >>]
  <2>1. world'.mode = world.mode /\ world'.files = world.files /\ world'.profiles = << >>
    BY <1>3
  <2>2. DOMAIN world'.profiles = {}
    BY <2>1
  <2>3. IsFiniteSet(DOMAIN world'.profiles)
    BY <2>2, FS_EmptySet
  <2> QED
    BY <2>1, <2>2, <2>3 DEF WorldOK
<1>4. UNCHANGED world \/ Change \/ \E n \in 0..3 : CleanAll(n)
  BY DEF Next, vars, TargetDiff, WriteScope, WriteDiff, WriteHotspots, Wrote, Crash, SetScope,
         Hotspots, Start
<1> QED
  BY <1>1, <1>2, <1>3, <1>4 DEF Change, CleanAll

\* The file, and what a command is about to write.
EditedInv ==
  /\ WorldOK
  /\ hots.by = "target-diff" => hots.must \subseteq Names(hots.rows)
  /\ pc \in {"scope", "diff", "hots"} /\ job.by = "target-diff" =>
       job.must \subseteq Names(job.rows)

\* A command that starts changes no file, and target-diff holds all that it has to name.
LEMMA StartKeepsEdited ==
  ASSUME EditedInv, NEW at, NEW j, Start(at, j),
         at # "refused" /\ j.by = "target-diff" => j.must \subseteq Names(j.rows)
  PROVE  EditedInv'
BY DEF EditedInv, WorldOK, Start

\* Every command, write and kill keeps that.
LEMMA EditedNext ==
  ASSUME EditedInv, [Next]_vars
  PROVE  EditedInv'
<1>0. WorldOK'
  BY WorldNext DEF EditedInv
<1>1. CASE TargetDiff
  <2> DEFINE fs == ChangedFuncs(world.mode, world.files)
             must == MustTarget(world.mode, world.files)
             J(rows, overlay) ==
               [by |-> "target-diff", no |-> started + 1, rows |-> rows,
                include |-> Packages(fs), exclude |-> Excludes(scope),
                must |-> must, overlay |-> overlay]
  <2>1. CASE Start("refused", Nil)
    BY <2>1, StartKeepsEdited
  <2>2. ASSUME NEW overlay, NEW rows \in ToHotspots(fs, overlay),
               NEW at, Start(at, J(rows, overlay))
        PROVE  EditedInv'
    <3>1. \A f \in must : \E k \in DOMAIN fs : fs[k] = f
      BY ChangedHasEdited DEF EditedInv, WorldOK
    <3>2. must \subseteq Names(rows)
      <4> HIDE DEF must, fs
      <4> QED
        BY <2>2, <3>1, RankingKeepsAll
    <3> DEFINE j == J(rows, overlay)
    <3>3. j.must = must /\ j.rows = rows
      OBVIOUS
    <3> HIDE DEF j, must, fs
    <3> QED
      BY <2>2, <3>2, <3>3, StartKeepsEdited DEF j
  <2> QED
    BY <1>1, <2>1, <2>2 DEF TargetDiff
<1>2. CASE WriteHotspots
  BY <1>0, <1>2 DEF WriteHotspots, Wrote, Writes, EditedInv
<1>3. CASE WriteScope \/ WriteDiff
  BY <1>0, <1>3 DEF WriteScope, WriteDiff, Wrote, EditedInv
<1>4. CASE Crash \/ Change \/ \E n \in 0..3 : CleanAll(n)
  BY <1>0, <1>4 DEF Crash, Change, CleanAll, EditedInv, NoHots
<1>5. ASSUME NEW sc \in Scopes, SetScope(sc) PROVE EditedInv'
  BY <1>5, StartKeepsEdited DEF SetScope
<1>6. ASSUME NEW top \in Tops, Hotspots(top) PROVE EditedInv'
  BY <1>6, StartKeepsEdited DEF Hotspots
<1>7. CASE UNCHANGED vars
  BY <1>0, <1>7 DEF vars, EditedInv
<1> QED
  BY <1>1, <1>2, <1>3, <1>4, <1>5, <1>6, <1>7 DEF Next

\* "maps those ranges to enclosing functions" (FromGit): for any diff of files of Go, any
\* numbers of functions, lines and hunks, a function that the diff edits is among the
\* candidates that target-diff wrote, and it does not refuse a diff that edits one.
THEOREM EditsAreTargets == Spec => []EditedFunctionsTargeted
<1>1. Init => EditedInv
  BY TargetsAssumption DEF Init, EditedInv, WorldOK, NoHots
<1>2. EditedInv /\ [Next]_vars => EditedInv'
  BY EditedNext
<1>3. EditedInv => EditedFunctionsTargeted
  <2> SUFFICES ASSUME EditedInv, ChangedFuncs(world.mode, world.files) = << >>
               PROVE  MustTarget(world.mode, world.files) = {}
    BY DEF EditedInv, EditedFunctionsTargeted, Names, Targeted
  <2> DEFINE fs == ChangedFuncs(world.mode, world.files)
             must == MustTarget(world.mode, world.files)
  <2>1. \A f \in must : \E k \in DOMAIN fs : fs[k] = f
    BY ChangedHasEdited DEF EditedInv, WorldOK
  <2>2. DOMAIN fs = {}
    OBVIOUS
  <2> HIDE DEF fs, must
  <2> QED
    BY <2>1, <2>2 DEF must
<1> QED
  BY <1>1, <1>2, <1>3, PTL DEF Spec

\* Induction: what holds 0 and with a number the next one has them all.
LEMMA Induct ==
  ASSUME NEW T, 0 \in T, \A n \in Nat : n \in T => n + 1 \in T
  PROVE  Nat \subseteq T
<1> DEFINE B == Nat \ T
<1> SUFFICES ASSUME B # {} PROVE FALSE
  OBVIOUS
<1>1. Min(B) \in B /\ \A n \in B : Min(B) <= n
  BY Least
<1> DEFINE m == Min(B)
<1>2. m # 0 /\ m \in Nat /\ m \notin T
  BY <1>1
<1>3. m - 1 \in Nat /\ m - 1 < m /\ (m - 1) + 1 = m
  BY <1>2
<1>4. m - 1 \in T
  <2>1. ~ (m <= m - 1)
    BY <1>3, <1>2
  <2>2. m - 1 \notin B
    <3> HIDE DEF B
    <3> QED
      BY <1>1, <2>1
  <2> QED
    BY <1>3, <2>2
<1> HIDE DEF m
<1> QED
  BY <1>2, <1>3, <1>4

-----------------------------------------------------------------------------
(* Sums *)

\* The element that FoldFunction takes first, and those that it leaves.
Pick(s) == CHOOSE x \in s : TRUE
Rest(s) == s \ {Pick(s)}

\* g is the sum of f over each subset of S with n elements at most.
SumsTo(g, f, S, n) ==
  g = [s \in {u \in SUBSET S : Cardinality(u) <= n} |-> IF s = {} THEN 0 ELSE f[Pick(s)] + g[Rest(s)]]

\* A set is one element and a smaller rest.
LEMMA RestOf ==
  ASSUME NEW S, IsFiniteSet(S), S # {}
  PROVE  /\ Pick(S) \in S /\ Rest(S) \in SUBSET S /\ IsFiniteSet(Rest(S))
         /\ Cardinality(S) \in Nat /\ Cardinality(Rest(S)) \in Nat
         /\ Cardinality(Rest(S)) + 1 = Cardinality(S)
<1>1. Pick(S) \in S
  BY DEF Pick
<1>2. IsFiniteSet(S \ {Pick(S)}) /\ Cardinality(S \ {Pick(S)}) = Cardinality(S) - 1
  BY <1>1, FS_RemoveElement
<1>3. Cardinality(S) \in Nat /\ Cardinality(S \ {Pick(S)}) \in Nat
  BY <1>2, FS_CardinalityType
<1> QED
  BY <1>1, <1>2, <1>3 DEF Rest

\* The recursive function that a sum is taken from exists, for sets of any size.
LEMMA SumsExist ==
  ASSUME NEW S, IsFiniteSet(S), NEW f, NEW n \in Nat
  PROVE  \E g : SumsTo(g, f, S, n)
<1> DEFINE T == {k \in Nat : \E g : SumsTo(g, f, S, k)}
           Layer(k) == {u \in SUBSET S : Cardinality(u) <= k}
           Next1(g, s) == IF s = {} THEN 0 ELSE f[Pick(s)] + g[Rest(s)]
<1>1. \A u \in SUBSET S : IsFiniteSet(u) /\ Cardinality(u) \in Nat /\ (Cardinality(u) = 0 <=> u = {})
  BY FS_Subset, FS_CardinalityType, FS_EmptySet
<1>2. 0 \in T
  <2> DEFINE g == [s \in Layer(0) |-> 0]
  <2>1. \A s \in Layer(0) : s = {}
    BY <1>1
  <2>2. SumsTo(g, f, S, 0)
    <3>1. [s \in Layer(0) |-> Next1(g, s)] = g
      BY <2>1
    <3> QED
      BY <3>1 DEF SumsTo
  <2> QED
    BY <2>2
<1>3. ASSUME NEW k \in Nat, k \in T PROVE k + 1 \in T
  <2>1. PICK g : SumsTo(g, f, S, k)
    BY <1>3
  <2>2. g = [s \in Layer(k) |-> Next1(g, s)]
    BY <2>1 DEF SumsTo
  <2> DEFINE h == [s \in Layer(k + 1) |-> Next1(g, s)]
  <2>3. Layer(k) \subseteq Layer(k + 1)
    BY <1>1
  <2>4. \A s \in Layer(k + 1) : s # {} => Rest(s) \in Layer(k)
    <3> SUFFICES ASSUME NEW s \in SUBSET S, Cardinality(s) <= k + 1, s # {}
                 PROVE  Rest(s) \in SUBSET S /\ Cardinality(Rest(s)) <= k
      OBVIOUS
    <3>1. IsFiniteSet(s)
      BY <1>1
    <3> QED
      BY <3>1, RestOf
  <2> HIDE DEF Layer
  <2>5. \A s \in Layer(k) : h[s] = g[s]
    BY <2>2, <2>3
  <2>6. \A s \in Layer(k + 1) : Next1(h, s) = Next1(g, s)
    BY <2>4, <2>5
  <2>7. h = [s \in Layer(k + 1) |-> Next1(h, s)]
    BY <2>6
  <2>8. SumsTo(h, f, S, k + 1)
    BY <2>7 DEF SumsTo, Layer
  <2> QED
    BY <2>8
<1> HIDE DEF T
<1>4. Nat \subseteq T
  BY <1>2, <1>3, Induct
<1> QED
  BY <1>4 DEF T

\* The sum of f is one of these.
Sums(g, f) == g = [s \in SUBSET DOMAIN f |-> IF s = {} THEN 0 ELSE f[Pick(s)] + g[Rest(s)]]

\* The sum is a value of that function.
LEMMA SumIs ==
  ASSUME NEW f, IsFiniteSet(DOMAIN f)
  PROVE  \E g : SumFunction(f) = g[DOMAIN f] /\ Sums(g, f)
<1> DEFINE S == DOMAIN f
           n == Cardinality(S)
<1>1. n \in Nat /\ \A u \in SUBSET S : Cardinality(u) <= n
  BY FS_CardinalityType, FS_Subset
<1>2. {u \in SUBSET S : Cardinality(u) <= n} = SUBSET S
  BY <1>1
<1>3. PICK g : SumsTo(g, f, S, n)
  BY <1>1, SumsExist
<1>4. g = [s \in SUBSET S |-> IF s = {} THEN 0 ELSE f[Pick(s)] + g[Rest(s)]]
  BY <1>2, <1>3, Zenon DEF SumsTo
<1> DEFINE iter == CHOOSE it : it = [s \in SUBSET S |-> IF s = {} THEN 0 ELSE f[Pick(s)] + it[Rest(s)]]
<1>5. iter = [s \in SUBSET S |-> IF s = {} THEN 0 ELSE f[Pick(s)] + iter[Rest(s)]]
  BY <1>4, Zenon
<1>6. SumFunction(f) = iter[S]
  BY DEF SumFunction, SumFunctionOnSet, FoldFunctionOnSet, MapThenFoldSet, Pick, Rest
<1> HIDE DEF iter, n
<1> QED
  BY <1>5, <1>6 DEF Sums

\* A part of a sum is the sum of that part.
LEMMA SumOfPart ==
  ASSUME NEW f, IsFiniteSet(DOMAIN f), NEW R \in SUBSET DOMAIN f,
         NEW g, Sums(g, f)
  PROVE  g[R] = SumFunction([y \in R |-> f[y]])
<1> DEFINE S == DOMAIN f
           p == [y \in R |-> f[y]]
<1>1. \A s \in SUBSET S : IsFiniteSet(s)
  BY FS_Subset
<1>2. DOMAIN p = R
  OBVIOUS
<1>3. PICK h : SumFunction(p) = h[R] /\ Sums(h, p)
  <2> HIDE DEF p
  <2>1. IsFiniteSet(DOMAIN p)
    BY <1>1, <1>2
  <2>2. PICK h : SumFunction(p) = h[DOMAIN p] /\ Sums(h, p)
    BY <2>1, SumIs
  <2> QED
    BY <1>2, <2>2
<1> DEFINE T == {n \in Nat : \A s \in SUBSET R : Cardinality(s) = n => g[s] = h[s]}
<1>4. 0 \in T
  <2>1. \A s \in SUBSET R : Cardinality(s) = 0 => s = {}
    BY <1>1, FS_EmptySet
  <2>2. g[{}] = 0 /\ h[{}] = 0
    BY <1>2, <1>3 DEF Sums
  <2> HIDE DEF p, S
  <2> QED
    BY <2>1, <2>2
<1>5. ASSUME NEW n \in Nat, n \in T PROVE n + 1 \in T
  <2> SUFFICES ASSUME NEW s \in SUBSET R, Cardinality(s) = n + 1 PROVE g[s] = h[s]
    <3> HIDE DEF p, S
    <3> QED
      OBVIOUS
  <2>1. IsFiniteSet(s) /\ s # {} /\ s \in SUBSET S
    BY <1>1, FS_EmptySet
  <2>2. Pick(s) \in s /\ Rest(s) \in SUBSET R /\ Cardinality(Rest(s)) = n
    <3>1. Pick(s) \in s /\ Rest(s) \in SUBSET s /\ Cardinality(Rest(s)) \in Nat /\ Cardinality(Rest(s)) + 1 = n + 1
      BY <2>1, RestOf
    <3> QED
      BY <3>1
  <2>3. g[Rest(s)] = h[Rest(s)]
    BY <1>5, <2>2
  <2>4. g[s] = f[Pick(s)] + g[Rest(s)]
    BY <2>1 DEF Sums
  <2>5. h[s] = p[Pick(s)] + h[Rest(s)]
    BY <1>2, <1>3, <2>1 DEF Sums
  <2>6. p[Pick(s)] = f[Pick(s)]
    BY <2>2
  <2> HIDE DEF p
  <2> QED
    BY <2>3, <2>4, <2>5, <2>6
<1> HIDE DEF T, p
<1>6. Nat \subseteq T
  BY <1>4, <1>5, Induct
<1>7. Cardinality(R) \in Nat
  BY <1>1, FS_CardinalityType
<1>8. g[R] = h[R]
  BY <1>6, <1>7 DEF T
<1> QED
  BY <1>3, <1>8 DEF p

\* f without its argument x.
Without(f, x) == [y \in (DOMAIN f) \ {x} |-> f[y]]

\* A sum, by the element that it picks first.
LEMMA SumPicks ==
  ASSUME NEW f, IsFiniteSet(DOMAIN f)
  PROVE  /\ DOMAIN f = {} => SumFunction(f) = 0
         /\ DOMAIN f # {} => SumFunction(f) = f[Pick(DOMAIN f)] + SumFunction(Without(f, Pick(DOMAIN f)))
<1>1. PICK g : SumFunction(f) = g[DOMAIN f] /\ Sums(g, f)
  BY SumIs
<1>2. CASE DOMAIN f = {}
  BY <1>1, <1>2 DEF Sums
<1>3. CASE DOMAIN f # {}
  <2> DEFINE R == Rest(DOMAIN f)
  <2>1. R \in SUBSET DOMAIN f
    BY <1>3, RestOf
  <2>2. g[R] = SumFunction([y \in R |-> f[y]])
    BY <1>1, <2>1, SumOfPart
  <2>3. g[DOMAIN f] = f[Pick(DOMAIN f)] + g[R]
    BY <1>1, <1>3 DEF Sums
  <2> QED
    BY <1>1, <1>3, <2>2, <2>3 DEF Rest, Without
<1> QED
  BY <1>2, <1>3

\* What a function has without one argument.
LEMMA WithoutOne ==
  ASSUME NEW f, IsFiniteSet(DOMAIN f), NEW x \in DOMAIN f
  PROVE  /\ DOMAIN Without(f, x) = DOMAIN f \ {x} /\ IsFiniteSet(DOMAIN Without(f, x))
         /\ \A y \in DOMAIN f \ {x} : Without(f, x)[y] = f[y]
         /\ Cardinality(DOMAIN f) \in Nat /\ Cardinality(DOMAIN Without(f, x)) \in Nat
         /\ Cardinality(DOMAIN f) = Cardinality(DOMAIN Without(f, x)) + 1
<1>1. DOMAIN Without(f, x) = DOMAIN f \ {x} /\ \A y \in DOMAIN f \ {x} : Without(f, x)[y] = f[y]
  BY DEF Without
<1>2. IsFiniteSet(DOMAIN f \ {x}) /\ Cardinality(DOMAIN f \ {x}) = Cardinality(DOMAIN f) - 1
  BY FS_RemoveElement
<1>3. Cardinality(DOMAIN f) \in Nat /\ Cardinality(DOMAIN f \ {x}) \in Nat
  BY <1>2, FS_CardinalityType
<1> QED
  BY <1>1, <1>2, <1>3

\* Sums of numbers are numbers.
Numeric(f) == IsFiniteSet(DOMAIN f) /\ \A x \in DOMAIN f : f[x] \in Int

\* Sums of integers are integers, and of natural numbers natural numbers.
LEMMA SumType ==
  ASSUME NEW f, Numeric(f)
  PROVE  /\ SumFunction(f) \in Int
         /\ (\A x \in DOMAIN f : f[x] \in Nat) => SumFunction(f) \in Nat
<1> DEFINE Good(h) == /\ SumFunction(h) \in Int
                      /\ (\A x \in DOMAIN h : h[x] \in Nat) => SumFunction(h) \in Nat
           T == {n \in Nat : \A h : Numeric(h) /\ Cardinality(DOMAIN h) = n => Good(h)}
<1>1. 0 \in T
  <2> SUFFICES ASSUME NEW h, Numeric(h), Cardinality(DOMAIN h) = 0 PROVE Good(h)
    OBVIOUS
  <2>1. IsFiniteSet(DOMAIN h) /\ DOMAIN h = {}
    BY FS_EmptySet DEF Numeric
  <2>2. SumFunction(h) = 0
    BY <2>1, SumPicks
  <2> QED
    BY <2>2
<1>2. ASSUME NEW n \in Nat, n \in T PROVE n + 1 \in T
  <2> SUFFICES ASSUME NEW h, Numeric(h), Cardinality(DOMAIN h) = n + 1 PROVE Good(h)
    OBVIOUS
  <2> DEFINE p == Pick(DOMAIN h)
             w == Without(h, p)
  <2>1. DOMAIN h # {} /\ IsFiniteSet(DOMAIN h)
    BY FS_EmptySet DEF Numeric
  <2>2. p \in DOMAIN h
    BY <2>1, RestOf
  <2>3. /\ DOMAIN w = DOMAIN h \ {p} /\ IsFiniteSet(DOMAIN w) /\ \A y \in DOMAIN h \ {p} : w[y] = h[y]
        /\ Cardinality(DOMAIN w) = n
    <3>1. /\ Cardinality(DOMAIN w) \in Nat /\ Cardinality(DOMAIN h) = Cardinality(DOMAIN w) + 1
          /\ DOMAIN w = DOMAIN h \ {p} /\ IsFiniteSet(DOMAIN w) /\ \A y \in DOMAIN h \ {p} : w[y] = h[y]
      BY <2>1, <2>2, WithoutOne
    <3> HIDE DEF w, p
    <3> QED
      BY <3>1
  <2> HIDE DEF w
  <2>4. Good(w) /\ Numeric(w)
    BY <1>2, <2>3 DEF Numeric
  <2>5. SumFunction(h) = h[p] + SumFunction(w)
    BY <2>1, SumPicks DEF w
  <2>6. h[p] \in Int
    BY <2>2 DEF Numeric
  <2> QED
    BY <2>2, <2>3, <2>4, <2>5, <2>6
<1> HIDE DEF T, Good
<1>3. Nat \subseteq T
  BY <1>1, <1>2, Induct
<1>4. Cardinality(DOMAIN f) \in Nat
  BY FS_CardinalityType DEF Numeric
<1>5. Good(f)
  BY <1>3, <1>4 DEF T
<1> QED
  BY <1>5 DEF Good

\* Any element may be the first.
LEMMA SumSplits ==
  ASSUME NEW f, Numeric(f)
  PROVE  \A x \in DOMAIN f : SumFunction(f) = f[x] + SumFunction(Without(f, x))
<1> DEFINE Good(h) == \A x \in DOMAIN h : SumFunction(h) = h[x] + SumFunction(Without(h, x))
           T == {n \in Nat : \A h : Numeric(h) /\ Cardinality(DOMAIN h) = n => Good(h)}
<1>1. 0 \in T
  BY FS_EmptySet DEF Numeric
<1>2. ASSUME NEW n \in Nat, n \in T PROVE n + 1 \in T
  <2> SUFFICES ASSUME NEW h, Numeric(h), Cardinality(DOMAIN h) = n + 1 PROVE Good(h)
    OBVIOUS
  <2> SUFFICES ASSUME NEW x \in DOMAIN h
               PROVE  SumFunction(h) = h[x] + SumFunction(Without(h, x))
    OBVIOUS
  <2> DEFINE p == Pick(DOMAIN h)
  <2>1. DOMAIN h # {} /\ IsFiniteSet(DOMAIN h) /\ p \in DOMAIN h
    <3>1. DOMAIN h # {} /\ IsFiniteSet(DOMAIN h)
      BY FS_EmptySet DEF Numeric
    <3> QED
      BY <3>1, RestOf
  <2>2. SumFunction(h) = h[p] + SumFunction(Without(h, p))
    BY <2>1, SumPicks
  <2> HIDE DEF p
  <2>3. ASSUME NEW y \in DOMAIN h
        PROVE  /\ Numeric(Without(h, y)) /\ Cardinality(DOMAIN Without(h, y)) = n
               /\ DOMAIN Without(h, y) = DOMAIN h \ {y}
               /\ \A z \in DOMAIN h \ {y} : Without(h, y)[z] = h[z]
    <3>1. /\ Cardinality(DOMAIN Without(h, y)) \in Nat
          /\ Cardinality(DOMAIN h) = Cardinality(DOMAIN Without(h, y)) + 1
          /\ IsFiniteSet(DOMAIN Without(h, y)) /\ DOMAIN Without(h, y) = DOMAIN h \ {y}
          /\ \A z \in DOMAIN h \ {y} : Without(h, y)[z] = h[z]
      BY <2>1, WithoutOne
    <3> QED
      BY <3>1 DEF Numeric
  <2>4. CASE x = p
    BY <2>2, <2>4
  <2>5. CASE x # p
    <3> DEFINE a == Without(h, p)
               b == Without(h, x)
    <3>1. x \in DOMAIN a /\ a[x] = h[x] /\ p \in DOMAIN b /\ b[p] = h[p]
      BY <2>1, <2>3, <2>5
    <3>2. Good(a) /\ Good(b)
      BY <1>2, <2>1, <2>3
    <3>3. SumFunction(a) = h[x] + SumFunction(Without(a, x))
      BY <3>1, <3>2
    <3>4. SumFunction(b) = h[p] + SumFunction(Without(b, p))
      BY <3>1, <3>2
    <3>5. Without(a, x) = Without(b, p)
      <4>1. DOMAIN a \ {x} = DOMAIN b \ {p}
        BY <2>1, <2>3
      <4>2. \A y \in DOMAIN a \ {x} : a[y] = b[y]
        BY <2>1, <2>3
      <4> HIDE DEF a, b
      <4> QED
        BY <4>1, <4>2 DEF Without
    <3>6. h[x] \in Int /\ h[p] \in Int /\ SumFunction(Without(a, x)) \in Int
      <4>1. Numeric(a) /\ DOMAIN a = DOMAIN h \ {p}
        BY <2>1, <2>3
      <4>2. Numeric(Without(a, x))
        <5> HIDE DEF a
        <5>1. IsFiniteSet(DOMAIN a)
          BY <4>1 DEF Numeric
        <5>2. /\ IsFiniteSet(DOMAIN Without(a, x)) /\ DOMAIN Without(a, x) = DOMAIN a \ {x}
              /\ \A z \in DOMAIN a \ {x} : Without(a, x)[z] = a[z]
          BY <3>1, <5>1, WithoutOne
        <5> QED
          BY <4>1, <5>2 DEF Numeric
      <4> QED
        BY <2>1, <4>2, SumType DEF Numeric
    <3> HIDE DEF a, b
    <3>7. h[p] + SumFunction(a) = h[x] + SumFunction(b)
      BY <3>3, <3>4, <3>5, <3>6
    <3> QED
      BY <2>2, <3>7 DEF a, b
  <2> QED
    BY <2>4, <2>5
<1> HIDE DEF T, Good
<1>3. Nat \subseteq T
  BY <1>1, <1>2, Induct
<1>4. Cardinality(DOMAIN f) \in Nat
  BY FS_CardinalityType DEF Numeric
<1>5. Good(f)
  BY <1>3, <1>4 DEF T
<1> QED
  BY <1>5 DEF Good

\* Without one argument, its values are still numbers.
LEMMA WithoutNumeric ==
  ASSUME NEW f, Numeric(f), NEW x \in DOMAIN f
  PROVE  Numeric(Without(f, x))
<1>1. /\ IsFiniteSet(DOMAIN Without(f, x)) /\ DOMAIN Without(f, x) = DOMAIN f \ {x}
      /\ \A y \in DOMAIN f \ {x} : Without(f, x)[y] = f[y]
  BY WithoutOne DEF Numeric
<1> QED
  BY <1>1 DEF Numeric

\* Of numbers that are not negative, one that is positive makes the sum positive.
LEMMA SumPositive ==
  ASSUME NEW f, Numeric(f), \A x \in DOMAIN f : f[x] \in Nat, NEW x \in DOMAIN f, f[x] > 0
  PROVE  SumFunction(f) \in Nat /\ SumFunction(f) > 0
<1> DEFINE w == Without(f, x)
<1>1. Numeric(w)
  BY WithoutNumeric
<1>2. \A y \in DOMAIN w : w[y] \in Nat
  BY DEF Without
<1> HIDE DEF w
<1>3. SumFunction(w) \in Nat
  BY <1>1, <1>2, SumType
<1>4. SumFunction(f) = f[x] + SumFunction(w)
  BY SumSplits DEF w
<1> QED
  BY <1>3, <1>4

\* A sum does not depend on the order.
LEMMA SumMoves ==
  ASSUME NEW f, Numeric(f), NEW S, NEW b \in Bijection(S, DOMAIN f)
  PROVE  SumFunction([s \in S |-> f[b[s]]]) = SumFunction(f)
<1> DEFINE Good(h) == \A U, c : c \in Bijection(U, DOMAIN h) =>
                        SumFunction([s \in U |-> h[c[s]]]) = SumFunction(h)
           T == {n \in Nat : \A h : Numeric(h) /\ Cardinality(DOMAIN h) = n => Good(h)}
<1>1. ASSUME NEW h, Numeric(h), NEW U, NEW c \in Bijection(U, DOMAIN h)
      PROVE  Numeric([s \in U |-> h[c[s]]])
  <2>1. c \in Injection(U, DOMAIN h) /\ c \in [U -> DOMAIN h]
    BY <1>1 DEF Bijection, Injection
  <2>2. IsFiniteSet(U)
    BY <1>1, <2>1, FS_Injection DEF Numeric
  <2> QED
    BY <1>1, <2>1, <2>2 DEF Numeric
<1>2. 0 \in T
  <2> SUFFICES ASSUME NEW h, Numeric(h), Cardinality(DOMAIN h) = 0 PROVE Good(h)
    OBVIOUS
  <2> SUFFICES ASSUME NEW U, NEW c \in Bijection(U, DOMAIN h)
               PROVE  SumFunction([s \in U |-> h[c[s]]]) = SumFunction(h)
    OBVIOUS
  <2> DEFINE m == [s \in U |-> h[c[s]]]
  <2>1. IsFiniteSet(DOMAIN h) /\ DOMAIN h = {}
    BY FS_EmptySet DEF Numeric
  <2>2. DOMAIN m = {}
    BY <2>1 DEF Bijection, Injection
  <2>3. IsFiniteSet(DOMAIN m)
    BY <2>2, FS_EmptySet
  <2> HIDE DEF m
  <2>4. SumFunction(m) = 0 /\ SumFunction(h) = 0
    BY <2>1, <2>2, <2>3, SumPicks
  <2> QED
    BY <2>4 DEF m
<1>3. ASSUME NEW n \in Nat, n \in T PROVE n + 1 \in T
  <2> SUFFICES ASSUME NEW h, Numeric(h), Cardinality(DOMAIN h) = n + 1 PROVE Good(h)
    OBVIOUS
  <2> SUFFICES ASSUME NEW U, NEW c \in Bijection(U, DOMAIN h)
               PROVE  SumFunction([s \in U |-> h[c[s]]]) = SumFunction(h)
    OBVIOUS
  <2> DEFINE m == [s \in U |-> h[c[s]]]
  <2>1. IsFiniteSet(DOMAIN h) /\ DOMAIN h # {}
    BY FS_EmptySet DEF Numeric
  <2>2. PICK x \in U : c[x] \in DOMAIN h
    BY <2>1 DEF Bijection, Surjection
  <2> DEFINE y == c[x]
             w == Without(h, y)
             V == U \ {x}
             d == [s \in V |-> c[s]]
  <2>3. Numeric(m) /\ m[x] = h[y] /\ x \in DOMAIN m
    BY <1>1, <2>2
  <2>4. SumFunction(m) = h[y] + SumFunction(Without(m, x))
    <3> HIDE DEF m, y
    <3> QED
      BY <2>3, SumSplits
  <2>5. SumFunction(h) = h[y] + SumFunction(w)
    BY <2>2, SumSplits
  <2>6. Numeric(w) /\ DOMAIN w = DOMAIN h \ {y} /\ \A z \in DOMAIN h \ {y} : w[z] = h[z]
    <3>1. DOMAIN w = DOMAIN h \ {y} /\ \A z \in DOMAIN h \ {y} : w[z] = h[z]
      BY <2>1, <2>2, WithoutOne
    <3> QED
      BY <2>2, <3>1, WithoutNumeric
  <2>7. Cardinality(DOMAIN w) = n
    <3>1. /\ Cardinality(DOMAIN h) \in Nat /\ Cardinality(DOMAIN w) \in Nat
          /\ Cardinality(DOMAIN h) = Cardinality(DOMAIN w) + 1
      BY <2>1, <2>2, WithoutOne
    <3> HIDE DEF w
    <3> QED
      BY <3>1
  <2>8. d \in Bijection(V, DOMAIN w)
    <3>1. c \in [U -> DOMAIN h] /\ (\A p, q \in U : c[p] = c[q] => p = q) /\ (\A t \in DOMAIN h : \E s \in U : c[s] = t)
      BY DEF Bijection, Injection, Surjection, IsInjective
    <3>2. d \in [V -> DOMAIN h \ {y}]
      BY <2>2, <3>1
    <3>3. \A t \in DOMAIN h \ {y} : \E s \in V : d[s] = t
      BY <2>2, <3>1
    <3>4. \A p, q \in V : d[p] = d[q] => p = q
      BY <3>1
    <3> HIDE DEF d, w, V
    <3> QED
      BY <2>6, <3>2, <3>3, <3>4 DEF Bijection, Injection, Surjection, IsInjective
  <2>9. SumFunction([s \in V |-> w[d[s]]]) = SumFunction(w)
    <3> HIDE DEF V, w, d
    <3> QED
      BY <1>3, <2>6, <2>7, <2>8
  <2>10. [s \in V |-> w[d[s]]] = Without(m, x)
    <3>1. \A s \in V : d[s] \in DOMAIN w
      BY <2>8 DEF Bijection, Injection
    <3>2. \A s \in V : w[d[s]] = m[s]
      <4>1. \A s \in V : w[d[s]] = h[d[s]]
        <5> HIDE DEF w, d
        <5> QED
          BY <2>6, <3>1
      <4> QED
        BY <4>1
    <3> HIDE DEF w, d
    <3> QED
      BY <3>2 DEF Without
  <2> HIDE DEF m, w, y, V, d
  <2> QED
    BY <2>4, <2>5, <2>9, <2>10 DEF m
<1> HIDE DEF T, Good
<1>4. Nat \subseteq T
  BY <1>2, <1>3, Induct
<1>5. Cardinality(DOMAIN f) \in Nat
  BY FS_CardinalityType DEF Numeric
<1>6. Good(f)
  BY <1>4, <1>5 DEF T
<1> QED
  BY <1>6 DEF Good

-----------------------------------------------------------------------------
(* Sortings *)

\* The first n of S in an order in which none comes after one that it is ahead of.
Ranked(q, S, ahead, n) ==
  /\ q \in [1..n -> S]
  /\ \A i, j \in 1..n : q[i] = q[j] => i = j
  /\ \A i \in 1..n, z \in S : (\A j \in 1..n : j < i => q[j] # z) => <<z, q[i]>> \notin ahead

\* One step of Sortings.
Longer(Q, S, ahead) ==
  UNION {LET left == S \ ToSet(q)
         IN {Append(q, x) : x \in {y \in left : \A z \in left : <<z, y>> \notin ahead}} : q \in Q}

\* g has the sequences of each length up to n.
Grows(g, S, ahead, n) ==
  g = [m \in 0..n |-> IF m = 0 THEN {<< >>} ELSE Longer(g[m - 1], S, ahead)]

\* The recursive function that sortings are taken from exists.
LEMMA SortingsGrow ==
  ASSUME NEW S, NEW ahead, NEW n \in Nat
  PROVE  \E g : Grows(g, S, ahead, n)
<1> DEFINE Val(g, m) == IF m = 0 THEN {<< >>} ELSE Longer(g[m - 1], S, ahead)
           T == {k \in Nat : \E g : g = [m \in 0..k |-> Val(g, m)]}
<1>1. 0 \in T
  <2> DEFINE g == [m \in 0..0 |-> {<< >>}]
  <2>1. g = [m \in 0..0 |-> Val(g, m)]
    OBVIOUS
  <2> HIDE DEF g, Val
  <2> QED
    BY <2>1
<1>2. ASSUME NEW k \in Nat, k \in T PROVE k + 1 \in T
  <2> HIDE DEF Val
  <2>1. PICK g : g = [m \in 0..k |-> Val(g, m)]
    BY <1>2
  <2> DEFINE h == [m \in 0..(k + 1) |-> Val(g, m)]
  <2>2. \A m \in 0..k : h[m] = g[m]
    <3>1. \A m \in 0..k : g[m] = Val(g, m)
      BY <2>1
    <3>2. \A m \in 0..k : m \in 0..(k + 1)
      OBVIOUS
    <3> QED
      BY <3>1, <3>2
  <2>3. \A m \in 0..(k + 1) : Val(h, m) = Val(g, m)
    <3>1. \A m \in 0..(k + 1) : m # 0 => m - 1 \in 0..k
      OBVIOUS
    <3>2. \A m \in 0..(k + 1) : m # 0 => h[m - 1] = g[m - 1]
      BY <2>2, <3>1
    <3> HIDE DEF h
    <3> QED
      BY <3>2 DEF Val
  <2>4. h = [m \in 0..(k + 1) |-> Val(h, m)]
    BY <2>3
  <2> HIDE DEF h
  <2>5. k + 1 \in Nat /\ \E e : e = [m \in 0..(k + 1) |-> Val(e, m)]
    BY <2>4
  <2> QED
    BY <2>5
<1> HIDE DEF T
<1>3. n \in T
  BY <1>1, <1>2, Induct
<1> QED
  BY <1>3 DEF T, Grows

\* With one more element that none of the others is ahead of, n are n + 1.
LEMMA LongerRanked ==
  ASSUME NEW S, NEW ahead, NEW n \in Nat, NEW Q, \A q \in Q : Ranked(q, S, ahead, n)
  PROVE  \A q \in Longer(Q, S, ahead) : Ranked(q, S, ahead, n + 1)
<1> SUFFICES ASSUME NEW q \in Q, NEW x \in S, x \notin ToSet(q),
                    \A z \in S \ ToSet(q) : <<z, x>> \notin ahead
             PROVE  Ranked(Append(q, x), S, ahead, n + 1)
  BY DEF Longer
<1> DEFINE r == Append(q, x)
<1>1. q \in [1..n -> S] /\ Ranked(q, S, ahead, n)
  BY DEF Ranked
<1>2. q \in Seq(S) /\ Len(q) = n
  BY <1>1
<1>3. r \in [1..(n + 1) -> S] /\ r[n + 1] = x /\ \A i \in 1..n : r[i] = q[i]
  <2>1. Len(r) = n + 1 /\ r \in Seq(S)
    BY <1>2
  <2>2. r \in [1..(n + 1) -> S]
    <3>1. r \in [1..Len(r) -> S]
      <4> HIDE DEF r
      <4> QED
        BY <2>1
    <3> QED
      BY <2>1, <3>1
  <2>3. r[n + 1] = x
    BY <1>2
  <2>4. \A i \in 1..n : r[i] = q[i]
    BY <1>2
  <2> QED
    BY <2>2, <2>3, <2>4
<1>4. \A i \in 1..n : q[i] # x
  BY <1>1 DEF ToSet
<1> HIDE DEF r
<1>5. \A i \in 1..(n + 1) : i \in 1..n \/ i = n + 1
  OBVIOUS
<1>6. \A i, j \in 1..(n + 1) : r[i] = r[j] => i = j
  BY <1>1, <1>3, <1>4, <1>5 DEF Ranked
<1>7. ASSUME NEW i \in 1..(n + 1), NEW z \in S, \A j \in 1..(n + 1) : j < i => r[j] # z
      PROVE  <<z, r[i]>> \notin ahead
  <2>1. CASE i \in 1..n
    <3>1. \A j \in 1..n : j < i => q[j] # z
      BY <1>3, <1>7
    <3> QED
      BY <1>1, <1>3, <2>1, <3>1 DEF Ranked
  <2>2. CASE i = n + 1
    <3>1. \A j \in 1..n : j \in 1..(n + 1) /\ j < i
      BY <2>2
    <3>2. \A j \in 1..n : q[j] # z
      BY <1>3, <1>7, <3>1
    <3>3. z \notin ToSet(q)
      BY <1>1, <3>2 DEF ToSet
    <3> QED
      BY <1>3, <2>2, <3>3
  <2> QED
    BY <1>5, <2>1, <2>2
<1>8. Ranked(r, S, ahead, n + 1)
  BY <1>3, <1>6, <1>7 DEF Ranked
<1> QED
  BY <1>8 DEF r

\* What sort.Slice may make of a set has each of its elements once, in order.
LEMMA SortingsRanked ==
  ASSUME NEW S, IsFiniteSet(S), NEW ahead, NEW q \in Sortings(S, ahead)
  PROVE  Ranked(q, S, ahead, Cardinality(S))
<1> DEFINE n == Cardinality(S)
           Grow == CHOOSE g : g = [m \in 0..n |-> IF m = 0 THEN {<< >>} ELSE Longer(g[m - 1], S, ahead)]
<1>1. n \in Nat
  BY FS_CardinalityType
<1>2. Grow = [m \in 0..n |-> IF m = 0 THEN {<< >>} ELSE Longer(Grow[m - 1], S, ahead)]
  <2>1. \E g : g = [m \in 0..n |-> IF m = 0 THEN {<< >>} ELSE Longer(g[m - 1], S, ahead)]
    <3> HIDE DEF n
    <3>1. \E g : Grows(g, S, ahead, n)
      BY <1>1, SortingsGrow
    <3> QED
      BY <3>1, Zenon DEF Grows
  <2> QED
    BY <2>1, Zenon
<1>3. q \in Grow[n]
  BY Zenon DEF Sortings, Longer
<1> HIDE DEF Grow, n
<1> DEFINE T == {m \in Nat : m <= n => \A p \in Grow[m] : Ranked(p, S, ahead, m)}
<1>4. 0 \in T
  <2>1. Grow[0] = {<< >>}
    BY <1>1, <1>2
  <2>2. Ranked(<< >>, S, ahead, 0)
    BY DEF Ranked
  <2> QED
    BY <2>1, <2>2
<1>5. ASSUME NEW m \in Nat, m \in T PROVE m + 1 \in T
  <2> SUFFICES ASSUME m + 1 <= n PROVE \A p \in Grow[m + 1] : Ranked(p, S, ahead, m + 1)
    OBVIOUS
  <2>1. Grow[m + 1] = Longer(Grow[m], S, ahead)
    <3>1. m + 1 \in 0..n /\ m + 1 # 0 /\ (m + 1) - 1 = m
      BY <1>1
    <3> QED
      BY <1>2, <3>1
  <2>2. \A p \in Grow[m] : Ranked(p, S, ahead, m)
    BY <1>1, <1>5
  <2> QED
    BY <2>1, <2>2, LongerRanked
<1> HIDE DEF T
<1>6. n \in T
  BY <1>1, <1>4, <1>5, Induct
<1>7. Ranked(q, S, ahead, n)
  BY <1>1, <1>3, <1>6 DEF T
<1> QED
  BY <1>7 DEF n

\* Two orders that agree under a correspondence of two sets, and leave no two elements of
\* a set unordered, sort them alike.
Alike(L, S, U, ahead, behind) ==
  /\ L \subseteq S \X U
  /\ \A x \in S : \E y \in U : <<x, y>> \in L
  /\ \A y \in U : \E x \in S : <<x, y>> \in L
  /\ \A x \in S, y, z \in U : <<x, y>> \in L /\ <<x, z>> \in L => y = z
  /\ \A x, z \in S, y \in U : <<x, y>> \in L /\ <<z, y>> \in L => x = z
  /\ \A x, z \in S : x = z \/ <<x, z>> \in ahead \/ <<z, x>> \in ahead
  /\ \A x, z \in S, y, u \in U : <<x, y>> \in L /\ <<z, u>> \in L =>
       (<<x, z>> \in ahead <=> <<y, u>> \in behind)

\* At each place of the two sortings are elements that correspond.
LEMMA SortedAlike ==
  ASSUME NEW L, NEW S, NEW U, NEW ahead, NEW behind, Alike(L, S, U, ahead, behind),
         NEW n \in Nat, NEW q, NEW p, Ranked(q, S, ahead, n), Ranked(p, U, behind, n)
  PROVE  \A i \in 1..n : <<q[i], p[i]>> \in L
<1> DEFINE B == {i \in 1..n : <<q[i], p[i]>> \notin L}
<1> SUFFICES ASSUME B # {} PROVE FALSE
  OBVIOUS
<1> DEFINE i == Min(B)
<1>1. i \in B /\ \A j \in B : i <= j
  <2>1. B \in SUBSET Nat
    OBVIOUS
  <2> HIDE DEF B
  <2> QED
    BY <2>1, Least
<1>2. i \in 1..n /\ <<q[i], p[i]>> \notin L
  BY <1>1
<1>3. \A j \in 1..n : j < i => <<q[j], p[j]>> \in L
  <2>1. \A j \in 1..n : j < i => ~(i <= j)
    BY <1>2
  <2> QED
    BY <1>1, <2>1
<1> HIDE DEF i, B
<1>4. q \in [1..n -> S] /\ p \in [1..n -> U]
  BY DEF Ranked
<1>5. PICK y \in U : <<q[i], y>> \in L
  BY <1>2, <1>4 DEF Alike
<1>6. PICK x \in S : <<x, p[i]>> \in L
  BY <1>2, <1>4 DEF Alike
<1>7. <<y, p[i]>> \notin behind
  <2>1. ASSUME NEW j \in 1..n, j < i PROVE p[j] # y
    <3>1. q[j] # q[i]
      BY <1>2, <2>1 DEF Ranked
    <3>2. <<q[j], p[j]>> \in L
      BY <1>3, <2>1
    <3> QED
      BY <1>2, <1>4, <1>5, <3>1, <3>2 DEF Alike
  <2> QED
    BY <1>2, <1>5, <2>1 DEF Ranked
<1>8. <<x, q[i]>> \notin ahead
  <2>1. ASSUME NEW j \in 1..n, j < i PROVE q[j] # x
    <3>1. p[j] # p[i]
      BY <1>2, <2>1 DEF Ranked
    <3>2. <<q[j], p[j]>> \in L
      BY <1>3, <2>1
    <3> QED
      BY <1>2, <1>4, <1>6, <3>1, <3>2 DEF Alike
  <2> QED
    BY <1>2, <1>6, <2>1 DEF Ranked
<1>9. <<q[i], x>> \notin ahead
  BY <1>2, <1>4, <1>5, <1>6, <1>7 DEF Alike
<1>10. x = q[i]
  BY <1>2, <1>4, <1>8, <1>9 DEF Alike
<1> QED
  BY <1>2, <1>6, <1>10

-----------------------------------------------------------------------------
(* ParseFlat *)

\* A positive self weight of a function in a metric.
IsWeight(w) == w.symbol \in Symbols /\ w.metric \in Metrics /\ w.value \in Nat /\ w.value > 0

\* A self weight is a number.
LEMMA FlatType ==
  ASSUME NEW pr, IsProfile(pr), NEW f, NEW m
  PROVE  Flat(pr, f, m) \in Int
<1> DEFINE want == Want(pr)
           at == {x \in (DOMAIN pr.samples) \X (DOMAIN want) :
                    pr.samples[x[1]].leaf = f /\ want[x[2]] = m}
           value == [x \in at |-> pr.samples[x[1]].value[x[2]]]
<1>1. DOMAIN pr.types = 1..Len(pr.types) /\ Len(pr.types) \in Nat
  BY DEF IsProfile
<1>2. DOMAIN want \subseteq DOMAIN pr.types
  BY <1>1 DEF Want
<1>3. IsFiniteSet(DOMAIN want)
  <2>1. IsFiniteSet(DOMAIN pr.types)
    <3>1. 1 \in Int /\ Len(pr.types) \in Int
      BY <1>1
    <3>2. IsFiniteSet(1..Len(pr.types))
      BY <3>1, FS_Interval
    <3> QED
      BY <1>1, <3>2
  <2> QED
    BY <1>2, <2>1, FS_Subset
<1>4. IsFiniteSet((DOMAIN pr.samples) \X (DOMAIN want))
  BY <1>3, FS_Product DEF IsProfile
<1>5. IsFiniteSet(at)
  <2>1. at \in SUBSET ((DOMAIN pr.samples) \X (DOMAIN want))
    OBVIOUS
  <2> HIDE DEF at
  <2> QED
    BY <1>4, <2>1, FS_Subset
<1>6. \A x \in at : pr.samples[x[1]].value[x[2]] \in Int
  BY <1>2 DEF IsProfile
<1>7. Numeric(value)
  <2> HIDE DEF at
  <2> QED
    BY <1>5, <1>6 DEF Numeric
<1>8. Flat(pr, f, m) = SumFunction(value)
  BY DEF Flat
<1> HIDE DEF value
<1> QED
  BY <1>7, <1>8, SumType

\* There are finitely many weights in a metric, one of a function.
LEMMA HotType ==
  ASSUME NEW pr, IsProfile(pr), NEW m \in Metrics
  PROVE  /\ IsFiniteSet(Hot(pr, m))
         /\ \A w \in Hot(pr, m) : IsWeight(w) /\ w.metric = m
         /\ \A w, v \in Hot(pr, m) : w.symbol = v.symbol => w = v
<1> DEFINE rec == [f \in Symbols |-> [symbol |-> f, metric |-> m, value |-> Flat(pr, f, m)]]
           all == {rec[f] : f \in Symbols}
<1>1. Hot(pr, m) = {w \in all : w.value > 0}
  BY DEF Hot
<1>2. IsFiniteSet(all)
  <2>1. rec \in Surjection(Symbols, all)
    BY DEF Surjection
  <2> HIDE DEF rec, all
  <2> QED
    BY <2>1, FS_Surjection, RankingAssumption
<1>3. \A f \in Symbols : Flat(pr, f, m) \in Int
  BY FlatType
<1>4. IsFiniteSet(Hot(pr, m))
  <2> HIDE DEF all
  <2> QED
    BY <1>1, <1>2, FS_Subset
<1>5. \A w \in Hot(pr, m) : IsWeight(w) /\ w.metric = m
  BY <1>1, <1>3 DEF IsWeight
<1>6. \A w, v \in Hot(pr, m) : w.symbol = v.symbol => w = v
  BY <1>1
<1> QED
  BY <1>4, <1>5, <1>6

\* The heaviest functions are the same whatever sort.Slice does, and whatever the order of
\* the map: no two are unordered.
LEMMA TopIsUnique ==
  ASSUME NEW pr, IsProfile(pr), NEW m \in Metrics, NEW topn \in Nat,
         NEW a \in TopOf(pr, m, topn), NEW b \in TopOf(pr, m, topn)
  PROVE  a = b /\ a \subseteq Hot(pr, m)
<1> DEFINE H == Hot(pr, m)
           heavier == {p \in H \X H : Heavier(p[1], p[2])}
           n == Cardinality(H)
           Cut(q) == IF topn > 0 /\ Len(q) > topn THEN ToSet(SubSeq(q, 1, topn)) ELSE ToSet(q)
<1>1. PICK q \in Sortings(H, heavier) : a = Cut(q)
  BY DEF TopOf
<1>2. PICK p \in Sortings(H, heavier) : b = Cut(p)
  BY DEF TopOf
<1>3. IsFiniteSet(H) /\ (\A w \in H : IsWeight(w)) /\ \A w, v \in H : w.symbol = v.symbol => w = v
  BY HotType
<1> DEFINE L == {e \in H \X H : e[1] = e[2]}
<1>4. Alike(L, H, H, heavier, heavier)
  <2>1. \A w \in H : w.symbol \in Nat /\ w.value \in Nat
    BY <1>3, RankingAssumption DEF IsWeight
  <2> HIDE DEF H
  <2>2. \A x, z \in H : x = z \/ <<x, z>> \in heavier \/ <<z, x>> \in heavier
    BY <1>3, <2>1 DEF Heavier
  <2> QED
    BY <2>2 DEF Alike
<1>5. n \in Nat /\ Ranked(q, H, heavier, n) /\ Ranked(p, H, heavier, n)
  <2> HIDE DEF H, heavier
  <2> QED
    BY <1>1, <1>2, <1>3, SortingsRanked, FS_CardinalityType
<1> HIDE DEF n, H, heavier
<1>6. q \in [1..n -> H] /\ p \in [1..n -> H]
  BY <1>5 DEF Ranked
<1>7. \A i \in 1..n : q[i] = p[i]
  <2> HIDE DEF L
  <2>1. \A i \in 1..n : <<q[i], p[i]>> \in L
    BY <1>4, <1>5, SortedAlike
  <2> QED
    BY <2>1 DEF L
<1>8. q = p
  <2>1. q = [i \in 1..n |-> q[i]] /\ p = [i \in 1..n |-> p[i]]
    BY <1>6
  <2> QED
    BY <1>7, <2>1, Zenon
<1>9. Cut(q) \subseteq H
  <2>1. q \in Seq(H)
    BY <1>5, <1>6
  <2>2. ToSet(q) \subseteq H
    BY <1>6 DEF ToSet
  <2>3. Len(q) > topn => SubSeq(q, 1, topn) \in Seq(H)
    BY <2>1
  <2>4. \A s \in Seq(H) : ToSet(s) \subseteq H
    BY DEF ToSet
  <2> QED
    BY <2>2, <2>3, <2>4
<1> HIDE DEF Cut
<1> QED
  BY <1>1, <1>2, <1>8, <1>9 DEF H

\* The same profile is always read the same.
LEMMA ParseIsUnique ==
  ASSUME NEW pr, IsProfile(pr), NEW topn \in Nat,
         NEW a \in ParseFlat(pr, topn), NEW b \in ParseFlat(pr, topn)
  PROVE  a = b /\ IsFiniteSet(a) /\ \A w \in a : IsWeight(w)
<1>1. {"alloc", "cpu", "inuse"} \subseteq Metrics
  BY DEF Metrics
<1>2. PICK a1 \in TopOf(pr, "alloc", topn), a2 \in TopOf(pr, "cpu", topn), a3 \in TopOf(pr, "inuse", topn) :
        a = a1 \cup a2 \cup a3
  BY DEF ParseFlat
<1>3. PICK b1 \in TopOf(pr, "alloc", topn), b2 \in TopOf(pr, "cpu", topn), b3 \in TopOf(pr, "inuse", topn) :
        b = b1 \cup b2 \cup b3
  BY DEF ParseFlat
<1>4. a1 = b1 /\ a1 \subseteq Hot(pr, "alloc")
  BY <1>1, <1>2, <1>3, TopIsUnique
<1>5. a2 = b2 /\ a2 \subseteq Hot(pr, "cpu")
  BY <1>1, <1>2, <1>3, TopIsUnique
<1>6. a3 = b3 /\ a3 \subseteq Hot(pr, "inuse")
  BY <1>1, <1>2, <1>3, TopIsUnique
<1>7. \A m \in Metrics : IsFiniteSet(Hot(pr, m)) /\ \A w \in Hot(pr, m) : IsWeight(w)
  BY HotType
<1>8. IsFiniteSet(a1) /\ IsFiniteSet(a2) /\ IsFiniteSet(a3)
  BY <1>1, <1>4, <1>5, <1>6, <1>7, FS_Subset
<1>9. IsFiniteSet(a1 \cup a2 \cup a3)
  BY <1>8, FS_Union
<1> QED
  BY <1>1, <1>2, <1>3, <1>4, <1>5, <1>6, <1>7, <1>9

-----------------------------------------------------------------------------
(* Rank *)

\* Finitely many profiles of finitely many weights each.
IsParsed(parsed) ==
  /\ IsFiniteSet(DOMAIN parsed)
  /\ \A i \in DOMAIN parsed :
       IsFiniteSet(parsed[i].weights) /\ \A w \in parsed[i].weights : IsWeight(w)

\* What profiles say of a key is finite, and is of that key.
LEMMA EntriesType ==
  ASSUME NEW parsed, IsParsed(parsed), NEW k
  PROVE  /\ IsFiniteSet(Entries(parsed, k))
         /\ \A e \in Entries(parsed, k) : IsWeight(e[2]) /\ e[2].symbol = k[1] /\ e[2].metric = k[2]
<1> DEFINE D == DOMAIN parsed
           W(i) == {v \in parsed[i].weights : v.symbol = k[1] /\ v.metric = k[2]}
           E(i) == {<<i, w>> : w \in W(i)}
           all == [i \in D |-> E(i)]
<1>1. \A e \in Entries(parsed, k) : IsWeight(e[2]) /\ e[2].symbol = k[1] /\ e[2].metric = k[2]
  BY DEF Entries, IsParsed
<1>2. ASSUME NEW i \in D PROVE IsFiniteSet(E(i))
  <2> DEFINE s == [w \in W(i) |-> <<i, w>>]
  <2>1. s \in Surjection(W(i), E(i))
    BY DEF Surjection
  <2>2. IsFiniteSet(W(i))
    <3>1. W(i) \in SUBSET parsed[i].weights /\ IsFiniteSet(parsed[i].weights)
      BY DEF IsParsed
    <3> HIDE DEF W
    <3> QED
      BY <3>1, FS_Subset
  <2> HIDE DEF s, W, E
  <2> QED
    BY <2>1, <2>2, FS_Surjection
<1>3. IsFiniteSet({E(i) : i \in D})
  <2>1. all \in Surjection(D, {E(i) : i \in D})
    BY DEF Surjection
  <2>2. IsFiniteSet(D)
    BY DEF IsParsed
  <2> HIDE DEF all, D, E
  <2> QED
    BY <2>1, <2>2, FS_Surjection
<1>4. IsFiniteSet(UNION {E(i) : i \in D})
  <2> HIDE DEF E, D
  <2>1. \A T \in {E(i) : i \in D} : IsFiniteSet(T)
    BY <1>2
  <2> QED
    BY <1>3, <2>1, FS_UNION
<1>5. Entries(parsed, k) = UNION {E(i) : i \in D}
  BY DEF Entries
<1> QED
  BY <1>1, <1>4, <1>5

\* There are finitely many keys.
LEMMA KeysFinite ==
  ASSUME NEW parsed
  PROVE  IsFiniteSet(Keys(parsed))
<1>1. IsFiniteSet(Metrics)
  <2>1. IsFiniteSet({"alloc"})
    BY FS_Singleton
  <2>2. IsFiniteSet({"alloc"} \cup {"cpu"})
    BY <2>1, FS_AddElement
  <2>3. IsFiniteSet(({"alloc"} \cup {"cpu"}) \cup {"inuse"})
    BY <2>2, FS_AddElement
  <2>4. Metrics = ({"alloc"} \cup {"cpu"}) \cup {"inuse"}
    BY DEF Metrics
  <2> QED
    BY <2>3, <2>4
<1>2. IsFiniteSet(Symbols \X Metrics)
  BY <1>1, FS_Product, RankingAssumption
<1>3. Keys(parsed) \in SUBSET (Symbols \X Metrics)
  BY DEF Keys
<1> QED
  BY <1>2, <1>3, FS_Subset

\* What a key weighs in all, and all keys of its metric together, is more than nothing.
LEMMA SumsType ==
  ASSUME NEW parsed, IsParsed(parsed), NEW k \in Keys(parsed)
  PROVE  /\ SumOf(parsed, k) \in Nat /\ SumOf(parsed, k) > 0
         /\ metricTotal(parsed, k[2]) \in Nat /\ metricTotal(parsed, k[2]) > 0
<1>1. ASSUME NEW c \in Keys(parsed) PROVE SumOf(parsed, c) \in Nat /\ SumOf(parsed, c) > 0
  <2> DEFINE f == [e \in Entries(parsed, c) |-> e[2].value]
  <2>1. PICK e \in DOMAIN f : TRUE
    BY <1>1 DEF Keys
  <2>2. IsFiniteSet(DOMAIN f) /\ \A d \in DOMAIN f : f[d] \in Nat /\ f[d] > 0
    BY EntriesType DEF IsWeight
  <2>3. SumOf(parsed, c) = SumFunction(f)
    BY DEF SumOf
  <2> HIDE DEF f
  <2>4. Numeric(f)
    BY <2>2 DEF Numeric
  <2> QED
    BY <2>1, <2>2, <2>3, <2>4, SumPositive
<1> DEFINE keys == {c \in Keys(parsed) : c[2] = k[2]}
           f == [c \in keys |-> SumOf(parsed, c)]
<1>2. IsFiniteSet(keys)
  BY KeysFinite, FS_Subset
<1>3. k \in DOMAIN f /\ DOMAIN f = keys /\ \A c \in DOMAIN f : f[c] \in Nat /\ f[c] > 0
  BY <1>1
<1>4. metricTotal(parsed, k[2]) = SumFunction(f)
  BY DEF metricTotal
<1> HIDE DEF f, keys
<1>5. Numeric(f)
  BY <1>2, <1>3 DEF Numeric
<1>6. SumFunction(f) \in Nat /\ SumFunction(f) > 0
  BY <1>3, <1>5, SumPositive
<1> QED
  BY <1>1, <1>4, <1>6

\* A row has the key that it is made from, and its share is a number.
LEMMA RowType ==
  ASSUME NEW parsed, IsParsed(parsed), NEW sc, NEW k \in Keys(parsed)
  PROVE  /\ Row(parsed, k, sc).symbol = k[1] /\ Row(parsed, k, sc).metric = k[2]
         /\ k = <<k[1], k[2]>> /\ k[1] \in Symbols /\ k[2] \in Metrics
         /\ Row(parsed, k, sc).weight_pct \in Int
<1>1. \A v, t \in Nat : t > 0 => Percent(v, t) \in Int
  BY DEF Percent
<1>2. Percent(SumOf(parsed, k), metricTotal(parsed, k[2])) \in Int
  BY <1>1, SumsType
<1>3. Row(parsed, k, sc).symbol = k[1] /\ Row(parsed, k, sc).metric = k[2]
  BY DEF Row
<1>4. Row(parsed, k, sc).weight_pct \in Int
  BY <1>2 DEF Row
<1>5. k \in Symbols \X Metrics
  BY DEF Keys
<1> QED
  BY <1>3, <1>4, <1>5

\* The rows that Rank sorts.
Rows(parsed, sc) == {Row(parsed, k, sc) : k \in Keys(parsed)}

\* Rows have numbers, and no two of them the same key.
LEMMA RowsType ==
  ASSUME NEW parsed, IsParsed(parsed), NEW sc
  PROVE  /\ IsFiniteSet(Rows(parsed, sc))
         /\ \A r \in Rows(parsed, sc) : /\ r.symbol \in Nat /\ r.metric \in Metrics
                                        /\ r.weight_pct \in Int
         /\ \A r, s \in Rows(parsed, sc) : r.symbol = s.symbol /\ r.metric = s.metric => r = s
<1> DEFINE K == Keys(parsed)
           row == [k \in K |-> Row(parsed, k, sc)]
<1>1. \A k \in K : /\ row[k].symbol = k[1] /\ row[k].metric = k[2] /\ k = <<k[1], k[2]>>
                   /\ k[1] \in Symbols /\ k[2] \in Metrics /\ row[k].weight_pct \in Int
  BY RowType
<1>2. Rows(parsed, sc) = {row[k] : k \in K}
  BY DEF Rows
<1>3. IsFiniteSet(K)
  BY KeysFinite
<1>4. row \in Surjection(K, {row[k] : k \in K})
  BY DEF Surjection
<1>5. DOMAIN row = K
  OBVIOUS
<1> HIDE DEF K, row
<1>6. IsFiniteSet({row[k] : k \in K})
  BY <1>3, <1>4, FS_Surjection
<1>7. \A r, s \in Rows(parsed, sc) : r.symbol = s.symbol /\ r.metric = s.metric => r = s
  BY <1>1, <1>2
<1>8. \A r \in Rows(parsed, sc) : r.symbol \in Nat /\ r.metric \in Metrics /\ r.weight_pct \in Int
  BY <1>1, <1>2, RankingAssumption
<1> QED
  BY <1>2, <1>6, <1>7, <1>8

\* No two rows are unordered.
LEMMA RanksAheadTotal ==
  ASSUME NEW a, NEW b, a.symbol \in Nat, b.symbol \in Nat, a.metric \in Metrics, b.metric \in Metrics,
         a.weight_pct \in Int, b.weight_pct \in Int, ~RanksAhead(a, b), ~RanksAhead(b, a)
  PROVE  a.symbol = b.symbol /\ a.metric = b.metric /\ a.weight_pct = b.weight_pct
<1>1. \A m, n \in Metrics : MetricOrder[m] \in Nat /\ (MetricOrder[m] = MetricOrder[n] => m = n)
  BY DEF Metrics, MetricOrder
<1>2. MetricOrder[a.metric] \in Nat /\ MetricOrder[b.metric] \in Nat
      /\ (MetricOrder[a.metric] = MetricOrder[b.metric] => a.metric = b.metric)
  BY <1>1
<1> QED
  BY <1>2 DEF RanksAhead

\* What Rank gives: each key once, by share.
LEMMA RankIs ==
  ASSUME NEW parsed, IsParsed(parsed), NEW sc, NEW q \in Rank(parsed, sc)
  PROVE  LET R == Rows(parsed, sc)
         IN Ranked(q, R, {p \in R \X R : RanksAhead(p[1], p[2])}, Cardinality(R))
<1> DEFINE R == Rows(parsed, sc)
<1>1. q \in Sortings(R, {p \in R \X R : RanksAhead(p[1], p[2])})
  BY DEF Rank, Rows
<1>2. IsFiniteSet(R)
  BY RowsType
<1> HIDE DEF R
<1>3. Ranked(q, R, {p \in R \X R : RanksAhead(p[1], p[2])}, Cardinality(R))
  BY <1>1, <1>2, SortingsRanked
<1> QED
  BY <1>3 DEF R

\* An overlay: rows with a key of their own each, the heaviest first.
Overlaid(q) ==
  \E n \in Nat :
    /\ DOMAIN q = 1..n /\ \A i \in 1..n : q[i].weight_pct \in Int
    /\ \A i, j \in 1..n : i < j => q[i].weight_pct >= q[j].weight_pct
    /\ \A i, j \in 1..n : q[i].symbol = q[j].symbol /\ q[i].metric = q[j].metric => i = j

\* Rank gives an overlay.
LEMMA RankOverlays ==
  ASSUME NEW parsed, IsParsed(parsed), NEW sc, NEW q \in Rank(parsed, sc)
  PROVE  Overlaid(q)
<1> DEFINE R == Rows(parsed, sc)
           ahead == {p \in R \X R : RanksAhead(p[1], p[2])}
           n == Cardinality(R)
<1>1. n \in Nat
  BY RowsType, FS_CardinalityType
<1>2. Ranked(q, R, ahead, n)
  BY RankIs
<1>3. /\ \A r \in R : r.symbol \in Nat /\ r.metric \in Metrics /\ r.weight_pct \in Int
      /\ \A r, s \in R : r.symbol = s.symbol /\ r.metric = s.metric => r = s
  BY RowsType
<1> HIDE DEF R, n
<1>4. q \in [1..n -> R]
  BY <1>2 DEF Ranked
<1>5. ASSUME NEW i \in 1..n, NEW j \in 1..n, i < j PROVE q[i].weight_pct >= q[j].weight_pct
  <2>1. \A k \in 1..n : k < i => q[k] # q[j]
    BY <1>1, <1>2, <1>5 DEF Ranked
  <2>2. <<q[j], q[i]>> \notin ahead /\ q[i] \in R /\ q[j] \in R
    BY <1>2, <1>4, <2>1 DEF Ranked
  <2>3. ~RanksAhead(q[j], q[i])
    BY <2>2
  <2>4. q[i].weight_pct \in Int /\ q[j].weight_pct \in Int
    BY <1>3, <2>2
  <2> QED
    BY <2>3, <2>4 DEF RanksAhead
<1>6. ASSUME NEW i \in 1..n, NEW j \in 1..n, q[i].symbol = q[j].symbol, q[i].metric = q[j].metric
      PROVE  i = j
  <2>1. q[i] = q[j]
    BY <1>3, <1>4, <1>6
  <2> QED
    BY <1>2, <2>1 DEF Ranked
<1>7. \A i \in 1..n : q[i].weight_pct \in Int
  BY <1>3, <1>4
<1> QED
  BY <1>1, <1>4, <1>5, <1>6, <1>7 DEF Overlaid

-----------------------------------------------------------------------------
(* Gather *)

\* What is read of profiles has weights that can be ranked.
LEMMA ReadingType ==
  ASSUME NEW profiles, IsFiniteSet(DOMAIN profiles), \A i \in DOMAIN profiles : IsProfile(profiles[i]),
         NEW topn \in Nat, NEW parsed \in Readings(profiles, topn)
  PROVE  IsParsed(parsed)
<1> DEFINE whole == {i \in DOMAIN profiles : profiles[i].parses}
<1>1. /\ DOMAIN parsed = whole
      /\ \A i \in whole : parsed[i].weights \in ParseFlat(profiles[i], topn)
  BY DEF Readings
<1>2. IsFiniteSet(whole)
  BY FS_Subset
<1>3. \A i \in whole : IsFiniteSet(parsed[i].weights) /\ \A w \in parsed[i].weights : IsWeight(w)
  BY <1>1, ParseIsUnique
<1> QED
  BY <1>1, <1>2, <1>3 DEF IsParsed

\* What target-diff lays over its functions is an overlay.
LEMMA GatherOverlays ==
  ASSUME NEW profiles, IsFiniteSet(DOMAIN profiles), \A i \in DOMAIN profiles : IsProfile(profiles[i]),
         NEW topn \in Nat, NEW sc, NEW rows \in Gather(profiles, topn, sc)
  PROVE  Overlaid(rows)
BY ReadingType, RankOverlays DEF Gather

-----------------------------------------------------------------------------
(* HotFirst *)

\* The weight of a function is the least of its shares.
LEMMA WeightIsLeast ==
  ASSUME NEW ov, Overlaid(ov), NEW s
  PROVE  LET at == {i \in DOMAIN ov : ov[i].symbol = s}
         IN /\ Weight(s, ov) \in Int
            /\ at = {} => Weight(s, ov) = 0
            /\ at # {} => \E i \in at : Weight(s, ov) = ov[i].weight_pct
            /\ \A i \in at : ov[i].weight_pct \in Int /\ ov[i].weight_pct >= Weight(s, ov)
<1> DEFINE at == {i \in DOMAIN ov : ov[i].symbol = s}
<1>1. PICK n \in Nat :
        /\ DOMAIN ov = 1..n /\ \A i \in 1..n : ov[i].weight_pct \in Int
        /\ \A i, j \in 1..n : i < j => ov[i].weight_pct >= ov[j].weight_pct
  BY DEF Overlaid
<1>2. at \in SUBSET (0..n) /\ \A i \in at : i \in 1..n
  BY <1>1
<1>3. Weight(s, ov) = IF at = {} THEN 0 ELSE ov[Max(at)].weight_pct
  BY DEF Weight
<1> HIDE DEF at
<1>4. CASE at = {}
  BY <1>3, <1>4 DEF at
<1>5. CASE at # {}
  <2>1. Max(at) \in at /\ \A i \in at : i <= Max(at)
    BY <1>2, <1>5, Greatest
  <2> DEFINE m == Max(at)
  <2>2. m \in at /\ m \in 1..n /\ Weight(s, ov) = ov[m].weight_pct /\ \A i \in at : i = m \/ i < m
    BY <1>2, <1>3, <1>5, <2>1
  <2> HIDE DEF m
  <2>3. \A i \in at : ov[i].weight_pct \in Int /\ ov[i].weight_pct >= ov[m].weight_pct
    BY <1>1, <1>2, <2>2
  <2> QED
    BY <1>1, <1>5, <2>2, <2>3 DEF at
<1> QED
  BY <1>4, <1>5

\* Candidates are in the order of their weights.
LEMMA HotspotsInOrder ==
  ASSUME NEW ov, Overlaid(ov), NEW fs, NEW rows \in ToHotspots(fs, ov)
  PROVE  \A i, j \in DOMAIN rows : i < j => Weight(rows[i].symbol, ov) >= Weight(rows[j].symbol, ov)
<1> DEFINE w == [i \in DOMAIN fs |-> Weight(fs[i], ov)]
<1>1. PICK q \in Bijection(DOMAIN fs, DOMAIN fs) :
        /\ rows = [k \in DOMAIN fs |-> Changed(fs[q[k]], w[q[k]])]
        /\ \A k, n \in DOMAIN fs : k < n =>
             w[q[k]] > w[q[n]] \/ (w[q[k]] = w[q[n]] /\ q[k] < q[n])
  BY Zenon DEF ToHotspots
<1>2. \A k \in DOMAIN fs : q[k] \in DOMAIN fs
  BY DEF Bijection, Injection
<1>3. \A k \in DOMAIN fs : w[q[k]] = Weight(fs[q[k]], ov) /\ w[q[k]] \in Int
  BY <1>2, WeightIsLeast
<1>4. \A f, v : Changed(f, v).symbol = f
  BY DEF Changed
<1> HIDE DEF w
<1>5. DOMAIN rows = DOMAIN fs /\ \A k \in DOMAIN fs : rows[k].symbol = fs[q[k]]
  BY <1>1, <1>4
<1>6. \A k, n \in DOMAIN fs : k < n => w[q[k]] >= w[q[n]]
  BY <1>1, <1>3
<1> QED
  BY <1>3, <1>5, <1>6

\* Shares, of any overlay.
SharesIn(ov, s) ==
  LET at == {i \in DOMAIN ov : ov[i].symbol = s}
  IN [m \in {ov[i].metric : i \in at} |->
        ov[CHOOSE i \in at : ov[i].metric = m].weight_pct]

\* The share of a function in a metric is that of its row, and it has none without a row.
LEMMA SharesAre ==
  ASSUME NEW ov, Overlaid(ov), NEW s
  PROVE  LET at == {i \in DOMAIN ov : ov[i].symbol = s}
         IN /\ DOMAIN SharesIn(ov, s) = {ov[i].metric : i \in at}
            /\ \A i \in at : SharesIn(ov, s)[ov[i].metric] = ov[i].weight_pct
            /\ at = {} => SharesIn(ov, s) = << >>
<1> DEFINE at == {i \in DOMAIN ov : ov[i].symbol = s}
<1>1. \A i, j \in at : ov[i].metric = ov[j].metric => i = j
  BY DEF Overlaid
<1>2. SharesIn(ov, s) = [m \in {ov[i].metric : i \in at} |->
                           ov[CHOOSE i \in at : ov[i].metric = m].weight_pct]
  BY DEF SharesIn
<1> HIDE DEF at
<1>3. \A i \in at : (CHOOSE j \in at : ov[j].metric = ov[i].metric) = i
  BY <1>1
<1>4. ASSUME NEW i \in at PROVE SharesIn(ov, s)[ov[i].metric] = ov[i].weight_pct
  <2> DEFINE m == ov[i].metric
  <2>1. m \in {ov[k].metric : k \in at} /\ (CHOOSE k \in at : ov[k].metric = m) = i
    BY <1>3
  <2> HIDE DEF m
  <2>2. SharesIn(ov, s)[m] = ov[CHOOSE k \in at : ov[k].metric = m].weight_pct
    BY <1>2, <2>1
  <2> QED
    BY <2>1, <2>2, Zenon DEF m
<1>5. at = {} => SharesIn(ov, s) = << >>
  BY <1>2
<1> QED
  BY <1>2, <1>4, <1>5 DEF at

\* A function that weighs no less is not behind for a reason that HotFirst excludes.
LEMMA HeavierIsHotter ==
  ASSUME NEW ov, Overlaid(ov), NEW s, NEW t, Weight(s, ov) >= Weight(t, ov),
         SharesIn(ov, t) # << >>
  PROVE  LET a == SharesIn(ov, s) b == SharesIn(ov, t)
         IN /\ (\A m \in DOMAIN b : b[m] > 0) => a # << >>
            /\ DOMAIN a = DOMAIN b => \E m \in DOMAIN a : a[m] >= b[m]
<1> DEFINE a == SharesIn(ov, s)
           b == SharesIn(ov, t)
           ofS == {i \in DOMAIN ov : ov[i].symbol = s}
           ofT == {i \in DOMAIN ov : ov[i].symbol = t}
<1>1. /\ DOMAIN a = {ov[i].metric : i \in ofS} /\ \A i \in ofS : a[ov[i].metric] = ov[i].weight_pct
      /\ DOMAIN b = {ov[i].metric : i \in ofT} /\ \A i \in ofT : b[ov[i].metric] = ov[i].weight_pct
      /\ ofT # {}
  BY SharesAre
<1>2. /\ Weight(s, ov) \in Int /\ Weight(t, ov) \in Int
      /\ \A i \in ofS : ov[i].weight_pct \in Int /\ ov[i].weight_pct >= Weight(s, ov)
      /\ ofT # {} => \E i \in ofT : Weight(t, ov) = ov[i].weight_pct
  BY WeightIsLeast
<1>3. ofS = {} => Weight(s, ov) = 0
  BY WeightIsLeast
<1> HIDE DEF a, b, ofS, ofT
<1>4. PICK j \in ofT : Weight(t, ov) = ov[j].weight_pct
  BY <1>1, <1>2
<1> DEFINE m == ov[j].metric
<1>5. m \in DOMAIN b /\ b[m] = Weight(t, ov)
  BY <1>1, <1>4
<1>6. ASSUME \A x \in DOMAIN b : b[x] > 0 PROVE a # << >>
  <2>1. Weight(s, ov) > 0
    <3>1. b[m] > 0
      BY <1>5, <1>6
    <3> QED
      BY <1>2, <1>5, <3>1
  <2>2. ofS # {}
    BY <1>2, <1>3, <2>1
  <2>3. DOMAIN a # {}
    BY <1>1, <2>2
  <2> QED
    BY <2>3
<1>7. ASSUME DOMAIN a = DOMAIN b PROVE \E x \in DOMAIN a : a[x] >= b[x]
  <2>1. m \in DOMAIN a
    BY <1>5, <1>7
  <2>2. PICK i \in ofS : ov[i].metric = m
    <3> HIDE DEF m
    <3>1. m \in {ov[i].metric : i \in ofS}
      BY <1>1, <2>1
    <3> QED
      BY <3>1
  <2>3. a[m] = ov[i].weight_pct
    BY <1>1, <2>2
  <2>4. a[m] >= b[m] /\ m \in DOMAIN a
    <3>1. ov[i].weight_pct \in Int /\ ov[i].weight_pct >= Weight(s, ov)
      BY <1>2, <2>2
    <3> HIDE DEF m
    <3> QED
      BY <1>2, <1>5, <2>1, <2>3, <3>1
  <2> QED
    BY <2>4
<1> QED
  BY <1>6, <1>7 DEF a, b

\* The profiles are those that TargetsAssumption is about.
HotInv == EditedInv /\ HotFirst

\* The other commands do not come to write the scope as target-diff.
LEMMA StartKeepsHot ==
  ASSUME HotInv, NEW at, NEW j, Start(at, j), at # "scope" \/ j.by # "target-diff"
  PROVE  HotFirst'
BY DEF HotFirst, Start

\* Every command, write and kill keeps that.
LEMMA HotNext ==
  ASSUME HotInv, [Next]_vars
  PROVE  HotFirst'
<1>1. CASE TargetDiff
  <2> DEFINE fs == ChangedFuncs(world.mode, world.files)
             J(rows, overlay) ==
               [by |-> "target-diff", no |-> started + 1, rows |-> rows,
                include |-> Packages(fs), exclude |-> Excludes(scope),
                must |-> MustTarget(world.mode, world.files), overlay |-> overlay]
  <2>1. CASE Start("refused", Nil)
    BY <2>1, StartKeepsHot
  <2>2. ASSUME NEW overlay \in Gather(world.profiles, OverlayTop, scope),
               NEW rows \in ToHotspots(fs, overlay), NEW at, Start(at, J(rows, overlay))
        PROVE  HotFirst'
    <3>1. Overlaid(overlay)
      <4>1. /\ IsFiniteSet(DOMAIN world.profiles)
            /\ \A i \in DOMAIN world.profiles : IsProfile(world.profiles[i])
        BY DEF HotInv, EditedInv, WorldOK
      <4>2. OverlayTop \in Nat
        BY DEF OverlayTop
      <4> QED
        BY <2>2, <4>1, <4>2, GatherOverlays
    <3> HIDE DEF fs
    <3>2. \A i, j \in DOMAIN rows : i < j => Weight(rows[i].symbol, overlay) >= Weight(rows[j].symbol, overlay)
      BY <2>2, <3>1, HotspotsInOrder
    <3>3. job'.rows = rows /\ job'.overlay = overlay
      BY <2>2 DEF Start
    <3>4. \A s : Shares(s)' = SharesIn(overlay, s)
      BY <3>3 DEF Shares, SharesIn
    <3>5. ASSUME NEW i \in DOMAIN rows, NEW j \in DOMAIN rows, i < j
          PROVE  LET a == SharesIn(overlay, rows[i].symbol) b == SharesIn(overlay, rows[j].symbol)
                 IN b # << >> => /\ (\A m \in DOMAIN b : b[m] > 0) => a # << >>
                                 /\ DOMAIN a = DOMAIN b => \E m \in DOMAIN a : a[m] >= b[m]
      BY <3>1, <3>2, <3>5, HeavierIsHotter
    <3> QED
      BY <3>3, <3>4, <3>5 DEF HotFirst
  <2> QED
    BY <1>1, <2>1, <2>2 DEF TargetDiff
<1>2. CASE WriteScope \/ WriteDiff \/ WriteHotspots
  BY <1>2 DEF WriteScope, WriteDiff, WriteHotspots, Wrote, Writes, HotFirst
<1>3. CASE Crash \/ Change \/ \E n \in 0..3 : CleanAll(n)
  BY <1>3 DEF Crash, Change, CleanAll, HotFirst
<1>4. ASSUME NEW sc \in Scopes, SetScope(sc) PROVE HotFirst'
  BY <1>4, StartKeepsHot DEF SetScope
<1>5. ASSUME NEW top \in Tops, Hotspots(top) PROVE HotFirst'
  BY <1>5, StartKeepsHot DEF Hotspots
<1>6. CASE UNCHANGED vars
  <2>1. pc' = pc /\ job' = job
    BY <1>6 DEF vars
  <2>2. \A s : Shares(s)' = Shares(s)
    BY <2>1 DEF Shares
  <2> QED
    BY <2>1, <2>2 DEF HotInv, HotFirst
<1> QED
  BY <1>1, <1>2, <1>3, <1>4, <1>5, <1>6 DEF Next

\* "changed AND hot ranks first" (Target): whatever the profiles and the diff are, no
\* profiled function is behind one that is not profiled or that has the smaller share of
\* every metric of theirs, except by a share that is rounded to 0.
THEOREM HotRanksFirst == Spec => []HotFirst
<1>1. Init => HotInv
  BY TargetsAssumption DEF Init, HotInv, EditedInv, WorldOK, NoHots, HotFirst
<1>2. HotInv /\ [Next]_vars => HotInv'
  BY HotNext, EditedNext DEF HotInv
<1>3. HotInv => HotFirst
  BY DEF HotInv
<1> QED
  BY <1>1, <1>2, <1>3, PTL DEF Spec

-----------------------------------------------------------------------------
(* RankReproducible.  The same weights from files in another order.          *)

\* Place i of the one is place b[i] of the other.
Moved(parsed, other, b) ==
  /\ b \in Bijection(DOMAIN other, DOMAIN parsed)
  /\ \A i \in DOMAIN other : other[i].weights = parsed[b[i]].weights

\* What files say of a key moves with the files.
LEMMA EntriesMoved ==
  ASSUME NEW parsed, NEW other, NEW b, Moved(parsed, other, b), NEW k
  PROVE  [e \in Entries(other, k) |-> <<b[e[1]], e[2]>>]
           \in Bijection(Entries(other, k), Entries(parsed, k))
<1> DEFINE S == Entries(other, k)
           T == Entries(parsed, k)
           move == [e \in S |-> <<b[e[1]], e[2]>>]
<1>1. /\ \A i \in DOMAIN other : b[i] \in DOMAIN parsed
      /\ \A i, j \in DOMAIN other : b[i] = b[j] => i = j
      /\ \A n \in DOMAIN parsed : \E i \in DOMAIN other : b[i] = n
  <2>1. b \in Injection(DOMAIN other, DOMAIN parsed) /\ b \in Surjection(DOMAIN other, DOMAIN parsed)
    BY DEF Moved, Bijection
  <2>2. b \in [DOMAIN other -> DOMAIN parsed]
    BY <2>1 DEF Injection, IsInjective
  <2>3. \A i, j \in DOMAIN other : b[i] = b[j] => i = j
    BY <2>1 DEF Injection, IsInjective
  <2>4. \A n \in DOMAIN parsed : \E i \in DOMAIN other : b[i] = n
    BY <2>1 DEF Surjection
  <2> QED
    BY <2>2, <2>3, <2>4
<1>2. \A i \in DOMAIN other : other[i].weights = parsed[b[i]].weights
  BY DEF Moved
<1>3. \A e \in S : /\ e = <<e[1], e[2]>> /\ e[1] \in DOMAIN other /\ e[2] \in other[e[1]].weights
                   /\ e[2].symbol = k[1] /\ e[2].metric = k[2]
  BY DEF Entries
<1>4. \A e \in T : /\ e = <<e[1], e[2]>> /\ e[1] \in DOMAIN parsed /\ e[2] \in parsed[e[1]].weights
                   /\ e[2].symbol = k[1] /\ e[2].metric = k[2]
  BY DEF Entries
<1>5. ASSUME NEW i \in DOMAIN other, NEW w \in other[i].weights, w.symbol = k[1], w.metric = k[2]
      PROVE  <<i, w>> \in S
  BY <1>5 DEF Entries
<1>6. ASSUME NEW i \in DOMAIN parsed, NEW w \in parsed[i].weights, w.symbol = k[1], w.metric = k[2]
      PROVE  <<i, w>> \in T
  BY <1>6 DEF Entries
<1> HIDE DEF S, T
<1>7. \A e \in S : <<b[e[1]], e[2]>> \in T
  BY <1>1, <1>2, <1>3, <1>6
<1>8. move \in [S -> T]
  BY <1>7
<1>9. ASSUME NEW d \in S, NEW e \in S, move[d] = move[e] PROVE d = e
  <2>1. b[d[1]] = b[e[1]] /\ d[2] = e[2]
    BY <1>9
  <2> QED
    BY <1>1, <1>3, <2>1
<1>10. ASSUME NEW t \in T PROVE \E e \in S : move[e] = t
  <2>1. PICK i \in DOMAIN other : b[i] = t[1]
    BY <1>1, <1>4
  <2>2. <<i, t[2]>> \in S
    BY <1>2, <1>4, <1>5, <2>1
  <2>3. move[<<i, t[2]>>] = t
    BY <1>4, <2>1, <2>2
  <2> QED
    BY <2>2, <2>3
<1> HIDE DEF move
<1>11. move \in Bijection(S, T)
  <2>1. move \in Injection(S, T)
    BY <1>8, <1>9 DEF Injection, IsInjective
  <2>2. move \in Surjection(S, T)
    BY <1>8, <1>10 DEF Surjection
  <2> QED
    BY <2>1, <2>2 DEF Bijection
<1> QED
  BY <1>11 DEF move, S, T

\* A key weighs the same.
LEMMA SumMoved ==
  ASSUME NEW parsed, IsParsed(parsed), NEW other, NEW b, Moved(parsed, other, b), NEW k
  PROVE  SumOf(other, k) = SumOf(parsed, k) /\ (Entries(other, k) = {} <=> Entries(parsed, k) = {})
<1> DEFINE S == Entries(other, k)
           T == Entries(parsed, k)
           move == [e \in S |-> <<b[e[1]], e[2]>>]
           f == [e \in T |-> e[2].value]
<1>1. move \in Bijection(S, T)
  BY EntriesMoved
<1>2. Numeric(f)
  <2>1. IsFiniteSet(T) /\ \A e \in T : e[2].value \in Int
    BY EntriesType DEF IsWeight
  <2> HIDE DEF T
  <2> QED
    BY <2>1 DEF Numeric
<1>3. /\ \A e \in S : move[e] \in T /\ move[e][2] = e[2]
      /\ \A t \in T : \E e \in S : move[e] = t
  <2>1. \A e \in S : move[e][2] = e[2]
    OBVIOUS
  <2> HIDE DEF move, S, T
  <2> QED
    BY <1>1, <2>1 DEF Bijection, Injection, Surjection
<1>4. SumOf(other, k) = SumFunction([e \in S |-> e[2].value])
  BY DEF SumOf
<1>5. SumOf(parsed, k) = SumFunction(f) /\ DOMAIN f = T
  BY DEF SumOf
<1> HIDE DEF move, S, T
<1>6. [e \in S |-> f[move[e]]] = [e \in S |-> e[2].value]
  <2>1. \A e \in S : f[move[e]] = e[2].value
    BY <1>3
  <2> HIDE DEF f
  <2> QED
    BY <2>1
<1> HIDE DEF f
<1>7. SumFunction([e \in S |-> f[move[e]]]) = SumFunction(f)
  BY <1>1, <1>2, <1>5, SumMoves
<1>8. S = {} <=> T = {}
  BY <1>3
<1> QED
  BY <1>4, <1>5, <1>6, <1>7, <1>8 DEF S, T

\* A row is the same but for its source.
LEMMA RowMoved ==
  ASSUME NEW parsed, IsParsed(parsed), NEW other, NEW b, Moved(parsed, other, b), NEW sc
  PROVE  /\ Keys(other) = Keys(parsed)
         /\ \A k \in Keys(parsed) :
              LET r == Row(parsed, k, sc) s == Row(other, k, sc)
              IN r.symbol = s.symbol /\ r.metric = s.metric /\ r.weight_pct = s.weight_pct
                 /\ Candidate(r) = Candidate(s)
<1>1. \A k : SumOf(other, k) = SumOf(parsed, k) /\ (Entries(other, k) = {} <=> Entries(parsed, k) = {})
  BY SumMoved
<1>2. Keys(other) = Keys(parsed)
  BY <1>1 DEF Keys
<1>3. ASSUME NEW m PROVE metricTotal(other, m) = metricTotal(parsed, m)
  <2> DEFINE keys == {k \in Keys(parsed) : k[2] = m}
  <2>1. [k \in keys |-> SumOf(other, k)] = [k \in keys |-> SumOf(parsed, k)]
    BY <1>1
  <2> QED
    BY <1>2, <2>1 DEF metricTotal
<1>4. ASSUME NEW k \in Keys(parsed)
      PROVE  LET r == Row(parsed, k, sc) s == Row(other, k, sc)
             IN r.symbol = s.symbol /\ r.metric = s.metric /\ r.weight_pct = s.weight_pct
                /\ Candidate(r) = Candidate(s)
  <2>1. SumOf(other, k) = SumOf(parsed, k) /\ metricTotal(other, k[2]) = metricTotal(parsed, k[2])
    BY <1>1, <1>3
  <2> QED
    BY <2>1 DEF Row, Candidate
<1> QED
  BY <1>2, <1>4

\* There is a row for each key.
LEMMA AsManyRows ==
  ASSUME NEW parsed, IsParsed(parsed), NEW sc
  PROVE  Cardinality(Rows(parsed, sc)) = Cardinality(Keys(parsed))
<1> DEFINE K == Keys(parsed)
           R == Rows(parsed, sc)
           row == [k \in K |-> Row(parsed, k, sc)]
<1>1. \A k \in K : row[k].symbol = k[1] /\ row[k].metric = k[2] /\ k = <<k[1], k[2]>>
  BY RowType
<1>2. row \in [K -> R] /\ \A r \in R : \E k \in K : row[k] = r
  BY DEF Rows
<1> HIDE DEF row, K, R
<1>3. \A k, c \in K : row[k] = row[c] => k = c
  BY <1>1
<1>4. row \in Injection(K, R)
  BY <1>2, <1>3 DEF Injection, IsInjective
<1>5. row \in Surjection(K, R)
  BY <1>2 DEF Surjection
<1>6. IsFiniteSet(K)
  BY KeysFinite DEF K
<1>7. Cardinality(R) = Cardinality(K)
  BY <1>4, <1>5, <1>6, FS_Surjection
<1> QED
  BY <1>7 DEF K, R

\* The ranking is the same whatever the order of the files and of any map.
LEMMA RankMoved ==
  ASSUME NEW parsed, IsParsed(parsed), NEW other, IsParsed(other), NEW b, Moved(parsed, other, b),
         NEW sc, NEW q \in Rank(parsed, sc), NEW p \in Rank(other, sc)
  PROVE  Shown(p) = Shown(q)
<1> DEFINE S == Rows(parsed, sc)
           U == Rows(other, sc)
           K == Keys(parsed)
           r == [k \in K |-> Row(parsed, k, sc)]
           s == [k \in K |-> Row(other, k, sc)]
           ahead == {x \in S \X S : RanksAhead(x[1], x[2])}
           behind == {x \in U \X U : RanksAhead(x[1], x[2])}
           n == Cardinality(S)
           L == {<<r[k], s[k]>> : k \in K}
<1>1. Keys(other) = K
  BY RowMoved
<1>2. S = {r[k] : k \in K} /\ U = {s[k] : k \in K}
  BY <1>1 DEF Rows
<1>3. \A k \in K : /\ r[k].symbol = s[k].symbol /\ r[k].metric = s[k].metric
                   /\ r[k].weight_pct = s[k].weight_pct /\ Candidate(r[k]) = Candidate(s[k])
  BY RowMoved
<1>4. \A k \in K : r[k].symbol = k[1] /\ r[k].metric = k[2] /\ k = <<k[1], k[2]>>
  BY RowType
<1>5. \A x \in S : x.symbol \in Nat /\ x.metric \in Metrics /\ x.weight_pct \in Int
  BY RowsType
<1>6. Ranked(q, S, ahead, n)
  BY RankIs
<1>7. Ranked(p, U, behind, n)
  <2>1. Ranked(p, U, behind, Cardinality(U))
    BY RankIs
  <2>2. Cardinality(U) = n
    BY <1>1, AsManyRows
  <2> QED
    BY <2>1, <2>2
<1>8. n \in Nat
  BY RowsType, FS_CardinalityType
<1> HIDE DEF n, r, s, K, S, U
<1>9. Alike(L, S, U, ahead, behind)
  <2>1. L \subseteq S \X U
    BY <1>2
  <2>2. (\A x \in S : \E y \in U : <<x, y>> \in L) /\ (\A y \in U : \E x \in S : <<x, y>> \in L)
    BY <1>2
  <2>3. \A k, c \in K : r[k] = r[c] \/ s[k] = s[c] => k = c
    BY <1>3, <1>4
  <2>4. \A x, y : <<x, y>> \in L => \E k \in K : x = r[k] /\ y = s[k]
    OBVIOUS
  <2>5. \A x \in S, y, z \in U : <<x, y>> \in L /\ <<x, z>> \in L => y = z
    <3> HIDE DEF L
    <3> QED
      BY <2>3, <2>4
  <2>6. \A x, z \in S, y \in U : <<x, y>> \in L /\ <<z, y>> \in L => x = z
    <3> HIDE DEF L
    <3> QED
      BY <2>3, <2>4
  <2>7. ASSUME NEW x \in S, NEW z \in S PROVE x = z \/ <<x, z>> \in ahead \/ <<z, x>> \in ahead
    <3>1. CASE RanksAhead(x, z) \/ RanksAhead(z, x)
      BY <3>1
    <3>2. CASE ~RanksAhead(x, z) /\ ~RanksAhead(z, x)
      <4>1. x.symbol = z.symbol /\ x.metric = z.metric
        BY <1>5, <3>2, RanksAheadTotal
      <4>2. PICK k \in K, c \in K : x = r[k] /\ z = r[c]
        BY <1>2
      <4>3. k = c
        BY <1>4, <4>1, <4>2
      <4> QED
        BY <4>2, <4>3
    <3> QED
      BY <3>1, <3>2
  <2>8. \A x, z, y, u : /\ x.symbol = y.symbol /\ x.metric = y.metric /\ x.weight_pct = y.weight_pct
                        /\ z.symbol = u.symbol /\ z.metric = u.metric /\ z.weight_pct = u.weight_pct
                        => (RanksAhead(x, z) <=> RanksAhead(y, u))
    BY DEF RanksAhead
  <2>9. ASSUME NEW x \in S, NEW z \in S, NEW y \in U, NEW u \in U, <<x, y>> \in L, <<z, u>> \in L
        PROVE  <<x, z>> \in ahead <=> <<y, u>> \in behind
    <3>1. x.symbol = y.symbol /\ x.metric = y.metric /\ x.weight_pct = y.weight_pct
      BY <1>3, <2>4, <2>9
    <3>2. z.symbol = u.symbol /\ z.metric = u.metric /\ z.weight_pct = u.weight_pct
      BY <1>3, <2>4, <2>9
    <3>3. RanksAhead(x, z) <=> RanksAhead(y, u)
      BY <2>8, <3>1, <3>2
    <3> QED
      BY <3>3
  <2> HIDE DEF ahead, behind, L
  <2> QED
    BY <2>1, <2>2, <2>5, <2>6, <2>7, <2>9 DEF Alike
<1> HIDE DEF ahead, behind
<1>10. \A i \in 1..n : <<q[i], p[i]>> \in L
  <2> HIDE DEF L
  <2> QED
    BY <1>6, <1>7, <1>8, <1>9, SortedAlike
<1>11. DOMAIN q = 1..n /\ DOMAIN p = 1..n
  BY <1>6, <1>7 DEF Ranked
<1>12. ASSUME NEW i \in 1..n
       PROVE  <<p[i].symbol, p[i].metric, p[i].weight_pct, Candidate(p[i])>>
                = <<q[i].symbol, q[i].metric, q[i].weight_pct, Candidate(q[i])>>
  <2>1. PICK k \in K : q[i] = r[k] /\ p[i] = s[k]
    BY <1>10
  <2> QED
    BY <1>3, <2>1
<1> QED
  BY <1>11, <1>12, Zenon DEF Shown

\* Readings of the same files in another order.
LEMMA ReadingMoved ==
  ASSUME NEW profiles, IsFiniteSet(DOMAIN profiles), \A i \in DOMAIN profiles : IsProfile(profiles[i]),
         NEW f \in Bijection(DOMAIN profiles, DOMAIN profiles), NEW topn \in Nat,
         NEW parsed \in Readings(profiles, topn),
         NEW other \in Readings([i \in DOMAIN profiles |-> profiles[f[i]]], topn)
  PROVE  IsParsed(parsed) /\ IsParsed(other) /\ \E b : Moved(parsed, other, b)
<1> DEFINE D == DOMAIN profiles
           moved == [i \in D |-> profiles[f[i]]]
           whole == {i \in D : profiles[i].parses}
           also == {i \in D : moved[i].parses}
           b == [i \in also |-> f[i]]
<1>1. /\ \A i \in D : f[i] \in D
      /\ \A i, j \in D : f[i] = f[j] => i = j
      /\ \A n \in D : \E i \in D : f[i] = n
  <2>1. f \in Injection(D, D) /\ f \in Surjection(D, D)
    BY DEF Bijection
  <2>2. f \in [D -> D] /\ \A i, j \in D : f[i] = f[j] => i = j
    BY <2>1 DEF Injection, IsInjective
  <2>3. \A n \in D : \E i \in D : f[i] = n
    BY <2>1 DEF Surjection
  <2> QED
    BY <2>2, <2>3
<1>2. DOMAIN moved = D /\ \A i \in D : moved[i] = profiles[f[i]] /\ IsProfile(moved[i])
  BY <1>1
<1>3. /\ DOMAIN parsed = whole
      /\ \A i \in whole : parsed[i].weights \in ParseFlat(profiles[i], topn)
  BY DEF Readings
<1> HIDE DEF moved
<1>4. /\ DOMAIN other = also
      /\ \A i \in also : other[i].weights \in ParseFlat(moved[i], topn)
  <2>1. other \in Readings(moved, topn)
    BY DEF moved
  <2> QED
    BY <1>2, <2>1 DEF Readings
<1>5. IsParsed(parsed)
  BY ReadingType
<1>6. IsParsed(other)
  <2>1. other \in Readings(moved, topn)
    BY DEF moved
  <2>2. IsFiniteSet(DOMAIN moved) /\ \A i \in DOMAIN moved : IsProfile(moved[i])
    BY <1>2
  <2> QED
    BY <2>1, <2>2, ReadingType
<1>7. b \in Bijection(also, whole)
  <2>1. b \in [also -> whole]
    BY <1>1, <1>2
  <2>2. \A i, j \in also : b[i] = b[j] => i = j
    BY <1>1
  <2>3. \A n \in whole : \E i \in also : b[i] = n
    BY <1>1, <1>2
  <2> HIDE DEF b, also, whole
  <2>4. b \in Injection(also, whole)
    BY <2>1, <2>2 DEF Injection, IsInjective
  <2>5. b \in Surjection(also, whole)
    BY <2>1, <2>3 DEF Surjection
  <2> QED
    BY <2>4, <2>5 DEF Bijection
<1>8. ASSUME NEW i \in also PROVE other[i].weights = parsed[b[i]].weights
  <2>1. b[i] = f[i] /\ f[i] \in D /\ f[i] \in whole /\ moved[i] = profiles[f[i]]
    BY <1>1, <1>2
  <2>2. other[i].weights \in ParseFlat(profiles[f[i]], topn) /\ parsed[f[i]].weights \in ParseFlat(profiles[f[i]], topn)
    BY <1>3, <1>4, <2>1
  <2> HIDE DEF b
  <2> QED
    BY <2>1, <2>2, ParseIsUnique
<1> HIDE DEF b
<1>9. Moved(parsed, other, b)
  BY <1>3, <1>4, <1>7, <1>8 DEF Moved
<1> QED
  BY <1>5, <1>6, <1>9

\* What a command is about to write is a ranking of the profiles and the scope as they are.
RankInv ==
  /\ EditedInv
  /\ pc = "hots" /\ job.by = "hotspots" =>
       job.top \in Tops /\ job.rows \in Gather(world.profiles, job.top, scope)

\* A command that starts leaves the profiles and the scope that it has read.
LEMMA StartKeepsRank ==
  ASSUME RankInv, NEW at, NEW j, Start(at, j),
         at = "hots" /\ j.by = "hotspots" =>
           j.top \in Tops /\ j.rows \in Gather(world.profiles, j.top, scope)
  PROVE  pc' = "hots" /\ job'.by = "hotspots" =>
           job'.top \in Tops /\ job'.rows \in Gather(world'.profiles, job'.top, scope')
BY DEF Start

\* Every command, write and kill keeps that.
LEMMA RankNext ==
  ASSUME RankInv, [Next]_vars
  PROVE  RankInv'
<1> SUFFICES pc' = "hots" /\ job'.by = "hotspots" =>
               job'.top \in Tops /\ job'.rows \in Gather(world'.profiles, job'.top, scope')
  BY EditedNext DEF RankInv
<1>1. CASE TargetDiff
  <2>1. ASSUME NEW at, NEW j, Start(at, j), at # "hots" PROVE pc' # "hots"
    BY <2>1 DEF Start
  <2>2. Head(Writes) # "hots"
    BY DEF Writes
  <2> QED
    BY <1>1, <2>1, <2>2 DEF TargetDiff
<1>2. CASE WriteScope \/ WriteDiff \/ WriteHotspots
  BY <1>2 DEF WriteScope, WriteDiff, WriteHotspots, Wrote, Writes
<1>3. CASE Crash \/ Change \/ \E n \in 0..3 : CleanAll(n)
  BY <1>3 DEF Crash, Change, CleanAll
<1>4. ASSUME NEW sc \in Scopes, SetScope(sc) PROVE pc' # "hots"
  BY <1>4 DEF SetScope, Start
<1>5. ASSUME NEW top \in Tops, Hotspots(top)
      PROVE  pc' = "hots" /\ job'.by = "hotspots" =>
               job'.top \in Tops /\ job'.rows \in Gather(world'.profiles, job'.top, scope')
  <2>1. CASE Start("refused", Nil)
    BY <2>1 DEF Start
  <2>2. ASSUME NEW rows \in Gather(world.profiles, top, scope),
               Start("hots", [by |-> "hotspots", no |-> started + 1, rows |-> rows, top |-> top,
                              must |-> {}])
        PROVE  job'.top \in Tops /\ job'.rows \in Gather(world'.profiles, job'.top, scope')
    <3>1. job'.top = top /\ job'.rows = rows /\ world' = world /\ scope' = scope
      BY <2>2 DEF Start
    <3> QED
      BY <2>2, <3>1
  <2> QED
    BY <1>5, <2>1, <2>2 DEF Hotspots
<1>6. CASE UNCHANGED vars
  BY <1>6 DEF vars, RankInv
<1> QED
  BY <1>1, <1>2, <1>3, <1>4, <1>5, <1>6 DEF Next

\* "so equal weights rank reproducibly, independent of profile input order" (Rank): for any
\* profiles, the ranking that `hotspots` writes is the one that any order of the files, any
\* iteration of a map and any sort gives, but for the source of a row.
THEOREM RankingIsReproducible == Spec => []RankReproducible
<1>1. Init => RankInv
  BY TargetsAssumption DEF Init, RankInv, EditedInv, WorldOK, NoHots
<1>2. RankInv /\ [Next]_vars => RankInv'
  BY RankNext
<1>3. RankInv => RankReproducible
  <2> DEFINE ps == world.profiles
  <2> SUFFICES ASSUME RankInv, pc = "hots", job.by = "hotspots", NEW f \in Bijection(DOMAIN ps, DOMAIN ps),
                      NEW rows \in Gather([i \in DOMAIN ps |-> ps[f[i]]], job.top, scope)
               PROVE  Shown(rows) = Shown(job.rows)
    BY DEF RankReproducible
  <2>1. IsFiniteSet(DOMAIN ps) /\ (\A i \in DOMAIN ps : IsProfile(ps[i])) /\ job.top \in Nat
    BY TargetsAssumption DEF RankInv, EditedInv, WorldOK
  <2>2. PICK parsed \in Readings(ps, job.top) : job.rows \in Rank(parsed, scope)
    BY DEF RankInv, Gather
  <2>3. PICK other \in Readings([i \in DOMAIN ps |-> ps[f[i]]], job.top) : rows \in Rank(other, scope)
    BY DEF Gather
  <2> HIDE DEF ps
  <2>4. IsParsed(parsed) /\ IsParsed(other) /\ \E b : Moved(parsed, other, b)
    BY <2>1, <2>2, <2>3, ReadingMoved
  <2> QED
    BY <2>2, <2>3, <2>4, RankMoved
<1> QED
  BY <1>1, <1>2, <1>3, PTL DEF Spec
=============================================================================
