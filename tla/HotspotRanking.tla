--------------------------- MODULE HotspotRanking ----------------------------
(***************************************************************************)
(* From profiles to ranked hotspots: ParseFlat (src/internal/pprof), Rank, *)
(* InScope and ResolvePkg (src/internal/hotspot), composed by Gather.      *)
(*                                                                         *)
(* A symbol is a number, and a smaller number is a name that sorts first.  *)
(* Of the name itself only the import path matters, a sequence of          *)
(* elements: PathOf.  Go maps have no order: an operator whose code sorts  *)
(* what it took from a map gives the set of the results it may have.       *)
(* Bug_X is a plausible bug of X.                                          *)
(***************************************************************************)
EXTENDS Integers, Sequences, FiniteSets, SequencesExt, FiniteSetsExt

CONSTANTS
  Module,  \* the module path
  PathOf   \* the import path in each symbol

Symbols == DOMAIN PathOf
Metrics == {"alloc", "cpu", "inuse"}
MetricOrder == [alloc |-> 1, cpu |-> 2, inuse |-> 3]

ASSUME RankingAssumption == Symbols \subseteq Nat /\ IsFiniteSet(Symbols)

\* What sort.Slice may make of S: no element after one that it is ahead of.
Sortings(S, ahead) ==
  LET Grow[n \in 0..Cardinality(S)] ==
        IF n = 0 THEN {<< >>}
        ELSE UNION {LET left == S \ ToSet(q)
                    IN {Append(q, x) : x \in {y \in left : \A z \in left : <<z, y>> \notin ahead}} :
                    q \in Grow[n - 1]}
  IN Grow[Cardinality(S)]

-----------------------------------------------------------------------------
(* ParseFlat.  A profile has sample types and samples [leaf, value]; of a   *)
(* sample the leaf is its innermost function, Nil when it has none.         *)

Known == [cpu |-> "cpu", alloc_space |-> "alloc", inuse_space |-> "inuse"]

\* The metric of each sample type that is read; of an unknown profile the last.
Want(pr) ==
  LET known == {i \in DOMAIN pr.types : pr.types[i] \in DOMAIN Known}
      read == {i \in known : ~(pr.local /\ pr.types[i] = "inuse_space")}
  IN IF known # {} THEN [i \in read |-> Known[pr.types[i]]]
     ELSE [i \in {Len(pr.types)} \ {0} |-> "cpu"]

\* A profile that could be read has a number for each of its types in each sample.
IsProfile(pr) ==
  /\ pr.types \in Seq(STRING)
  /\ IsFiniteSet(DOMAIN pr.samples)
  /\ \A x \in DOMAIN pr.samples, n \in DOMAIN pr.types : pr.samples[x].value[n] \in Int

\* The self weight of f in metric m.
Flat(pr, f, m) ==
  LET want == Want(pr)
      at == {x \in (DOMAIN pr.samples) \X (DOMAIN want) :
               pr.samples[x[1]].leaf = f /\ want[x[2]] = m}
  IN SumFunction([x \in at |-> pr.samples[x[1]].value[x[2]]])

\* Bug: equal weights stay in the order of the map.
Bug_Heavier(a, b) == a.value > b.value

Heavier(a, b) == a.value > b.value \/ (a.value = b.value /\ a.symbol < b.symbol)

\* The functions that have a weight in metric m.
Hot(pr, m) ==
  LET all == {[symbol |-> f, metric |-> m, value |-> Flat(pr, f, m)] : f \in Symbols}
  IN {w \in all : w.value > 0}

\* The topn heaviest functions in metric m; all of them if topn is 0.
TopOf(pr, m, topn) ==
  LET heavier == {p \in Hot(pr, m) \X Hot(pr, m) : Heavier(p[1], p[2])}
  IN {IF topn > 0 /\ Len(q) > topn THEN ToSet(SubSeq(q, 1, topn)) ELSE ToSet(q) :
        q \in Sortings(Hot(pr, m), heavier)}

\* The order of the weights is left out: Rank sums them.
ParseFlat(pr, topn) ==
  {a \cup c \cup i : a \in TopOf(pr, "alloc", topn), c \in TopOf(pr, "cpu", topn),
                     i \in TopOf(pr, "inuse", topn)}

-----------------------------------------------------------------------------
(* ResolvePkg and InScope.  A package is a path, << >> when it is not ours; *)
(* a scope has prefixes of paths.  Without a scope.json, or with one that   *)
(* cannot be parsed, nothing is included or excluded.                       *)

ResolvePkg(s) ==
  IF IsStrictPrefix(Module, PathOf[s])
  THEN SubSeq(PathOf[s], Len(Module) + 1, Len(PathOf[s]))
  ELSE << >>

Matches(pkg, prefixes) == \E e \in prefixes : IsPrefix(e, pkg)

InScope(pkg, sc) ==
  /\ ~Matches(pkg, sc.exclude)
  /\ sc.include = {} \/ Matches(pkg, sc.include)

-----------------------------------------------------------------------------
(* Rank and Gather *)

\* round4 of a percentage, in ten-thousandths of a percent.
Percent(v, total) == (2 * v * 1000000 + total) \div (2 * total)

\* Bug: rows of one symbol in two metrics stay in the order of the profiles.
Bug_RanksAhead(a, b) ==
  a.weight_pct > b.weight_pct \/ (a.weight_pct = b.weight_pct /\ a.symbol < b.symbol)

RanksAhead(a, b) ==
  \/ a.weight_pct > b.weight_pct
  \/ /\ a.weight_pct = b.weight_pct
     /\ \/ a.symbol < b.symbol
        \/ a.symbol = b.symbol /\ MetricOrder[a.metric] < MetricOrder[b.metric]

(* Parsed profiles are a function from the places of the files to [source,  *)
(* weights].                                                                *)

\* What they say of the key k, a symbol and a metric.
Entries(parsed, k) ==
  UNION {{<<i, w>> : w \in {v \in parsed[i].weights : v.symbol = k[1] /\ v.metric = k[2]}} :
           i \in DOMAIN parsed}

Keys(parsed) == {k \in Symbols \X Metrics : Entries(parsed, k) # {}}

SumOf(parsed, k) == SumFunction([e \in Entries(parsed, k) |-> e[2].value])

metricTotal(parsed, m) ==
  LET keys == {k \in Keys(parsed) : k[2] = m}
  IN SumFunction([k \in keys |-> SumOf(parsed, k)])

\* The source is that of the first file.
Row(parsed, k, sc) ==
  LET pkg == ResolvePkg(k[1])
  IN [symbol |-> k[1], package |-> pkg, metric |-> k[2],
      weight_pct |-> Percent(SumOf(parsed, k), metricTotal(parsed, k[2])),
      source |-> parsed[Min({e[1] : e \in Entries(parsed, k)})].source,
      editable |-> pkg # << >>, in_scope |-> pkg # << >> /\ InScope(pkg, sc)]

\* The rankings; the rank is the place in the result.
Rank(parsed, sc) ==
  LET rows == {Row(parsed, k, sc) : k \in Keys(parsed)}
  IN Sortings(rows, {p \in rows \X rows : RanksAhead(p[1], p[2])})

Candidate(row) == row.editable /\ row.in_scope

\* What ParseFlat may make of the profile files, at their places in the order of the
\* names; a file that cannot be parsed is skipped.
Readings(profiles, topn) ==
  LET whole == {i \in DOMAIN profiles : profiles[i].parses}
      choices == {c \in [whole -> UNION {ParseFlat(profiles[i], topn) : i \in whole}] :
                    \A i \in whole : c[i] \in ParseFlat(profiles[i], topn)}
  IN {[i \in whole |-> [source |-> IF profiles[i].local THEN "local-pprof" ELSE "pyroscope",
                        weights |-> c[i]]] : c \in choices}

\* << >> stands for "no profiles found".
Gather(profiles, topn, sc) ==
  UNION {Rank(parsed, sc) : parsed \in Readings(profiles, topn)}
=============================================================================
