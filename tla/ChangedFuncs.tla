---------------------------- MODULE ChangedFuncs -----------------------------
(***************************************************************************)
(* From a diff to the functions it changed (src/internal/diff/diff.go).    *)
(*                                                                         *)
(* A file of a diff is an edit script: its lines, each kept, deleted or    *)
(* added, with the function it belongs to (NoFunc outside of functions)    *)
(* and whether it begins a declaration, which stands for being in column 0 *)
(* (git takes text of a raw string there for a declaration, too; files     *)
(* with such text in a function are left out).  Functions are symbols of   *)
(* HotspotRanking.  Bug_X is a plausible bug of X.                         *)
(***************************************************************************)
EXTENDS HotspotRanking

CONSTANTS
  NoFunc,
  Context  \* lines of context around a change in a PR's patch

ASSUME ChangedAssumption == NoFunc \notin Symbols /\ Context \in Nat \ {0}

Line == [op : {"keep", "del", "add"}, fn : Symbols \cup {NoFunc}, decl : BOOLEAN]

Old(script) == {i \in DOMAIN script : script[i].op # "add"}
New(script) == {i \in DOMAIN script : script[i].op # "del"}
Changes(script) == {i \in DOMAIN script : script[i].op # "keep"}
NewCount(script, a, b) == Cardinality(New(script) \cap a..b)

\* The file after the diff: line n is the one with n - 1 before it.
NewLines(script) ==
  [n \in 1..Cardinality(New(script)) |->
     script[CHOOSE i \in New(script) : NewCount(script, 1, i) = n]]

-----------------------------------------------------------------------------
(* git *)

\* The hunks of a diff with u lines of context, as first and last line of the script.
Hunks(script, u) ==
  LET near == {i \in DOMAIN script : \E j \in Changes(script) : j - u <= i /\ i <= j + u}
  IN {h \in near \X near : h[1] <= h[2] /\ h[1]..h[2] \subseteq near
                           /\ h[1] - 1 \notin near /\ h[2] + 1 \notin near}

\* "+start,count" of a hunk; with nothing left, the line before it.
Header(script, h) ==
  LET count == NewCount(script, h[1], h[2])
      before == NewCount(script, 1, h[1] - 1)
  IN [start |-> IF count = 0 THEN before ELSE before + 1, count |-> count]

\* The declaration in the header of a hunk: the last one of the old file ahead of it.
HeaderFunc(script, h) ==
  LET decls == {i \in Old(script) : i < h[1] /\ script[i].decl}
  IN IF decls = {} THEN NoFunc ELSE script[Max(decls)].fn

-----------------------------------------------------------------------------
(* FromGit *)

\* Bug: a hunk that only deletes has no lines in the new file.
Bug_NewRange(hd) == <<hd.start, hd.start + hd.count - 1>>

\* A hunk that only deletes is attributed to the line above it.
NewRange(hd) ==
  LET count == IF hd.count = 0 THEN 1 ELSE hd.count
  IN <<hd.start, hd.start + count - 1>>

parseUnifiedRanges(script) == {NewRange(Header(script, h)) : h \in Hunks(script, 0)}

\* Bug: the function's last line does not count.
Bug_Overlaps(r, start, end) == r[1] < end /\ r[2] >= start

Overlaps(r, start, end) == r[1] <= end /\ r[2] >= start

\* The functions of the file that overlap a range.
funcsForRanges(lines, ranges) ==
  {f \in Symbols :
     LET body == {i \in DOMAIN lines : lines[i].fn = f}
     IN body # {} /\ \E r \in ranges : Overlaps(r, Min(body), Max(body))}

-----------------------------------------------------------------------------
(* The functions of a diff.  A file has its script, the lines that are in   *)
(* the working tree (none if it is deleted or does not parse), and whether  *)
(* skipGoFile holds of its name.                                            *)

Modes == {"pr", "committed", "uncommitted"}

FromGit(files) ==
  UNION {funcsForRanges(x.tree, parseUnifiedRanges(x.script)) : x \in {y \in files : ~y.skip}}

FromPR(files) ==
  UNION {{HeaderFunc(x.script, h) : h \in Hunks(x.script, Context)} \ {NoFunc} :
           x \in {y \in files : ~y.skip}}

\* The k-th of the functions has k - 1 before it; two of one symbol (init) are one.
sortFuncs(fs) ==
  [k \in 1..Cardinality(fs) |-> CHOOSE f \in fs : Cardinality({g \in fs : g <= f}) = k]

ChangedFuncs(mode, files) ==
  sortFuncs(IF mode = "pr" THEN FromPR(files) ELSE FromGit(files))

\* The directory of a file in which f is declared, "." for the root.
PackageDir(f) ==
  LET dir == SubSeq(PathOf[f], Len(Module) + 1, Len(PathOf[f]))
  IN IF dir = << >> THEN <<".">> ELSE dir

Packages(fs) == {PackageDir(fs[i]) : i \in DOMAIN fs}

-----------------------------------------------------------------------------
(* Reference *)

\* What a diff between files of Go is known to be.  The old lines of a function are in
\* one piece, and the first is a declaration.  A function that loses lines and gets
\* none has lost one between two that it keeps: its first line declares it, and braces
\* do not match in a part that only lacks the end.
GoDiff(script) ==
  /\ script \in Seq(Line)
  /\ \A f \in Symbols :
       LET lines == {i \in DOMAIN script : script[i].fn = f}
           kept == lines \ Changes(script)
           old == lines \cap Old(script)
           gone == lines \ New(script)
       IN /\ \A i, k \in old, j \in Old(script) : i <= j /\ j <= k => j \in old
          /\ \A i \in old : (\A k \in old : i <= k) => script[i].decl
          /\ lines \subseteq Old(script) /\ kept # {} /\ gone # {} =>
               \E i, k \in kept, j \in gone : i < j /\ j < k

\* The functions that a diff edits and leaves in the file: a line of theirs is
\* added or deleted.
Edited(script) ==
  {f \in Symbols :
     /\ \E i \in Changes(script) : script[i].fn = f
     /\ \E i \in New(script) : script[i].fn = f}

\* The functions inside which a hunk of a PR's patch begins.
HunkBegins(script) ==
  {f \in Symbols : \E h \in Hunks(script, Context) :
     /\ \E i \in Old(script) : i < h[1] /\ script[i].fn = f
     /\ script[h[1]].fn = f}

\* What has to be among the targets: what is edited, as far as the mode can see
\* it.  The line numbers of a committed diff are those of HEAD, of which the
\* working tree has to be a copy; a patch names functions in hunk headers only.
MustTarget(mode, files) ==
  UNION {CASE mode = "pr" -> HunkBegins(x.script)
           [] mode = "uncommitted" -> Edited(x.script)
           [] mode = "committed" -> Edited(x.script) :
           x \in {y \in files : ~y.skip /\ (mode = "pr" \/ y.tree = NewLines(y.script))}}
=============================================================================
