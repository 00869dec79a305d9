------------------------------- MODULE Targets -------------------------------
(***************************************************************************)
(* The commands that decide what the loop works on: `hotspots` (what the   *)
(* profiles show), `target-diff` (what a diff changed) and `scope`.  They  *)
(* share scope.json, and the first two hotspots.json.                      *)
(*                                                                         *)
(* A command reads what it needs, and writes one file after the other:     *)
(*   target-diff:  idle -> scope -> diff -> hots -> idle                   *)
(* It may be killed at each write, before it or in the middle of it.  A    *)
(* `clean --all` comes between two commands and may stop half way.         *)
(* Bug_X is a plausible bug of X.                                          *)
(***************************************************************************)
EXTENDS ChangedFuncs

CONSTANTS
  Worlds,   \* what git, gh and the profiles directory may hold at first
  Later,    \* what they may hold later
  Tops,     \* values of --top
  Scopes,   \* what the engineer may configure: [include, exclude]
  MaxCommands(_), \* bound: the commands of a history that has come to a world
  Nil

ASSUME TargetsAssumption ==
  /\ Tops \subseteq Nat
  /\ \A w \in Worlds \cup Later :
       /\ w.mode \in Modes /\ \A x \in w.files : GoDiff(x.script)
       /\ IsFiniteSet(DOMAIN w.profiles) /\ \A i \in DOMAIN w.profiles : IsProfile(w.profiles[i])

VARIABLES
  world,    \* [mode, files, profiles]: the diff, the working tree, the profiles
  scope,    \* scope.json, an empty one if it is absent or torn
  diffjson, \* diff.json, of number 0 if it is absent
  hots,     \* hotspots.json, of nobody if it is absent or torn
  pc, job,  \* where the command is, and what it is going to write
  started,  \* how many commands there were; a file has the number (no) of its writer
  configured, lost \* not in the code: the excludes of the last `scope` command, and
                   \* whether scope.json was torn since

vars == <<world, scope, diffjson, hots, pc, job, started, configured, lost>>

NoScope(n) == [no |-> n, include |-> {}, exclude |-> {}]
NoDiff == [no |-> 0]
NoHots == [by |-> "nobody", no |-> 0, rows |-> << >>, must |-> {}]

Init ==
  /\ world \in Worlds
  /\ scope = NoScope(0) /\ diffjson = NoDiff /\ hots = NoHots
  /\ pc = "idle" /\ job = Nil /\ started = 0 /\ configured = {} /\ lost = FALSE

-----------------------------------------------------------------------------
(* The commands *)

Start(at, j) ==
  /\ pc \in {"idle", "refused"} /\ started < MaxCommands(world)
  /\ started' = started + 1
  /\ pc' = at /\ job' = j
  /\ UNCHANGED <<world, scope, diffjson, hots, configured, lost>>

\* `scope`: the flags, whatever was there.
SetScope(sc) ==
  Start("scope", [by |-> "scope", no |-> started + 1, include |-> sc.include,
                  exclude |-> sc.exclude])

Hotspots(top) ==
  \E rows \in Gather(world.profiles, top, scope) :
    \/ rows = << >> /\ Start("refused", Nil)
    \/ /\ rows # << >>
       /\ Start("hots", [by |-> "hotspots", no |-> started + 1, rows |-> rows, top |-> top,
                         must |-> {}])

\* The weight of a symbol that is in several rows is that of the last one.
Weight(s, rows) ==
  LET at == {i \in DOMAIN rows : rows[i].symbol = s}
  IN IF at = {} THEN 0 ELSE rows[Max(at)].weight_pct

\* A changed function as a candidate.
Changed(f, weight) ==
  [symbol |-> f, package |-> PackageDir(f), metric |-> "diff", weight_pct |-> weight,
   source |-> "diff", editable |-> TRUE, in_scope |-> TRUE]

\* Bug: in the order of the diff.
Bug_ToHotspots(fs, overlay) ==
  {[i \in DOMAIN fs |-> Changed(fs[i], Weight(fs[i], overlay))]}

\* The changed functions by weight, a stable sort.
ToHotspots(fs, overlay) ==
  LET w == [i \in DOMAIN fs |-> Weight(fs[i], overlay)]
      Ahead(i, j) == w[i] > w[j] \/ (w[i] = w[j] /\ i < j)
      orders == {q \in Bijection(DOMAIN fs, DOMAIN fs) :
                   \A k, n \in DOMAIN fs : k < n => Ahead(q[k], q[n])}
  IN {[k \in DOMAIN fs |-> Changed(fs[q[k]], w[q[k]])] : q \in orders}

\* Bug: the scope is made anew.
Bug_Excludes(sc) == {}

\* What target-diff keeps of the scope.
Excludes(sc) == sc.exclude

\* Bug: the candidates are written before their scope.
Bug_Writes == <<"hots", "scope", "diff">>

\* The writes of target-diff in their order.
Writes == <<"scope", "diff", "hots">>

OverlayTop == 200

TargetDiff ==
  LET fs == ChangedFuncs(world.mode, world.files)
  IN \/ fs = << >> /\ Start("refused", Nil)
     \/ /\ fs # << >>
        /\ \E overlay \in Gather(world.profiles, OverlayTop, scope) :
             \E rows \in ToHotspots(fs, overlay) :
               Start(Head(Writes),
                 [by |-> "target-diff", no |-> started + 1, rows |-> rows,
                  include |-> Packages(fs), exclude |-> Excludes(scope),
                  must |-> MustTarget(world.mode, world.files), overlay |-> overlay])

-----------------------------------------------------------------------------
(* WriteJSON *)

\* The command goes on after the write `at`.
Wrote(at) ==
  /\ pc = at
  /\ \/ job.by = "target-diff" /\ \E i \in 1..2 : Writes[i] = at /\ pc' = Writes[i + 1]
        /\ UNCHANGED job
     \/ (job.by # "target-diff" \/ at = Writes[3]) /\ pc' = "idle" /\ job' = Nil
  /\ UNCHANGED <<world, started>>

WriteScope ==
  /\ Wrote("scope")
  /\ scope' = [no |-> job.no, include |-> job.include, exclude |-> job.exclude]
  /\ \/ job.by = "scope" /\ configured' = job.exclude /\ lost' = FALSE
     \/ job.by # "scope" /\ UNCHANGED <<configured, lost>>
  /\ UNCHANGED <<diffjson, hots>>

WriteDiff ==
  /\ Wrote("diff")
  /\ diffjson' = [no |-> job.no]
  /\ UNCHANGED <<scope, hots, configured, lost>>

WriteHotspots ==
  /\ Wrote("hots")
  /\ hots' = [by |-> job.by, no |-> job.no, rows |-> job.rows, must |-> job.must]
  /\ UNCHANGED <<scope, diffjson, configured, lost>>

\* The command is killed, and leaves the file it is at as it was, or truncated.
Crash ==
  /\ pc \in {"scope", "diff", "hots"}
  /\ pc' = "idle" /\ job' = Nil
  /\ \/ UNCHANGED <<scope, diffjson, hots, lost>>
     \/ pc = "scope" /\ scope' = NoScope(job.no) /\ lost' = TRUE /\ UNCHANGED <<diffjson, hots>>
     \/ pc = "diff" /\ diffjson' = [no |-> job.no] /\ UNCHANGED <<scope, hots, lost>>
     \/ pc = "hots" /\ hots' = NoHots /\ UNCHANGED <<scope, diffjson, lost>>
  /\ UNCHANGED <<world, started, configured>>

\* The engineer edits, commits or collects.
Change ==
  /\ pc \in {"idle", "refused"} /\ pc' = "idle"
  /\ world' \in Later
  /\ UNCHANGED <<scope, diffjson, hots, job, started, configured, lost>>

\* `clean --all` keeps scope.json and deletes the rest in the order of the names; it may
\* fail or be killed after the first n of those that matter here.
CleanAll(n) ==
  /\ pc \in {"idle", "refused"} /\ pc' = "idle"
  /\ diffjson' = IF n < 1 THEN diffjson ELSE NoDiff
  /\ hots' = IF n < 2 THEN hots ELSE NoHots
  /\ world' = IF n < 3 THEN world
              ELSE [mode |-> world.mode, files |-> world.files, profiles |-> << >>]
  /\ UNCHANGED <<scope, job, started, configured, lost>>

Next ==
  \/ TargetDiff \/ WriteScope \/ WriteDiff \/ WriteHotspots \/ Crash \/ Change
  \/ \E sc \in Scopes : SetScope(sc)
  \/ \E top \in Tops : Hotspots(top)
  \/ \E n \in 0..3 : CleanAll(n)

Spec == Init /\ [][Next]_vars
-----------------------------------------------------------------------------
(* Properties *)

Targeted == {hots.rows[i].symbol : i \in DOMAIN hots.rows}

\* "maps those ranges to enclosing functions" (FromGit): a function that the diff
\* edits is among the candidates, also when lines were only deleted, at its first
\* or last line, or beside the edits of a neighbour; and target-diff refuses only if
\* there is none.  What each mode cannot see is left out by MustTarget.
EditedFunctionsTargeted ==
  /\ hots.by = "target-diff" => hots.must \subseteq Targeted
  /\ pc = "refused" /\ ChangedFuncs(world.mode, world.files) = << >> =>
       MustTarget(world.mode, world.files) = {}

Shares(s) ==
  LET at == {i \in DOMAIN job.overlay : job.overlay[i].symbol = s}
  IN [m \in {job.overlay[i].metric : i \in at} |->
        job.overlay[CHOOSE i \in at : job.overlay[i].metric = m].weight_pct]

\* "changed AND hot ranks first" (Target): no profiled function is behind one that is
\* not profiled, unless a share of it is so small that it is rounded to 0; and none is
\* behind another that is profiled in the same metrics and has the smaller share of
\* every one.
HotFirst ==
  pc = "scope" /\ job.by = "target-diff" =>
    \A i, j \in DOMAIN job.rows : i < j =>
      LET a == Shares(job.rows[i].symbol) b == Shares(job.rows[j].symbol)
      IN b # << >> => /\ (\A m \in DOMAIN b : b[m] > 0) => a # << >>
                      /\ DOMAIN a = DOMAIN b => \E m \in DOMAIN a : a[m] >= b[m]

Shown(rows) ==
  [i \in DOMAIN rows |-> <<rows[i].symbol, rows[i].metric, rows[i].weight_pct, Candidate(rows[i])>>]

\* "so equal weights rank reproducibly, independent of profile input order" (Rank) and
\* of map iteration (ParseFlat): the ranking of a command is the only one that these
\* profiles can have.
RankReproducible ==
  pc = "hots" /\ job.by = "hotspots" =>
    \A f \in Bijection(DOMAIN world.profiles, DOMAIN world.profiles) :
      \A rows \in Gather([i \in DOMAIN world.profiles |-> world.profiles[f[i]]],
                         job.top, scope) :
        Shown(rows) = Shown(job.rows)

\* "scope to the changed packages" (Target): however commands are killed and cleans stop
\* half way, candidates of target-diff are in the packages that their own scope.json
\* includes, never with a scope.json of before, nor with a diff.json of before (clean may
\* have deleted that one).  A later scope.json is possible, from a target-diff that was
\* killed before it came to hotspots.json, or from `scope`.
TargetsInScope ==
  hots.by = "target-diff" =>
    /\ scope.no >= hots.no
    /\ diffjson = NoDiff \/ diffjson.no >= hots.no
    /\ scope.no = hots.no =>
         \A i \in DOMAIN hots.rows : hots.rows[i].package \in scope.include

\* "preserving any configured excludes" (Target): target-diff never drops what `scope` excluded,
\* except from a scope.json that a kill has torn.
ExcludesSurvive == lost \/ configured = scope.exclude
=============================================================================
