------------------------------- MODULE Collect -------------------------------
(***************************************************************************)
(* `collect traces | exemplars | profiles | local` (src/internal/collect)  *)
(* and what report.md says of the telemetry that is there                  *)
(* (telemetryCoverage in src/internal/report/report.go).                   *)
(*                                                                         *)
(* Everything but `local` asks the gcx tool, through gcxRun: up to three   *)
(* attempts, each bounded by a timeout.                                    *)
(*                                                                         *)
(*   call -> (sleep -> call)* -> back -> call ...  -> pin -> done          *)
(*                                                                         *)
(* gcx itself writes the profiles, before it exits: an attempt that is     *)
(* killed may have written its file, or half of it.                        *)
(* Bug_X is a plausible bug of X.                                          *)
(***************************************************************************)
EXTENDS Naturals, Sequences, FiniteSets

CONSTANTS
  Procs,     \* the commands
  Services,  \* service names; different ones have different files
  Versions,  \* build ids
  TraceIds,
  NoId,      \* the empty trace id
  Results,   \* what a trace search may find: sequences of [id, ms]
  Dumps,     \* values of --dump
  MaxCommands, \* bound: the commands of a history
  Nil

Attempts == 3
Kinds == {"cpu", "alloc", "inuse", "profile"}
Outcomes == {"ok", "transient", "permanent"}
Hits == [id : TraceIds \cup {NoId}, ms : Nat]
Contents == Versions \cup {"unversioned"}   \* a profile that is whole
Files == Contents \cup {"torn", Nil}

ASSUME CollectAssumption ==
  /\ Nil \notin Versions \cup Kinds \cup TraceIds
  /\ Nil \notin {"search", "exemplars", "some", "empty"}
  /\ {"unversioned", "torn"} \cap Versions = {} /\ Nil # "torn" /\ Nil # "unversioned"
  /\ NoId \notin TraceIds
  /\ TraceIds \cap (Kinds \cup {"search", "exemplars"}) = {}
  /\ Results \subseteq Seq(Hits) /\ Dumps \subseteq Nat

VARIABLES
  profile,    \* profiles/<service>.<kind>.pb.gz
  exemplars,  \* profiles/<service>.exemplars.*.json: "some", "empty" or Nil
  search,     \* traces/*.search.json: "some", "empty" or Nil
  traces,     \* the traces/<id>.json that are there
  localProfs, \* profiles/local.*.prof: "some" or Nil
  pin,        \* deployed_version
  started,    \* how many commands there were
  pc, cmd, svc, dump, ask, todo, tries, hits, dest, result,  \* of each command
  got, tried  \* not in the code: what it fetched, and which traces it asked for

files == <<profile, exemplars, search, traces, localProfs, pin>>
vars == <<profile, exemplars, search, traces, localProfs, pin,
          started, pc, cmd, svc, dump, ask, todo, tries, hits, dest, result, got, tried>>

Init ==
  /\ profile = [s \in Services |-> [k \in Kinds |-> Nil]]
  /\ exemplars = [s \in Services |-> Nil]
  /\ search = Nil /\ traces = {} /\ localProfs = Nil /\ pin = Nil /\ started = 0
  /\ pc = [p \in Procs |-> "idle"] /\ cmd = [p \in Procs |-> Nil]
  /\ svc \in [Procs -> Services] /\ dump = [p \in Procs |-> 0]
  /\ ask = [p \in Procs |-> Nil] /\ todo = [p \in Procs |-> << >>]
  /\ tries = [p \in Procs |-> << >>] /\ dest = [p \in Procs |-> Nil]
  /\ result = [p \in Procs |-> Nil]
  /\ got = [p \in Procs |-> {}] /\ tried = [p \in Procs |-> {}]
  /\ hits = [p \in Procs |-> << >>]

-----------------------------------------------------------------------------
(* gcxRun *)

LastTry(p) == tries[p][Len(tries[p])]
Succeeded(p) == LastTry(p) = "ok"

\* A query of gcx, and what is to be asked after it.
Query(p, q, rest) ==
  /\ pc' = [pc EXCEPT ![p] = "call"] /\ ask' = [ask EXCEPT ![p] = q]
  /\ todo' = [todo EXCEPT ![p] = rest] /\ tries' = [tries EXCEPT ![p] = << >>]

\* Bug: the failures that a retry cannot fix are retried as well.
Bug_GivesUp(o, n) == o = "ok" \/ n = Attempts

GivesUp(o, n) == o \in {"ok", "permanent"} \/ n = Attempts

\* An attempt ends: gcxRun returns to its caller, or sleeps before the next.
EndAttempt(p, o) ==
  /\ pc[p] = "call"
  /\ tries' = [tries EXCEPT ![p] = Append(@, o)]
  /\ pc' = [pc EXCEPT ![p] = IF GivesUp(o, Len(tries[p]) + 1) THEN "back" ELSE "sleep"]
  /\ UNCHANGED <<started, cmd, svc, dump, ask, todo, dest, result, got, tried>>

\* The file that gcx writes for the query of p holds c.
Writes(p, c) ==
  IF cmd[p] = "profiles"
  THEN profile' = [profile EXCEPT ![svc[p]][ask[p]] = c]
  ELSE UNCHANGED profile

\* gcx answers.  Its output is the only trace of a search or of exemplars.
Answer(p) ==
  /\ EndAttempt(p, "ok")
  /\ \E c \in Contents : Writes(p, c)
  /\ \/ ask[p] = "search" /\ \E r \in Results : hits' = [hits EXCEPT ![p] = r]
     \/ ask[p] # "search" /\ UNCHANGED hits
  /\ UNCHANGED <<exemplars, search, traces, localProfs, pin>>

\* gcx fails, with an output that gcxPermanent recognises or not.
Fail(p, o) ==
  /\ EndAttempt(p, o)
  /\ UNCHANGED files /\ UNCHANGED hits

\* What gcx did to its file when it is killed in an attempt.
Interrupted(p) ==
  \/ UNCHANGED profile
  \/ \E c \in Contents \cup {"torn"} : Writes(p, c)

\* Bug: the context has no deadline.
Bug_TimeOut(p) == FALSE /\ EndAttempt(p, "transient") /\ UNCHANGED <<files, hits>>

\* The context's deadline passes and gcx is killed.  What it printed so far is
\* searched for the signs of a permanent failure, too.
TimeOut(p) ==
  /\ \E o \in {"transient", "permanent"} : EndAttempt(p, o)
  /\ Interrupted(p)
  /\ UNCHANGED <<exemplars, search, traces, localProfs, pin, hits>>

Wake(p) ==
  /\ pc[p] = "sleep"
  /\ pc' = [pc EXCEPT ![p] = "call"]
  /\ UNCHANGED <<files, started, cmd, svc, dump, ask, todo, tries, hits, dest, result, got, tried>>

Return(p, r) ==
  /\ pc' = [pc EXCEPT ![p] = "done"] /\ result' = [result EXCEPT ![p] = r]
  /\ UNCHANGED <<ask, todo, tries>>

-----------------------------------------------------------------------------
(* collect profiles *)

\* All three kinds; one kind of its own (--profile-type); cpu (--profile-id).
Types == {<<"cpu", "alloc", "inuse">>, <<"profile">>, <<"cpu">>}

Start(p, c, s) ==
  /\ started < MaxCommands /\ started' = started + 1
  /\ pc[p] \in {"idle", "done"}
  /\ cmd' = [cmd EXCEPT ![p] = c] /\ svc' = [svc EXCEPT ![p] = s]
  /\ dest' = [dest EXCEPT ![p] = Nil] /\ result' = [result EXCEPT ![p] = Nil]
  /\ got' = [got EXCEPT ![p] = {}] /\ tried' = [tried EXCEPT ![p] = {}]
  /\ hits' = [hits EXCEPT ![p] = << >>]
  /\ UNCHANGED files

Profiles(p, s, types) ==
  /\ Start(p, "profiles", s) /\ UNCHANGED dump
  /\ Query(p, Head(types), Tail(types))

\* Bug: the file is remembered although it was not fetched.
Bug_LastDest(p) == ask[p]

\* lastDest after the present query.
LastDest(p) == IF Succeeded(p) THEN ask[p] ELSE dest[p]

\* A kind that fails is skipped: the service may not have it.
NextType(p) ==
  /\ pc[p] = "back" /\ cmd[p] = "profiles"
  /\ dest' = [dest EXCEPT ![p] = LastDest(p)]
  /\ got' = [got EXCEPT ![p] = IF Succeeded(p) THEN @ \cup {ask[p]} ELSE @]
  /\ \/ todo[p] # << >> /\ Query(p, Head(todo[p]), Tail(todo[p]))
     \/ todo[p] = << >> /\ pc' = [pc EXCEPT ![p] = "pin"] /\ UNCHANGED <<ask, todo, tries>>
  /\ UNCHANGED <<files, started, cmd, svc, dump, hits, result, tried>>

\* The version in the last file, if it has one; an error of the write is ignored.
Pin(p) ==
  LET v == profile[svc[p]][dest[p]]
  IN /\ pc[p] = "pin"
     /\ \/ dest[p] = Nil /\ Return(p, "error") /\ UNCHANGED pin
        \/ /\ dest[p] # Nil /\ Return(p, "ok")
           /\ \/ v \in Versions /\ pin' = v
              \/ UNCHANGED pin
     /\ UNCHANGED <<profile, exemplars, search, traces, localProfs>>
     /\ UNCHANGED <<started, cmd, svc, dump, hits, dest, got, tried>>

-----------------------------------------------------------------------------
(* collect traces *)

Traces(p, s, n) ==
  /\ Start(p, "traces", s) /\ dump' = [dump EXCEPT ![p] = n]
  /\ Query(p, "search", << >>)

\* Bug: the search result is taken as it comes.
Bug_Slowest(r) == {r}

\* sort.Slice by duration, which is not stable: the orders it may give.
Slowest(r) ==
  {[i \in DOMAIN r |-> r[f[i]]] : f \in
     {g \in [DOMAIN r -> DOMAIN r] :
        /\ \A i, j \in DOMAIN r : g[i] = g[j] => i = j
        /\ \A i, j \in DOMAIN r : i < j => r[g[i]].ms >= r[g[j]].ms}}

\* Bug: a trace without an id is asked for.
Bug_ToFetch(order, n) ==
  [i \in {j \in DOMAIN order : j <= n} |-> order[i].id]

\* The first n traces of an order, up to one without an id.
ToFetch(order, n) ==
  LET ends == {i \in 1..(Len(order) + 1) :
                 i > n \/ i = Len(order) + 1 \/ order[i].id = NoId}
      end == CHOOSE i \in ends : \A j \in ends : i <= j
  IN [i \in 1..(end - 1) |-> order[i].id]

\* The next trace to fetch, if any is left of ids.
Fetch(p, ids) ==
  \/ ids # << >> /\ Query(p, Head(ids), Tail(ids))
       /\ tried' = [tried EXCEPT ![p] = @ \cup {Head(ids)}] /\ UNCHANGED result
  \/ ids = << >> /\ Return(p, "ok") /\ UNCHANGED tried

SearchDone(p) ==
  /\ pc[p] = "back" /\ ask[p] = "search"
  /\ \/ ~Succeeded(p) /\ Return(p, "error") /\ UNCHANGED <<search, tried>>
     \/ /\ Succeeded(p)
        /\ search' = IF hits[p] = << >> THEN "empty" ELSE "some"
        /\ \E order \in Slowest(hits[p]) : Fetch(p, ToFetch(order, dump[p]))
  /\ UNCHANGED <<profile, exemplars, traces, localProfs, pin>>
  /\ UNCHANGED <<started, cmd, svc, dump, hits, dest, got>>

\* Bug: the first trace that cannot be fetched ends the dump.
Bug_Remaining(p) == IF Succeeded(p) THEN todo[p] ELSE << >>

Remaining(p) == todo[p]

\* A trace that cannot be fetched is skipped.
NextTrace(p) ==
  /\ pc[p] = "back" /\ cmd[p] = "traces" /\ ask[p] # "search"
  /\ traces' = IF Succeeded(p) THEN traces \cup {ask[p]} ELSE traces
  /\ Fetch(p, Remaining(p))
  /\ UNCHANGED <<profile, exemplars, search, localProfs, pin>>
  /\ UNCHANGED <<started, cmd, svc, dump, hits, dest, got>>

-----------------------------------------------------------------------------
(* collect exemplars, collect local, and the surroundings *)

Exemplars(p, s) ==
  /\ Start(p, "exemplars", s) /\ UNCHANGED dump
  /\ Query(p, "exemplars", << >>)

ExemplarsDone(p) ==
  /\ pc[p] = "back" /\ ask[p] = "exemplars"
  /\ \/ ~Succeeded(p) /\ Return(p, "error") /\ UNCHANGED exemplars
     \/ /\ Succeeded(p) /\ Return(p, "ok")
        /\ \E x \in {"some", "empty"} : exemplars' = [exemplars EXCEPT ![svc[p]] = x]
  /\ UNCHANGED <<profile, search, traces, localProfs, pin>>
  /\ UNCHANGED <<started, cmd, svc, dump, hits, dest, got, tried>>

\* go test writes its profiles, also when a benchmark fails.
Local ==
  /\ localProfs' = "some"
  /\ UNCHANGED <<profile, exemplars, search, traces, pin>>
  /\ UNCHANGED <<started, pc, cmd, svc, dump, ask, todo, tries, hits, dest, result, got, tried>>

\* Ctrl-C: the command and its gcx end.
Crash(p) ==
  /\ pc[p] \notin {"idle", "done"}
  /\ pc' = [pc EXCEPT ![p] = "idle"]
  /\ \/ pc[p] = "call" /\ Interrupted(p)
     \/ UNCHANGED profile
  /\ UNCHANGED <<exemplars, search, traces, localProfs, pin>>
  /\ UNCHANGED <<started, cmd, svc, dump, ask, todo, tries, hits, dest, result, got, tried>>

\* What a running command does next by itself.
Step(p) ==
  \/ TimeOut(p) \/ Wake(p) \/ NextType(p) \/ Pin(p) \/ SearchDone(p) \/ NextTrace(p)
  \/ ExemplarsDone(p)

Next ==
  \/ \E p \in Procs : Step(p) \/ Answer(p) \/ Crash(p)
  \/ \E p \in Procs, o \in {"transient", "permanent"} : Fail(p, o)
  \/ \E p \in Procs, s \in Services, types \in Types : Profiles(p, s, types)
  \/ \E p \in Procs, s \in Services, n \in Dumps : Traces(p, s, n)
  \/ \E p \in Procs, s \in Services : Exemplars(p, s)
  \/ Local

\* The engine goes on by itself, and a deadline passes; whether gcx answers, or
\* anybody starts a command, is not assumed.
Fairness == \A p \in Procs : WF_vars(Step(p))

Spec == Init /\ [][Next]_vars /\ Fairness
-----------------------------------------------------------------------------
(* What report.md says (telemetryCoverage) *)

\* Bug: only the three default kinds are looked for.
Bug_ProdProfiles == \E s \in Services, k \in {"cpu", "alloc", "inuse"} : profile[s][k] # Nil

\* There is a production profile: any *.pb.gz that is not local.*.
ProdProfiles == \E s \in Services, k \in Kinds : profile[s][k] # Nil

SpanLinked == \E s \in Services : exemplars[s] = "some"

\* What report.md names as missing.
Missing ==
  {m \in {"traces", "profiles", "spans"} :
     \/ m = "traces" /\ search = Nil /\ traces = {}
     \/ m = "profiles" /\ ~ProdProfiles
     \/ m = "spans" /\ (\E s \in Services : exemplars[s] # Nil) /\ ~SpanLinked}

-----------------------------------------------------------------------------
(* Properties *)

\* Type invariant of the files and the commands.
TypeOK ==
  /\ profile \in [Services -> [Kinds -> Files]]
  /\ exemplars \in [Services -> {"some", "empty", Nil}]
  /\ search \in {"some", "empty", Nil} /\ traces \subseteq TraceIds
  /\ localProfs \in {"some", Nil} /\ pin \in Versions \cup {Nil}
  /\ pc \in [Procs -> {"idle", "call", "sleep", "back", "pin", "done"}]
  /\ svc \in [Procs -> Services]
  /\ tries \in [Procs -> Seq(Outcomes)]
  /\ dest \in [Procs -> Kinds \cup {Nil}]

\* Where gcxRun may be after the attempts t.
JustifiedTries(at, t) == at # "idle" =>
  /\ Len(t) <= Attempts
  /\ \A i \in 1..(Len(t) - 1) : t[i] = "transient"
  /\ at \in {"call", "sleep"} => Len(t) < Attempts /\ \A i \in 1..Len(t) : t[i] = "transient"
  /\ at = "back" => Len(t) > 0 /\ (t[Len(t)] = "transient" => Len(t) = Attempts)

\* "retrying transient failures ... Permanent failures are not retried" (gcxRun):
\* every attempt but the last failed in a way that a retry can fix, there are three
\* at most, and gcxRun gives up with such a failure only after the third.
RetriesJustified == \A p \in Procs : JustifiedTries(pc[p], tries[p])

\* "a service may lack one profile type - keep the others" (Profiles): the command
\* fails exactly when no kind was fetched, whichever failed, timed out late or came
\* on a retry; and what it names last is a profile it fetched, and whole.
ResultIsHonest ==
  \A p \in Procs : pc[p] = "done" /\ cmd[p] = "profiles" =>
    /\ result[p] = "error" <=> got[p] = {}
    /\ got[p] # {} => dest[p] \in got[p] /\ profile[svc[p]][dest[p]] \in Contents

\* "persist the deployed version so validation can pin against the matching source
\* ref" (Profiles): a version that is pinned is in a profile which the same command
\* fetched, not in one that was left by an earlier collection.
PinsWhatItFetched ==
  [][pin' # pin => \E p \in Procs : \E k \in got[p] : profile[svc[p]][k] = pin']_vars

\* "dumps the slowest full traces" (Traces): a trace that was not asked for has as
\* many slower ones as were wanted, or is behind one without an id.
SlowestTried ==
  \A p \in Procs : pc[p] = "done" /\ cmd[p] = "traces" /\ result[p] = "ok" =>
    \A i \in DOMAIN hits[p] :
      LET h == hits[p][i]
          ahead == {j \in DOMAIN hits[p] \ {i} : hits[p][j].ms >= h.ms}
      IN h.id \notin tried[p] =>
           \/ Cardinality(ahead) >= dump[p]
           \/ h.id = NoId \/ \E j \in ahead : hits[p][j].id = NoId

\* The gaps that report.md names are gaps (telemetryCoverage): what a finished command
\* has fetched is not called missing, whatever failed before or after.
GapsAreReal ==
  \A p \in Procs : pc[p] = "done" /\ result[p] = "ok" =>
    /\ cmd[p] = "profiles" => "profiles" \notin Missing
    /\ cmd[p] = "traces" => "traces" \notin Missing
    /\ cmd[p] = "exemplars" /\ exemplars[svc[p]] = "some" => "spans" \notin Missing

\* "each attempt is bounded by gcxTimeout so a stuck connection cannot hang the run"
\* (gcxRun): a command ends, though gcx may never answer.
CollectEnds == \A p \in Procs : pc[p] = "call" ~> pc[p] \in {"idle", "done"}
=============================================================================
