--------------------------- MODULE CollectProofs ----------------------------
(***************************************************************************)
(* Proofs about Collect, for any services, versions, searches and any      *)
(* number of commands: how gcxRun retries, the types of the files, what a  *)
(* collection of profiles answers and which version it pins, which gaps    *)
(* report.md names, and which traces are dumped.                           *)
(***************************************************************************)
EXTENDS Collect, FiniteSetTheorems, FunctionTheorems, TLAPS

PCs == {"idle", "call", "sleep", "back", "pin", "done"}

-----------------------------------------------------------------------------
(* Retries.  RetriesJustified is inductive once the types of what it speaks *)
(* of are added: it says of each program point how the attempts stand.     *)

RetryTypes == pc \in [Procs -> PCs] /\ tries \in [Procs -> Seq(Outcomes)]
RetryInv == RetryTypes /\ RetriesJustified

\* Only the command that moves changes where it is and what it tried.
LEMMA OneMoves ==
  ASSUME RetryInv, NEW p \in Procs, NEW at \in PCs, NEW t \in Seq(Outcomes),
         pc' = [pc EXCEPT ![p] = at], tries' = [tries EXCEPT ![p] = t],
         JustifiedTries(at, t)
  PROVE  RetryInv'
BY DEF RetryInv, RetryTypes, RetriesJustified

LEMMA AttemptKeepsRetryInv ==
  ASSUME RetryInv, NEW p \in Procs, NEW o \in Outcomes, EndAttempt(p, o)
  PROVE  RetryInv'
<1> DEFINE t == tries[p]
           u == Append(t, o)
           at == IF GivesUp(o, Len(t) + 1) THEN "back" ELSE "sleep"
<1>1. pc[p] = "call" /\ tries' = [tries EXCEPT ![p] = u] /\ pc' = [pc EXCEPT ![p] = at]
  BY DEF EndAttempt
<1>2. t \in Seq(Outcomes) /\ Len(t) \in Nat /\ JustifiedTries("call", t)
  BY <1>1 DEF RetryInv, RetryTypes, RetriesJustified
<1>3. Len(t) < 3 /\ \A i \in 1..Len(t) : t[i] = "transient"
  BY <1>2 DEF JustifiedTries, Attempts
<1>4. u \in Seq(Outcomes) /\ Len(u) = Len(t) + 1 /\ u[Len(u)] = o
      /\ \A i \in 1..(Len(u) - 1) : u[i] = "transient"
  BY <1>2, <1>3
<1>5. JustifiedTries(at, u)
  <2> HIDE DEF t, u
  <2>1. CASE GivesUp(o, Len(t) + 1)
    BY <1>2, <1>3, <1>4, <2>1 DEF GivesUp, JustifiedTries, Attempts
  <2>2. CASE ~GivesUp(o, Len(t) + 1)
    <3>1. o = "transient" /\ Len(u) < 3
      BY <1>2, <1>3, <1>4, <2>2 DEF GivesUp, Attempts, Outcomes
    <3>2. \A i \in 1..Len(u) : u[i] = "transient"
      BY <1>2, <1>4, <3>1
    <3> QED
      BY <2>2, <1>4, <3>1, <3>2 DEF JustifiedTries, Attempts
  <2> QED
    BY <2>1, <2>2
<1> HIDE DEF u, t
<1>6. at \in PCs
  BY DEF PCs
<1> QED
  BY <1>1, <1>4, <1>5, <1>6, OneMoves

LEMMA QueryKeepsRetryInv ==
  ASSUME RetryInv, NEW p \in Procs, NEW q, NEW rest, Query(p, q, rest)
  PROVE  RetryInv'
<1>1. << >> \in Seq(Outcomes) /\ "call" \in PCs /\ JustifiedTries("call", << >>)
  BY DEF PCs, JustifiedTries, Attempts
<1> QED
  BY <1>1, OneMoves DEF Query

LEMMA ReturnKeepsRetryInv ==
  ASSUME RetryInv, NEW p \in Procs, pc[p] \in {"back", "pin"}, NEW r, Return(p, r)
  PROVE  RetryInv'
BY DEF Return, RetryInv, RetryTypes, RetriesJustified, JustifiedTries, PCs

LEMMA RetryNext ==
  ASSUME RetryInv, [Next]_vars
  PROVE  RetryInv'
<1>1. ASSUME NEW p \in Procs, Step(p) PROVE RetryInv'
  <2>1. CASE TimeOut(p)
    BY <2>1, AttemptKeepsRetryInv DEF TimeOut, Outcomes
  <2>2. CASE Wake(p)
    BY <2>2 DEF Wake, RetryInv, RetryTypes, RetriesJustified, JustifiedTries, PCs
  <2>3. CASE NextType(p)
    <3>1. CASE Query(p, Head(todo[p]), Tail(todo[p]))
      BY <3>1, QueryKeepsRetryInv
    <3>2. CASE pc' = [pc EXCEPT ![p] = "pin"] /\ UNCHANGED tries
      BY <2>3, <3>2 DEF NextType, RetryInv, RetryTypes, RetriesJustified, JustifiedTries, PCs
    <3> QED
      BY <2>3, <3>1, <3>2 DEF NextType
  <2>4. CASE Pin(p)
    BY <2>4, ReturnKeepsRetryInv DEF Pin
  <2>5. CASE SearchDone(p)
    <3>1. pc[p] = "back"
      BY <2>5 DEF SearchDone
    <3>2. ASSUME NEW ids, Fetch(p, ids) PROVE RetryInv'
      BY <3>1, <3>2, QueryKeepsRetryInv, ReturnKeepsRetryInv DEF Fetch
    <3> QED
      BY <2>5, <3>1, <3>2, ReturnKeepsRetryInv DEF SearchDone
  <2>6. CASE NextTrace(p)
    <3>1. pc[p] = "back" /\ Fetch(p, Remaining(p))
      BY <2>6 DEF NextTrace
    <3> QED
      BY <3>1, QueryKeepsRetryInv, ReturnKeepsRetryInv DEF Fetch
  <2>7. CASE ExemplarsDone(p)
    BY <2>7, ReturnKeepsRetryInv DEF ExemplarsDone
  <2> QED
    BY <1>1, <2>1, <2>2, <2>3, <2>4, <2>5, <2>6, <2>7 DEF Step
<1>2. ASSUME NEW p \in Procs, Answer(p) PROVE RetryInv'
  BY <1>2, AttemptKeepsRetryInv DEF Answer, Outcomes
<1>3. ASSUME NEW p \in Procs, Crash(p) PROVE RetryInv'
  BY <1>3 DEF Crash, RetryInv, RetryTypes, RetriesJustified, JustifiedTries, PCs
<1>4. ASSUME NEW p \in Procs, NEW o \in {"transient", "permanent"}, Fail(p, o) PROVE RetryInv'
  BY <1>4, AttemptKeepsRetryInv DEF Fail, Outcomes
<1>5. ASSUME NEW p \in Procs, NEW s \in Services, NEW types \in Types, Profiles(p, s, types)
      PROVE  RetryInv'
  BY <1>5, QueryKeepsRetryInv DEF Profiles
<1>6. ASSUME NEW p \in Procs, NEW s \in Services, NEW n \in Dumps, Traces(p, s, n)
      PROVE  RetryInv'
  BY <1>6, QueryKeepsRetryInv DEF Traces
<1>7. ASSUME NEW p \in Procs, NEW s \in Services, Exemplars(p, s) PROVE RetryInv'
  BY <1>7, QueryKeepsRetryInv DEF Exemplars
<1>8. CASE Local \/ UNCHANGED vars
  BY <1>8 DEF Local, vars, RetryInv, RetryTypes, RetriesJustified
<1> QED
  BY <1>1, <1>2, <1>3, <1>4, <1>5, <1>6, <1>7, <1>8 DEF Next

\* gcxRun makes three attempts at most, none after a success or a permanent failure,
\* and gives up on a transient one only after the third, however its callers, kills
\* and deadlines interleave.
THEOREM RetriesCorrect == Spec => []RetriesJustified
<1>1. Init => RetryInv
  BY DEF Init, RetryInv, RetryTypes, RetriesJustified, JustifiedTries, PCs
<1>2. RetryInv /\ [Next]_vars => RetryInv'
  BY RetryNext
<1>3. RetryInv => RetriesJustified
  BY DEF RetryInv
<1> QED
  BY <1>1, <1>2, <1>3, PTL DEF Spec

-----------------------------------------------------------------------------
(* Pins.  A command remembers only kinds that it fetched itself.            *)

PinInv ==
  /\ DOMAIN dest = Procs /\ DOMAIN got = Procs
  /\ \A p \in Procs : dest[p] = Nil \/ dest[p] \in got[p]

\* Outside of collect profiles, nobody changes what is remembered.
LEMMA OthersKeepPinInv ==
  ASSUME PinInv, UNCHANGED <<dest, got>>
  PROVE  PinInv'
BY DEF PinInv

LEMMA StartKeepsPinInv ==
  ASSUME PinInv, NEW p \in Procs, NEW c, NEW s, Start(p, c, s)
  PROVE  PinInv'
BY DEF PinInv, Start

LEMMA PinNext ==
  ASSUME PinInv, [Next]_vars
  PROVE  PinInv'
<1>1. ASSUME NEW p \in Procs, NextType(p) PROVE PinInv'
  <2>1. dest' = [dest EXCEPT ![p] = LastDest(p)]
        /\ got' = [got EXCEPT ![p] = IF Succeeded(p) THEN @ \cup {ask[p]} ELSE @]
    BY <1>1 DEF NextType
  <2> QED
    BY <2>1 DEF PinInv, LastDest
<1>2. ASSUME NEW p \in Procs, Step(p), ~NextType(p) PROVE PinInv'
  BY <1>2, OthersKeepPinInv
     DEF Step, TimeOut, Wake, Pin, SearchDone, NextTrace, ExemplarsDone, EndAttempt
<1>3. ASSUME NEW p \in Procs, Answer(p) \/ Crash(p) PROVE PinInv'
  BY <1>3, OthersKeepPinInv DEF Answer, Crash, EndAttempt
<1>4. ASSUME NEW p \in Procs, NEW o \in {"transient", "permanent"}, Fail(p, o) PROVE PinInv'
  BY <1>4, OthersKeepPinInv DEF Fail, EndAttempt
<1>5. ASSUME NEW p \in Procs, NEW s \in Services, NEW types \in Types, Profiles(p, s, types)
      PROVE  PinInv'
  BY <1>5, StartKeepsPinInv DEF Profiles
<1>6. ASSUME NEW p \in Procs, NEW s \in Services, NEW n \in Dumps, Traces(p, s, n)
      PROVE  PinInv'
  BY <1>6, StartKeepsPinInv DEF Traces
<1>7. ASSUME NEW p \in Procs, NEW s \in Services, Exemplars(p, s) PROVE PinInv'
  BY <1>7, StartKeepsPinInv DEF Exemplars
<1>8. CASE Local \/ UNCHANGED vars
  BY <1>8, OthersKeepPinInv DEF Local, vars
<1> QED
  BY <1>1, <1>2, <1>3, <1>4, <1>5, <1>6, <1>7, <1>8 DEF Next

\* Only the last step of collect profiles writes the pin.
LEMMA OnlyPinPins ==
  ASSUME [Next]_vars, pin' # pin
  PROVE  \E p \in Procs : Pin(p)
<1>1. ASSUME NEW p \in Procs, Step(p), ~Pin(p) PROVE FALSE
  BY <1>1 DEF Step, TimeOut, Wake, NextType, SearchDone, NextTrace, ExemplarsDone, files
<1>2. ASSUME NEW p \in Procs, Answer(p) \/ Crash(p) PROVE FALSE
  BY <1>2 DEF Answer, Crash
<1>3. ASSUME NEW p \in Procs, NEW o \in {"transient", "permanent"}, Fail(p, o) PROVE FALSE
  BY <1>3 DEF Fail, files
<1>4. ASSUME NEW p \in Procs, NEW s \in Services, NEW types \in Types, Profiles(p, s, types)
      PROVE  FALSE
  BY <1>4 DEF Profiles, Start, files
<1>5. ASSUME NEW p \in Procs, NEW s \in Services, NEW n \in Dumps, Traces(p, s, n)
      PROVE  FALSE
  BY <1>5 DEF Traces, Start, files
<1>6. ASSUME NEW p \in Procs, NEW s \in Services, Exemplars(p, s) PROVE FALSE
  BY <1>6 DEF Exemplars, Start, files
<1>7. CASE Local \/ UNCHANGED vars
  BY <1>7 DEF Local, vars
<1> QED
  BY <1>1, <1>2, <1>3, <1>4, <1>5, <1>6, <1>7 DEF Next

LEMMA PinInvariant == Spec => []PinInv
<1>1. Init => PinInv
  BY DEF Init, PinInv
<1> QED
  BY <1>1, PinNext, PTL DEF Spec

\* The version that is pinned is in a profile which the same command fetched, however
\* many commands collect the same service at once.
THEOREM PinsCorrect == Spec => PinsWhatItFetched
<1>1. PinInv /\ [Next]_vars =>
        (pin' # pin => \E p \in Procs : \E k \in got[p] : profile[svc[p]][k] = pin')
  <2> SUFFICES ASSUME PinInv, [Next]_vars, pin' # pin
               PROVE  \E p \in Procs : \E k \in got[p] : profile[svc[p]][k] = pin'
    OBVIOUS
  <2>1. PICK p \in Procs : Pin(p)
    BY OnlyPinPins
  <2>2. dest[p] # Nil /\ pin' = profile[svc[p]][dest[p]]
    BY <2>1 DEF Pin
  <2>3. dest[p] \in got[p]
    BY <2>2 DEF PinInv
  <2> QED
    BY <2>2, <2>3
<1> QED
  BY <1>1, PinInvariant, PTL DEF Spec, PinsWhatItFetched
-----------------------------------------------------------------------------
(* Sequences of traces.  Slowest and ToFetch, for any search result.        *)

LEMMA Least ==
  ASSUME NEW T \in SUBSET Nat, T # {}
  PROVE  \E m \in T : \A n \in T : m <= n
<1> DEFINE R == {ss \in Nat \X Nat : ss[1] < ss[2]}
<1>1. IsWellFoundedOn(R, Nat)
  BY NatLessThanWellFounded DEF OpToRel
<1>2. \A x, y \in Nat : x < y => <<x, y>> \in R
  OBVIOUS
<1> HIDE DEF R
<1>3. PICK m \in T : \A n \in T : ~ (<<n, m>> \in R)
  BY <1>1, WFMin
<1>4. \A n \in T : ~ (n < m)
  BY <1>2, <1>3
<1> QED
  BY <1>4

\* What is fetched of an order: its ids up to the n-th, or up to one without an id.
LEMMA Fetched ==
  ASSUME NEW order \in Seq(Hits), NEW n \in Nat
  PROVE  \E end \in 1..(Len(order) + 1) :
           /\ ToFetch(order, n) = [i \in 1..(end - 1) |-> order[i].id]
           /\ end > n \/ end = Len(order) + 1 \/ order[end].id = NoId
           /\ \A i \in 1..(end - 1) : i <= n /\ order[i].id # NoId
<1> DEFINE ends == {i \in 1..(Len(order) + 1) :
                      i > n \/ i = Len(order) + 1 \/ order[i].id = NoId}
           end == CHOOSE i \in ends : \A j \in ends : i <= j
<1>1. Len(order) \in Nat /\ Len(order) + 1 \in ends /\ ends \in SUBSET Nat
  OBVIOUS
<1>2. \E m \in ends : \A j \in ends : m <= j
  <2> HIDE DEF ends
  <2> QED
    BY <1>1, Least
<1>3. end \in ends /\ \A j \in ends : end <= j
  <2> HIDE DEF ends
  <2> QED
    BY <1>2
<1>4. ToFetch(order, n) = [i \in 1..(end - 1) |-> order[i].id]
  BY DEF ToFetch
<1> HIDE DEF end
<1>5. \A i \in 1..(end - 1) : i \in 1..(Len(order) + 1) /\ i \notin ends
  BY <1>1, <1>3
<1> QED
  BY <1>1, <1>3, <1>4, <1>5

\* f tells where the hits of an order are in the search result r: every hit is
\* somewhere in the order, none is there twice, and the slower ones are first.
Rearranges(f, r, order) ==
  /\ \A i \in 1..Len(r) : order[i] = r[f[i]]
  /\ \A i, j \in 1..Len(r) : f[i] = f[j] => i = j
  /\ \A i \in 1..Len(r) : \E m \in 1..Len(r) : f[m] = i
  /\ \A i, j \in 1..Len(r) : i < j => r[f[i]].ms >= r[f[j]].ms

\* An order is the search result rearranged.
LEMMA Rearranged ==
  ASSUME NEW r \in Seq(Hits), NEW order \in Slowest(r)
  PROVE  /\ order \in Seq(Hits) /\ Len(order) = Len(r)
         /\ \E f \in [1..Len(r) -> 1..Len(r)] : Rearranges(f, r, order)
<1> DEFINE N == Len(r)
           D == 1..N
<1>1. N \in Nat /\ DOMAIN r = D /\ r \in [D -> Hits]
  OBVIOUS
<1>2. PICK f \in [D -> D] :
        /\ \A i, j \in D : f[i] = f[j] => i = j
        /\ \A i, j \in D : i < j => r[f[i]].ms >= r[f[j]].ms
        /\ order = [i \in D |-> r[f[i]]]
  BY <1>1 DEF Slowest
<1> HIDE DEF N
<1>3. \A i \in D : \E m \in D : f[m] = i
  <2>1. IsFiniteSet(D)
    BY <1>1, FS_Interval
  <2>2. f \in Injection(D, D)
    BY <1>2, Fun_IsInj
  <2> HIDE DEF D
  <2>3. f \in Surjection(D, D)
    BY <2>1, <2>2, FS_Injection
  <2> QED
    BY <2>3, Fun_SurjectionProperties
<1>4. order \in [1..N -> Hits] /\ DOMAIN order = 1..N
  BY <1>1, <1>2
<1>5. order \in Seq(Hits) /\ Len(order) = N
  BY <1>1, <1>4
<1> QED
  BY <1>1, <1>2, <1>3, <1>5 DEF N, Rearranges

\* A hit that is not among what is fetched has n slower ones, or is behind (or is) one
\* without an id.
LEMMA SlowestFetched ==
  ASSUME NEW r \in Seq(Hits), NEW n \in Nat, NEW order \in Slowest(r),
         NEW i \in 1..Len(r),
         \A k \in DOMAIN ToFetch(order, n) : ToFetch(order, n)[k] # r[i].id
  PROVE  LET ahead == {j \in 1..Len(r) \ {i} : r[j].ms >= r[i].ms}
         IN  \/ Cardinality(ahead) >= n
             \/ r[i].id = NoId \/ \E j \in ahead : r[j].id = NoId
<1> DEFINE D == 1..Len(r)
           ahead == {j \in 1..Len(r) \ {i} : r[j].ms >= r[i].ms}
<1>1. order \in Seq(Hits) /\ Len(order) = Len(r) /\ Len(r) \in Nat
  BY Rearranged
<1>2. PICK f \in [1..Len(r) -> 1..Len(r)] : Rearranges(f, r, order)
  BY Rearranged
<1>3. PICK m \in D : f[m] = i
  BY <1>2 DEF Rearranges
<1>4. PICK end \in 1..(Len(order) + 1) :
        /\ ToFetch(order, n) = [k \in 1..(end - 1) |-> order[k].id]
        /\ end > n \/ end = Len(order) + 1 \/ order[end].id = NoId
  BY <1>1, Fetched
<1>5. end <= m
  <2> SUFFICES ASSUME m < end PROVE FALSE
    BY <1>1
  <2>1. m \in 1..(end - 1)
    BY <1>1
  <2>2. order[m] = r[i]
    BY <1>2, <1>3 DEF Rearranges
  <2>3. ToFetch(order, n)[m] = r[i].id /\ m \in DOMAIN ToFetch(order, n)
    BY <2>1, <2>2, <1>4
  <2> QED
    BY <2>3
<1>6. ASSUME NEW k \in D, k < m PROVE f[k] \in ahead
  <2>1. f[k] \in D /\ k # m
    BY <1>1, <1>6
  <2>2. f[k] # f[m]
    BY <1>2, <2>1 DEF Rearranges
  <2>3. r[f[k]].ms >= r[f[m]].ms
    BY <1>2, <1>6 DEF Rearranges
  <2> QED
    BY <2>1, <2>2, <2>3, <1>3
<1>7. CASE end > n
  <2>1. \A k \in 1..n : k \in D /\ k < m
    BY <1>1, <1>5, <1>7
  <2> DEFINE g == [k \in 1..n |-> f[k]]
  <2>2. g \in [1..n -> ahead] /\ \A k, j \in 1..n : g[k] = g[j] => k = j
    BY <1>2, <1>6, <2>1 DEF Rearranges
  <2>3. g \in Injection(1..n, ahead)
    <3> HIDE DEF g, ahead
    <3> QED
      BY <2>2, Fun_IsInj
  <2>4. IsFiniteSet(ahead)
    <3>1. IsFiniteSet(D)
      BY <1>1, FS_Interval
    <3> QED
      BY <3>1, FS_Subset
  <2>5. Cardinality(1..n) <= Cardinality(ahead) /\ Cardinality(1..n) = n
        /\ Cardinality(ahead) \in Nat
    <3> HIDE DEF g, ahead
    <3>1. Cardinality(1..n) <= Cardinality(ahead)
      BY <2>3, <2>4, FS_Injection
    <3>2. Cardinality(1..n) = n
      BY FS_Interval
    <3> QED
      BY <3>1, <3>2, <2>4, FS_CardinalityType
  <2> QED
    BY <2>5
<1>8. CASE order[end].id = NoId
  <2>1. end \in D
    BY <1>1, <1>5
  <2>2. r[f[end]].id = NoId
    BY <1>2, <1>8, <2>1 DEF Rearranges
  <2>3. CASE end = m
    BY <2>2, <2>3, <1>3
  <2>4. CASE end < m
    BY <1>6, <2>1, <2>2, <2>4
  <2> QED
    BY <1>5, <2>3, <2>4
<1> QED
  BY <1>1, <1>4, <1>5, <1>7, <1>8
-----------------------------------------------------------------------------
(* Types.  What is written to which file depends on the command and on what *)
(* it asks: so the types rest on where each command stands in its queries. *)

Cmds == {"profiles", "traces", "exemplars"}
Asking == {"call", "sleep", "back"}

\* A query of collect profiles, and the kinds that are to be asked for after it.
KindQueries ==
  {<<"cpu", <<"alloc", "inuse">>>>, <<"alloc", <<"inuse">>>>, <<"inuse", << >>>>,
   <<"profile", << >>>>, <<"cpu", << >>>>}

\* A command c that is at a program point asks for q, and for rest after it.
Asks(at, c, q, rest) ==
  /\ at # "idle" => c \in Cmds
  /\ at \in Asking /\ c = "profiles" => <<q, rest>> \in KindQueries
  /\ at \in Asking /\ c = "traces" =>
       q = "search" \/ (q \in TraceIds /\ rest \in Seq(TraceIds))
  /\ at \in Asking /\ c = "exemplars" => q = "exemplars"
  /\ at = "pin" => c = "profiles"

StandInv ==
  /\ pc \in [Procs -> PCs] /\ cmd \in [Procs -> Cmds \cup {Nil}]
  /\ hits \in [Procs -> Seq(Hits)] /\ dump \in [Procs -> Nat]
  /\ DOMAIN ask = Procs /\ DOMAIN todo = Procs /\ DOMAIN result = Procs
  /\ \A p \in Procs : Asks(pc[p], cmd[p], ask[p], todo[p])

\* Only the command that moves is elsewhere afterwards.
LEMMA OneStands ==
  ASSUME StandInv, NEW p \in Procs, NEW at \in PCs, NEW c \in Cmds, NEW q, NEW rest,
         pc' = [pc EXCEPT ![p] = at], cmd' = [cmd EXCEPT ![p] = c],
         ask' = [ask EXCEPT ![p] = q], todo' = [todo EXCEPT ![p] = rest],
         Asks(at, c, q, rest), hits' \in [Procs -> Seq(Hits)], dump' \in [Procs -> Nat],
         DOMAIN result' = Procs
  PROVE  StandInv'
BY DEF StandInv

LEMMA HeadTails ==
  /\ \A a : Head(<<a>>) = a /\ Tail(<<a>>) = << >>
  /\ \A a, b : Head(<<a, b>>) = a /\ Tail(<<a, b>>) = <<b>>
  /\ \A a, b, c : Head(<<a, b, c>>) = a /\ Tail(<<a, b, c>>) = <<b, c>>
OBVIOUS

\* A command goes to a place where what it asked does not matter, or stays with it.
LEMMA SameQuery ==
  ASSUME StandInv, NEW p \in Procs, NEW at \in PCs, pc' = [pc EXCEPT ![p] = at],
         UNCHANGED <<cmd, ask, todo, dump>>, hits' \in [Procs -> Seq(Hits)],
         DOMAIN result' = Procs,
         Asks(at, cmd[p], ask[p], todo[p])
  PROVE  StandInv'
BY DEF StandInv

LEMMA AttemptStands ==
  ASSUME StandInv, NEW p \in Procs, NEW o, EndAttempt(p, o),
         hits' \in [Procs -> Seq(Hits)]
  PROVE  StandInv'
<1>1. PICK at \in {"back", "sleep"} : pc' = [pc EXCEPT ![p] = at]
  BY DEF EndAttempt
<1>2. pc[p] = "call" /\ UNCHANGED <<cmd, ask, todo, dump, result>> /\ at \in PCs
  BY DEF EndAttempt, PCs
<1>3. Asks(at, cmd[p], ask[p], todo[p])
  BY <1>2 DEF StandInv, Asks, Asking
<1> QED
  BY <1>1, <1>2, <1>3, SameQuery DEF StandInv

LEMMA ReturnStands ==
  ASSUME StandInv, NEW p \in Procs, pc[p] # "idle", NEW r, Return(p, r),
         UNCHANGED <<cmd, dump, hits>>
  PROVE  StandInv'
<1>1. Asks("done", cmd[p], ask[p], todo[p]) /\ "done" \in PCs
  BY DEF StandInv, Asks, Asking, PCs
<1>2. DOMAIN result' = Procs
  BY DEF Return, StandInv
<1> QED
  BY <1>1, <1>2, SameQuery DEF Return, StandInv

LEMMA QueryStands ==
  ASSUME StandInv, NEW p \in Procs, NEW c \in Cmds, NEW q, NEW rest, Query(p, q, rest),
         cmd' = [cmd EXCEPT ![p] = c], Asks("call", c, q, rest),
         hits' \in [Procs -> Seq(Hits)], dump' \in [Procs -> Nat], DOMAIN result' = Procs
  PROVE  StandInv'
BY OneStands DEF Query, PCs

\* Every query but a command's first leaves the command and its hits alone.
LEMMA NextQueryStands ==
  ASSUME StandInv, NEW p \in Procs, pc[p] # "idle", NEW q, NEW rest, Query(p, q, rest),
         UNCHANGED <<cmd, dump, hits, result>>, Asks("call", cmd[p], q, rest)
  PROVE  StandInv'
<1>1. cmd[p] \in Cmds /\ cmd' = [cmd EXCEPT ![p] = cmd[p]]
  BY DEF StandInv, Asks
<1> QED
  BY <1>1, QueryStands DEF StandInv

\* The ids that are fetched are ids of traces.
LEMMA FetchedIds ==
  ASSUME NEW r \in Seq(Hits), NEW order \in Slowest(r), NEW n \in Nat
  PROVE  ToFetch(order, n) \in Seq(TraceIds)
<1>1. order \in Seq(Hits) /\ Len(order) \in Nat
  BY Rearranged
<1>2. PICK end \in 1..(Len(order) + 1) :
        /\ ToFetch(order, n) = [i \in 1..(end - 1) |-> order[i].id]
        /\ end > n \/ end = Len(order) + 1 \/ order[end].id = NoId
        /\ \A i \in 1..(end - 1) : i <= n /\ order[i].id # NoId
  BY <1>1, Fetched
<1>3. \A i \in 1..(end - 1) : order[i] \in Hits
  BY <1>1
<1>4. \A i \in 1..(end - 1) : order[i].id \in TraceIds
  BY <1>2, <1>3 DEF Hits
<1>5. end - 1 \in Nat
  BY <1>1
<1> QED
  BY <1>2, <1>4, <1>5

LEMMA FetchStands ==
  ASSUME StandInv, NEW p \in Procs, pc[p] = "back", cmd[p] = "traces",
         NEW ids \in Seq(TraceIds), Fetch(p, ids), UNCHANGED <<cmd, dump, hits>>
  PROVE  StandInv'
<1>1. CASE ids # << >> /\ Query(p, Head(ids), Tail(ids)) /\ UNCHANGED result
  <2>1. Head(ids) \in TraceIds /\ Tail(ids) \in Seq(TraceIds)
    BY <1>1
  <2>2. Asks("call", cmd[p], Head(ids), Tail(ids))
    BY <2>1 DEF Asks, Cmds
  <2> QED
    BY <1>1, <2>2, NextQueryStands
<1>2. CASE Return(p, "ok")
  BY <1>2, ReturnStands
<1> QED
  BY <1>1, <1>2 DEF Fetch

LEMMA StandNext ==
  ASSUME StandInv, [Next]_vars
  PROVE  StandInv'
<1> USE CollectAssumption
<1>0. \A p \in Procs : pc[p] \in PCs /\ (pc[p] # "idle" => cmd[p] \in Cmds)
  BY DEF StandInv, Asks
<1>1. ASSUME NEW p \in Procs, Step(p) PROVE StandInv'
  <2>1. CASE TimeOut(p)
    BY <2>1, AttemptStands DEF TimeOut, StandInv
  <2>2. CASE Wake(p)
    <3>1. Asks("call", cmd[p], ask[p], todo[p]) /\ "call" \in PCs
      BY <2>2 DEF Wake, StandInv, Asks, Asking, PCs
    <3> QED
      BY <2>2, <3>1, SameQuery DEF Wake, StandInv
  <2>3. CASE NextType(p)
    <3>1. pc[p] = "back" /\ cmd[p] = "profiles" /\ UNCHANGED <<cmd, dump, hits, result>>
      BY <2>3 DEF NextType
    <3>2. <<ask[p], todo[p]>> \in KindQueries
      BY <3>1 DEF StandInv, Asks, Asking
    <3>3. CASE todo[p] # << >> /\ Query(p, Head(todo[p]), Tail(todo[p]))
      <4>1. \/ todo[p] = <<"alloc", "inuse">>
            \/ todo[p] = <<"inuse">>
        BY <3>2, <3>3 DEF KindQueries
      <4>2. \/ Head(todo[p]) = "alloc" /\ Tail(todo[p]) = <<"inuse">>
            \/ Head(todo[p]) = "inuse" /\ Tail(todo[p]) = << >>
        BY <4>1, HeadTails, Zenon
      <4>3. <<Head(todo[p]), Tail(todo[p])>> \in KindQueries
        BY <4>2, Zenon DEF KindQueries
      <4>4. Asks("call", cmd[p], Head(todo[p]), Tail(todo[p]))
        BY <3>1, <4>3 DEF Asks, Cmds
      <4> QED
        BY <3>1, <3>3, <4>4, NextQueryStands
    <3>4. CASE pc' = [pc EXCEPT ![p] = "pin"] /\ UNCHANGED <<ask, todo, tries>>
      <4>1. Asks("pin", cmd[p], ask[p], todo[p]) /\ "pin" \in PCs
        BY <3>1 DEF Asks, Asking, Cmds, PCs
      <4> QED
        BY <3>1, <3>4, <4>1, SameQuery DEF StandInv
    <3> QED
      BY <2>3, <3>3, <3>4 DEF NextType
  <2>4. CASE Pin(p)
    <3>1. pc[p] # "idle" /\ UNCHANGED <<cmd, dump, hits>>
      BY <2>4 DEF Pin
    <3> QED
      BY <2>4, <3>1, ReturnStands DEF Pin
  <2>5. CASE SearchDone(p)
    <3>1. pc[p] = "back" /\ ask[p] = "search" /\ UNCHANGED <<cmd, dump, hits>>
      BY <2>5 DEF SearchDone
    <3>2. cmd[p] = "traces"
      BY <1>0, <3>1 DEF StandInv, Asks, Asking, KindQueries, Cmds
    <3>3. CASE Return(p, "error")
      BY <3>1, <3>3, ReturnStands
    <3>4. ASSUME NEW order \in Slowest(hits[p]), Fetch(p, ToFetch(order, dump[p]))
          PROVE  StandInv'
      <4>1. ToFetch(order, dump[p]) \in Seq(TraceIds)
        BY FetchedIds DEF StandInv
      <4> QED
        BY <3>1, <3>2, <3>4, <4>1, FetchStands
    <3> QED
      BY <2>5, <3>3, <3>4 DEF SearchDone
  <2>6. CASE NextTrace(p)
    <3>1. pc[p] = "back" /\ cmd[p] = "traces" /\ ask[p] # "search" /\ Fetch(p, todo[p])
          /\ UNCHANGED <<cmd, dump, hits>>
      BY <2>6 DEF NextTrace, Remaining
    <3>2. todo[p] \in Seq(TraceIds)
      BY <3>1 DEF StandInv, Asks, Asking
    <3> QED
      BY <3>1, <3>2, FetchStands
  <2>7. CASE ExemplarsDone(p)
    <3>1. pc[p] # "idle" /\ UNCHANGED <<cmd, dump, hits>>
      BY <2>7 DEF ExemplarsDone
    <3> QED
      BY <2>7, <3>1, ReturnStands DEF ExemplarsDone
  <2> QED
    BY <1>1, <2>1, <2>2, <2>3, <2>4, <2>5, <2>6, <2>7 DEF Step
<1>2. ASSUME NEW p \in Procs, Answer(p) PROVE StandInv'
  <2>1. hits' \in [Procs -> Seq(Hits)]
    BY <1>2 DEF Answer, StandInv
  <2> QED
    BY <1>2, <2>1, AttemptStands DEF Answer
<1>3. ASSUME NEW p \in Procs, Crash(p) PROVE StandInv'
  <2>1. Asks("idle", cmd[p], ask[p], todo[p]) /\ "idle" \in PCs
    BY DEF Asks, Asking, PCs
  <2> QED
    BY <1>3, <2>1, SameQuery DEF Crash, StandInv
<1>4. ASSUME NEW p \in Procs, NEW o \in {"transient", "permanent"}, Fail(p, o) PROVE StandInv'
  BY <1>4, AttemptStands DEF Fail, StandInv
<1>5. ASSUME NEW p \in Procs, NEW c \in Cmds, NEW s, NEW q, NEW rest, Start(p, c, s),
             Query(p, q, rest), Asks("call", c, q, rest), dump' \in [Procs -> Nat]
      PROVE  StandInv'
  <2>1. hits' \in [Procs -> Seq(Hits)] /\ DOMAIN result' = Procs
        /\ cmd' = [cmd EXCEPT ![p] = c]
    BY <1>5 DEF Start, StandInv
  <2> QED
    BY <1>5, <2>1, QueryStands
<1>6. ASSUME NEW p \in Procs, NEW s \in Services, NEW types \in Types, Profiles(p, s, types)
      PROVE  StandInv'
  <2>0. \/ Head(types) = "cpu" /\ Tail(types) = <<"alloc", "inuse">>
        \/ Head(types) = "profile" /\ Tail(types) = << >>
        \/ Head(types) = "cpu" /\ Tail(types) = << >>
    <3>1. types = <<"cpu", "alloc", "inuse">> \/ types = <<"profile">> \/ types = <<"cpu">>
      BY DEF Types
    <3>2. /\ Head(<<"cpu", "alloc", "inuse">>) = "cpu"
          /\ Tail(<<"cpu", "alloc", "inuse">>) = <<"alloc", "inuse">>
      BY HeadTails
    <3>3. \A k : Head(<<k>>) = k /\ Tail(<<k>>) = << >>
      BY HeadTails
    <3> QED
      BY <3>1, <3>2, <3>3, Zenon
  <2>1. <<Head(types), Tail(types)>> \in KindQueries
    BY <2>0, Zenon DEF KindQueries
  <2>2. Asks("call", "profiles", Head(types), Tail(types)) /\ "profiles" \in Cmds
    BY <2>1 DEF Asks, Cmds
  <2> QED
    BY <1>5, <1>6, <2>2 DEF Profiles, StandInv
<1>7. ASSUME NEW p \in Procs, NEW s \in Services, NEW n \in Dumps, Traces(p, s, n)
      PROVE  StandInv'
  <2>1. Asks("call", "traces", "search", << >>) /\ "traces" \in Cmds
    BY DEF Asks, Cmds
  <2>2. dump' \in [Procs -> Nat]
    BY <1>7 DEF Traces, StandInv
  <2> QED
    BY <1>5, <1>7, <2>1, <2>2 DEF Traces
<1>8. ASSUME NEW p \in Procs, NEW s \in Services, Exemplars(p, s) PROVE StandInv'
  <2>1. Asks("call", "exemplars", "exemplars", << >>) /\ "exemplars" \in Cmds
    BY DEF Asks, Cmds
  <2> QED
    BY <1>5, <1>8, <2>1 DEF Exemplars, StandInv
<1>9. CASE Local \/ UNCHANGED vars
  BY <1>9 DEF Local, vars, StandInv
<1> QED
  BY <1>1, <1>2, <1>3, <1>4, <1>6, <1>7, <1>8, <1>9 DEF Next

\* The types of what StandInv and RetryInv do not speak of.
FileTypes ==
  /\ profile \in [Services -> [Kinds -> Files]]
  /\ exemplars \in [Services -> {"some", "empty", Nil}]
  /\ search \in {"some", "empty", Nil} /\ traces \subseteq TraceIds
  /\ localProfs \in {"some", Nil} /\ pin \in Versions \cup {Nil}
  /\ svc \in [Procs -> Services] /\ dest \in [Procs -> Kinds \cup {Nil}]

LEMMA AskedKind ==
  ASSUME StandInv, NEW p \in Procs, pc[p] \in Asking, cmd[p] = "profiles"
  PROVE  ask[p] \in Kinds
<1>1. <<ask[p], todo[p]>> \in KindQueries
  BY DEF StandInv, Asks
<1>2. ask[p] \in {"cpu", "alloc", "inuse", "profile"}
  BY <1>1 DEF KindQueries
<1> QED
  BY <1>2 DEF Kinds

LEMMA WriteTypes ==
  ASSUME FileTypes, StandInv, NEW p \in Procs, pc[p] = "call", NEW c \in Files, Writes(p, c)
  PROVE  profile' \in [Services -> [Kinds -> Files]]
<1>1. CASE cmd[p] = "profiles"
  <2>1. ask[p] \in Kinds
    BY <1>1, AskedKind DEF Asking
  <2>2. svc[p] \in Services /\ profile[svc[p]] \in [Kinds -> Files]
    BY DEF FileTypes
  <2>3. [profile[svc[p]] EXCEPT ![ask[p]] = c] \in [Kinds -> Files]
    BY <2>1, <2>2
  <2>4. profile' = [profile EXCEPT ![svc[p]] = [profile[svc[p]] EXCEPT ![ask[p]] = c]]
    BY <1>1, <2>2 DEF Writes, FileTypes
  <2> QED
    BY <2>2, <2>3, <2>4 DEF FileTypes
<1> QED
  BY <1>1 DEF Writes, FileTypes

LEMMA InterruptTypes ==
  ASSUME FileTypes, StandInv, NEW p \in Procs, pc[p] = "call", Interrupted(p)
  PROVE  profile' \in [Services -> [Kinds -> Files]]
<1>1. \A c \in Contents \cup {"torn"} : c \in Files
  BY DEF Files
<1> QED
  BY <1>1, WriteTypes DEF Interrupted, FileTypes

LEMMA StartTypes ==
  ASSUME FileTypes, NEW p \in Procs, NEW c, NEW s \in Services, Start(p, c, s)
  PROVE  FileTypes'
BY DEF Start, files, FileTypes

LEMMA FileNext ==
  ASSUME FileTypes, StandInv, [Next]_vars
  PROVE  FileTypes'
<1> USE CollectAssumption
<1>1. ASSUME NEW p \in Procs, Step(p) PROVE FileTypes'
  <2>1. CASE TimeOut(p)
    <3>1. pc[p] = "call" /\ UNCHANGED <<svc, dest>>
      BY <2>1 DEF TimeOut, EndAttempt
    <3>2. profile' \in [Services -> [Kinds -> Files]]
      BY <2>1, <3>1, InterruptTypes DEF TimeOut
    <3> QED
      BY <2>1, <3>1, <3>2 DEF TimeOut, FileTypes
  <2>2. CASE Wake(p)
    BY <2>2 DEF Wake, files, FileTypes
  <2>3. CASE NextType(p)
    <3>1. ask[p] \in Kinds
      BY <2>3, AskedKind DEF NextType, Asking
    <3> QED
      BY <2>3, <3>1 DEF NextType, files, FileTypes, LastDest
  <2>4. CASE Pin(p)
    BY <2>4 DEF Pin, FileTypes
  <2>5. CASE SearchDone(p)
    BY <2>5 DEF SearchDone, FileTypes
  <2>6. CASE NextTrace(p)
    <3>1. ask[p] \in TraceIds
      BY <2>6 DEF NextTrace, StandInv, Asks, Asking
    <3> QED
      BY <2>6, <3>1 DEF NextTrace, FileTypes
  <2>7. CASE ExemplarsDone(p)
    <3>1. exemplars' \in [Services -> {"some", "empty", Nil}]
      BY <2>7 DEF ExemplarsDone, FileTypes
    <3> QED
      BY <2>7, <3>1 DEF ExemplarsDone, FileTypes
  <2> QED
    BY <1>1, <2>1, <2>2, <2>3, <2>4, <2>5, <2>6, <2>7 DEF Step
<1>2. ASSUME NEW p \in Procs, Answer(p) PROVE FileTypes'
  <2>1. PICK c \in Contents : Writes(p, c)
    BY <1>2 DEF Answer
  <2>2. pc[p] = "call" /\ UNCHANGED <<svc, dest>> /\ c \in Files
    BY <1>2 DEF Answer, EndAttempt, Files
  <2>3. profile' \in [Services -> [Kinds -> Files]]
    BY <2>1, <2>2, WriteTypes
  <2> QED
    BY <1>2, <2>2, <2>3 DEF Answer, FileTypes
<1>3. ASSUME NEW p \in Procs, Crash(p) PROVE FileTypes'
  <2>1. profile' \in [Services -> [Kinds -> Files]]
    BY <1>3, InterruptTypes DEF Crash, FileTypes
  <2> QED
    BY <1>3, <2>1 DEF Crash, FileTypes
<1>4. ASSUME NEW p \in Procs, NEW o \in {"transient", "permanent"}, Fail(p, o) PROVE FileTypes'
  BY <1>4 DEF Fail, EndAttempt, files, FileTypes
<1>5. ASSUME NEW p \in Procs, NEW s \in Services, NEW types \in Types, Profiles(p, s, types)
      PROVE  FileTypes'
  BY <1>5, StartTypes DEF Profiles
<1>6. ASSUME NEW p \in Procs, NEW s \in Services, NEW n \in Dumps, Traces(p, s, n)
      PROVE  FileTypes'
  BY <1>6, StartTypes DEF Traces
<1>7. ASSUME NEW p \in Procs, NEW s \in Services, Exemplars(p, s) PROVE FileTypes'
  BY <1>7, StartTypes DEF Exemplars
<1>8. CASE Local \/ UNCHANGED vars
  BY <1>8 DEF Local, vars, FileTypes
<1> QED
  BY <1>1, <1>2, <1>3, <1>4, <1>5, <1>6, <1>7, <1>8 DEF Next

TypeInv == RetryInv /\ StandInv /\ FileTypes

LEMMA TypeInit ==
  ASSUME Init
  PROVE  TypeInv
<1>1. RetryInv
  BY DEF Init, RetryInv, RetryTypes, RetriesJustified, JustifiedTries, PCs
<1>2. StandInv
  BY DEF Init, StandInv, Asks, Asking, PCs
<1>3. FileTypes
  BY DEF Init, FileTypes, Files
<1> QED
  BY <1>1, <1>2, <1>3 DEF TypeInv

LEMMA TypeInvariant == Spec => []TypeInv
<1>1. Init => TypeInv
  BY TypeInit
<1>2. TypeInv /\ [Next]_vars => TypeInv'
  BY RetryNext, StandNext, FileNext DEF TypeInv
<1> QED
  BY <1>1, <1>2, PTL DEF Spec

\* Every file has contents that gcx or the command may write there, whatever is
\* killed or interleaved: what gcx writes is a profile of one of the four kinds, what
\* is dumped has the id of a trace.
THEOREM TypeCorrect == Spec => []TypeOK
<1>1. TypeInv => TypeOK
  BY DEF TypeInv, RetryInv, RetryTypes, FileTypes, TypeOK, PCs
<1> QED
  BY <1>1, TypeInvariant, PTL
-----------------------------------------------------------------------------
(* What collect profiles answers, from what it fetched.                     *)

\* The kinds that a collection of all three asks for before k.
Before(k) == IF k = "alloc" THEN {"cpu"} ELSE IF k = "inuse" THEN {"cpu", "alloc"} ELSE {}

\* A file is remembered when one was fetched, and then the command succeeds.
Answers(at, r, d, g) ==
  /\ d = Nil <=> g = {}
  /\ at = "done" => (r = "error" <=> d = Nil) /\ r \in {"ok", "error"}

AnswerInv ==
  /\ DOMAIN dest = Procs /\ DOMAIN got = Procs /\ DOMAIN result = Procs
  /\ \A p \in Procs : pc[p] # "idle" /\ cmd[p] = "profiles" =>
       /\ Answers(pc[p], result[p], dest[p], got[p])
       /\ pc[p] \in Asking => got[p] \subseteq Before(ask[p])

\* A command that only moves on keeps what it has.
LEMMA MovesOn ==
  ASSUME StandInv, AnswerInv, NEW p \in Procs, NEW at \in PCs, pc' = [pc EXCEPT ![p] = at],
         at \in {"idle", "done"} \/ pc[p] \in Asking,
         UNCHANGED <<cmd, ask, dest, got>>, DOMAIN result' = Procs,
         \A q \in Procs \ {p} : result'[q] = result[q],
         at \in {"call", "sleep", "back", "idle"} \/ cmd[p] # "profiles"
  PROVE  AnswerInv'
BY DEF StandInv, AnswerInv, Answers, Asking, PCs

LEMMA StartKeepsAnswers ==
  ASSUME StandInv, AnswerInv, NEW p \in Procs, NEW c, NEW s, Start(p, c, s), NEW q, NEW rest,
         Query(p, q, rest)
  PROVE  AnswerInv'
<1>1. /\ cmd' = [cmd EXCEPT ![p] = c] /\ dest' = [dest EXCEPT ![p] = Nil]
      /\ result' = [result EXCEPT ![p] = Nil] /\ got' = [got EXCEPT ![p] = {}]
      /\ pc' = [pc EXCEPT ![p] = "call"] /\ ask' = [ask EXCEPT ![p] = q]
  BY DEF Start, Query
<1> QED
  BY <1>1 DEF StandInv, AnswerInv, Answers

\* A trace command asks and returns without touching what a collection has.
LEMMA OtherQuery ==
  ASSUME StandInv, AnswerInv, NEW p \in Procs, cmd[p] # "profiles", NEW q, NEW rest,
         Query(p, q, rest), UNCHANGED <<cmd, dest, got, result>>
  PROVE  AnswerInv'
BY DEF Query, StandInv, AnswerInv

LEMMA OtherReturn ==
  ASSUME StandInv, AnswerInv, NEW p \in Procs, cmd[p] # "profiles", NEW r,
         Return(p, r), UNCHANGED <<cmd, dest, got>>
  PROVE  AnswerInv'
BY DEF Return, StandInv, AnswerInv

LEMMA FetchKeepsAnswers ==
  ASSUME StandInv, AnswerInv, NEW p \in Procs, cmd[p] # "profiles", NEW ids,
         Fetch(p, ids), UNCHANGED <<cmd, dest, got>>
  PROVE  AnswerInv'
BY OtherQuery, OtherReturn DEF Fetch

\* The kind asked for after k comes after k and what came before it.
LEMMA AskedInOrder ==
  ASSUME StandInv, NEW p \in Procs, pc[p] = "back", cmd[p] = "profiles", todo[p] # << >>
  PROVE  Before(ask[p]) \cup {ask[p]} \subseteq Before(Head(todo[p]))
<1>1. <<ask[p], todo[p]>> \in KindQueries
  BY DEF StandInv, Asks, Asking
<1>2. \/ ask[p] = "cpu" /\ todo[p] = <<"alloc", "inuse">>
      \/ ask[p] = "alloc" /\ todo[p] = <<"inuse">>
  BY <1>1 DEF KindQueries
<1>3. \/ ask[p] = "cpu" /\ Head(todo[p]) = "alloc"
      \/ ask[p] = "alloc" /\ Head(todo[p]) = "inuse"
  BY <1>2, HeadTails, Zenon
<1> QED
  BY <1>3 DEF Before

LEMMA NextTypeKeepsAnswers ==
  ASSUME StandInv, AnswerInv, NEW p \in Procs, NextType(p)
  PROVE  AnswerInv'
<1> USE CollectAssumption
<1>1. pc[p] = "back" /\ cmd[p] = "profiles" /\ UNCHANGED <<cmd, result>>
      /\ ask[p] \in Kinds /\ ask[p] # Nil
  BY AskedKind DEF NextType, Asking
<1>2. dest' = [dest EXCEPT ![p] = LastDest(p)]
      /\ got' = [got EXCEPT ![p] = IF Succeeded(p) THEN @ \cup {ask[p]} ELSE @]
  BY DEF NextType
<1>3. (dest[p] = Nil <=> got[p] = {}) /\ got[p] \subseteq Before(ask[p])
  BY <1>1 DEF AnswerInv, Answers, Asking
<1>4. dest'[p] = Nil <=> got'[p] = {}
  BY <1>1, <1>2, <1>3 DEF AnswerInv, LastDest
<1>5. CASE todo[p] # << >> /\ Query(p, Head(todo[p]), Tail(todo[p]))
  <2>1. got'[p] \subseteq Before(Head(todo[p]))
    BY <1>1, <1>2, <1>3, <1>5, AskedInOrder DEF AnswerInv
  <2>2. pc' = [pc EXCEPT ![p] = "call"] /\ ask' = [ask EXCEPT ![p] = Head(todo[p])]
    BY <1>5 DEF Query
  <2>3. \A q \in Procs \ {p} : dest'[q] = dest[q] /\ got'[q] = got[q] /\ ask'[q] = ask[q]
                               /\ pc'[q] = pc[q]
    BY <1>2, <2>2 DEF AnswerInv, StandInv
  <2>4. pc'[p] = "call" /\ ask'[p] = Head(todo[p]) /\ DOMAIN dest' = Procs
        /\ DOMAIN got' = Procs
    BY <1>2, <2>2 DEF AnswerInv, StandInv
  <2> QED
    BY <1>1, <1>4, <2>1, <2>3, <2>4 DEF AnswerInv, Answers
<1>6. CASE pc' = [pc EXCEPT ![p] = "pin"] /\ UNCHANGED ask
  <2>1. \A q \in Procs \ {p} : dest'[q] = dest[q] /\ got'[q] = got[q] /\ pc'[q] = pc[q]
    BY <1>2, <1>6 DEF AnswerInv, StandInv
  <2>2. pc'[p] = "pin" /\ DOMAIN dest' = Procs /\ DOMAIN got' = Procs
    BY <1>2, <1>6 DEF AnswerInv, StandInv
  <2> QED
    BY <1>1, <1>4, <1>6, <2>1, <2>2 DEF AnswerInv, Answers, Asking
<1> QED
  BY <1>5, <1>6 DEF NextType

LEMMA AnswerNext ==
  ASSUME StandInv, AnswerInv, [Next]_vars
  PROVE  AnswerInv'
<1>0. ASSUME NEW p \in Procs, NEW o, EndAttempt(p, o) PROVE AnswerInv'
  <2>1. PICK at \in {"back", "sleep"} : pc' = [pc EXCEPT ![p] = at]
    BY <1>0 DEF EndAttempt
  <2>2. pc[p] \in Asking /\ UNCHANGED <<cmd, ask, dest, got, result>> /\ at \in PCs
    BY <1>0 DEF EndAttempt, PCs, Asking
  <2> QED
    BY <2>1, <2>2, MovesOn DEF StandInv
<1>1. ASSUME NEW p \in Procs, Step(p) PROVE AnswerInv'
  <2>1. CASE TimeOut(p)
    BY <2>1, <1>0 DEF TimeOut
  <2>2. CASE Wake(p)
    BY <2>2, MovesOn DEF Wake, StandInv, PCs, Asking
  <2>3. CASE NextType(p)
    BY <2>3, NextTypeKeepsAnswers
  <2>4. CASE Pin(p)
    <3>1. cmd[p] = "profiles" /\ pc[p] = "pin" /\ UNCHANGED <<cmd, ask, dest, got>>
          /\ \E r \in {"ok", "error"} : (r = "error" <=> dest[p] = Nil) /\ Return(p, r)
      BY <2>4 DEF Pin, StandInv, Asks, Return
    <3> QED
      BY <3>1 DEF Return, StandInv, AnswerInv, Answers, Asking
  <2>5. CASE SearchDone(p)
    <3>1. cmd[p] # "profiles" /\ UNCHANGED <<cmd, dest, got>>
      BY <2>5 DEF SearchDone, StandInv, Asks, Asking, KindQueries
    <3> QED
      BY <2>5, <3>1, OtherReturn, FetchKeepsAnswers DEF SearchDone
  <2>6. CASE NextTrace(p)
    BY <2>6, FetchKeepsAnswers DEF NextTrace
  <2>7. CASE ExemplarsDone(p)
    <3>1. cmd[p] # "profiles" /\ UNCHANGED <<cmd, dest, got>>
      BY <2>7 DEF ExemplarsDone, StandInv, Asks, Asking, KindQueries
    <3> QED
      BY <2>7, <3>1, OtherReturn DEF ExemplarsDone
  <2> QED
    BY <1>1, <2>1, <2>2, <2>3, <2>4, <2>5, <2>6, <2>7 DEF Step
<1>2. ASSUME NEW p \in Procs, Answer(p) PROVE AnswerInv'
  BY <1>2, <1>0 DEF Answer
<1>3. ASSUME NEW p \in Procs, Crash(p) PROVE AnswerInv'
  BY <1>3, MovesOn DEF Crash, StandInv, PCs
<1>4. ASSUME NEW p \in Procs, NEW o \in {"transient", "permanent"}, Fail(p, o) PROVE AnswerInv'
  BY <1>4, <1>0 DEF Fail
<1>5. ASSUME NEW p \in Procs, NEW s \in Services, NEW types \in Types, Profiles(p, s, types)
      PROVE  AnswerInv'
  BY <1>5, StartKeepsAnswers DEF Profiles
<1>6. ASSUME NEW p \in Procs, NEW s \in Services, NEW n \in Dumps, Traces(p, s, n)
      PROVE  AnswerInv'
  BY <1>6, StartKeepsAnswers DEF Traces
<1>7. ASSUME NEW p \in Procs, NEW s \in Services, Exemplars(p, s) PROVE AnswerInv'
  BY <1>7, StartKeepsAnswers DEF Exemplars
<1>8. CASE Local \/ UNCHANGED vars
  BY <1>8 DEF Local, vars, AnswerInv
<1> QED
  BY <1>1, <1>2, <1>3, <1>4, <1>5, <1>6, <1>7, <1>8 DEF Next
-----------------------------------------------------------------------------
(* The files of a collection.  G is what a profile that was fetched still   *)
(* is: a whole one if there is one command at a time; else just not absent, *)
(* for another collection of the service may be killed while gcx writes.    *)

Good(G) == Contents \subseteq G /\ ("torn" \in G \/ \A p, q \in Procs : p = q)

\* The files of the kinds that p fetched, and of the one that it has just asked for.
HasFiles(p, G) == pc[p] # "idle" /\ cmd[p] = "profiles" =>
  /\ \A k \in got[p] : k \in Kinds /\ profile[svc[p]][k] \in G
  /\ pc[p] = "back" /\ Succeeded(p) => profile[svc[p]][ask[p]] \in G

FileInv(G) == \A p \in Procs : HasFiles(p, G)

\* gcx writes one file at most, that of the service and kind it was asked for.
OneFile(p) == \A s \in Services, k \in Kinds :
  \/ profile'[s][k] = profile[s][k]
  \/ s = svc[p] /\ k = ask[p] /\ profile'[s][k] \in Contents \cup {"torn"}

LEMMA WritesOneFile ==
  ASSUME FileTypes, NEW p \in Procs, NEW c \in Contents \cup {"torn"}, Writes(p, c)
  PROVE  OneFile(p)
BY DEF Writes, FileTypes, OneFile

LEMMA InterruptedOneFile ==
  ASSUME FileTypes, NEW p \in Procs, Interrupted(p)
  PROVE  OneFile(p)
<1>1. CASE UNCHANGED profile
  BY <1>1 DEF OneFile
<1>2. CASE \E c \in Contents \cup {"torn"} : Writes(p, c)
  BY <1>2, WritesOneFile
<1> QED
  BY <1>1, <1>2 DEF Interrupted

\* What the commands have is still good while gcx writes for p.
LEMMA OthersKeepFiles ==
  ASSUME TypeInv, AnswerInv, NEW G, Good(G), FileInv(G),
         NEW p \in Procs, pc[p] = "call", OneFile(p),
         NEW q \in Procs, pc[q] # "idle", cmd[q] = "profiles", NEW k \in Kinds,
         profile[svc[q]][k] \in G, k \in got[q] \/ q # p
  PROVE  profile'[svc[q]][k] \in G
<1>1. svc[q] \in Services
  BY DEF TypeInv, FileTypes
<1>2. CASE q # p
  <2>1. Contents \cup {"torn"} \subseteq G
    BY <1>2 DEF Good
  <2> QED
    BY <1>1, <2>1 DEF OneFile
<1>3. CASE q = p /\ k \in got[q]
  <2>1. k # ask[p]
    BY <1>3 DEF AnswerInv, Before, Asking
  <2> QED
    BY <1>1, <1>3, <2>1 DEF OneFile
<1> QED
  BY <1>2, <1>3

LEMMA AttemptKeepsFiles ==
  ASSUME TypeInv, AnswerInv, NEW G, Good(G), FileInv(G),
         NEW p \in Procs, NEW o \in Outcomes, EndAttempt(p, o), OneFile(p),
         o = "ok" /\ cmd[p] = "profiles" => profile'[svc[p]][ask[p]] \in Contents
  PROVE  FileInv(G)'
<1>1. /\ pc[p] = "call" /\ UNCHANGED <<cmd, svc, got, ask>>
      /\ tries' = [tries EXCEPT ![p] = Append(@, o)]
      /\ pc' = [pc EXCEPT ![p] = IF GivesUp(o, Len(tries[p]) + 1) THEN "back" ELSE "sleep"]
  BY DEF EndAttempt
<1>2. pc \in [Procs -> PCs] /\ tries \in [Procs -> Seq(Outcomes)]
  BY DEF TypeInv, RetryInv, RetryTypes
<1>3. ASSUME NEW q \in Procs, pc'[q] # "idle", cmd'[q] = "profiles"
      PROVE  /\ \A k \in got'[q] : k \in Kinds /\ profile'[svc'[q]][k] \in G
             /\ pc'[q] = "back" /\ Succeeded(q)' => profile'[svc'[q]][ask'[q]] \in G
  <2>1. pc[q] # "idle" /\ cmd[q] = "profiles" /\ (q # p => pc'[q] = pc[q])
    BY <1>1, <1>2, <1>3
  <2>2. \A k \in got[q] : k \in Kinds /\ profile[svc[q]][k] \in G
    BY <2>1 DEF FileInv, HasFiles
  <2>3. \A k \in got'[q] : k \in Kinds /\ profile'[svc'[q]][k] \in G
    BY <1>1, <2>1, <2>2, OthersKeepFiles
  <2>4. ASSUME pc'[q] = "back", Succeeded(q)' PROVE profile'[svc'[q]][ask'[q]] \in G
    <3>1. CASE q = p
      <4>1. tries'[p][Len(tries'[p])] = o
        BY <1>1, <1>2
      <4>2. o = "ok"
        BY <2>4, <3>1, <4>1 DEF Succeeded, LastTry
      <4> QED
        BY <1>1, <2>1, <3>1, <4>2 DEF Good
    <3>2. CASE q # p
      <4>1. tries'[q] = tries[q] /\ pc[q] = "back"
        BY <1>1, <1>2, <2>1, <2>4, <3>2
      <4>2. profile[svc[q]][ask[q]] \in G
        BY <2>1, <2>4, <4>1 DEF FileInv, HasFiles, Succeeded, LastTry
      <4>3. ask[q] \in Kinds
        BY <2>1, <4>1, AskedKind DEF TypeInv, Asking
      <4> QED
        BY <1>1, <2>1, <3>2, <4>2, <4>3, OthersKeepFiles
    <3> QED
      BY <3>1, <3>2
  <2> QED
    BY <2>3, <2>4
<1> QED
  BY <1>3 DEF FileInv, HasFiles

\* A command that has none yet, or is gone, or has what it had.
LEMMA SameFiles ==
  ASSUME TypeInv, NEW G, FileInv(G), UNCHANGED profile, NEW p \in Procs,
         \A q \in Procs \ {p} :
           pc'[q] = pc[q] /\ cmd'[q] = cmd[q] /\ svc'[q] = svc[q] /\ got'[q] = got[q]
           /\ ask'[q] = ask[q] /\ tries'[q] = tries[q],
         pc'[p] # "back",
         \/ pc'[p] = "idle" \/ cmd'[p] # "profiles" \/ got'[p] = {}
         \/ /\ pc[p] # "idle" /\ cmd[p] = "profiles" /\ svc'[p] = svc[p]
            /\ \A k \in got'[p] : \/ k \in got[p]
                                  \/ k = ask[p] /\ pc[p] = "back" /\ Succeeded(p)
  PROVE  FileInv(G)'
<1>1. \A q \in Procs \ {p} : HasFiles(q, G)'
  BY DEF FileInv, HasFiles, Succeeded, LastTry
<1>2. pc[p] = "back" /\ cmd[p] = "profiles" => ask[p] \in Kinds
  BY AskedKind DEF TypeInv, Asking
<1>3. HasFiles(p, G)'
  BY <1>2 DEF FileInv, HasFiles
<1> QED
  BY <1>1, <1>3 DEF FileInv

\* A new command has none; the one that p left is forgotten.
LEMMA StartFiles ==
  ASSUME TypeInv, AnswerInv, NEW G, FileInv(G), NEW p \in Procs, NEW c, NEW s,
         Start(p, c, s), NEW q, NEW rest, Query(p, q, rest)
  PROVE  FileInv(G)'
<1>1. /\ cmd' = [cmd EXCEPT ![p] = c] /\ svc' = [svc EXCEPT ![p] = s]
      /\ got' = [got EXCEPT ![p] = {}] /\ UNCHANGED profile
      /\ pc' = [pc EXCEPT ![p] = "call"] /\ ask' = [ask EXCEPT ![p] = q]
      /\ tries' = [tries EXCEPT ![p] = << >>]
  BY DEF Start, Query, files
<1>2. pc'[p] = "call" /\ got'[p] = {}
  BY <1>1 DEF TypeInv, StandInv, AnswerInv
<1> QED
  BY <1>1, <1>2, SameFiles

\* The commands that are not collect profiles.
LEMMA OtherFiles ==
  ASSUME TypeInv, NEW G, FileInv(G), UNCHANGED <<profile, cmd, svc, got>>,
         NEW p \in Procs, cmd[p] # "profiles",
         \/ \E r : Return(p, r)
         \/ \E q, rest : Query(p, q, rest)
         \/ \E ids : Fetch(p, ids)
  PROVE  FileInv(G)'
<1>1. (\E r : Return(p, r)) \/ (\E q, rest : Query(p, q, rest))
  BY DEF Fetch
<1>2. \A q \in Procs \ {p} : pc'[q] = pc[q] /\ ask'[q] = ask[q] /\ tries'[q] = tries[q]
  BY <1>1 DEF Return, Query, TypeInv, StandInv, RetryInv, RetryTypes
<1>3. pc'[p] # "back"
  BY <1>1 DEF Return, Query, TypeInv, StandInv
<1> QED
  BY <1>2, <1>3, SameFiles

LEMMA NextTypeFiles ==
  ASSUME TypeInv, AnswerInv, NEW G, FileInv(G), NEW p \in Procs, NextType(p)
  PROVE  FileInv(G)'
<1>1. /\ pc[p] = "back" /\ cmd[p] = "profiles" /\ UNCHANGED <<profile, cmd, svc>>
      /\ got' = [got EXCEPT ![p] = IF Succeeded(p) THEN @ \cup {ask[p]} ELSE @]
  BY DEF NextType, files
<1>2. \/ Query(p, Head(todo[p]), Tail(todo[p]))
      \/ pc' = [pc EXCEPT ![p] = "pin"] /\ UNCHANGED <<ask, todo, tries>>
  BY DEF NextType
<1>3. /\ \A q \in Procs \ {p} : pc'[q] = pc[q] /\ ask'[q] = ask[q] /\ tries'[q] = tries[q]
      /\ pc'[p] # "back"
  BY <1>2 DEF Query, TypeInv, StandInv, RetryInv, RetryTypes
<1>4. \A k \in got'[p] : k \in got[p] \/ (k = ask[p] /\ Succeeded(p))
  BY <1>1 DEF AnswerInv
<1>5. \A q \in Procs \ {p} : got'[q] = got[q]
  BY <1>1
<1> QED
  BY <1>1, <1>3, <1>4, <1>5, SameFiles

LEMMA FilesNext ==
  ASSUME TypeInv, AnswerInv, NEW G, Good(G), FileInv(G), [Next]_vars
  PROVE  FileInv(G)'
<1> USE DEF Outcomes
<1>0. pc \in [Procs -> PCs] /\ FileTypes /\ StandInv
  BY DEF TypeInv, StandInv
<1>1. ASSUME NEW p \in Procs, Step(p) PROVE FileInv(G)'
  <2>1. CASE TimeOut(p)
    <3>1. PICK o \in {"transient", "permanent"} : EndAttempt(p, o)
      BY <2>1 DEF TimeOut
    <3>2. OneFile(p)
      BY <1>0, <2>1, InterruptedOneFile DEF TimeOut
    <3> QED
      BY <3>1, <3>2, AttemptKeepsFiles
  <2>2. CASE Wake(p)
    <3>1. pc[p] = "sleep" /\ pc' = [pc EXCEPT ![p] = "call"]
          /\ UNCHANGED <<profile, cmd, svc, got, ask, tries>>
      BY <2>2 DEF Wake, files
    <3>2. pc'[p] = "call" /\ \A q \in Procs \ {p} : pc'[q] = pc[q]
      BY <1>0, <3>1
    <3> QED
      BY <3>1, <3>2, SameFiles
  <2>3. CASE NextType(p)
    BY <2>3, NextTypeFiles
  <2>4. CASE Pin(p)
    <3>1. pc[p] = "pin" /\ pc' = [pc EXCEPT ![p] = "done"]
          /\ UNCHANGED <<profile, cmd, svc, got, ask, tries>>
      BY <2>4 DEF Pin, Return
    <3>2. pc'[p] = "done" /\ \A q \in Procs \ {p} : pc'[q] = pc[q]
      BY <1>0, <3>1
    <3> QED
      BY <3>1, <3>2, SameFiles
  <2>5. CASE SearchDone(p)
    <3>1. cmd[p] # "profiles" /\ UNCHANGED <<profile, cmd, svc, got>>
      BY <1>0, <2>5 DEF SearchDone, StandInv, Asks, Asking, KindQueries
    <3> QED
      BY <2>5, <3>1, OtherFiles DEF SearchDone
  <2>6. CASE NextTrace(p)
    BY <2>6, OtherFiles DEF NextTrace
  <2>7. CASE ExemplarsDone(p)
    <3>1. cmd[p] # "profiles" /\ UNCHANGED <<profile, cmd, svc, got>>
      BY <1>0, <2>7 DEF ExemplarsDone, StandInv, Asks, Asking, KindQueries
    <3> QED
      BY <2>7, <3>1, OtherFiles DEF ExemplarsDone
  <2> QED
    BY <1>1, <2>1, <2>2, <2>3, <2>4, <2>5, <2>6, <2>7 DEF Step
<1>2. ASSUME NEW p \in Procs, Answer(p) PROVE FileInv(G)'
  <2>1. PICK c \in Contents : Writes(p, c)
    BY <1>2 DEF Answer
  <2>2. OneFile(p)
    BY <1>0, <2>1, WritesOneFile
  <2>3. EndAttempt(p, "ok") /\ pc[p] = "call"
    BY <1>2 DEF Answer, EndAttempt
  <2>4. ASSUME cmd[p] = "profiles" PROVE profile'[svc[p]][ask[p]] \in Contents
    <3>1. ask[p] \in Kinds /\ svc[p] \in Services
      BY <1>0, <2>3, <2>4, AskedKind DEF Asking, FileTypes
    <3> QED
      BY <1>0, <2>1, <2>4, <3>1 DEF Writes, FileTypes
  <2> QED
    BY <2>2, <2>3, <2>4, AttemptKeepsFiles
<1>3. ASSUME NEW p \in Procs, Crash(p) PROVE FileInv(G)'
  <2>1. pc' = [pc EXCEPT ![p] = "idle"] /\ UNCHANGED <<cmd, svc, got, ask, tries>>
    BY <1>3 DEF Crash
  <2>2. pc'[p] = "idle" /\ \A q \in Procs \ {p} : pc'[q] = pc[q]
    BY <1>0, <2>1
  <2>3. CASE UNCHANGED profile
    BY <2>1, <2>2, <2>3, SameFiles
  <2>4. CASE pc[p] = "call" /\ Interrupted(p)
    <3>1. OneFile(p)
      BY <1>0, <2>4, InterruptedOneFile
    <3>2. ASSUME NEW q \in Procs, q # p, pc[q] # "idle", cmd[q] = "profiles"
          PROVE  /\ \A k \in got[q] : k \in Kinds /\ profile'[svc[q]][k] \in G
                 /\ pc[q] = "back" /\ Succeeded(q) => profile'[svc[q]][ask[q]] \in G
      <4>1. \A k \in Kinds : profile[svc[q]][k] \in G => profile'[svc[q]][k] \in G
        BY <2>4, <3>1, <3>2, OthersKeepFiles
      <4>2. pc[q] = "back" => ask[q] \in Kinds
        BY <1>0, <3>2, AskedKind DEF Asking
      <4> QED
        BY <3>2, <4>1, <4>2 DEF FileInv, HasFiles
    <3>3. \A q \in Procs \ {p} : HasFiles(q, G)'
      BY <2>1, <2>2, <3>2 DEF HasFiles, Succeeded, LastTry
    <3>4. HasFiles(p, G)'
      BY <2>2 DEF HasFiles
    <3> QED
      BY <3>3, <3>4 DEF FileInv
  <2> QED
    BY <1>3, <2>3, <2>4 DEF Crash
<1>4. ASSUME NEW p \in Procs, NEW o \in {"transient", "permanent"}, Fail(p, o)
      PROVE  FileInv(G)'
  <2>1. OneFile(p) /\ EndAttempt(p, o)
    BY <1>4 DEF Fail, files, OneFile
  <2> QED
    BY <2>1, AttemptKeepsFiles
<1>5. ASSUME NEW p \in Procs, NEW s \in Services, NEW types \in Types, Profiles(p, s, types)
      PROVE  FileInv(G)'
  BY <1>5, StartFiles DEF Profiles
<1>6. ASSUME NEW p \in Procs, NEW s \in Services, NEW n \in Dumps, Traces(p, s, n)
      PROVE  FileInv(G)'
  BY <1>6, StartFiles DEF Traces
<1>7. ASSUME NEW p \in Procs, NEW s \in Services, Exemplars(p, s) PROVE FileInv(G)'
  BY <1>7, StartFiles DEF Exemplars
<1>8. CASE Local \/ UNCHANGED vars
  BY <1>8 DEF Local, vars, FileInv, HasFiles, Succeeded, LastTry
<1> QED
  BY <1>1, <1>2, <1>3, <1>4, <1>5, <1>6, <1>7, <1>8 DEF Next

CollectInv(G) == TypeInv /\ AnswerInv /\ FileInv(G)

LEMMA CollectInit ==
  ASSUME NEW G, Init
  PROVE  CollectInv(G)
BY TypeInit DEF Init, CollectInv, AnswerInv, FileInv, HasFiles

LEMMA CollectNext ==
  ASSUME NEW G, Good(G), CollectInv(G), [Next]_vars
  PROVE  CollectInv(G)'
BY RetryNext, StandNext, FileNext, AnswerNext, FilesNext DEF CollectInv, TypeInv

\* With one command at a time, collect profiles fails exactly when no kind was
\* fetched, and the profile it names last is one it fetched, and whole, whichever
\* attempts failed, were killed late or came on a retry, in this command or before.
THEOREM HonestResults ==
  ASSUME \A p, q \in Procs : p = q
  PROVE  Spec => []ResultIsHonest
<1>1. Good(Contents)
  BY DEF Good
<1>2. Init => CollectInv(Contents)
  BY CollectInit
<1>3. CollectInv(Contents) /\ [Next]_vars => CollectInv(Contents)'
  BY <1>1, CollectNext
<1>4. CollectInv(Contents) /\ PinInv => ResultIsHonest
  <2> SUFFICES ASSUME CollectInv(Contents), PinInv,
                      NEW p \in Procs, pc[p] = "done", cmd[p] = "profiles"
               PROVE  /\ result[p] = "error" <=> got[p] = {}
                      /\ got[p] # {} => dest[p] \in got[p]
                                        /\ profile[svc[p]][dest[p]] \in Contents
    BY DEF ResultIsHonest
  <2>1. (dest[p] = Nil <=> got[p] = {}) /\ (result[p] = "error" <=> dest[p] = Nil)
    BY DEF CollectInv, AnswerInv, Answers
  <2>2. got[p] # {} => dest[p] \in got[p]
    BY <2>1 DEF PinInv
  <2>3. \A k \in got[p] : profile[svc[p]][k] \in Contents
    BY DEF CollectInv, FileInv, HasFiles
  <2> QED
    BY <2>1, <2>2, <2>3
<1> QED
  BY <1>2, <1>3, <1>4, PinInvariant, PTL DEF Spec

\* A command past its search has kept the result of it, in a file that stays.
Dumping(at, q, r) ==
  \/ at \in Asking /\ q # "search"
  \/ at = "done" /\ r = "ok"

SearchInv == \A p \in Procs :
  cmd[p] = "traces" /\ Dumping(pc[p], ask[p], result[p]) => search # Nil

\* Nobody moves who did not ask before, or the search was kept.
LEMMA SearchStays ==
  ASSUME TypeInv, SearchInv, search # Nil => search' # Nil, NEW p \in Procs,
         \A q \in Procs \ {p} : pc'[q] = pc[q] /\ cmd'[q] = cmd[q] /\ ask'[q] = ask[q]
                                /\ result'[q] = result[q],
         \/ search' # Nil
         \/ cmd'[p] # "traces" \/ ~Dumping(pc'[p], ask'[p], result'[p])
         \/ cmd[p] = "traces" /\ Dumping(pc[p], ask[p], result[p])
  PROVE  SearchInv'
BY DEF SearchInv

LEMMA SearchNext ==
  ASSUME TypeInv, SearchInv, [Next]_vars
  PROVE  SearchInv'
<1> USE CollectAssumption
<1>0. StandInv /\ pc \in [Procs -> PCs] /\ DOMAIN ask = Procs /\ DOMAIN result = Procs
      /\ cmd \in [Procs -> Cmds \cup {Nil}]
  BY DEF TypeInv, StandInv
<1>a. ASSUME NEW p \in Procs, NEW o, EndAttempt(p, o), UNCHANGED search PROVE SearchInv'
  <2>1. PICK at \in {"back", "sleep"} : pc' = [pc EXCEPT ![p] = at]
    BY <1>a DEF EndAttempt
  <2>2. pc[p] = "call" /\ UNCHANGED <<cmd, ask, result>>
    BY <1>a DEF EndAttempt
  <2>3. pc'[p] \in {"back", "sleep"} /\ \A q \in Procs \ {p} : pc'[q] = pc[q]
    BY <1>0, <2>1
  <2> QED
    BY <1>a, <2>2, <2>3, SearchStays DEF Dumping, Asking
<1>b. ASSUME NEW p \in Procs, NEW c, NEW s, Start(p, c, s), NEW q, NEW rest, Query(p, q, rest),
             c # "traces" \/ q = "search"
      PROVE  SearchInv'
  <2>1. /\ cmd' = [cmd EXCEPT ![p] = c] /\ pc' = [pc EXCEPT ![p] = "call"]
        /\ ask' = [ask EXCEPT ![p] = q] /\ result' = [result EXCEPT ![p] = Nil]
        /\ UNCHANGED search
    BY <1>b DEF Start, Query, files
  <2>2. cmd'[p] # "traces" \/ ~Dumping(pc'[p], ask'[p], result'[p])
    BY <1>0, <1>b, <2>1 DEF Dumping, Asking
  <2> QED
    BY <1>0, <2>1, <2>2, SearchStays
<1>c. ASSUME NEW p \in Procs, UNCHANGED cmd, cmd[p] # "traces" \/ search' # Nil,
             search # Nil => search' # Nil,
             \/ \E r : Return(p, r)
             \/ (\E q, rest : Query(p, q, rest)) /\ UNCHANGED result
      PROVE  SearchInv'
  <2>1. \A q \in Procs \ {p} : pc'[q] = pc[q] /\ ask'[q] = ask[q] /\ result'[q] = result[q]
    BY <1>0, <1>c DEF Return, Query
  <2> QED
    BY <1>c, <2>1, SearchStays
<1>d. ASSUME NEW p \in Procs, NEW ids, UNCHANGED cmd, search' # Nil, Fetch(p, ids)
      PROVE  SearchInv'
  BY <1>c, <1>d DEF Fetch
<1>1. ASSUME NEW p \in Procs, Step(p) PROVE SearchInv'
  <2>1. CASE TimeOut(p)
    BY <2>1, <1>a DEF TimeOut
  <2>2. CASE Wake(p)
    <3>1. pc[p] = "sleep" /\ pc' = [pc EXCEPT ![p] = "call"]
          /\ UNCHANGED <<search, cmd, ask, result>>
      BY <2>2 DEF Wake, files
    <3>2. pc'[p] = "call" /\ \A q \in Procs \ {p} : pc'[q] = pc[q]
      BY <1>0, <3>1
    <3> QED
      BY <3>1, <3>2, SearchStays DEF Dumping, Asking
  <2>3. CASE NextType(p)
    <3>1. cmd[p] = "profiles" /\ UNCHANGED <<search, cmd, result>>
          /\ \/ \E q, rest : Query(p, q, rest)
             \/ pc' = [pc EXCEPT ![p] = "pin"] /\ UNCHANGED ask
      BY <2>3 DEF NextType, files
    <3>2. CASE \E q, rest : Query(p, q, rest)
      BY <3>1, <3>2, <1>c
    <3>3. CASE pc' = [pc EXCEPT ![p] = "pin"] /\ UNCHANGED ask
      BY <1>0, <3>1, <3>3, SearchStays
    <3> QED
      BY <3>1, <3>2, <3>3
  <2>4. CASE Pin(p)
    <3>1. cmd[p] = "profiles" /\ UNCHANGED <<search, cmd>> /\ \E r : Return(p, r)
      BY <1>0, <2>4 DEF Pin, StandInv, Asks
    <3> QED
      BY <3>1, <1>c
  <2>5. CASE SearchDone(p)
    <3>1. UNCHANGED cmd /\ pc[p] = "back" /\ ask[p] = "search"
      BY <2>5 DEF SearchDone
    <3>2. CASE Return(p, "error") /\ UNCHANGED search
      <4>1. pc' = [pc EXCEPT ![p] = "done"] /\ result' = [result EXCEPT ![p] = "error"]
            /\ UNCHANGED ask
        BY <3>2 DEF Return
      <4>2. ~Dumping(pc'[p], ask'[p], result'[p])
        BY <1>0, <4>1 DEF Dumping, Asking
      <4> QED
        BY <3>1, <3>2, <4>1, <4>2, SearchStays
    <3>3. CASE search' = (IF hits[p] = << >> THEN "empty" ELSE "some")
               /\ \E order \in Slowest(hits[p]) : Fetch(p, ToFetch(order, dump[p]))
      <4>1. search' # Nil
        BY <3>3 DEF CollectAssumption
      <4> QED
        BY <3>1, <3>3, <4>1, <1>d
    <3> QED
      BY <2>5, <3>2, <3>3 DEF SearchDone
  <2>6. CASE NextTrace(p)
    <3>1. /\ pc[p] = "back" /\ cmd[p] = "traces" /\ ask[p] # "search"
          /\ UNCHANGED <<search, cmd>> /\ Fetch(p, Remaining(p))
      BY <2>6 DEF NextTrace
    <3>2. search # Nil
      BY <3>1 DEF SearchInv, Dumping, Asking
    <3> QED
      BY <3>1, <3>2, <1>d
  <2>7. CASE ExemplarsDone(p)
    <3>1. pc[p] = "back" /\ ask[p] = "exemplars" /\ UNCHANGED <<search, cmd>>
          /\ \E r : Return(p, r)
      BY <2>7 DEF ExemplarsDone
    <3>2. cmd[p] # "traces"
      BY <1>0, <3>1 DEF StandInv, Asks, Asking
    <3> QED
      BY <3>1, <3>2, <1>c
  <2> QED
    BY <1>1, <2>1, <2>2, <2>3, <2>4, <2>5, <2>6, <2>7 DEF Step
<1>2. ASSUME NEW p \in Procs, Answer(p) PROVE SearchInv'
  BY <1>2, <1>a DEF Answer
<1>3. ASSUME NEW p \in Procs, Crash(p) PROVE SearchInv'
  <2>1. pc' = [pc EXCEPT ![p] = "idle"] /\ UNCHANGED <<search, cmd, ask, result>>
    BY <1>3 DEF Crash
  <2> QED
    BY <1>0, <2>1, SearchStays DEF Dumping, Asking
<1>4. ASSUME NEW p \in Procs, NEW o \in {"transient", "permanent"}, Fail(p, o) PROVE SearchInv'
  BY <1>4, <1>a DEF Fail, files
<1>5. ASSUME NEW p \in Procs, NEW s \in Services, NEW types \in Types, Profiles(p, s, types)
      PROVE  SearchInv'
  BY <1>5, <1>b DEF Profiles
<1>6. ASSUME NEW p \in Procs, NEW s \in Services, NEW n \in Dumps, Traces(p, s, n)
      PROVE  SearchInv'
  BY <1>6, <1>b DEF Traces
<1>7. ASSUME NEW p \in Procs, NEW s \in Services, Exemplars(p, s) PROVE SearchInv'
  BY <1>7, <1>b DEF Exemplars
<1>8. CASE Local \/ UNCHANGED vars
  BY <1>8 DEF Local, vars, SearchInv
<1> QED
  BY <1>1, <1>2, <1>3, <1>4, <1>5, <1>6, <1>7, <1>8 DEF Next

\* What a finished command has fetched is not called missing, for any number of
\* commands at once, and whatever is killed while gcx writes: a profile may be torn,
\* but it does not go away, and a search is kept before anything is made of it.
THEOREM GapsCorrect == Spec => []GapsAreReal
<1> DEFINE There == Files \ {Nil}
<1> USE CollectAssumption
<1>1. Good(There)
  BY DEF Good, Files, Contents
<1>2. Init => CollectInv(There) /\ SearchInv
  BY CollectInit DEF Init, SearchInv, Dumping, Asking
<1>3. CollectInv(There) /\ SearchInv /\ [Next]_vars => CollectInv(There)' /\ SearchInv'
  BY <1>1, CollectNext, SearchNext DEF CollectInv
<1>4. CollectInv(There) /\ SearchInv => GapsAreReal
  <2> SUFFICES ASSUME CollectInv(There), SearchInv,
                      NEW p \in Procs, pc[p] = "done", result[p] = "ok"
               PROVE  /\ cmd[p] = "profiles" => "profiles" \notin Missing
                      /\ cmd[p] = "traces" => "traces" \notin Missing
                      /\ cmd[p] = "exemplars" /\ exemplars[svc[p]] = "some" =>
                           "spans" \notin Missing
    BY DEF GapsAreReal
  <2>0. svc[p] \in Services
    BY DEF CollectInv, TypeInv, FileTypes
  <2>1. ASSUME cmd[p] = "profiles" PROVE "profiles" \notin Missing
    <3>1. got[p] # {}
      BY <2>1 DEF CollectInv, AnswerInv, Answers
    <3>2. \E k \in Kinds : profile[svc[p]][k] # Nil
      BY <2>1, <3>1 DEF CollectInv, FileInv, HasFiles
    <3> QED
      BY <2>0, <3>2 DEF Missing, ProdProfiles
  <2>2. ASSUME cmd[p] = "traces" PROVE "traces" \notin Missing
    BY <2>2 DEF SearchInv, Dumping, Missing
  <2>3. ASSUME exemplars[svc[p]] = "some" PROVE "spans" \notin Missing
    BY <2>0, <2>3 DEF Missing, SpanLinked
  <2> QED
    BY <2>1, <2>2, <2>3
<1> HIDE DEF There
<1> QED
  BY <1>2, <1>3, <1>4, PTL DEF Spec

-----------------------------------------------------------------------------
(* The slowest traces.  What was tried and what is left make up what is to  *)
(* be fetched of some order of the hits, until nothing is left.             *)

IdsOf(s) == {s[i] : i \in DOMAIN s}

\* A command c at a program point, that asks for q and then for rest, or returned r,
\* found h and was to dump n, and tried tr.
DumpsRight(at, c, q, r, rest, h, n, tr) == c = "traces" =>
  /\ at \in Asking /\ q = "search" => tr = {}
  /\ Dumping(at, q, r) =>
       \E order \in Slowest(h) :
         IdsOf(ToFetch(order, n)) = tr \cup (IF at = "done" THEN {} ELSE IdsOf(rest))

Dumped(p) ==
  DumpsRight(pc[p], cmd[p], ask[p], result[p], todo[p], hits[p], dump[p], tried[p])

DumpInv == DOMAIN tried = Procs /\ \A p \in Procs : Dumped(p)

\* What is not in the way of p stays.
LEMMA OneDumps ==
  ASSUME DumpInv, NEW p \in Procs, DOMAIN tried' = Procs, Dumped(p)',
         \A q \in Procs \ {p} :
           /\ pc'[q] = pc[q] /\ cmd'[q] = cmd[q] /\ ask'[q] = ask[q] /\ result'[q] = result[q]
           /\ todo'[q] = todo[q] /\ hits'[q] = hits[q] /\ dump'[q] = dump[q]
           /\ tried'[q] = tried[q]
  PROVE  DumpInv'
<1>1. \A q \in Procs \ {p} : Dumped(q)'
  BY DEF DumpInv, Dumped
<1> QED
  BY <1>1 DEF DumpInv

LEMMA HeadAndTail ==
  ASSUME NEW s \in Seq(TraceIds), s # << >>
  PROVE  IdsOf(s) = {Head(s)} \cup IdsOf(Tail(s))
<1>1. Head(s) = s[1] /\ DOMAIN s = 1..Len(s) /\ Len(s) \in Nat \ {0}
  OBVIOUS
<1>2. DOMAIN Tail(s) = 1..(Len(s) - 1) /\ \A i \in 1..(Len(s) - 1) : Tail(s)[i] = s[i + 1]
  BY <1>1
<1>3. ASSUME NEW x \in IdsOf(s) PROVE x \in {Head(s)} \cup IdsOf(Tail(s))
  <2>1. PICK i \in 1..Len(s) : x = s[i]
    BY <1>1 DEF IdsOf
  <2>2. CASE i = 1
    BY <1>1, <2>1, <2>2
  <2>3. CASE i # 1
    <3>1. i - 1 \in 1..(Len(s) - 1) /\ Tail(s)[i - 1] = x
      BY <1>1, <1>2, <2>1, <2>3
    <3> QED
      BY <1>2, <3>1 DEF IdsOf
  <2> QED
    BY <2>2, <2>3
<1>4. ASSUME NEW x \in IdsOf(Tail(s)) PROVE x \in IdsOf(s)
  <2>1. PICK i \in 1..(Len(s) - 1) : x = s[i + 1]
    BY <1>2, <1>4 DEF IdsOf
  <2>2. i + 1 \in DOMAIN s
    BY <1>1
  <2> QED
    BY <2>1, <2>2 DEF IdsOf
<1>5. Head(s) \in IdsOf(s)
  BY <1>1 DEF IdsOf
<1> QED
  BY <1>3, <1>4, <1>5

LEMMA FetchDumps ==
  ASSUME StandInv, DumpInv, NEW p \in Procs, cmd[p] = "traces", NEW ids \in Seq(TraceIds),
         Fetch(p, ids), UNCHANGED <<cmd, dump, hits>>,
         \A q \in TraceIds : q # "search",
         NEW order \in Slowest(hits[p]),
         IdsOf(ToFetch(order, dump[p])) = tried[p] \cup IdsOf(ids)
  PROVE  DumpInv'
<1>1. CASE ids # << >> /\ Query(p, Head(ids), Tail(ids))
           /\ tried' = [tried EXCEPT ![p] = @ \cup {Head(ids)}] /\ UNCHANGED result
  <2>1. /\ pc'[p] = "call" /\ ask'[p] = Head(ids) /\ todo'[p] = Tail(ids)
        /\ tried'[p] = tried[p] \cup {Head(ids)} /\ DOMAIN tried' = Procs
        /\ \A q \in Procs \ {p} : pc'[q] = pc[q] /\ ask'[q] = ask[q] /\ todo'[q] = todo[q]
                                  /\ tried'[q] = tried[q]
    BY <1>1 DEF Query, StandInv, DumpInv
  <2>2. Head(ids) \in TraceIds
    BY <1>1
  <2>3. IdsOf(ToFetch(order, dump[p])) = tried'[p] \cup IdsOf(Tail(ids))
    BY <1>1, <2>1, HeadAndTail
  <2>4. Dumped(p)'
    BY <2>1, <2>2, <2>3 DEF Dumped, DumpsRight
  <2> QED
    BY <1>1, <2>1, <2>4, OneDumps
<1>2. CASE ids = << >> /\ Return(p, "ok") /\ UNCHANGED tried
  <2>1. /\ pc'[p] = "done" /\ result' = [result EXCEPT ![p] = "ok"] /\ UNCHANGED <<ask, todo>>
        /\ \A q \in Procs \ {p} : pc'[q] = pc[q] /\ result'[q] = result[q]
    BY <1>2 DEF Return, StandInv
  <2>2. IdsOf(ids) = {}
    BY <1>2 DEF IdsOf
  <2>3. Dumped(p)'
    BY <1>2, <2>1, <2>2 DEF Dumped, DumpsRight, Asking
  <2> QED
    BY <1>2, <2>1, <2>3, OneDumps DEF DumpInv
<1> QED
  BY <1>1, <1>2 DEF Fetch

LEMMA DumpNext ==
  ASSUME TypeInv, DumpInv, [Next]_vars
  PROVE  DumpInv'
<1>0. /\ StandInv /\ pc \in [Procs -> PCs] /\ cmd \in [Procs -> Cmds \cup {Nil}]
      /\ DOMAIN ask = Procs /\ DOMAIN todo = Procs /\ DOMAIN result = Procs
      /\ DOMAIN tried = Procs
      /\ \A q \in TraceIds : q # "search"
  BY CollectAssumption DEF TypeInv, StandInv, DumpInv
<1>a. ASSUME NEW p \in Procs, NEW o, EndAttempt(p, o),
             \A q \in Procs : (q = p /\ ask[p] = "search") \/ hits'[q] = hits[q]
      PROVE  DumpInv'
  <2>1. PICK at \in {"back", "sleep"} : pc' = [pc EXCEPT ![p] = at]
    BY <1>a DEF EndAttempt
  <2>2. pc[p] = "call" /\ UNCHANGED <<cmd, ask, result, todo, dump, tried>>
    BY <1>a DEF EndAttempt
  <2>3. pc'[p] \in {"back", "sleep"} /\ \A q \in Procs \ {p} : pc'[q] = pc[q]
    BY <1>0, <2>1
  <2>4. Dumped(p)'
    BY <1>a, <2>2, <2>3 DEF DumpInv, Dumped, DumpsRight, Dumping, Asking
  <2> QED
    BY <1>a, <2>2, <2>3, <2>4, OneDumps DEF DumpInv
<1>b. ASSUME NEW p \in Procs, NEW c, NEW s, Start(p, c, s), NEW q, NEW rest, Query(p, q, rest),
             c # "traces" \/ q = "search",
             \A x \in Procs \ {p} : dump'[x] = dump[x]
      PROVE  DumpInv'
  <2>1. /\ cmd' = [cmd EXCEPT ![p] = c] /\ pc' = [pc EXCEPT ![p] = "call"]
        /\ ask' = [ask EXCEPT ![p] = q] /\ result' = [result EXCEPT ![p] = Nil]
        /\ todo' = [todo EXCEPT ![p] = rest] /\ tried' = [tried EXCEPT ![p] = {}]
        /\ hits' = [hits EXCEPT ![p] = << >>]
    BY <1>b DEF Start, Query, files
  <2>2. \A x \in Procs \ {p} :
           /\ pc'[x] = pc[x] /\ cmd'[x] = cmd[x] /\ ask'[x] = ask[x] /\ result'[x] = result[x]
           /\ todo'[x] = todo[x] /\ hits'[x] = hits[x] /\ tried'[x] = tried[x]
    BY <1>0, <2>1 DEF StandInv
  <2>3. pc'[p] = "call" /\ cmd'[p] = c /\ ask'[p] = q /\ tried'[p] = {} /\ DOMAIN tried' = Procs
    BY <1>0, <2>1
  <2>4. Dumped(p)'
    BY <1>b, <2>3 DEF Dumped, DumpsRight, Dumping, Asking
  <2> QED
    BY <1>b, <2>2, <2>3, <2>4, OneDumps
<1>c. ASSUME NEW p \in Procs, cmd[p] # "traces", UNCHANGED <<cmd, hits, dump, tried>>,
             \/ \E r : Return(p, r)
             \/ (\E q, rest : Query(p, q, rest)) /\ UNCHANGED result
      PROVE  DumpInv'
  <2>1. \A q \in Procs \ {p} : pc'[q] = pc[q] /\ ask'[q] = ask[q] /\ result'[q] = result[q]
                               /\ todo'[q] = todo[q]
    BY <1>0, <1>c DEF Return, Query
  <2>2. Dumped(p)'
    BY <1>c DEF Dumped, DumpsRight
  <2> QED
    BY <1>0, <1>c, <2>1, <2>2, OneDumps
<1>d. ASSUME NEW p \in Procs, NEW at \in PCs, pc' = [pc EXCEPT ![p] = at],
             UNCHANGED <<cmd, ask, result, todo, dump, hits, tried>>,
             \/ cmd[p] # "traces" \/ at = "idle"
             \/ pc[p] \in Asking /\ at \in Asking
      PROVE  DumpInv'
  <2>1. pc'[p] = at /\ \A q \in Procs \ {p} : pc'[q] = pc[q]
    BY <1>0, <1>d
  <2>2. Dumped(p)'
    BY <1>d, <2>1 DEF DumpInv, Dumped, DumpsRight, Dumping, Asking
  <2> QED
    BY <1>0, <1>d, <2>1, <2>2, OneDumps
<1>1. ASSUME NEW p \in Procs, Step(p) PROVE DumpInv'
  <2>1. CASE TimeOut(p)
    BY <2>1, <1>a DEF TimeOut
  <2>2. CASE Wake(p)
    BY <2>2, <1>d DEF Wake, Asking, PCs
  <2>3. CASE NextType(p)
    <3>1. cmd[p] = "profiles" /\ UNCHANGED <<cmd, result, hits, dump, tried>>
          /\ \/ \E q, rest : Query(p, q, rest)
             \/ pc' = [pc EXCEPT ![p] = "pin"] /\ UNCHANGED <<ask, todo>>
      BY <2>3 DEF NextType
    <3>2. CASE \E q, rest : Query(p, q, rest)
      BY <3>1, <3>2, <1>c
    <3>3. CASE pc' = [pc EXCEPT ![p] = "pin"] /\ UNCHANGED <<ask, todo>>
      BY <3>1, <3>3, <1>d DEF PCs
    <3> QED
      BY <3>1, <3>2, <3>3
  <2>4. CASE Pin(p)
    <3>1. cmd[p] = "profiles" /\ UNCHANGED <<cmd, hits, dump, tried>> /\ \E r : Return(p, r)
      BY <1>0, <2>4 DEF Pin, StandInv, Asks
    <3> QED
      BY <3>1, <1>c
  <2>5. CASE SearchDone(p)
    <3>1. UNCHANGED <<cmd, dump, hits>> /\ pc[p] = "back" /\ ask[p] = "search"
      BY <2>5 DEF SearchDone
    <3>2. cmd[p] = "traces"
      BY <1>0, <3>1 DEF StandInv, Asks, Asking, KindQueries, Cmds
    <3>3. CASE Return(p, "error") /\ UNCHANGED tried
      <4>1. /\ pc' = [pc EXCEPT ![p] = "done"] /\ result' = [result EXCEPT ![p] = "error"]
            /\ UNCHANGED <<ask, todo>>
        BY <3>3 DEF Return
      <4>2. pc'[p] = "done" /\ result'[p] = "error"
            /\ \A q \in Procs \ {p} : pc'[q] = pc[q] /\ result'[q] = result[q]
        BY <1>0, <4>1
      <4>3. Dumped(p)'
        BY <4>2 DEF Dumped, DumpsRight, Dumping, Asking
      <4> QED
        BY <1>0, <3>1, <3>3, <4>1, <4>2, <4>3, OneDumps
    <3>4. ASSUME NEW order \in Slowest(hits[p]), Fetch(p, ToFetch(order, dump[p]))
          PROVE  DumpInv'
      <4>1. ToFetch(order, dump[p]) \in Seq(TraceIds)
        BY <1>0, FetchedIds DEF StandInv
      <4>2. tried[p] = {}
        BY <3>1, <3>2 DEF DumpInv, Dumped, DumpsRight, Asking
      <4> QED
        BY <1>0, <3>1, <3>2, <3>4, <4>1, <4>2, FetchDumps
    <3> QED
      BY <2>5, <3>3, <3>4 DEF SearchDone
  <2>6. CASE NextTrace(p)
    <3>1. pc[p] = "back" /\ cmd[p] = "traces" /\ ask[p] # "search" /\ Fetch(p, todo[p])
          /\ UNCHANGED <<cmd, dump, hits>>
      BY <2>6 DEF NextTrace, Remaining
    <3>2. todo[p] \in Seq(TraceIds)
      BY <1>0, <3>1 DEF StandInv, Asks, Asking
    <3>3. PICK order \in Slowest(hits[p]) :
            IdsOf(ToFetch(order, dump[p])) = tried[p] \cup IdsOf(todo[p])
      BY <3>1 DEF DumpInv, Dumped, DumpsRight, Dumping, Asking
    <3> QED
      BY <1>0, <3>1, <3>2, <3>3, FetchDumps
  <2>7. CASE ExemplarsDone(p)
    <3>1. pc[p] = "back" /\ ask[p] = "exemplars" /\ UNCHANGED <<cmd, hits, dump, tried>>
          /\ \E r : Return(p, r)
      BY <2>7 DEF ExemplarsDone
    <3>2. cmd[p] # "traces"
      BY <1>0, <3>1, CollectAssumption DEF StandInv, Asks, Asking
    <3> QED
      BY <3>1, <3>2, <1>c
  <2> QED
    BY <1>1, <2>1, <2>2, <2>3, <2>4, <2>5, <2>6, <2>7 DEF Step
<1>2. ASSUME NEW p \in Procs, Answer(p) PROVE DumpInv'
  <2>1. \A q \in Procs : (q = p /\ ask[p] = "search") \/ hits'[q] = hits[q]
    BY <1>0, <1>2 DEF Answer, StandInv
  <2> QED
    BY <1>2, <2>1, <1>a DEF Answer
<1>3. ASSUME NEW p \in Procs, Crash(p) PROVE DumpInv'
  BY <1>3, <1>d DEF Crash, PCs
<1>4. ASSUME NEW p \in Procs, NEW o \in {"transient", "permanent"}, Fail(p, o) PROVE DumpInv'
  BY <1>4, <1>a DEF Fail
<1>5. ASSUME NEW p \in Procs, NEW s \in Services, NEW types \in Types, Profiles(p, s, types)
      PROVE  DumpInv'
  BY <1>5, <1>b DEF Profiles
<1>6. ASSUME NEW p \in Procs, NEW s \in Services, NEW n \in Dumps, Traces(p, s, n)
      PROVE  DumpInv'
  <2>1. \A x \in Procs \ {p} : dump'[x] = dump[x]
    BY <1>0, <1>6 DEF Traces, StandInv
  <2> QED
    BY <1>6, <2>1, <1>b DEF Traces
<1>7. ASSUME NEW p \in Procs, NEW s \in Services, Exemplars(p, s) PROVE DumpInv'
  BY <1>7, <1>b DEF Exemplars
<1>8. CASE Local \/ UNCHANGED vars
  BY <1>8 DEF Local, vars, DumpInv, Dumped
<1> QED
  BY <1>1, <1>2, <1>3, <1>4, <1>5, <1>6, <1>7, <1>8 DEF Next

\* A trace that a finished dump did not ask for has as many slower ones as were wanted,
\* or is behind one without an id, for any search result, any order that the unstable
\* sort may give, and any traces that could not be fetched.
THEOREM SlowestCorrect == Spec => []SlowestTried
<1>1. Init => DumpInv
  BY DEF Init, DumpInv, Dumped, DumpsRight, Dumping, Asking
<1>2. TypeInv /\ DumpInv /\ [Next]_vars => DumpInv'
  BY DumpNext
<1>3. TypeInv /\ DumpInv => SlowestTried
  <2> SUFFICES ASSUME TypeInv, DumpInv, NEW p \in Procs, pc[p] = "done", cmd[p] = "traces",
                      result[p] = "ok", NEW i \in DOMAIN hits[p],
                      hits[p][i].id \notin tried[p]
               PROVE  LET ahead == {j \in DOMAIN hits[p] \ {i} : hits[p][j].ms >= hits[p][i].ms}
                      IN  \/ Cardinality(ahead) >= dump[p]
                          \/ hits[p][i].id = NoId \/ \E j \in ahead : hits[p][j].id = NoId
    BY DEF SlowestTried
  <2>1. hits[p] \in Seq(Hits) /\ dump[p] \in Nat /\ DOMAIN hits[p] = 1..Len(hits[p])
    BY DEF TypeInv, StandInv
  <2>2. PICK order \in Slowest(hits[p]) : IdsOf(ToFetch(order, dump[p])) = tried[p]
    BY DEF DumpInv, Dumped, DumpsRight, Dumping
  <2>3. \A k \in DOMAIN ToFetch(order, dump[p]) :
           ToFetch(order, dump[p])[k] # hits[p][i].id
    BY <2>2 DEF IdsOf
  <2>4. LET ahead == {j \in 1..Len(hits[p]) \ {i} : hits[p][j].ms >= hits[p][i].ms}
        IN  \/ Cardinality(ahead) >= dump[p]
            \/ hits[p][i].id = NoId \/ \E j \in ahead : hits[p][j].id = NoId
    <3> DEFINE h == hits[p]
    <3>1. i \in 1..Len(h) /\ h \in Seq(Hits) /\ order \in Slowest(h)
      BY <2>1
    <3> HIDE DEF h
    <3>2. \A n \in Nat :
            (\A k \in DOMAIN ToFetch(order, n) : ToFetch(order, n)[k] # h[i].id) =>
              LET ahead == {j \in 1..Len(h) \ {i} : h[j].ms >= h[i].ms}
              IN  \/ Cardinality(ahead) >= n
                  \/ h[i].id = NoId \/ \E j \in ahead : h[j].id = NoId
      BY <3>1, SlowestFetched
    <3> QED
      BY <2>1, <2>3, <3>2 DEF h
  <2> QED
    BY <2>1, <2>4
<1> QED
  BY <1>1, <1>2, <1>3, TypeInvariant, PTL DEF Spec
=============================================================================
