-------------------------- MODULE BenchLockProofs ---------------------------
(***************************************************************************)
(* Proofs about the lock file of BenchLock, for any number of processes,   *)
(* crashes, pids that are used again and faults: its type invariant, and,  *)
(* up to the first overlap of two acquisitions, lost pid or deletion of    *)
(* the lock, mutual exclusion; so it refines MeasurementMutex.             *)
(***************************************************************************)
EXTENDS BenchLock, TLAPS

\* A lock file is what its creator and the pid in it say, and it exists.
LEMMA LockFacts ==
  /\ \A p \in Procs, t \in {"empty", "pid"} : Lock(p, t) \in LockFile
  /\ NoFile \notin LockFile
  /\ \A p, t : Lock(p, t).creator = p /\ Lock(p, t).text = t
  /\ \A f \in LockFile : f.creator \in Procs /\ f = Lock(f.creator, f.text)
BY LockAssumption DEF Lock, LockFile

\* Every state of the lock protocol has its types, whatever faults occur.
THEOREM TypeCorrect == Spec => []TypeOK
<1> USE DEF TypeOK, PCs, Acquiring, Ending, Attempts
<1>1. Init => TypeOK
  BY DEF Init
<1>2. TypeOK /\ [Next]_vars => TypeOK'
  <2> SUFFICES ASSUME TypeOK, [Next]_vars PROVE TypeOK'
    OBVIOUS
  <2>1. ASSUME NEW p \in Procs, Start(p) PROVE TypeOK'
    BY <2>1 DEF Start, Goto, NobodyAcquires
  <2>2. ASSUME NEW p \in Procs, Foreign(p) PROVE TypeOK'
    BY <2>2 DEF Foreign, Goto
  <2>3. ASSUME NEW p \in Procs, Acquire(p) PROVE TypeOK'
    <3>1. CASE Create(p)
      BY <3>1, LockFacts DEF Create, Absent, Goto
    <3>2. CASE CreateFails(p)
      BY <3>2 DEF CreateFails, Goto
    <3>3. CASE WritePid(p)
      BY <3>3, LockFacts DEF WritePid, Goto
    <3>4. CASE ReadHolder(p)
      BY <3>4, LockFacts DEF ReadHolder, Goto
    <3>5. CASE ProbeHolder(p)
      BY <3>5 DEF ProbeHolder, Goto
    <3>6. CASE RemoveStale(p)
      BY <3>6 DEF RemoveStale, Goto, Retry, NextAttempt
    <3> QED
      BY <2>3, <3>1, <3>2, <3>3, <3>4, <3>5, <3>6 DEF Acquire
  <2>4. ASSUME NEW p \in Procs, Release(p) \/ Exit(p) \/ Crash(p) PROVE TypeOK'
    BY <2>4 DEF Release, Exit, Crash, Goto
  <2>5. CASE CleanAll
    BY <2>5 DEF CleanAll
  <2>6. CASE UNCHANGED vars
    BY <2>6 DEF vars
  <2> QED
    BY <2>1, <2>2, <2>3, <2>4, <2>5, <2>6 DEF Next
<1> QED
  BY <1>1, <1>2, PTL DEF Spec
-----------------------------------------------------------------------------
(* Mutual exclusion up to the first fault: OrderlyInv is inductive. *)

LEMMA OrderlyInit == Init => OrderlyInv
BY DEF Init, OrderlyInv, OneAcquirer, LockNamesMeasurer, CreatorWrites,
       ProbesMeasurer, RemovesOnlyStale, SecondAttemptFindsNone, StaleReclaimed,
       Acquiring, Ending, PCs, Attempts

\* Once there was a fault, there was one.
LEMMA OrderlyBefore ==
  ASSUME TypeOK, [Next]_vars, orderly'
  PROVE  orderly
BY DEF Next, vars, Start, Foreign, Acquire, Create, CreateFails, WritePid, ReadHolder,
       ProbeHolder, RemoveStale, Release, Exit, Crash, CleanAll, TypeOK

LEMMA OrderlyNext ==
  ASSUME TypeOK, OrderlyInv, TypeOK', [Next]_vars
  PROVE  OrderlyInv'
<1> SUFFICES ASSUME orderly' PROVE OrderlyInv'
  BY DEF OrderlyInv
<1> orderly
  BY OrderlyBefore
<1> USE DEF OrderlyInv, TypeOK, OneAcquirer, LockNamesMeasurer, CreatorWrites,
            ProbesMeasurer, RemovesOnlyStale, SecondAttemptFindsNone, StaleReclaimed,
            Acquiring, Ending, PCs, Attempts, Goto
<1>1. ASSUME NEW p \in Procs, Start(p) PROVE OrderlyInv'
  <2>1. NobodyAcquires
    BY <1>1, Zenon DEF Start
  <2> QED
    BY <1>1, <2>1 DEF Start, NobodyAcquires
<1>2. ASSUME NEW p \in Procs, Foreign(p) PROVE OrderlyInv'
  BY <1>2 DEF Foreign
<1>3. ASSUME NEW p \in Procs, Create(p) PROVE OrderlyInv'
  <2>1. \A q \in Procs : pc[q] # "measuring"
    BY <1>3, LockFacts DEF Create, Absent
  <2> QED
    BY <1>3, <2>1 DEF Create, Absent
<1>4. ASSUME NEW p \in Procs, CreateFails(p) PROVE OrderlyInv'
  BY <1>4 DEF CreateFails
<1>5. ASSUME NEW p \in Procs, WritePid(p) PROVE OrderlyInv'
  BY <1>5, LockFacts DEF WritePid
<1>6. ASSUME NEW p \in Procs, ReadHolder(p) PROVE OrderlyInv'
  <2>1. attempt[p] # Attempts
    BY <1>6 DEF ReadHolder
  <2>2. CASE file # NoFile /\ file.text = "pid"
    <3>1. file.creator \in Procs /\ \A q \in Procs : pc[q] = "measuring" => file.creator = q
      BY <2>2, LockFacts
    <3> QED
      BY <1>6, <2>1, <2>2, <3>1 DEF ReadHolder
  <2>3. CASE ~(file # NoFile /\ file.text = "pid")
    <3>1. \A q \in Procs : pc[q] # "measuring"
      BY <2>3, LockFacts
    <3> QED
      BY <1>6, <2>1, <2>3, <3>1 DEF ReadHolder
  <2> QED
    BY <2>2, <2>3
<1>7. ASSUME NEW p \in Procs, ProbeHolder(p) PROVE OrderlyInv'
  BY <1>7 DEF ProbeHolder, Alive
<1>8. ASSUME NEW p \in Procs, RemoveStale(p) PROVE OrderlyInv'
  BY <1>8 DEF RemoveStale, Retry, NextAttempt
<1>9. ASSUME NEW p \in Procs, Release(p) PROVE OrderlyInv'
  BY <1>9, LockFacts DEF Release
<1>10. ASSUME NEW p \in Procs, Exit(p) \/ Crash(p) PROVE OrderlyInv'
  BY <1>10 DEF Exit, Crash
<1>11. CASE CleanAll
  BY <1>11 DEF CleanAll
<1>12. CASE UNCHANGED vars
  BY <1>12 DEF vars
<1> QED
  BY <1>1, <1>2, <1>3, <1>4, <1>5, <1>6, <1>7, <1>8, <1>9, <1>10, <1>11, <1>12
     DEF Next, Acquire

\* Up to the first overlap, lost pid or deletion of the lock, whatever crashes and
\* whichever pids are used again, the strengthened invariant holds in every state.
THEOREM OrderlyCorrect == Spec => []OrderlyInv
<1>1. Init => OrderlyInv
  BY OrderlyInit
<1>2. TypeOK /\ OrderlyInv /\ TypeOK' /\ [Next]_vars => OrderlyInv'
  BY OrderlyNext
<1> QED
  BY <1>1, <1>2, TypeCorrect, PTL DEF Spec

\* Two measurements never run at the same time (lock.go, acquireBenchLock), until a
\* process starts to acquire the lock while another one does, or the lock is tampered with.
THEOREM OrderlyMutualExclusion == Spec => []OrderlyExclusion
<1>1. OrderlyInv => OrderlyExclusion
  <2> SUFFICES ASSUME OrderlyInv, orderly, NEW p \in Procs, NEW q \in Procs,
                      pc[p] = "measuring", pc[q] = "measuring"
               PROVE  p = q
    BY DEF OrderlyExclusion, MutualExclusion
  <2>1. Lock(p, "pid") = Lock(q, "pid")
    BY DEF OrderlyInv, LockNamesMeasurer
  <2> QED
    BY <2>1, LockFacts
<1> QED
  BY <1>1, OrderlyCorrect, PTL

\* A lock left by a crashed run is reclaimed: the process that unlinks it gets
\* the lock on its second attempt, and never runs out of attempts.
THEOREM OrderlyReclaim == Spec => []StaleReclaimed
<1>1. OrderlyInv => StaleReclaimed
  BY DEF OrderlyInv, StaleReclaimed
<1> QED
  BY <1>1, OrderlyCorrect, PTL

\* The lock file of a measuring process carries its pid, so that whoever comes later
\* probes the right process.
THEOREM OrderlyLockNames == Spec => []LockNamesMeasurer
<1>1. OrderlyInv => LockNamesMeasurer
  BY DEF OrderlyInv, LockNamesMeasurer
<1> QED
  BY <1>1, OrderlyCorrect, PTL

\* The lock file implements the abstract mutex: writing the pid takes it, the release
\* and a crash drop it, an overlap, a lost pid and a deletion are the abstract faults,
\* and every other system call is a stutter.
THEOREM LockRefinement == Spec => MutexSpec
<1> DEFINE M == {p \in Procs : pc[p] = "measuring"}
<1>1. Init => Mutex!Init
  BY DEF Init, Mutex!Init
<1>2. TypeOK /\ OrderlyInv /\ TypeOK' /\ [Next]_vars => [Mutex!Next]_<<M, orderly>>
  <2> SUFFICES ASSUME TypeOK, OrderlyInv, TypeOK', [Next]_vars
               PROVE  Mutex!Next \/ UNCHANGED <<M, orderly>>
    OBVIOUS
  <2>1. CASE ~orderly'
    <3>1. orderly' = FALSE
      BY <2>1 DEF TypeOK
    <3>2. M' \in SUBSET Procs
      OBVIOUS
    <3> QED
      BY <3>1, <3>2 DEF Mutex!Next, Mutex!Fault
  <2>2. CASE orderly'
    <3>1. orderly /\ orderly' = orderly
      BY <2>2, OrderlyBefore DEF TypeOK
    <3> pc \in [Procs -> PCs]
      BY DEF TypeOK
    <3> USE DEF Goto, Acquiring, Ending
    <3>2. ASSUME NEW p \in Procs, WritePid(p)
          PROVE  Mutex!Take(p)
      <4>1. M = {}
        BY <3>1, <3>2, LockFacts DEF WritePid, OrderlyInv, LockNamesMeasurer, CreatorWrites
      <4>2. M' = {p}
        BY <3>2, <4>1 DEF WritePid
      <4> QED
        BY <3>1, <4>1, <4>2 DEF Mutex!Take
    <3>3. ASSUME NEW p \in Procs, Release(p) \/ Crash(p), pc[p] = "measuring"
          PROVE  Mutex!Drop(p)
      <4>1. M' = M \ {p}
        BY <3>3 DEF Release, Crash
      <4> QED
        BY <3>1, <3>3, <4>1 DEF Mutex!Drop
    <3>4. ASSUME NEW p \in Procs,
                 \/ Start(p) \/ Foreign(p) \/ Exit(p)
                 \/ Create(p) \/ CreateFails(p) \/ ReadHolder(p)
                 \/ ProbeHolder(p) \/ RemoveStale(p)
                 \/ Crash(p) /\ pc[p] # "measuring"
          PROVE  M' = M
      BY <3>4 DEF Start, Foreign, Exit, Create, CreateFails, ReadHolder, ProbeHolder,
                  RemoveStale, Crash
    <3>5. ASSUME CleanAll \/ UNCHANGED vars PROVE M' = M
      BY <3>5 DEF CleanAll, vars
    <3>6. ASSUME NEW p \in Procs, Release(p) PROVE pc[p] = "measuring"
      BY <3>6 DEF Release
    <3> HIDE DEF M
    <3> QED
      BY <3>1, <3>2, <3>3, <3>4, <3>5, <3>6 DEF Next, Acquire, Mutex!Next
  <2> QED
    BY <2>1, <2>2
<1> QED
  BY <1>1, <1>2, TypeCorrect, OrderlyCorrect, PTL DEF Spec, MutexSpec, Mutex!Spec
=============================================================================
