----------------------------- MODULE BenchLock ------------------------------
(***************************************************************************)
(* The lock file .go-perf-agent/bench.lock (src/internal/gate/lock.go).    *)
(* Every `bench verdict` and `bench regression` of a module takes it before *)
(* it measures.  One action is one system call on the file or one signal   *)
(* probe, because that is where two processes interleave:                  *)
(*                                                                         *)
(*   open(O_CREATE|O_EXCL) -> write the pid -> measure -> unlink           *)
(*        \ EEXIST -> read the file -> kill(pid, 0) -> refused             *)
(*                        \ no pid        \ dead -> unlink -> open again   *)
(*                                                                         *)
(* A member of Procs is a pid.  When its process is gone the pid may be    *)
(* given to a new one, so a stale file can name a process that is alive.   *)
(*                                                                         *)
(* Bug_X is a plausible bug of X.                                          *)
(***************************************************************************)
EXTENDS Naturals

CONSTANTS
  Procs,    \* the pids of bench commands
  NoFile,   \* bench.lock does not exist
  NoPid,    \* the lock file could not be read, or held no pid
  Faults    \* what may go wrong besides crashes, a subset of
            \*   "overlap": an acquisition starts while another one runs
            \*   "lostpid": writing the pid fails (the code ignores the error)
            \*   "clean":   `clean --all` deletes the directory's files

LockFile == [creator : Procs, text : {"empty", "pid"}]

ASSUME LockAssumption ==
  /\ NoFile \notin LockFile
  /\ NoPid \notin Procs
  /\ Faults \subseteq {"overlap", "lostpid", "clean"}

VARIABLES
  file,     \* bench.lock: NoFile, or who created it and if the pid is in it
  pc,       \* where the process with this pid is; "off": there is none
  attempt,  \* the attempt of acquireBenchLock's loop the process is in
  holder,   \* the pid it read from the lock file
  orderly   \* history: no two acquisitions overlapped, no pid was lost and
            \*   nobody else deleted the lock, up to now

vars == <<file, pc, attempt, holder, orderly>>

\* Bug: the stale lock is removed and the loop ends.
Bug_Attempts == 1

Attempts == 2   \* the loop retries once

Acquiring == {"open", "write", "read", "kill", "remove"}
Ending == {"released", "refused", "failed", "error"}
PCs == Acquiring \cup Ending \cup {"off", "measuring", "foreign"}

Init ==
  /\ file = NoFile
  /\ pc = [p \in Procs |-> "off"]
  /\ attempt = [p \in Procs |-> 1]
  /\ holder = [p \in Procs |-> NoPid]
  /\ orderly = TRUE

Goto(p, where) == pc' = [pc EXCEPT ![p] = where]

\* The file that p created, with or without its pid in it.
Lock(p, text) == [creator |-> p, text |-> text]

\* Nobody is inside acquireBenchLock.
NobodyAcquires == \A q \in Procs : pc[q] \notin Acquiring

\* A new process calls acquireBenchLock.
Start(p) ==
  /\ pc[p] = "off"
  /\ "overlap" \in Faults \/ NobodyAcquires
  /\ orderly' = (orderly /\ NobodyAcquires)
  /\ Goto(p, "open")
  /\ attempt' = [attempt EXCEPT ![p] = 1]
  /\ holder' = [holder EXCEPT ![p] = NoPid]
  /\ UNCHANGED file

\* A process that has nothing to do with benchmarks gets the pid.
Foreign(p) ==
  /\ pc[p] = "off"
  /\ Goto(p, "foreign")
  /\ UNCHANGED <<file, attempt, holder, orderly>>

\* Bug: open without O_EXCL.
Bug_Absent == TRUE

Absent == file = NoFile

\* open(O_CREATE|O_EXCL) succeeds: the file is the process's, and still empty.
Create(p) ==
  /\ pc[p] = "open" /\ Absent
  /\ file' = Lock(p, "empty")
  /\ Goto(p, "write")
  /\ UNCHANGED <<attempt, holder, orderly>>

\* open fails: EEXIST is probed, any other error is returned at once.
CreateFails(p) ==
  /\ pc[p] = "open"
  /\ \/ file # NoFile /\ Goto(p, "read")
     \/ Goto(p, "error")
  /\ UNCHANGED <<file, attempt, holder, orderly>>

\* The pid goes to the file the process created, which is no longer the one
\* at the lock's path when somebody unlinked it in between.
WritePid(p) ==
  /\ pc[p] = "write"
  /\ \/ /\ file' = IF file = Lock(p, "empty") THEN Lock(p, "pid") ELSE file
        /\ UNCHANGED orderly
     \/ /\ "lostpid" \in Faults
        /\ file' = file /\ orderly' = FALSE
  /\ Goto(p, "measuring")
  /\ UNCHANGED <<attempt, holder>>

\* benchLockHolder reads the file: gone or without a pid counts as not alive.
ReadHolder(p) ==
  /\ pc[p] = "read"
  /\ IF file # NoFile /\ file.text = "pid"
     THEN Goto(p, "kill") /\ holder' = [holder EXCEPT ![p] = file.creator]
     ELSE Goto(p, "remove") /\ holder' = [holder EXCEPT ![p] = NoPid]
  /\ UNCHANGED <<file, attempt, orderly>>

\* Bug: a process that may not be signalled counts as dead.
Bug_Alive(q) == FALSE

Alive(q) == pc[q] # "off"

\* kill(pid, 0): a live holder refuses the caller, a dead one makes the lock stale.
ProbeHolder(p) ==
  /\ pc[p] = "kill"
  /\ Goto(p, IF Alive(holder[p]) THEN "refused" ELSE "remove")
  /\ UNCHANGED <<file, attempt, holder, orderly>>

\* Bug: the loop runs once more than it should.
Bug_Retry(p) == attempt[p] <= Attempts

Retry(p) == attempt[p] < Attempts

\* Bug: the attempts are not counted.
Bug_NextAttempt(p) == attempt[p]

NextAttempt(p) == attempt[p] + 1

\* The stale lock is unlinked by name, whatever file has that name by now.
RemoveStale(p) ==
  /\ pc[p] = "remove"
  /\ file' = NoFile
  /\ IF Retry(p)
     THEN Goto(p, "open") /\ attempt' = [attempt EXCEPT ![p] = NextAttempt(p)]
     ELSE Goto(p, "failed") /\ UNCHANGED attempt
  /\ UNCHANGED <<holder, orderly>>

\* The deferred release: unlink by name.
Release(p) ==
  /\ pc[p] = "measuring"
  /\ file' = NoFile
  /\ Goto(p, "released")
  /\ UNCHANGED <<attempt, holder, orderly>>

\* The command reports its result or its error, and its process ends.
Exit(p) ==
  /\ pc[p] \in Ending \cup {"foreign"}
  /\ Goto(p, "off")
  /\ UNCHANGED <<file, attempt, holder, orderly>>

\* The process is killed: no deferred call runs, the file stays.
Crash(p) ==
  /\ pc[p] \in Acquiring \cup {"measuring"}
  /\ Goto(p, "off")
  /\ UNCHANGED <<file, attempt, holder, orderly>>

\* `clean --all` wipes everything but scope.json, the lock included.
CleanAll ==
  /\ "clean" \in Faults
  /\ file # NoFile
  /\ file' = NoFile /\ orderly' = FALSE
  /\ UNCHANGED <<pc, attempt, holder>>

Acquire(p) ==
  \/ Create(p) \/ CreateFails(p) \/ WritePid(p)
  \/ ReadHolder(p) \/ ProbeHolder(p) \/ RemoveStale(p)

Next ==
  \/ \E p \in Procs :
       Start(p) \/ Foreign(p) \/ Acquire(p) \/ Release(p) \/ Exit(p) \/ Crash(p)
  \/ CleanAll

Spec == Init /\ [][Next]_vars

\* A running process is scheduled: its next system call is eventually made.
Fairness == \A p \in Procs : WF_vars(Acquire(p))

FairSpec == Spec /\ Fairness

-----------------------------------------------------------------------------
(* Properties *)

\* Type invariant of the lock protocol.
TypeOK ==
  /\ file \in LockFile \cup {NoFile}
  /\ pc \in [Procs -> PCs]
  /\ attempt \in [Procs -> 1..Attempts]
  /\ holder \in [Procs -> Procs \cup {NoPid}]
  /\ orderly \in BOOLEAN

\* "only one bench measurement runs at a time" (lock.go, acquireBenchLock).
MutualExclusion ==
  \A p, q \in Procs : pc[p] = "measuring" /\ pc[q] = "measuring" => p = q

\* Two measurements exclude each other as long as acquisitions do not overlap,
\* pids are written and nobody else deletes the lock, whatever crashes.
OrderlyExclusion == orderly => MutualExclusion

\* While a process measures, the lock file carries its pid, so that every
\* later command is refused by a probe of the right process.
LockNamesMeasurer ==
  orderly => \A p \in Procs : pc[p] = "measuring" => file = Lock(p, "pid")

\* A lock left by a crashed run never blocks the next one: a process that found
\* the lock stale and unlinked it gets it on its second attempt.
StaleReclaimed == orderly => \A p \in Procs : pc[p] # "failed"

\* acquireBenchLock always returns ("fails fast"): no process keeps
\* trying, whatever the others do to the file.
AcquireReturns ==
  \A p \in Procs : (pc[p] \in Acquiring) ~> (pc[p] \notin Acquiring)

\* The lock file implements the abstract mutex, up to the first fault.
Mutex == INSTANCE MeasurementMutex
           WITH measuring <- {p \in Procs : pc[p] = "measuring"}
MutexSpec == Mutex!Spec
-----------------------------------------------------------------------------
(* The inductive invariant of orderly acquisition. *)

\* At most one process is inside acquireBenchLock.
OneAcquirer ==
  \A p, q \in Procs : pc[p] \in Acquiring /\ pc[q] \in Acquiring => p = q

\* The lock is created by exactly the process that is about to write to it.
CreatorWrites ==
  \A p \in Procs : pc[p] = "write" => file = Lock(p, "empty")

\* Whoever probes a pid probes the pid of the process that is measuring.
ProbesMeasurer ==
  \A p, q \in Procs :
    pc[p] = "kill" => holder[p] \in Procs /\ (pc[q] = "measuring" => holder[p] = q)

\* Nobody removes the lock of a process that is measuring.
RemovesOnlyStale ==
  \A p, q \in Procs : pc[p] = "remove" => pc[q] # "measuring"

\* On the second attempt the lock is gone, and the process goes straight through.
SecondAttemptFindsNone ==
  \A p \in Procs :
    attempt[p] = Attempts =>
      /\ pc[p] = "open" => file = NoFile
      /\ pc[p] \notin {"read", "kill", "remove", "failed"}

\* With one acquisition at a time the protocol is right, for these reasons
\* together: this is the invariant that a step preserves.
OrderlyInv ==
  orderly =>
    /\ OneAcquirer
    /\ LockNamesMeasurer
    /\ CreatorWrites
    /\ ProbesMeasurer
    /\ RemovesOnlyStale
    /\ SecondAttemptFindsNone
    /\ StaleReclaimed
=============================================================================
