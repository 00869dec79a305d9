-------------------------- MODULE MeasurementMutex --------------------------
(***************************************************************************)
(* What the bench lock promises (src/internal/gate/lock.go, the comment on *)
(* acquireBenchLock): at any time at most one process of the module is     *)
(* measuring.  A process starts to measure only when no other does, and    *)
(* stops when it releases the lock or dies.  The promise is kept until the *)
(* first fault; after it, anybody may be measuring.                        *)
(***************************************************************************)
CONSTANT Procs

VARIABLES
  measuring,  \* the set of processes that are measuring
  orderly     \* no fault happened yet

Init == measuring = {} /\ orderly = TRUE

Take(p) == measuring = {} /\ measuring' = {p} /\ UNCHANGED orderly

Drop(p) == p \in measuring /\ measuring' = measuring \ {p} /\ UNCHANGED orderly

Fault == orderly' = FALSE /\ measuring' \in SUBSET Procs

Next == Fault \/ \E p \in Procs : Take(p) \/ Drop(p)

Spec == Init /\ [][Next]_<<measuring, orderly>>
=============================================================================
