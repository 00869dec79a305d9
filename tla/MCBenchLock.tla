----------------------------- MODULE MCBenchLock ----------------------------
(* Small instances of BenchLock for TLC. *)
EXTENDS BenchLock

CONSTANTS p1, p2, p3

TwoProcs == {p1, p2}
ThreeProcs == {p1, p2, p3}

AllFaults == {"overlap", "lostpid", "clean"}
OnlyOverlap == {"overlap"}
=============================================================================
