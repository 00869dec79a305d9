----------------------------- MODULE MCCollect ------------------------------
(* Small instances of Collect for TLC. *)
EXTENDS Collect

CONSTANTS v1, t1, t2, noId, s1

Hit(t, d) == [id |-> t, ms |-> d]

\* No trace; two in either order of slowness, or as slow as each other; one of
\* the two without an id, behind or ahead of the other.
SmallResults ==
  { << >>, <<Hit(t1, 1), Hit(t2, 2)>>, <<Hit(t1, 2), Hit(t2, 2)>>,
    <<Hit(t1, 2), Hit(noId, 1)>>, <<Hit(t1, 1), Hit(noId, 2)>> }
=============================================================================
