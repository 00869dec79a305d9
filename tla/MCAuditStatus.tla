--------------------------- MODULE MCAuditStatus ----------------------------
(* Small instances of AuditStatus for TLC. *)
EXTENDS AuditStatus

CONSTANTS h1, h2, h3

ThreeIds == {h1, h2, h3}
=============================================================================
