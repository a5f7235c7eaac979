---------------------------- MODULE MCSaveQueue ----------------------------
(* Instance of SaveQueue for TLC. *)
EXTENDS SaveQueue

CONSTANTS c1, c2

MCCallers == {c1, c2}
=============================================================================
