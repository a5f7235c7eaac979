---------------------------- MODULE MCLifecycle ----------------------------
(* Three commands, in any order and overlapping: a start, one of every other
   kind, and a second start, a stop or a save. *)
EXTENDS Lifecycle

MCOps == [first  |-> {"start"},
          second |-> {"stop", "restart", "save", "choose", "status"},
          third  |-> {"start", "stop", "save"}]
=============================================================================
