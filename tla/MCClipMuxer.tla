---------------------------- MODULE MCClipMuxer ----------------------------
(* Calls like the recorder's (trusted, with a boundary to trim to), like the *)
(* defaults' (probed, checked for black) and one that has nothing to export. *)
EXTENDS ClipMuxer

Call(segments, endTrim, target, trust) ==
  [segments |-> segments, endTrim |-> endTrim, target |-> target,
   trust |-> trust, black |-> ~trust]

MCCalls == [daemon  |-> {Call(2, 1, 1, TRUE), Call(2, 0, 2, TRUE)},
            command |-> {Call(2, 0, 1, FALSE), Call(1, 1, 1, TRUE)}]
=============================================================================
