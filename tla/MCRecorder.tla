----------------------------- MODULE MCRecorder -----------------------------
(* Instances of Recorder for TLC. *)
EXTENDS Recorder

MCOne == {1}
MCTwo == {1, 2}
=============================================================================
