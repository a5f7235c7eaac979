------------------------------ MODULE MCDaemon ------------------------------
(* Instances of Daemon for TLC: the configurations give every constant. *)
EXTENDS Daemon
=============================================================================
