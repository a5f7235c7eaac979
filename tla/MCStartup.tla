----------------------------- MODULE MCStartup -----------------------------
(* Two settings commands, and a daemon that tries two captures. *)
EXTENDS Startup

MCCommands == {"first", "second"}
=============================================================================
