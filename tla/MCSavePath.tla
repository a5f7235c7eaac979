----------------------------- MODULE MCSavePath -----------------------------
(* Instances of SavePath for TLC. *)
EXTENDS SavePath

MCListener == {"listener"}
MCBoth     == {"listener", "main"}
=============================================================================
