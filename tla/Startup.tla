------------------------------ MODULE Startup ------------------------------
(***************************************************************************)
(* A daemon that starts while settings commands are given: it loads the    *)
(* settings file once, and opens, keeps and replaces its capture with what *)
(* it has loaded, whatever the file says by then.                          *)
(***************************************************************************)
CONSTANTS Commands, MaxAttempts

VARIABLES
  config, \* the daemon's settings_, no lines before it has loaded them
  file, command, wanted, disturbed,
  main, attempt, recorder, local, held, granted, closed, abandoned

Settings == INSTANCE SettingsStore
Portal   == INSTANCE PortalSession

settingsVars == <<file, command, wanted, disturbed>>
portalVars == <<main, attempt, recorder, local, held, granted, closed, abandoned>>
vars == <<config, settingsVars, portalVars>>

Init ==
  /\ config = Settings!NoLines
  /\ Settings!Init
  /\ Portal!Init

\* daemon_core, in the forked child.
DaemonLoads ==
  /\ config = Settings!NoLines
  /\ config' = Settings!Load(file)
  /\ UNCHANGED <<settingsVars, portalVars>>

DaemonStep ==
  /\ config # Settings!NoLines
  /\ Portal!Next
  /\ UNCHANGED <<config, settingsVars>>

SettingsStep ==
  /\ Settings!Next
  /\ UNCHANGED <<config, portalVars>>

Next == DaemonLoads \/ DaemonStep \/ SettingsStep

Spec == Init /\ [][Next]_vars

\* The properties of the two parts, which hold of them together.
SettingsSurvive == Settings!SettingsSurvive
PortalReleased  == Portal!PortalReleased
=============================================================================
