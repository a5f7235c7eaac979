--------------------------- MODULE SettingsStore ---------------------------
(***************************************************************************)
(* The settings file.  Every command that changes a setting is a process:  *)
(* it loads the whole file, changes what it was asked to change, truncates *)
(* the file and writes all of it again.  Nothing locks it.                 *)
(*                                                                         *)
(* A setting stands for those that are stored alike: length for the whole  *)
(* numbers and paths, keybind for the two keybinds.  encoding is the three *)
(* settings the migration looks at, legacy when they have the values an    *)
(* old release wrote by default.                                           *)
(***************************************************************************)

CONSTANT
  Commands  \* the commands that will be given

VARIABLES
  file,     \* the lines of the file: key -> value; none when there is no file
  command,  \* per command: what it is, where it is, its settings_
  wanted,   \* history: what the commands so far have asked for
  disturbed \* history: a command ran beside another, or was cut off in its write

vars == <<file, command, wanted, disturbed>>

Version == "2"

Defaults == [version |-> Version, length |-> "default", keybind |-> "default",
             enabled |-> "true", source |-> "auto", encoding |-> "default"]

Keys == DOMAIN Defaults

NoLines == [k \in {} |-> "none"]

(* Mutant: the source is only written while audio is enabled. *)
LinesWithoutAudio(settings) ==
  [k \in IF settings.enabled = "true" THEN Keys ELSE Keys \ {"source"} |-> settings[k]]

\* Save writes every setting, in a fixed order.
Lines(settings) == [k \in Keys |-> settings[k]]

\* What a line is read as: an empty source is automatic, an invalid number is
\* ignored.
Parsed(k, value) ==
  CASE k = "source" /\ value = "" -> "auto"
    [] value = "invalid"          -> Defaults[k]
    [] OTHER                      -> value

\* A version that is not a number is none.
StoredVersion(lines) == "version" \in DOMAIN lines /\ lines.version # "invalid"

\* A file without a version and with the old defaults is migrated.
Migrated(lines, settings) ==
  IF ~StoredVersion(lines) /\ settings.encoding = "legacy"
    THEN [settings EXCEPT !.encoding = "default"]
    ELSE settings

Read(lines) ==
  [k \in Keys |-> IF k \in DOMAIN lines THEN Parsed(k, lines[k]) ELSE Defaults[k]]

\* No file is read like an empty one.
Load(lines) == [Migrated(lines, Read(lines)) EXCEPT !.version = Version]

\* The files a first command may find: none, one of an old release, and two an
\* editor has been at.
FirstFiles ==
  {NoLines,
   [length |-> "chosen", encoding |-> "legacy"],
   [version |-> Version, length |-> "invalid", source |-> "", encoding |-> "legacy"],
   [version |-> "invalid", length |-> "chosen", encoding |-> "legacy"]}

\* The settings commands and what each of them changes.
Changed(op, s) ==
  CASE op = "length"   -> [s EXCEPT !.length = "chosen"]
    [] op = "keybind"  -> [s EXCEPT !.keybind = "chosen"]
    [] op = "captured" -> [s EXCEPT !.keybind = "captured"]
    [] op = "audioOff" -> [s EXCEPT !.enabled = "false"]
    [] op = "audioOn"  -> [s EXCEPT !.enabled = "true"]
    [] op = "auto"     -> [s EXCEPT !.enabled = "true", !.source = "auto"]
    [] op = "source"   -> [s EXCEPT !.enabled = "true", !.source = "chosen"]
    [] op = "legacy"   -> [s EXCEPT !.encoding = "legacy"]
    [] op = "setup"    -> s

Ops == {"length", "keybind", "captured", "audioOff", "audioOn", "auto", "source",
        "legacy", "setup", "show"}

\* A process that has ended, or has not begun, has no settings.
Ended(pc) == [pc |-> pc, op |-> "none", settings |-> Defaults]

Init ==
  /\ file \in FirstFiles
  /\ command = [c \in Commands |-> Ended("idle")]
  /\ wanted = Load(file)
  /\ disturbed = FALSE

At(c, pc) == command[c].pc = pc

Active(c) == command[c].pc \notin {"idle", "done"}

\* Another command has loaded the file and may still write it.
Beside(c) == \E b \in Commands \ {c} : command[b].pc \in {"loaded", "open", "write"}

-----------------------------------------------------------------------------
\* ClipDeckCore's constructor.
LoadSettings(c) ==
  /\ At(c, "idle")
  /\ \E op \in Ops :
       command' = [command EXCEPT
         ![c] = [pc |-> IF op = "captured" THEN "capture" ELSE "loaded",
                 op |-> op, settings |-> Load(file)]]
  /\ disturbed' = (disturbed \/ Beside(c))
  /\ UNCHANGED <<file, wanted>>

\* SetKeybindFromCapture constructs a second core when the keybind is there; it
\* gives up after fifteen seconds or when the keybind is not supported.
KeybindCaptured(c) ==
  /\ At(c, "capture")
  /\ command' = [command EXCEPT ![c].pc = "loaded", ![c].settings = Load(file)]
  /\ disturbed' = (disturbed \/ Beside(c))
  /\ UNCHANGED <<file, wanted>>

\* show, an argument that is refused, a clip directory that cannot be created.
ChangesNothing(c) == At(c, "loaded") /\ command[c].op \notin {"captured", "setup"}

\* There is no audio source, or a plugin or ffmpeg is missing.
SetupNativeRecorderFails(c) == At(c, "loaded") /\ command[c].op = "setup"

CaptureGivesUp(c) == At(c, "capture")

LeavesUnchanged(c) ==
  /\ ChangesNothing(c) \/ SetupNativeRecorderFails(c) \/ CaptureGivesUp(c)
  /\ command' = [command EXCEPT ![c] = Ended("done")]
  /\ UNCHANGED <<file, wanted, disturbed>>

SetValue(c) ==
  /\ At(c, "loaded")
  /\ command[c].op # "show"
  /\ command' = [command EXCEPT ![c].pc = "open",
                                ![c].settings = Changed(command[c].op, @)]
  /\ UNCHANGED <<file, wanted, disturbed>>

OpenFails(c) ==
  /\ At(c, "open")
  /\ command' = [command EXCEPT ![c] = Ended("done")]
  /\ UNCHANGED <<file, wanted, disturbed>>

Truncate(c) ==
  /\ At(c, "open")
  /\ file' = NoLines
  /\ command' = [command EXCEPT ![c].pc = "write"]
  /\ UNCHANGED <<wanted, disturbed>>

\* The stream's buffer is written from the start of the file when it closes.
\* What another command has written meanwhile may be longer: its end stays.
Overlaid(settings) ==
  {Lines(settings)} \union
  (IF "encoding" \in DOMAIN file
     THEN {[Lines(settings) EXCEPT !.encoding = file.encoding]} ELSE {})

WriteLines(c) ==
  /\ At(c, "write")
  /\ file' \in Overlaid(command[c].settings)
  /\ command' = [command EXCEPT ![c] = Ended("done")]
  /\ wanted' = Changed(command[c].op, wanted)
  /\ UNCHANGED disturbed

\* The command is killed, or the disk is full when the stream closes, which
\* output.good() has not waited for: the file stays as it was truncated.
CutOff(c) ==
  /\ Active(c)
  /\ command' = [command EXCEPT ![c] = Ended("done")]
  /\ disturbed' = (disturbed \/ At(c, "write"))
  /\ UNCHANGED <<file, wanted>>

CommandStep(c) ==
  \/ LoadSettings(c) \/ KeybindCaptured(c) \/ LeavesUnchanged(c) \/ SetValue(c)
  \/ OpenFails(c) \/ Truncate(c) \/ WriteLines(c) \/ CutOff(c)

Next == \E c \in Commands : CommandStep(c)

Spec == Init /\ [][Next]_vars

-----------------------------------------------------------------------------
\* Settings commands add up as long as none loads the file while another is about
\* to write it, and none is cut off between the truncation and the write: whatever
\* file the first one found, the next command and the next daemon load what has
\* been asked for so far, and what nobody touched as it was.  In particular
\* switching audio off keeps the source, an explicit choice of the old defaults is
\* not migrated away, and old defaults nobody chose are migrated once.
SettingsSurvive ==
  disturbed \/ (\E c \in Commands : At(c, "write")) \/ Load(file) = wanted
=============================================================================
