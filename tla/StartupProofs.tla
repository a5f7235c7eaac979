--------------------------- MODULE StartupProofs ---------------------------
(***************************************************************************)
(* SettingsSurvive for every set of commands and PortalReleased for every  *)
(* number of captures: of the settings commands and the portal session     *)
(* alone, and of a daemon that starts beside settings commands, each step  *)
(* of which is a step of one of the two or changes neither.                *)
(***************************************************************************)
EXTENDS Startup, Naturals, TLAPS

-----------------------------------------------------------------------------
(* The settings commands.  Undisturbed, at most one of them is between its *)
(* load and its write, and what it holds is what the file holds, changed   *)
(* or about to be changed as it was asked.                                 *)

\* What a loaded ClipDeckSettings can hold: never an empty or invalid value.
ClipDeckSettings ==
  [version: {Settings!Version}, length: {"default", "chosen"},
   keybind: {"default", "chosen", "captured"}, enabled: {"true", "false"},
   source: {"auto", "chosen"}, encoding: {"default", "legacy"}]

\* Per key, the same.
ValuesOf(k) ==
  CASE k = "version"  -> {Settings!Version}
    [] k = "length"   -> {"default", "chosen"}
    [] k = "keybind"  -> {"default", "chosen", "captured"}
    [] k = "enabled"  -> {"true", "false"}
    [] k = "source"   -> {"auto", "chosen"}
    [] k = "encoding" -> {"default", "legacy"}

\* Every line that is there is read as a value the setting can have.
Readable(lines) ==
  \A k \in Settings!Keys :
    k \in DOMAIN lines => Settings!Parsed(k, lines[k]) \in ValuesOf(k)

\* The states of a command.
Commanded ==
  [pc: {"idle", "capture", "loaded", "open", "write", "done"},
   op: Settings!Ops \union {"none"}, settings: ClipDeckSettings]

\* The values the variables take.
SettingsTypes ==
  /\ Readable(file)
  /\ command \in [Commands -> Commanded]
  /\ wanted \in ClipDeckSettings
  /\ disturbed \in BOOLEAN

\* A command on its way was asked for something, and show writes nothing.
Asked ==
  \A c \in Commands :
    /\ command[c].pc \in {"capture", "loaded"} => command[c].op \in Settings!Ops
    /\ command[c].pc \in {"open", "write"} => command[c].op \in Settings!Ops \ {"show"}

Busy(c) == command[c].pc \in {"loaded", "open", "write"}

\* No two commands are between their load and the end of their write.
Alone == \A b, c \in Commands : Busy(b) /\ Busy(c) => b = c

\* A command's settings, against what has been asked for.
Held ==
  \A c \in Commands :
    /\ Settings!At(c, "loaded") => command[c].settings = wanted
    /\ command[c].pc \in {"open", "write"} =>
         command[c].settings = Settings!Changed(command[c].op, wanted)

\* The file, against what has been asked for.
Stored ==
  IF \E c \in Commands : Settings!At(c, "write") THEN file = Settings!NoLines
  ELSE Settings!Load(file) = wanted

\* The inductive invariant.
SettingsInv == SettingsTypes /\ Asked /\ (~disturbed => Alone /\ Held /\ Stored)

-----------------------------------------------------------------------------
(* Load and Save *)

\* The keys, spelled out.
LEMMA KeysAre ==
  Settings!Keys = {"version", "length", "keybind", "enabled", "source", "encoding"}
  BY DEF Settings!Keys, Settings!Defaults

\* Save and Load agree: what was written is read back.
LEMMA LoadLines ==
  ASSUME NEW s \in ClipDeckSettings
  PROVE  Settings!Load(Settings!Lines(s)) = s /\ Readable(Settings!Lines(s))
<1>1. DOMAIN s = Settings!Keys /\ s = [k \in Settings!Keys |-> s[k]]
  BY KeysAre DEF ClipDeckSettings
<1>2. \A k \in Settings!Keys : s[k] # "" /\ s[k] # "invalid" /\ s[k] \in ValuesOf(k)
  BY KeysAre DEF ClipDeckSettings, Settings!Version, ValuesOf
<1>3. \A k \in Settings!Keys : Settings!Parsed(k, s[k]) = s[k]
  BY <1>2 DEF Settings!Parsed
<1>4. /\ DOMAIN Settings!Lines(s) = Settings!Keys
      /\ \A k \in Settings!Keys : Settings!Lines(s)[k] = s[k]
  BY DEF Settings!Lines
<1>5. Settings!Read(Settings!Lines(s)) = [k \in Settings!Keys |-> s[k]]
  BY <1>3, <1>4 DEF Settings!Read
<1>6. Settings!Migrated(Settings!Lines(s), s) = s
  BY KeysAre, <1>2, <1>4 DEF Settings!Migrated, Settings!StoredVersion
<1>7. [s EXCEPT !.version = Settings!Version] = s
  BY DEF ClipDeckSettings
<1>8. Readable(Settings!Lines(s))
  BY <1>2, <1>3, <1>4 DEF Readable
<1> QED
  BY <1>1, <1>5, <1>6, <1>7, <1>8 DEF Settings!Load

\* Every settings command leaves settings that can be stored.
LEMMA ChangedIsValid ==
  ASSUME NEW s \in ClipDeckSettings, NEW op \in Settings!Ops \ {"show"}
  PROVE  Settings!Changed(op, s) \in ClipDeckSettings
  BY DEF Settings!Changed, Settings!Ops, ClipDeckSettings

\* What is loaded of a readable file can be stored.
LEMMA LoadIsValid ==
  ASSUME NEW lines, Readable(lines)
  PROVE  Settings!Load(lines) \in ClipDeckSettings
<1>1. \A k \in Settings!Keys : Settings!Defaults[k] \in ValuesOf(k)
  BY KeysAre DEF Settings!Defaults, ValuesOf
<1>2. \A k \in Settings!Keys : Settings!Read(lines)[k] \in ValuesOf(k)
  BY <1>1 DEF Readable, Settings!Read
<1>3. Settings!Read(lines) = [k \in Settings!Keys |-> Settings!Read(lines)[k]]
  BY DEF Settings!Read
<1>4. Settings!Read(lines) \in ClipDeckSettings
  <2>1. /\ Settings!Read(lines)["version"] \in {Settings!Version}
        /\ Settings!Read(lines)["length"] \in {"default", "chosen"}
        /\ Settings!Read(lines)["keybind"] \in {"default", "chosen", "captured"}
        /\ Settings!Read(lines)["enabled"] \in {"true", "false"}
        /\ Settings!Read(lines)["source"] \in {"auto", "chosen"}
        /\ Settings!Read(lines)["encoding"] \in {"default", "legacy"}
    BY <1>2, KeysAre DEF ValuesOf
  <2>2. DOMAIN Settings!Read(lines) =
          {"version", "length", "keybind", "enabled", "source", "encoding"}
    BY KeysAre DEF Settings!Read
  <2>3. Settings!Read(lines) = [version |-> Settings!Read(lines)["version"],
          length |-> Settings!Read(lines)["length"],
          keybind |-> Settings!Read(lines)["keybind"],
          enabled |-> Settings!Read(lines)["enabled"],
          source |-> Settings!Read(lines)["source"],
          encoding |-> Settings!Read(lines)["encoding"]]
    BY <1>3, <2>2, KeysAre
  <2> QED
    BY <2>1, <2>3 DEF ClipDeckSettings
<1>5. Settings!Migrated(lines, Settings!Read(lines)) \in ClipDeckSettings
  BY <1>4 DEF Settings!Migrated, ClipDeckSettings
<1> QED
  BY <1>5 DEF Settings!Load, ClipDeckSettings

\* Each of the files the first command may find is readable.
LEMMA FirstFilesReadable == \A lines \in Settings!FirstFiles : Readable(lines)
<1>1. Readable(Settings!NoLines)
  <2>1. DOMAIN Settings!NoLines = {}
    BY DEF Settings!NoLines
  <2> QED
    BY <2>1 DEF Readable
<1>2. Readable([length |-> "chosen", encoding |-> "legacy"])
  <2> DEFINE lines == [length |-> "chosen", encoding |-> "legacy"]
  <2>1. DOMAIN lines = {"length", "encoding"}
        /\ lines["length"] = "chosen" /\ lines["encoding"] = "legacy"
    OBVIOUS
  <2> HIDE DEF lines
  <2>2. Readable(lines)
    BY <2>1, KeysAre DEF Readable, Settings!Parsed, ValuesOf
  <2> QED
    BY <2>2 DEF lines
<1>3. Readable([version |-> Settings!Version, length |-> "invalid", source |-> "",
                encoding |-> "legacy"])
  <2> DEFINE lines == [version |-> Settings!Version, length |-> "invalid", source |-> "",
                       encoding |-> "legacy"]
  <2>1. DOMAIN lines = {"version", "length", "source", "encoding"}
        /\ lines["version"] = Settings!Version /\ lines["length"] = "invalid"
        /\ lines["source"] = "" /\ lines["encoding"] = "legacy"
    OBVIOUS
  <2> HIDE DEF lines
  <2>2. /\ Settings!Parsed("version", Settings!Version) = Settings!Version
        /\ Settings!Parsed("length", "invalid") = "default"
        /\ Settings!Parsed("source", "") = "auto"
        /\ Settings!Parsed("encoding", "legacy") = "legacy"
    BY DEF Settings!Parsed, Settings!Defaults, Settings!Version
  <2>3. Readable(lines)
    BY <2>1, <2>2, KeysAre DEF Readable, ValuesOf
  <2> QED
    BY <2>3 DEF lines
<1>4. Readable([version |-> "invalid", length |-> "chosen", encoding |-> "legacy"])
  <2> DEFINE lines == [version |-> "invalid", length |-> "chosen", encoding |-> "legacy"]
  <2>1. DOMAIN lines = {"version", "length", "encoding"}
        /\ lines["version"] = "invalid" /\ lines["length"] = "chosen"
        /\ lines["encoding"] = "legacy"
    OBVIOUS
  <2> HIDE DEF lines
  <2>2. /\ Settings!Parsed("version", "invalid") = Settings!Version
        /\ Settings!Parsed("length", "chosen") = "chosen"
        /\ Settings!Parsed("encoding", "legacy") = "legacy"
    BY DEF Settings!Parsed, Settings!Defaults
  <2>3. Readable(lines)
    BY <2>1, <2>2, KeysAre DEF Readable, ValuesOf
  <2> QED
    BY <2>3 DEF lines
<1> QED
  BY <1>1, <1>2, <1>3, <1>4 DEF Settings!FirstFiles

\* What another command left behind the new lines is readable too, and after a
\* truncation nothing is left.
LEMMA OverlaidReadable ==
  ASSUME NEW s \in ClipDeckSettings, Readable(file), NEW lines \in Settings!Overlaid(s)
  PROVE  Readable(lines) /\ (file = Settings!NoLines => lines = Settings!Lines(s))
<1>1. CASE lines = Settings!Lines(s)
  BY <1>1, LoadLines
<1>2. CASE /\ "encoding" \in DOMAIN file
           /\ lines = [Settings!Lines(s) EXCEPT !.encoding = file.encoding]
  <2>1. Settings!Parsed("encoding", file["encoding"]) \in ValuesOf("encoding")
    BY <1>2, KeysAre DEF Readable
  <2>2. DOMAIN lines = Settings!Keys /\ lines["encoding"] = file["encoding"]
        /\ \A k \in Settings!Keys \ {"encoding"} : lines[k] = Settings!Lines(s)[k]
    BY <1>2, KeysAre DEF Settings!Lines
  <2>3. \A k \in Settings!Keys : Settings!Parsed(k, lines[k]) \in ValuesOf(k)
    BY <2>1, <2>2, LoadLines DEF Readable, Settings!Lines
  <2>4. file # Settings!NoLines
    BY <1>2 DEF Settings!NoLines
  <2> QED
    BY <2>3, <2>4 DEF Readable
<1> QED
  BY <1>1, <1>2 DEF Settings!Overlaid

-----------------------------------------------------------------------------
\* The invariant holds before the first command.
LEMMA SettingsInit == Settings!Init => SettingsInv
<1> SUFFICES ASSUME Settings!Init PROVE SettingsInv
  OBVIOUS
<1>1. Readable(file) /\ wanted = Settings!Load(file) /\ disturbed = FALSE
  BY FirstFilesReadable DEF Settings!Init
<1>2. Settings!Defaults \in ClipDeckSettings
  BY DEF Settings!Defaults, ClipDeckSettings
<1>3. command \in [Commands -> Commanded]
      /\ \A c \in Commands : command[c].pc = "idle"
  <2>1. /\ Settings!Ended("idle") \in Commanded
        /\ Settings!Ended("idle").pc = "idle"
    BY <1>2 DEF Settings!Ended, Commanded
  <2> QED
    BY <2>1 DEF Settings!Init
<1>4. SettingsTypes
  BY <1>1, <1>3, LoadIsValid DEF SettingsTypes
<1> QED
  BY <1>1, <1>3, <1>4 DEF SettingsInv, Asked, Alone, Busy, Held, Stored, Settings!At

\* A step of one command leaves the others alone.
LEMMA OneMoves ==
  ASSUME SettingsTypes, NEW c \in Commands, NEW moved \in Commanded,
         command' = [command EXCEPT ![c] = moved]
  PROVE  /\ command'[c] = moved
         /\ \A b \in Commands \ {c} : command'[b] = command[b]
         /\ command' \in [Commands -> Commanded]
  BY DEF SettingsTypes

\* What a double EXCEPT leaves of a command.
LEMMA TwoFields ==
  ASSUME NEW r \in Commanded, NEW pc, NEW s
  PROVE  [r EXCEPT !.pc = pc, !.settings = s]
           = [pc |-> pc, op |-> r.op, settings |-> s]
<1>1. DOMAIN r = {"pc", "op", "settings"}
  BY DEF Commanded
<1> DEFINE new == [r EXCEPT !.pc = pc, !.settings = s]
<1>2. DOMAIN new = {"pc", "op", "settings"} /\ new["pc"] = pc
      /\ new["op"] = r["op"] /\ new["settings"] = s
      /\ new = [k \in DOMAIN new |-> new[k]]
  BY <1>1
<1> HIDE DEF new
<1>3. new = [pc |-> pc, op |-> r.op, settings |-> s]
  BY <1>2
<1> QED
  BY <1>3 DEF new

\* A process that has ended.
LEMMA EndedIsCommanded ==
  Settings!Ended("done") \in Commanded /\ Settings!Ended("done").pc = "done"
<1>1. Settings!Defaults \in ClipDeckSettings
  BY DEF Settings!Defaults, ClipDeckSettings
<1> QED
  BY <1>1 DEF Settings!Ended, Commanded

\* A load that has nobody beside it finds what has been asked for.
LEMMA LoadStep ==
  ASSUME SettingsInv, NEW c \in Commands,
         Settings!LoadSettings(c) \/ Settings!KeybindCaptured(c)
  PROVE  SettingsInv'
<1>1. PICK op \in Settings!Ops, pc \in {"capture", "loaded"} :
        command' = [command EXCEPT ![c] = [pc |-> pc, op |-> op,
                                           settings |-> Settings!Load(file)]]
  <2>1. CASE Settings!LoadSettings(c)
    BY <2>1 DEF Settings!LoadSettings
  <2>2. CASE Settings!KeybindCaptured(c)
    <3>1. command[c] \in Commanded /\ command[c].op \in Settings!Ops
      <4>1. command[c].pc = "capture"
        BY <2>2 DEF Settings!KeybindCaptured, Settings!At
      <4>2. command[c] \in Commanded
        BY DEF SettingsInv, SettingsTypes
      <4> QED
        BY <4>1, <4>2 DEF SettingsInv, Asked
    <3>2. [command[c] EXCEPT !.pc = "loaded", !.settings = Settings!Load(file)]
            = [pc |-> "loaded", op |-> command[c].op, settings |-> Settings!Load(file)]
      BY <3>1, TwoFields
    <3>3. command' = [command EXCEPT ![c] = [pc |-> "loaded", op |-> command[c].op,
                                             settings |-> Settings!Load(file)]]
      BY <2>2, <3>2 DEF Settings!KeybindCaptured
    <3> QED
      BY <3>1, <3>3
  <2> QED
    BY <2>1, <2>2
<1>2. /\ disturbed' = (disturbed \/ Settings!Beside(c)) /\ UNCHANGED <<file, wanted>>
      /\ ~Busy(c)
  BY DEF Settings!LoadSettings, Settings!KeybindCaptured, Settings!At, Busy
<1> DEFINE moved == [pc |-> pc, op |-> op, settings |-> Settings!Load(file)]
<1>3. moved \in Commanded
  BY LoadIsValid DEF Commanded, SettingsInv, SettingsTypes
<1>4. /\ command'[c] = moved
      /\ \A b \in Commands \ {c} : command'[b] = command[b]
      /\ command' \in [Commands -> Commanded]
  <2> HIDE DEF moved
  <2>1. SettingsTypes /\ command' = [command EXCEPT ![c] = moved]
    BY <1>1 DEF SettingsInv, moved
  <2> QED
    BY <1>3, <2>1, OneMoves
<1>5. SettingsTypes'
  <2>1. disturbed' \in BOOLEAN
    BY <1>2 DEF SettingsInv, SettingsTypes
  <2> QED
    BY <1>2, <1>4, <2>1 DEF SettingsInv, SettingsTypes, Readable
<1>6. Asked'
  BY <1>4 DEF SettingsInv, Asked
<1>7. ASSUME ~disturbed' PROVE Alone' /\ Held' /\ Stored'
  <2>1. ~disturbed /\ ~Settings!Beside(c)
    BY <1>2, <1>7
  <2>2. \A b \in Commands \ {c} : ~Busy(b)
    BY <2>1 DEF Settings!Beside, Busy
  <2>3. \A b \in Commands : ~Settings!At(b, "write")
    BY <1>2, <2>2 DEF Busy, Settings!At
  <2>4. Settings!Load(file) = wanted
    BY <2>1, <2>3 DEF SettingsInv, Stored
  <2>5. Alone'
    BY <1>4, <2>2 DEF Alone, Busy
  <2>6. Held'
    BY <1>2, <1>4, <2>2, <2>4 DEF Held, Busy, Settings!At
  <2>7. Stored'
    BY <1>2, <1>4, <2>3, <2>4 DEF Stored, Settings!At, Settings!Load,
       Settings!Migrated, Settings!StoredVersion, Settings!Read
  <2> QED
    BY <2>5, <2>6, <2>7
<1> QED
  BY <1>5, <1>6, <1>7 DEF SettingsInv

\* A command that gives up, or is killed outside its write, leaves things as
\* they were.
LEMMA EndStep ==
  ASSUME SettingsInv, NEW c \in Commands,
         Settings!LeavesUnchanged(c) \/ Settings!OpenFails(c) \/ Settings!CutOff(c)
  PROVE  SettingsInv'
<1>1. /\ command' = [command EXCEPT ![c] = Settings!Ended("done")]
      /\ UNCHANGED <<file, wanted>>
      /\ disturbed' = disturbed \/ disturbed' = (disturbed \/ Settings!At(c, "write"))
  BY DEF Settings!LeavesUnchanged, Settings!ChangesNothing,
     Settings!SetupNativeRecorderFails, Settings!CaptureGivesUp, Settings!OpenFails,
     Settings!CutOff
<1>2. /\ command'[c] = Settings!Ended("done")
      /\ \A b \in Commands \ {c} : command'[b] = command[b]
      /\ command' \in [Commands -> Commanded]
  BY <1>1, EndedIsCommanded, OneMoves DEF SettingsInv
<1>3. command'[c].pc = "done"
  BY <1>2, EndedIsCommanded
<1>4. SettingsTypes'
  <2>1. disturbed' \in BOOLEAN
    BY <1>1 DEF SettingsInv, SettingsTypes
  <2> QED
    BY <1>1, <1>2, <2>1 DEF SettingsInv, SettingsTypes, Readable
<1>5. Asked'
  BY <1>2, <1>3 DEF SettingsInv, Asked
<1>6. ASSUME ~disturbed' PROVE Alone' /\ Held' /\ Stored'
  <2>1. ~disturbed /\ ~Settings!At(c, "write")
    <3>1. ~disturbed
      BY <1>1, <1>6
    <3>2. ~Settings!At(c, "write")
      BY <1>6 DEF Settings!LeavesUnchanged, Settings!ChangesNothing,
         Settings!SetupNativeRecorderFails, Settings!CaptureGivesUp,
         Settings!OpenFails, Settings!CutOff, Settings!At
    <3> QED
      BY <3>1, <3>2
  <2>2. Alone'
    BY <1>2, <1>3, <2>1 DEF SettingsInv, Alone, Busy
  <2>3. Held'
    BY <1>1, <1>2, <1>3, <2>1 DEF SettingsInv, Held, Settings!At
  <2>4. \A b \in Commands : Settings!At(b, "write")' <=> Settings!At(b, "write")
    BY <1>2, <1>3, <2>1 DEF Settings!At
  <2>5. Stored'
    BY <1>1, <2>1, <2>4 DEF SettingsInv, Stored, Settings!Load, Settings!Migrated,
       Settings!StoredVersion, Settings!Read
  <2> QED
    BY <2>2, <2>3, <2>5
<1> QED
  BY <1>4, <1>5, <1>6 DEF SettingsInv

\* The value is set in the command's own copy.
LEMMA SetStep ==
  ASSUME SettingsInv, NEW c \in Commands, Settings!SetValue(c)
  PROVE  SettingsInv'
<1>1. command[c] \in Commanded /\ command[c].pc = "loaded"
      /\ command[c].op \in Settings!Ops \ {"show"}
  <2>1. command[c].pc = "loaded" /\ command[c].op # "show"
    BY DEF Settings!SetValue, Settings!At
  <2>2. command[c] \in Commanded
    BY DEF SettingsInv, SettingsTypes
  <2> QED
    BY <2>1, <2>2 DEF SettingsInv, Asked
<1> DEFINE moved == [pc |-> "open", op |-> command[c].op,
                     settings |-> Settings!Changed(command[c].op, command[c].settings)]
<1>2. moved \in Commanded
  <2>1. Settings!Changed(command[c].op, command[c].settings) \in ClipDeckSettings
    BY <1>1, ChangedIsValid DEF Commanded
  <2> QED
    BY <1>1, <2>1 DEF Commanded
<1>3. command' = [command EXCEPT ![c] = moved] /\ UNCHANGED <<file, wanted, disturbed>>
  <2>1. [command[c] EXCEPT !.pc = "open",
                           !.settings = Settings!Changed(command[c].op, @)] = moved
    BY <1>1, TwoFields
  <2> QED
    BY <2>1 DEF Settings!SetValue
<1>4. /\ command'[c] = moved
      /\ \A b \in Commands \ {c} : command'[b] = command[b]
      /\ command' \in [Commands -> Commanded]
  <2> HIDE DEF moved
  <2> QED
    BY <1>2, <1>3, OneMoves DEF SettingsInv
<1>5. SettingsTypes'
  BY <1>3, <1>4 DEF SettingsInv, SettingsTypes, Readable
<1>6. Asked'
  BY <1>1, <1>4 DEF SettingsInv, Asked
<1>7. ASSUME ~disturbed PROVE Alone' /\ Held' /\ Stored'
  <2>1. Alone'
    BY <1>1, <1>4, <1>7 DEF SettingsInv, Alone, Busy
  <2>2. command[c].settings = wanted
    BY <1>1, <1>7 DEF SettingsInv, Held, Settings!At
  <2>3. Held'
    BY <1>3, <1>4, <1>7, <2>2 DEF SettingsInv, Held, Settings!At, Settings!Changed
  <2>4. \A b \in Commands : Settings!At(b, "write")' <=> Settings!At(b, "write")
    BY <1>1, <1>4 DEF Settings!At
  <2>5. Stored'
    BY <1>3, <1>7, <2>4 DEF SettingsInv, Stored, Settings!Load, Settings!Migrated,
       Settings!StoredVersion, Settings!Read
  <2> QED
    BY <2>1, <2>3, <2>5
<1> QED
  BY <1>3, <1>5, <1>6, <1>7 DEF SettingsInv

\* The truncation: nothing is stored until the write.
LEMMA TruncateStep ==
  ASSUME SettingsInv, NEW c \in Commands, Settings!Truncate(c)
  PROVE  SettingsInv'
<1>1. command[c] \in Commanded /\ command[c].pc = "open"
      /\ command[c].op \in Settings!Ops \ {"show"}
  <2>1. command[c].pc = "open"
    BY DEF Settings!Truncate, Settings!At
  <2>2. command[c] \in Commanded
    BY DEF SettingsInv, SettingsTypes
  <2> QED
    BY <2>1, <2>2 DEF SettingsInv, Asked
<1> DEFINE moved == [pc |-> "write", op |-> command[c].op,
                     settings |-> command[c].settings]
<1>2. moved \in Commanded
  BY <1>1 DEF Commanded
<1>3. /\ command' = [command EXCEPT ![c] = moved]
      /\ file' = Settings!NoLines /\ UNCHANGED <<wanted, disturbed>>
  <2>1. [command[c] EXCEPT !.pc = "write"] = moved
    BY <1>1 DEF Commanded
  <2> QED
    BY <2>1 DEF Settings!Truncate
<1>4. /\ command'[c] = moved
      /\ \A b \in Commands \ {c} : command'[b] = command[b]
      /\ command' \in [Commands -> Commanded]
  <2> HIDE DEF moved
  <2> QED
    BY <1>2, <1>3, OneMoves DEF SettingsInv
<1>5. SettingsTypes'
  <2>1. Readable(Settings!NoLines)
    BY FirstFilesReadable DEF Settings!FirstFiles
  <2> QED
    BY <1>3, <1>4, <2>1 DEF SettingsInv, SettingsTypes, Readable
<1>6. Asked'
  BY <1>1, <1>4 DEF SettingsInv, Asked
<1>7. ASSUME ~disturbed PROVE Alone' /\ Held' /\ Stored'
  <2>1. Alone'
    BY <1>1, <1>4, <1>7 DEF SettingsInv, Alone, Busy
  <2>2. command[c].settings = Settings!Changed(command[c].op, wanted)
    BY <1>1, <1>7 DEF SettingsInv, Held
  <2>3. Held'
    BY <1>3, <1>4, <1>7, <2>2 DEF SettingsInv, Held, Settings!At, Settings!Changed
  <2>4. Settings!At(c, "write")'
    BY <1>4 DEF Settings!At
  <2>5. Stored'
    BY <1>3, <2>4 DEF Stored
  <2> QED
    BY <2>1, <2>3, <2>5
<1> QED
  BY <1>3, <1>5, <1>6, <1>7 DEF SettingsInv

\* The write: undisturbed it is of what has been asked for, on an empty file.
LEMMA WriteStep ==
  ASSUME SettingsInv, NEW c \in Commands, Settings!WriteLines(c)
  PROVE  SettingsInv'
<1>1. command[c] \in Commanded /\ command[c].pc = "write"
      /\ command[c].op \in Settings!Ops \ {"show"}
      /\ command[c].settings \in ClipDeckSettings
  <2>1. command[c].pc = "write"
    BY DEF Settings!WriteLines, Settings!At
  <2>2. command[c] \in Commanded
    BY DEF SettingsInv, SettingsTypes
  <2>3. command[c].settings \in ClipDeckSettings
    BY <2>2 DEF Commanded
  <2> QED
    BY <2>1, <2>2, <2>3 DEF SettingsInv, Asked
<1>2. /\ command' = [command EXCEPT ![c] = Settings!Ended("done")]
      /\ file' \in Settings!Overlaid(command[c].settings)
      /\ wanted' = Settings!Changed(command[c].op, wanted) /\ disturbed' = disturbed
  BY DEF Settings!WriteLines
<1>3. /\ command'[c] = Settings!Ended("done") /\ command'[c].pc = "done"
      /\ \A b \in Commands \ {c} : command'[b] = command[b]
      /\ command' \in [Commands -> Commanded]
  BY <1>2, EndedIsCommanded, OneMoves DEF SettingsInv
<1>4. /\ Readable(file')
      /\ file = Settings!NoLines => file' = Settings!Lines(command[c].settings)
  BY <1>1, <1>2, OverlaidReadable DEF SettingsInv, SettingsTypes
<1>5. SettingsTypes'
  <2>1. wanted' \in ClipDeckSettings
    BY <1>1, <1>2, ChangedIsValid DEF SettingsInv, SettingsTypes
  <2> QED
    BY <1>2, <1>3, <1>4, <2>1 DEF SettingsInv, SettingsTypes, Readable
<1>6. Asked'
  BY <1>3 DEF SettingsInv, Asked
<1>7. ASSUME ~disturbed PROVE Alone' /\ Held' /\ Stored'
  <2>1. \A b \in Commands \ {c} : ~Busy(b)
    BY <1>1, <1>7 DEF SettingsInv, Alone, Busy
  <2>2. \A b \in Commands : ~Busy(b)'
    BY <1>3, <2>1 DEF Busy
  <2>3. Alone' /\ Held' /\ \A b \in Commands : ~Settings!At(b, "write")'
    BY <2>2 DEF Alone, Held, Busy, Settings!At
  <2>4. file = Settings!NoLines /\ command[c].settings = wanted'
    BY <1>1, <1>2, <1>7 DEF SettingsInv, Stored, Held, Settings!At
  <2>5. Settings!Load(file') = wanted'
    BY <1>1, <1>4, <2>4, LoadLines
  <2>6. Stored'
    BY <2>3, <2>5 DEF Stored, Settings!Load, Settings!Migrated, Settings!StoredVersion,
       Settings!Read
  <2> QED
    BY <2>3, <2>6
<1> QED
  BY <1>2, <1>5, <1>6, <1>7 DEF SettingsInv

\* Every step preserves the invariant.
LEMMA SettingsKeeps == SettingsInv /\ [Settings!Next]_(Settings!vars) => SettingsInv'
<1> SUFFICES ASSUME SettingsInv, [Settings!Next]_(Settings!vars) PROVE SettingsInv'
  OBVIOUS
<1>1. CASE UNCHANGED Settings!vars
  BY <1>1 DEF Settings!vars, SettingsInv, SettingsTypes, Readable, Asked, Alone, Busy,
     Held, Stored, Settings!At, Settings!Load, Settings!Migrated, Settings!StoredVersion,
     Settings!Read, Settings!Changed
<1>2. ASSUME NEW c \in Commands, Settings!CommandStep(c) PROVE SettingsInv'
  BY <1>2, LoadStep, EndStep, SetStep, TruncateStep, WriteStep DEF
     Settings!CommandStep
<1> QED
  BY <1>1, <1>2 DEF Settings!Next

\* SettingsSurvive (SettingsStore::Load and Save, the setters of ClipDeckCore and
\* RunSettingsCommand), for every set of commands.
THEOREM SettingsSurviveHolds == Settings!Spec => []Settings!SettingsSurvive
<1>1. SettingsInv => Settings!SettingsSurvive
  BY DEF SettingsInv, Stored, Settings!SettingsSurvive
<1> QED
  BY <1>1, SettingsInit, SettingsKeeps, PTL DEF Settings!Spec

-----------------------------------------------------------------------------
(* The portal session.  What the process holds is a function of where the  *)
(* main thread is and of the recorder's members: Holding says which, one   *)
(* conjunct per stage.                                                     *)

\* The members and the counts in the three stages in which something is held.
Captured(running) ==
  [running |-> running, pipeline |-> TRUE, fd |-> TRUE, connection |-> TRUE,
   session |-> attempt]

Opened == [Portal!NoCapture EXCEPT !.fd = TRUE, !.connection = TRUE, !.session = attempt]

Counts(c, f, p) == [connections |-> c, fds |-> f, pipelines |-> p]

NothingOpen == granted \subseteq closed

\* The one session of this attempt is open, every earlier one is closed.
OneOpen == granted \ closed = {attempt}

Empty == recorder = Portal!NoCapture /\ held = Counts(0, 0, 0) /\ NothingOpen

Holding ==
  /\ main \in {"constructed", "connect", "exited"} => local = Portal!NoLocals /\ Empty
  /\ main = "CreateSession" =>
       /\ local = [connection |-> TRUE, session |-> Portal!NoSession]
       /\ recorder = Portal!NoCapture /\ held = Counts(1, 0, 0) /\ NothingOpen
  /\ main \in Portal!PortalCalls =>
       /\ local = [connection |-> TRUE, session |-> attempt]
       /\ recorder = Portal!NoCapture /\ held = Counts(1, 0, 0) /\ OneOpen
  /\ main = "parse" =>
       local = Portal!NoLocals /\ recorder = Opened /\ held = Counts(1, 1, 0) /\ OneOpen
  /\ main = "play" =>
       local = Portal!NoLocals /\ recorder = Opened /\ held = Counts(1, 1, 1) /\ OneOpen
  /\ main \in {"ready", "stopOld", "stopLast"} =>
       /\ local = Portal!NoLocals
       /\ \/ Empty
          \/ /\ \E running \in BOOLEAN : recorder = Captured(running)
             /\ held = Counts(1, 1, 1) /\ OneOpen

Stages == {"constructed", "connect", "CreateSession", "parse", "play", "ready",
           "stopOld", "stopLast", "exited"} \union Portal!PortalCalls

\* A handle is only given for an attempt that was made, never for the one whose
\* CreateSession is still to be answered; only given sessions are closed.
Sessions ==
  /\ attempt \in Nat
  /\ granted \subseteq 1..attempt
  /\ closed \subseteq granted
  /\ main \in {"connect", "CreateSession"} => attempt > 0 /\ attempt \notin granted
  /\ main \notin {"constructed", "exited"} => attempt > 0

PortalInv == main \in Stages /\ Sessions /\ Holding

-----------------------------------------------------------------------------
\* The invariant holds of a recorder that was just constructed.
LEMMA PortalInit == Portal!Init => PortalInv
  BY DEF Portal!Init, PortalInv, Stages, Sessions, Holding, Empty, NothingOpen,
     Counts, Portal!NothingHeld, Portal!NoCapture, Portal!NoLocals, Portal!PortalCalls

\* Closing the one session that is open leaves none open.
LEMMA CloseLast ==
  ASSUME Sessions, OneOpen, Portal!Close(attempt), attempt' = attempt, granted' = granted,
         main \notin {"constructed", "connect", "CreateSession", "exited"},
         main' \in {"ready", "constructed", "exited"}
  PROVE  NothingOpen' /\ Sessions'
  BY DEF Sessions, OneOpen, Portal!Close, NothingOpen, Portal!NoSession

\* Every step of Start, Stop, the bus thread and the main loop preserves it.
LEMMA PortalKeeps == PortalInv /\ [Portal!Next]_(Portal!vars) => PortalInv'
<1> SUFFICES ASSUME PortalInv, [Portal!Next]_(Portal!vars) PROVE PortalInv'
  OBVIOUS
<1> USE DEF PortalInv, Stages, Portal!PortalCalls, Portal!NoSession, Portal!At
<1>1. CASE Portal!StartBegins
  BY <1>1 DEF Portal!StartBegins, Sessions, Holding, Empty, NothingOpen, OneOpen,
     Counts
<1>2. CASE Portal!ConnectFails
  BY <1>2 DEF Portal!ConnectFails, Sessions, Holding, Empty, NothingOpen, OneOpen,
     Counts
<1>3. CASE Portal!Connect
  <2>1. /\ main' = "CreateSession" /\ recorder' = Portal!NoCapture
        /\ local = Portal!NoLocals /\ held = Counts(0, 0, 0)
        /\ NothingOpen' /\ Sessions'
    BY <1>3 DEF Portal!Connect, Sessions, Holding, Empty, NothingOpen
  <2>2. local' = [connection |-> TRUE, session |-> Portal!NoSession]
    BY <1>3, <2>1 DEF Portal!Connect, Portal!NoLocals
  <2>3. held' = Counts(1, 0, 0)
    BY <1>3, <2>1 DEF Portal!Connect, Counts
  <2> QED
    BY <2>1, <2>2, <2>3 DEF Holding
<1>4. CASE Portal!SessionCreated
  <2>1. /\ main' = "SelectSources" /\ recorder' = Portal!NoCapture
        /\ local = [connection |-> TRUE, session |-> Portal!NoSession]
        /\ held' = Counts(1, 0, 0)
    BY <1>4 DEF Portal!SessionCreated, Holding, Counts
  <2>2. local' = [connection |-> TRUE, session |-> attempt']
    BY <1>4, <2>1 DEF Portal!SessionCreated
  <2>3. Sessions' /\ OneOpen'
    BY <1>4 DEF Portal!SessionCreated, Sessions, Holding, NothingOpen, OneOpen
  <2> QED
    BY <2>1, <2>2, <2>3 DEF Holding
<1>5. CASE Portal!CreateSessionFails
  BY <1>5 DEF Portal!CreateSessionFails, Sessions, Holding, Empty, NothingOpen,
     OneOpen, Counts, Portal!Unreferenced
<1>6. CASE Portal!PortalAgrees
  BY <1>6 DEF Portal!PortalAgrees, Sessions, Holding, Empty, NothingOpen, OneOpen,
     Counts
<1>7. CASE Portal!PortalRefuses
  BY <1>7 DEF Portal!PortalRefuses, Portal!Close, Portal!Unreferenced, Sessions,
     Holding, Empty, NothingOpen, OneOpen, Counts
<1>8. CASE Portal!RemoteOpened
  <2>1. /\ main' = "parse" /\ local' = Portal!NoLocals
        /\ recorder = Portal!NoCapture /\ held = Counts(1, 0, 0)
        /\ local = [connection |-> TRUE, session |-> attempt]
        /\ OneOpen' /\ Sessions' /\ attempt' = attempt
    BY <1>8 DEF Portal!RemoteOpened, Sessions, Holding, OneOpen
  <2>2. recorder' = [recorder EXCEPT !.fd = TRUE, !.connection = TRUE,
                                     !.session = attempt]
    BY <1>8, <2>1 DEF Portal!RemoteOpened
  <2>3. recorder' = Opened'
    BY <2>1, <2>2 DEF Portal!NoCapture, Opened
  <2>4. held' = Counts(1, 1, 0)
    BY <1>8, <2>1 DEF Portal!RemoteOpened, Counts
  <2> QED
    BY <2>1, <2>3, <2>4 DEF Holding
<1>9. CASE Portal!PipelineParsed
  BY <1>9 DEF Portal!PipelineParsed, Sessions, Holding, Empty, NothingOpen, OneOpen,
     Counts, Opened
<1>10. CASE Portal!ParseFails
  <2>1. /\ main' = "ready" /\ local' = Portal!NoLocals /\ recorder' = Portal!NoCapture
        /\ recorder = Opened /\ held = Counts(1, 1, 0)
    BY <1>10 DEF Portal!ParseFails, Portal!Release, Holding
  <2>2. recorder.connection /\ recorder.fd /\ recorder.session = attempt
    BY <2>1 DEF Opened, Portal!NoCapture
  <2>3. held' = Counts(0, 0, 0)
    BY <1>10, <2>1, <2>2 DEF Portal!ParseFails, Portal!Release, Counts
  <2>4. NothingOpen' /\ Sessions'
    BY <1>10, <2>2, CloseLast DEF Portal!ParseFails, Portal!Release, Holding
  <2> QED
    BY <2>1, <2>3, <2>4 DEF Holding, Empty
<1>11. CASE Portal!PlayingFails
  <2>1. /\ main' = "ready" /\ local' = Portal!NoLocals /\ recorder' = Portal!NoCapture
        /\ recorder = Opened /\ held = Counts(1, 1, 1)
    BY <1>11 DEF Portal!PlayingFails, Portal!Release, Holding
  <2>2. recorder.connection /\ recorder.fd /\ recorder.session = attempt
    BY <2>1 DEF Opened, Portal!NoCapture
  <2>3. held' = Counts(0, 0, 0)
    BY <1>11, <2>1, <2>2 DEF Portal!PlayingFails, Portal!Release, Counts
  <2>4. NothingOpen' /\ Sessions'
    BY <1>11, <2>2, CloseLast DEF Portal!PlayingFails, Portal!Release, Holding
  <2> QED
    BY <2>1, <2>3, <2>4 DEF Holding, Empty
<1>12. CASE Portal!Started
  BY <1>12 DEF Portal!Started, Sessions, Holding, Empty, NothingOpen, OneOpen, Counts,
     Opened, Portal!NoCapture, Captured
<1>13. CASE Portal!CaptureEnds
  <2>1. /\ recorder.running /\ recorder' = [recorder EXCEPT !.running = FALSE]
        /\ UNCHANGED <<main, attempt, local, held, granted, closed>>
    BY <1>13 DEF Portal!CaptureEnds
  <2>2. recorder # Portal!NoCapture /\ recorder # Opened
    <3>1. ~Portal!NoCapture.running /\ ~Opened.running
      BY DEF Portal!NoCapture, Opened
    <3> QED
      BY <2>1, <3>1, Zenon
  <2>3. PICK running \in BOOLEAN : recorder = Captured(running)
    BY <2>2 DEF Holding, Empty
  <2>4. recorder' = [pipeline |-> TRUE, fd |-> TRUE, connection |-> TRUE,
                     session |-> attempt', running |-> FALSE]
    BY <2>1, <2>3 DEF Captured
  <2>5. \E r \in BOOLEAN : recorder' = Captured(r)'
    BY <2>4 DEF Captured
  <2>6. main \in {"ready", "stopOld", "stopLast"}
    BY <2>2 DEF Holding, Empty
  <2>7. local = Portal!NoLocals /\ held = Counts(1, 1, 1) /\ OneOpen
    BY <2>2, <2>6 DEF Holding, Empty
  <2> QED
    BY <2>1, <2>5, <2>6, <2>7 DEF Holding, Sessions, OneOpen, Counts
<1>14. CASE Portal!StopRequested
  BY <1>14 DEF Portal!StopRequested, Sessions, Holding, Empty, NothingOpen, OneOpen,
     Counts, Captured
<1>15. CASE Portal!StopReturnsEarly
  BY <1>15 DEF Portal!StopReturnsEarly, Portal!HoldsSomething, Portal!Stopping,
     Portal!AfterStop, Sessions, Holding, Empty, NothingOpen, OneOpen, Counts,
     Captured, Portal!NoCapture
<1>16. CASE Portal!Stop
  <2>1. /\ main' \in {"constructed", "exited"} /\ local' = Portal!NoLocals
        /\ recorder' = Portal!NoCapture /\ Portal!Close(recorder.session)
        /\ main \in {"stopOld", "stopLast"}
        /\ attempt' = attempt /\ granted' = granted
    BY <1>16 DEF Portal!Stop, Portal!Stopping, Portal!AfterStop, Portal!Release,
       Holding
  <2>2. recorder # Portal!NoCapture
    BY <1>16 DEF Portal!Stop, Portal!HoldsSomething, Portal!NoCapture
  <2>3. PICK running \in BOOLEAN : recorder = Captured(running)
    BY <2>1, <2>2 DEF Holding, Empty
  <2>4. held = Counts(1, 1, 1) /\ OneOpen
    BY <2>1, <2>2 DEF Holding, Empty
  <2>5. recorder.connection /\ recorder.fd /\ recorder.pipeline
        /\ recorder.session = attempt
    BY <2>3 DEF Captured
  <2>6. held' = Counts(0, 0, 0)
    BY <1>16, <2>4, <2>5 DEF Portal!Stop, Portal!Release, Counts
  <2>7. NothingOpen' /\ Sessions'
    BY <2>1, <2>4, <2>5, CloseLast
  <2> QED
    BY <2>1, <2>6, <2>7 DEF Holding, Empty
<1>17. CASE UNCHANGED Portal!vars
  BY <1>17 DEF Portal!vars, Sessions, Holding, Empty, NothingOpen, OneOpen, Counts,
     Captured, Opened
<1> QED
  BY <1>1, <1>2, <1>3, <1>4, <1>5, <1>6, <1>7, <1>8, <1>9, <1>10, <1>11, <1>12,
     <1>13, <1>14, <1>15, <1>16, <1>17 DEF Portal!Next

\* What is open is this attempt's session or none.
LEMMA OneSession == PortalInv => \A s, t \in granted \ closed : s = t
<1> SUFFICES ASSUME PortalInv PROVE \A s, t \in granted \ closed : s = t
  OBVIOUS
<1>1. granted \ closed = {} \/ granted \ closed = {attempt}
  BY DEF PortalInv, Stages, Portal!PortalCalls, Holding, Empty, NothingOpen, OneOpen
<1> QED
  BY <1>1

\* A recorder whose members are empty leaves nothing behind.
LEMMA NothingLeft ==
  ASSUME PortalInv,
         \/ main \in {"constructed", "connect", "exited"}
         \/ Portal!At("ready") /\ recorder = Portal!NoCapture
  PROVE  held = Portal!NothingHeld /\ granted \subseteq closed
<1>1. \A running \in BOOLEAN : Captured(running) # Portal!NoCapture
  BY DEF Captured, Portal!NoCapture
<1>2. Empty
  BY <1>1 DEF PortalInv, Holding, Portal!At
<1> QED
  BY <1>2 DEF Empty, Counts, Portal!NothingHeld, NothingOpen

\* PortalReleased (OpenPortalScreenCastSession, GStreamerRecorder::Start and
\* Stop), for every number of captures tried.
THEOREM PortalReleasedHolds == Portal!Spec => []Portal!PortalReleased
<1>1. ASSUME PortalInv PROVE Portal!PortalReleased
  <2>1. \A s, t \in granted \ closed : s = t
    BY <1>1, OneSession
  <2>2. \/ main \in {"constructed", "connect", "exited"}
        \/ Portal!At("ready") /\ recorder = Portal!NoCapture
        => held = Portal!NothingHeld /\ granted \subseteq closed
    BY <1>1, NothingLeft
  <2> QED
    BY <2>1, <2>2 DEF Portal!PortalReleased
<1> QED
  BY <1>1, PortalInit, PortalKeeps, PTL DEF Portal!Spec

-----------------------------------------------------------------------------
(* The two together *)

\* Startup implements the specification of the settings commands:
\* the daemon's steps leave the file and the commands alone.
LEMMA SettingsRefined ==
  /\ Init => Settings!Init
  /\ [Next]_vars => [Settings!Next]_(Settings!vars)
BY DEF Init, Next, DaemonLoads, DaemonStep, SettingsStep, vars, settingsVars,
       Settings!vars

\* SettingsSurvive (SettingsStore::Load and Save, the setters of ClipDeckCore),
\* for every number of commands, a daemon starting beside settings commands.
THEOREM StartupSettingsHolds == Spec => []SettingsSurvive
<1>1. Spec => Settings!Spec
  BY SettingsRefined, PTL DEF Spec, Settings!Spec
<1>2. SettingsSurvive <=> Settings!SettingsSurvive
  BY DEF SettingsSurvive
<1> QED
  BY <1>1, <1>2, SettingsSurviveHolds, PTL

\* Startup implements the specification of the portal session:
\* the settings commands leave what it holds alone.
LEMMA PortalRefined ==
  /\ Init => Portal!Init
  /\ [Next]_vars => [Portal!Next]_(Portal!vars)
BY DEF Init, Next, DaemonLoads, DaemonStep, SettingsStep, vars, portalVars, Portal!vars

\* PortalReleased (OpenPortalScreenCastSession, GStreamerRecorder::Start and Stop),
\* for every number of captures, a daemon starting beside settings commands.
THEOREM StartupPortalHolds == Spec => []PortalReleased
<1>1. Spec => Portal!Spec
  BY PortalRefined, PTL DEF Spec, Portal!Spec
<1>2. PortalReleased <=> Portal!PortalReleased
  BY DEF PortalReleased
<1> QED
  BY <1>1, <1>2, PortalReleasedHolds, PTL
=============================================================================
