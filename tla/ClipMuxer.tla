----------------------------- MODULE ClipMuxer -----------------------------
(***************************************************************************)
(* WriteClipFromSegments, called by several processes over one runtime     *)
(* directory: the daemon's worker, and a save command that found the daemon *)
(* dead.  Each call stages copies of the segments, lets ffmpeg compose     *)
(* them under a deadline, first by stream copy and then by re-encoding,    *)
(* validates the output and publishes it by rename or by copy.  A process  *)
(* may be killed anywhere; ffmpeg runs in a process group of its own, and  *)
(* any call may take the staging directories of the others for stale.      *)
(*                                                                         *)
(* A segment is one second of footage, known by its number.                *)
(***************************************************************************)
EXTENDS Integers, Sequences, SequencesExt, FiniteSetsExt

CONSTANTS
  Writers,   \* processes; each calls WriteClipFromSegments once
  Calls,     \* per process, what it may be called with:
             \* segments, endTrim, target, trust, black
  LongClip,  \* from this many seconds on, one may be missing from a trusted clip
  MaxKills   \* bound: processes killed

ASSUME ClipMuxerAssumption ==
  /\ \A w \in Writers : Calls[w] \subseteq
                     [segments : Nat, endTrim : Nat, target : Nat \ {0},
                      trust : BOOLEAN, black : BOOLEAN]
  /\ MaxKills \in Nat

VARIABLES
  writer,  \* per process: where it is and its locals
  staging, \* per process: its staging directory, NoDirectory when there is none
  ffmpeg,  \* per process: the child that composes
  clip     \* per process: its file in clip_directory_

vars == <<writer, staging, ffmpeg, clip>>

NoFile == [seconds |-> <<>>, black |-> FALSE, state |-> "none"]
NoDirectory == [exists |-> FALSE, segments |-> <<>>, output |-> NoFile]

\* A video; footage from the screen may be black.
File(seconds, black) == [seconds |-> seconds, black |-> black, state |-> "whole"]

Idle(call) == [pc |-> "begin", call |-> call, next |-> 1, staged |-> <<>>,
               copying |-> TRUE, ok |-> FALSE, result |-> "none"]

Init ==
  /\ \E calls \in [Writers -> UNION {Calls[w] : w \in Writers}] :
       /\ \A w \in Writers : calls[w] \in Calls[w]
       /\ writer = [w \in Writers |-> Idle(calls[w])]
  /\ staging = [w \in Writers |-> NoDirectory]
  /\ ffmpeg = [w \in Writers |-> "none"]
  /\ clip = [w \in Writers |-> NoFile]

At(w, pc) == writer[w].pc = pc

GoTo(w, pc) == writer' = [writer EXCEPT ![w].pc = pc]

\* Every return: the local that owns the staging directory removes it.
Leave(w, result) ==
  writer' = [writer EXCEPT ![w].pc = "cleanup", ![w].result = result]

Refuse(w) ==
  /\ writer' = [writer EXCEPT ![w].pc = "done", ![w].result = "failed"]
  /\ UNCHANGED <<staging, ffmpeg, clip>>

-----------------------------------------------------------------------------
(* Staging *)

\* The clip directory or temp_directory_ cannot be created.
DirectoryFails(w) ==
  /\ At(w, "begin")
  /\ Refuse(w)

\* remove_all takes the directory away, or fails: its owner puts something into it
\* meanwhile, or something in it cannot be removed.  Nobody looks at the error.
Removed(v) ==
  {NoDirectory, [NoDirectory EXCEPT !.exists = staging[v].exists], staging[v]}

\* Every directory with the prefix counts as stale, in use or not.
CleanStaleStagingDirectories(w, own) ==
  \E after \in [Writers -> UNION {Removed(v) : v \in Writers}] :
    /\ \A v \in Writers : after[v] \in Removed(v)
    /\ staging' = [after EXCEPT ![w] = own]

\* The others' are cleaned away, and then its own cannot be created.
StagingDirectoryFails(w) ==
  /\ At(w, "begin")
  /\ CleanStaleStagingDirectories(w, NoDirectory)
  /\ writer' = [writer EXCEPT ![w].pc = "done", ![w].result = "failed"]
  /\ UNCHANGED <<ffmpeg, clip>>

Begin(w) ==
  /\ At(w, "begin")
  /\ CleanStaleStagingDirectories(w, [NoDirectory EXCEPT !.exists = TRUE])
  /\ GoTo(w, "stage")
  /\ UNCHANGED <<ffmpeg, clip>>

(* Mutant: the error of the copy is not looked at. *)
StageSegmentUnchecked(w) ==
  /\ At(w, "stage")
  /\ writer[w].next <= writer[w].call.segments
  /\ writer' = [writer EXCEPT ![w].next = @ + 1,
                              ![w].staged = Append(@, writer[w].next)]
  /\ \/ /\ staging[w].exists
        /\ staging' = [staging EXCEPT ![w].segments = Append(@, writer[w].next)]
     \/ UNCHANGED staging
  /\ UNCHANGED <<ffmpeg, clip>>

\* The segment is copied, or skipped: not finalized, pruned meanwhile, no room.
StageSegment(w) ==
  /\ At(w, "stage")
  /\ writer[w].next <= writer[w].call.segments
  /\ \/ /\ staging[w].exists
        /\ staging' = [staging EXCEPT ![w].segments = Append(@, writer[w].next)]
        /\ writer' = [writer EXCEPT ![w].next = @ + 1,
                                    ![w].staged = Append(@, writer[w].next)]
     \/ /\ writer' = [writer EXCEPT ![w].next = @ + 1]
        /\ UNCHANGED staging
  /\ UNCHANGED <<ffmpeg, clip>>

\* A trusted caller says how much its segments hold, staged or not: SaveClip and the
\* save command both pass available_duration_seconds.
Available(w) ==
  IF writer[w].call.trust THEN writer[w].call.segments ELSE Len(writer[w].staged)

Usable(w) == Max({0, Available(w) - writer[w].call.endTrim})

ExportDuration(w) == Min({Usable(w), writer[w].call.target})

TrimStart(w) == Usable(w) - ExportDuration(w)

Blank(w) == writer[w].staged = <<>> \/ ExportDuration(w) = 0

(* Mutant: the directory is owned only from here on. *)
StagedForget(w) ==
  /\ At(w, "stage")
  /\ writer[w].next > writer[w].call.segments
  /\ IF Blank(w)
       THEN Refuse(w)
       ELSE /\ IF staging[w].exists THEN GoTo(w, "run") ELSE Leave(w, "failed")
            /\ UNCHANGED <<staging, ffmpeg, clip>>

\* Nothing staged, nothing left after trimming, or the manifest cannot be opened.
Staged(w) ==
  /\ At(w, "stage")
  /\ writer[w].next > writer[w].call.segments
  /\ IF Blank(w) \/ ~staging[w].exists THEN Leave(w, "failed") ELSE GoTo(w, "run")
  /\ UNCHANGED <<staging, ffmpeg, clip>>

-----------------------------------------------------------------------------
(* Composing *)

\* RunCommand returns: only whether its exit code was 0 matters.
Ran(w, ok) ==
  writer' = [writer EXCEPT ![w].pc = IF writer[w].copying THEN "copied" ELSE "encoded",
                           ![w].ok = ok]

\* It forks, or fails to.
RunCommand(w) ==
  /\ At(w, "run")
  /\ \/ ffmpeg' = [ffmpeg EXCEPT ![w] = "running"] /\ GoTo(w, "wait")
     \/ Ran(w, FALSE) /\ UNCHANGED ffmpeg
  /\ UNCHANGED <<staging, clip>>

\* The manifest lists what was staged; without its first file there is nothing
\* to read.
Readable(w) ==
  IF staging[w].segments = writer[w].staged THEN writer[w].staged ELSE <<>>

\* What the arguments ask for: -ss trim_start -t export_duration.
Composed(w) ==
  SubSeq(Readable(w), TrimStart(w) + 1,
         Min({Len(Readable(w)), TrimStart(w) + ExportDuration(w)}))

Outputs(w) ==
  {File(SubSeq(Composed(w), 1, n), black) : n \in 0..Len(Composed(w)),
                                            black \in {FALSE, writer[w].call.black}}

\* ffmpeg ends well, with what was asked or with less; its files may be gone
\* under it, and without the directory it has nowhere to write.
FfmpegSucceeds(w) ==
  /\ ffmpeg[w] = "running"
  /\ ffmpeg' = [ffmpeg EXCEPT ![w] = "ok"]
  /\ IF staging[w].exists
       THEN \E output \in Outputs(w) :
              staging' = [staging EXCEPT ![w].output = output]
       ELSE UNCHANGED staging
  /\ UNCHANGED <<writer, clip>>

\* Whatever it may have written is removed by the writer, unseen.
FfmpegFails(w) ==
  /\ ffmpeg[w] = "running"
  /\ ffmpeg' = [ffmpeg EXCEPT ![w] = "error"]
  /\ UNCHANGED <<writer, staging, clip>>

Reap(w, ok) ==
  /\ ffmpeg' = [ffmpeg EXCEPT ![w] = "none"]
  /\ Ran(w, ok)
  /\ UNCHANGED <<staging, clip>>

FfmpegReaped(w) ==
  /\ At(w, "wait")
  /\ ffmpeg[w] \in {"ok", "error"}
  /\ Reap(w, ffmpeg[w] = "ok")

\* The deadline passes: SIGTERM, which ffmpeg may not obey.  The exit code will
\* be 124, whatever ffmpeg does.
WaitTimesOut(w) ==
  /\ At(w, "wait")
  /\ ffmpeg[w] = "running"
  /\ GoTo(w, "terminate")
  /\ UNCHANGED <<staging, ffmpeg, clip>>

FfmpegTerminated(w) ==
  /\ At(w, "terminate")
  /\ ffmpeg[w] \in {"ok", "error"}
  /\ Reap(w, FALSE)

(* Mutant: no SIGKILL, the writer waits for the child to end. *)
NoKill(w) ==
  /\ At(w, "terminate")
  /\ ffmpeg[w] \in {"ok", "error"}
  /\ Reap(w, FALSE)

\* Two seconds later: SIGKILL.
FfmpegKilled(w) ==
  /\ At(w, "terminate")
  /\ ffmpeg[w] = "running"
  /\ Reap(w, FALSE)

-----------------------------------------------------------------------------
(* Validating and publishing *)

Tolerance(w) ==
  IF writer[w].call.trust /\ ExportDuration(w) >= LongClip THEN 1 ELSE 0

\* A file that is not there or holds no video is not valid.
ProbeMediaFile(w) == staging[w].output.state = "whole" /\ staging[w].output.seconds # <<>>

IsUsableFinalClip(w) ==
  LET seconds == Len(staging[w].output.seconds) IN
    /\ seconds + Tolerance(w) >= ExportDuration(w)
    /\ seconds - Tolerance(w) <= ExportDuration(w)

\* An output that is too large, or whose sound is not as recorded, fails as one that is
\* too short does.
FinalClipPassesValidation(w) == ProbeMediaFile(w) /\ IsUsableFinalClip(w)

\* validate_black_frames, which the callers of the program leave off.
BlackFramesPass(w) == ~writer[w].call.black \/ ~staging[w].output.black

OutputIsValid(w) == FinalClipPassesValidation(w) /\ BlackFramesPass(w)

RemoveOutput(w) == staging' = [staging EXCEPT ![w].output = NoFile]

\* The stream copy did not validate: once more, by re-encoding.
CopyRejected(w) ==
  /\ At(w, "copied")
  /\ ~writer[w].ok \/ ~OutputIsValid(w)
  /\ RemoveOutput(w)
  /\ writer' = [writer EXCEPT ![w].pc = "run", ![w].copying = FALSE,
                              ![w].ok = FALSE]
  /\ UNCHANGED <<ffmpeg, clip>>

CopyAccepted(w) ==
  /\ At(w, "copied")
  /\ writer[w].ok
  /\ OutputIsValid(w)
  /\ GoTo(w, "validate")
  /\ UNCHANGED <<staging, ffmpeg, clip>>

ComposeFailed(w) ==
  /\ At(w, "encoded")
  /\ ~writer[w].ok
  /\ Leave(w, "failed")
  /\ UNCHANGED <<staging, ffmpeg, clip>>

AtFinalProbe(w) == writer[w].ok /\ (At(w, "validate") \/ At(w, "encoded"))

(* Mutant: what was encoded anew is not validated. *)
ValidateCopies(w) ==
  /\ AtFinalProbe(w)
  /\ IF OutputIsValid(w) \/ ~writer[w].copying
       THEN GoTo(w, "publish") /\ UNCHANGED staging
       ELSE RemoveOutput(w) /\ Leave(w, "failed")
  /\ UNCHANGED <<ffmpeg, clip>>

\* The output is probed again: it may be gone by now.
Validate(w) ==
  /\ AtFinalProbe(w)
  /\ IF OutputIsValid(w)
       THEN GoTo(w, "publish") /\ UNCHANGED staging
       ELSE RemoveOutput(w) /\ Leave(w, "failed")
  /\ UNCHANGED <<ffmpeg, clip>>

\* On one file system the clip appears whole.
Rename(w) ==
  /\ At(w, "publish")
  /\ staging[w].output.state = "whole"
  /\ clip' = [clip EXCEPT ![w] = staging[w].output]
  /\ RemoveOutput(w)
  /\ Leave(w, "published")
  /\ UNCHANGED ffmpeg

\* Another file system, or the output is gone: copy_file opens both files, and
\* without the source it creates nothing.
RenameFails(w) ==
  /\ At(w, "publish")
  /\ IF staging[w].output.state = "whole"
       THEN /\ clip' = [clip EXCEPT ![w] = [staging[w].output EXCEPT !.state = "partial"]]
            /\ GoTo(w, "copying")
       ELSE Leave(w, "failed") /\ UNCHANGED clip
  /\ UNCHANGED <<staging, ffmpeg>>

\* The copy runs out of room or of luck: what was written stays.
CopyEnds(w) ==
  /\ At(w, "copying")
  /\ \/ /\ clip' = [clip EXCEPT ![w].state = "whole"]
        /\ RemoveOutput(w)
        /\ Leave(w, "published")
     \/ /\ Leave(w, "failed")
        /\ UNCHANGED <<staging, clip>>
  /\ UNCHANGED ffmpeg

\* ~ScopedDirectoryCleanup, when the function returns; an error is not looked at.
Cleanup(w) ==
  /\ At(w, "cleanup")
  /\ \E left \in Removed(w) :
       /\ staging' = [staging EXCEPT ![w] = left]
       /\ GoTo(w, IF left.exists THEN "unremoved" ELSE "done")
  /\ UNCHANGED <<ffmpeg, clip>>

-----------------------------------------------------------------------------
\* SIGKILL, from a stop command or the system; the child goes on alone.
Killed(w) ==
  /\ writer[w].pc \notin {"begin", "done", "unremoved", "killed"}
  /\ Cardinality({v \in Writers : At(v, "killed")}) < MaxKills
  /\ GoTo(w, "killed")
  /\ UNCHANGED <<staging, ffmpeg, clip>>

Writes(w) ==
  \/ DirectoryFails(w) \/ StagingDirectoryFails(w) \/ Begin(w)
  \/ StageSegment(w) \/ Staged(w)
  \/ RunCommand(w) \/ FfmpegReaped(w) \/ WaitTimesOut(w) \/ FfmpegTerminated(w)
  \/ FfmpegKilled(w)
  \/ CopyRejected(w) \/ CopyAccepted(w) \/ ComposeFailed(w) \/ Validate(w)
  \/ Rename(w) \/ RenameFails(w) \/ CopyEnds(w) \/ Cleanup(w)

Next == \E w \in Writers : Writes(w) \/ FfmpegSucceeds(w) \/ FfmpegFails(w) \/ Killed(w)

Spec == Init /\ [][Next]_vars

\* The calling threads run, ffprobe comes back and deadlines pass; the ffmpeg that
\* composes owes nothing.
FairSpec == Spec /\ \A w \in Writers : WF_vars(Writes(w))

-----------------------------------------------------------------------------
Returned(w) == At(w, "done") \/ At(w, "unremoved")

Published(w) == writer[w].result = "published"

TypeOK ==
  /\ \A w \in Writers :
       /\ writer[w].call \in Calls[w]
       /\ writer[w].next \in 1..(writer[w].call.segments + 1)
       /\ writer[w].ok => ffmpeg[w] = "none"
       /\ writer[w].result \in {"none", "failed", "published"}
       /\ IsSuffix(staging[w].segments, writer[w].staged)
  /\ ffmpeg \in [Writers -> {"none", "running", "ok", "error"}]
  /\ \A w \in Writers : clip[w].state \in {"none", "partial", "whole"}

\* The footage the caller asked for: the last seconds before its boundary.
Requested(w) == [i \in 1..ExportDuration(w) |-> TrimStart(w) + i]

\* A clip that is reported as published is whole, was not found black, and is,
\* up to the tolerance at its end, the footage that was asked for, however other
\* processes interfered with the staging directory.  When a segment could not be
\* staged only its length is right: the window slides over the boundary.
PublishedIsRequested ==
  \A w \in Writers : Published(w) =>
    /\ clip[w].state = "whole"
    /\ writer[w].call.black => ~clip[w].black
    /\ Len(clip[w].seconds) + Tolerance(w) >= ExportDuration(w)
    /\ Len(writer[w].staged) = writer[w].call.segments
         => IsPrefix(clip[w].seconds, Requested(w))

\* A call that has returned leaves no ffmpeg behind, and a staging directory only
\* when its remove_all failed, whichever of its exits it took.
NothingLeftBehind ==
  \A w \in Writers : Returned(w) =>
    /\ staging[w].exists => At(w, "unremoved")
    /\ ffmpeg[w] = "none"

\* Every call returns, unless its process is killed: also when the ffmpeg that
\* composes hangs.  The probes have no deadline; they are assumed to come back.
WriterReturns ==
  \A w \in Writers : At(w, "stage") ~> (Returned(w) \/ At(w, "killed"))
=============================================================================
