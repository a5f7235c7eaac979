------------------------------ MODULE Recorder ------------------------------
(***************************************************************************)
(* GStreamerRecorder while a capture runs: the splitmux sink writes the    *)
(* screen to short numbered segments, the bus thread records each one that *)
(* closes and prunes the old ones, MarkClipBoundary notes the running time *)
(* of a save request, and SaveClip selects the segments of the requested   *)
(* window and hands them to the clip muxer.                                *)
(*                                                                         *)
(* One tick is one second of pipeline running time; a path is the number   *)
(* of its segment.  The sink (GStreamer) is external: it may split at any  *)
(* tick, takes any time to finalize a file, and may fail once.             *)
(***************************************************************************)
EXTENDS Integers, Sequences, FiniteSets

CONSTANTS
  Requests,        \* ids of the save requests
  ClipLength,      \* config_.clip_length_seconds
  BufferSafety,    \* config_.buffer_safety_seconds
  RetentionSlack,  \* the 3 seconds PruneFragmentsLocked adds
  BoundaryWait,    \* the 3 seconds SaveClip waits for its boundary
  FallbackWait,    \* the 2 seconds it waits for any finalized segment
  MaxSegment,      \* bound: longest segment the sink writes
  MaxPending,      \* bound: segments the sink has closed and not finalized
  MaxBus,          \* bound: messages posted and not popped
  Word,            \* 2^64: std::uint64_t arithmetic is modulo Word
  MaxTime          \* bound: last tick

ASSUME RecorderAssumption ==
  /\ Requests \subseteq Nat
  /\ ClipLength \in Nat \ {0}
  /\ BufferSafety \in Nat \ {0}
  /\ RetentionSlack \in Nat
  /\ BoundaryWait \in Nat
  /\ FallbackWait \in Nat
  /\ MaxSegment \in Nat \ {0}
  /\ MaxPending \in Nat
  /\ MaxBus \in Nat
  /\ MaxTime \in Nat
  /\ Word \in Nat
  /\ Word > 2 * MaxTime

NoId == -1

VARIABLES
  now,        \* running time of the pipeline
  sink,       \* "live", or "failed" once it has posted an error
  openStart,  \* start of the segment being written
  written,    \* the segments closed by the sink: <<[start, end], ...>>
  finalized,  \* how many of them are finalized on disk (they finalize in order)
  bus,        \* messages posted on the bus and not popped yet
  files,      \* numbers of the segments on disk, the open one included
  running,    \* running_
  healthy,    \* healthy_
  open,       \* open_fragments_: number -> start
  fragments,  \* fragments_
  cutoffs,    \* request_cutoffs_: id -> running time
  markPc,     \* where each request is inside MarkClipBoundary
  markTime,   \* the running time it read
  saver,      \* the SaveClip in progress (save_mutex_ admits one), its locals
  outcome     \* history: what SaveClip did for each request

sinkVars  == <<sink, openStart, written, finalized>>
stateVars == <<running, healthy>>
fragVars  == <<open, fragments>>
markVars  == <<markPc, markTime>>
vars == <<now, sinkVars, bus, files, stateVars, fragVars, cutoffs, markVars,
          saver, outcome>>

MaxOf(a, b) == IF a > b THEN a ELSE b
MinOf(a, b) == IF a < b THEN a ELSE b

Idle == [pc |-> "idle", id |-> NoId, deadline |-> 0, segments |-> {},
         available |-> 0, endTrim |-> 0, path |-> "none"]

\* Start has just returned true: the directory is clean, the maps are empty
\* and the sink has opened segment 1.
Init ==
  /\ now = 0
  /\ sink = "live"
  /\ openStart = 0
  /\ written = <<>>
  /\ finalized = 0
  /\ bus = <<[kind |-> "opened", path |-> 1, at |-> 0]>>
  /\ files = {1}
  /\ running = TRUE
  /\ healthy = TRUE
  /\ open = <<>>
  /\ fragments = <<>>
  /\ cutoffs = <<>>
  /\ markPc = [id \in Requests |-> "none"]
  /\ markTime = [id \in Requests |-> 0]
  /\ saver = Idle
  /\ outcome = [id \in Requests |-> [kind |-> "none"]]

-----------------------------------------------------------------------------
(* The sink (external) and the clock. *)

OpenPath == Len(written) + 1

\* Bound: with too much pending the sink writes on to the same segment.
CanSplit == Len(written) - finalized < MaxPending /\ Len(bus) < MaxBus

Tick ==
  /\ now < MaxTime
  /\ sink = "live" /\ CanSplit => now - openStart < MaxSegment
  /\ now' = now + 1
  /\ UNCHANGED <<sinkVars, bus, files, stateVars, fragVars, cutoffs, markVars,
                 saver, outcome>>

SinkSplits ==
  /\ sink = "live"
  /\ now > openStart
  /\ CanSplit
  /\ written' = Append(written, [start |-> openStart, end |-> now])
  /\ openStart' = now
  /\ files' = files \cup {OpenPath + 1}
  /\ bus' = Append(bus, [kind |-> "opened", path |-> OpenPath + 1, at |-> now])
  /\ UNCHANGED <<now, sink, finalized, stateVars, fragVars, cutoffs, markVars,
                 saver, outcome>>

\* async-finalize: the file is completed, and the message posted, later.
SinkFinalizes ==
  /\ sink = "live"
  /\ finalized < Len(written) /\ Len(bus) < MaxBus
  /\ finalized' = finalized + 1
  /\ bus' = Append(bus, [kind |-> "closed", path |-> finalized + 1,
                         at |-> written[finalized + 1].end])
  /\ UNCHANGED <<now, sink, openStart, written, files, stateVars, fragVars,
                 cutoffs, markVars, saver, outcome>>

\* An ERROR or EOS message; nothing is written after it.
SinkFails ==
  /\ sink = "live"
  /\ sink' = "failed"
  /\ bus' = Append(bus, [kind |-> "failed", path |-> 0, at |-> now])
  /\ UNCHANGED <<now, openStart, written, finalized, files, stateVars, fragVars,
                 cutoffs, markVars, saver, outcome>>

-----------------------------------------------------------------------------
(* MonitorBus *)

Put(f, key, value) ==
  [k \in DOMAIN f \cup {key} |-> IF k = key THEN value ELSE f[k]]

Erase(f, key) == [k \in DOMAIN f \ {key} |-> f[k]]

\* A time d before t, not before the start of the recording.
Before(t, d) == IF t > d THEN t - d ELSE 0

BusOpened ==
  /\ running
  /\ bus # <<>> /\ Head(bus).kind = "opened"
  /\ bus' = Tail(bus)
  /\ open' = Put(open, Head(bus).path, Head(bus).at)
  /\ UNCHANGED <<now, sinkVars, files, stateVars, fragments, cutoffs, markVars,
                 saver, outcome>>

(* Mutants: the outstanding requests are forgotten; the live window is one
   second too long. *)
ExpiredByAge(end, latest, cuts) ==
  end < Before(latest, ClipLength + BufferSafety + RetentionSlack)
ExpiredTooLate(end, latest, cuts) ==
  /\ end < Before(latest, ClipLength + BufferSafety + RetentionSlack + 1)
  /\ \A id \in DOMAIN cuts : end < Before(cuts[id], ClipLength)

\* end < keep_after, the earliest of the start of the live window and the
\* starts of the windows of the outstanding requests.
Expired(end, latest, cuts) ==
  /\ end < Before(latest, ClipLength + BufferSafety + RetentionSlack)
  /\ \A id \in DOMAIN cuts : end < Before(cuts[id], ClipLength)

(* Mutant: the last expired fragment is dropped from the list, not from disk. *)
RemovedAllButLast(frags, gone) ==
  {frags[i].path : i \in {k \in gone : k + 1 \in gone}}

RemovedFiles(frags, gone) == {frags[i].path : i \in gone}

\* The fragments at the front of the list that have all expired.
Pruned(frags, latest) ==
  {i \in DOMAIN frags : \A j \in 1..i : Expired(frags[j].end, latest, cutoffs)}

ClosedFragment(message) ==
  [path  |-> message.path,
   start |-> IF message.path \in DOMAIN open THEN open[message.path]
             ELSE IF fragments # <<>> THEN fragments[Len(fragments)].end ELSE 0,
   end   |-> message.at]

BusClosed ==
  /\ running
  /\ bus # <<>> /\ Head(bus).kind = "closed"
  /\ bus' = Tail(bus)
  /\ open' = Erase(open, Head(bus).path)
  /\ LET pushed == Append(fragments, ClosedFragment(Head(bus)))
         gone   == Pruned(pushed, Head(bus).at)
     IN  /\ fragments' = SubSeq(pushed, Cardinality(gone) + 1, Len(pushed))
         /\ files' = files \ RemovedFiles(pushed, gone)
  /\ UNCHANGED <<now, sinkVars, stateVars, cutoffs, markVars, saver, outcome>>

\* running_ is cleared without notifying fragment_condition_.
BusFailed ==
  /\ running
  /\ bus # <<>> /\ Head(bus).kind = "failed"
  /\ bus' = Tail(bus)
  /\ running' = FALSE
  /\ healthy' = FALSE
  /\ UNCHANGED <<now, sinkVars, files, fragVars, cutoffs, markVars, saver,
                 outcome>>

-----------------------------------------------------------------------------
(* MarkClipBoundary: the running time is read before the lock is taken. *)

ReadRunningTime(id) ==
  /\ markPc[id] = "none"
  /\ markPc' = [markPc EXCEPT ![id] = "read"]
  /\ markTime' = [markTime EXCEPT ![id] = now]
  /\ UNCHANGED <<now, sinkVars, bus, files, stateVars, fragVars, cutoffs, saver,
                 outcome>>

\* The pipeline has no clock, or a clock before its base time: the request gets
\* no cutoff.
NoRunningTime(id) ==
  /\ markPc[id] = "none"
  /\ markPc' = [markPc EXCEPT ![id] = "unmarked"]
  /\ UNCHANGED <<now, sinkVars, bus, files, stateVars, fragVars, cutoffs, markTime,
                 saver, outcome>>

RecordCutoff(id) ==
  /\ markPc[id] = "read"
  /\ markPc' = [markPc EXCEPT ![id] = IF now - markTime[id] <= BufferSafety + RetentionSlack
                                      THEN "marked" ELSE "late"]
  /\ cutoffs' = Put(cutoffs, id, markTime[id])
  /\ UNCHANGED <<now, sinkVars, bus, files, stateVars, fragVars, markTime, saver,
                 outcome>>

-----------------------------------------------------------------------------
(* SaveClip *)

Release(id) == cutoffs' = Erase(cutoffs, id)

\* Leave SaveClip with an outcome; release_request runs on every path.
Return(id, result) ==
  /\ outcome' = [outcome EXCEPT ![id] = result]
  /\ saver' = Idle
  /\ Release(id)

(* Mutant: a refused save keeps its cutoff. *)
BeginUnhealthyWithoutRelease(id) ==
  /\ saver.pc = "idle"
  /\ outcome[id].kind = "none"
  /\ ~healthy
  /\ outcome' = [outcome EXCEPT ![id] = [kind |-> "unhealthy"]]
  /\ saver' = Idle
  /\ UNCHANGED <<now, sinkVars, bus, files, stateVars, fragVars, cutoffs, markVars>>

BeginUnhealthy(id) ==
  /\ saver.pc = "idle"
  /\ outcome[id].kind = "none"
  /\ ~healthy
  /\ Return(id, [kind |-> "unhealthy"])
  /\ UNCHANGED <<now, sinkVars, bus, files, stateVars, fragVars, markVars>>

BeginHealthy(id) ==
  /\ saver.pc = "idle"
  /\ outcome[id].kind = "none"
  /\ healthy
  /\ saver' = [Idle EXCEPT !.pc = "lookup", !.id = id]
  /\ outcome' = [outcome EXCEPT ![id] = [kind |-> "saving"]]
  /\ UNCHANGED <<now, sinkVars, bus, files, stateVars, fragVars, cutoffs, markVars>>

\* Bound: a wait that would outlast the clock ends with it.
Deadline(wait) == MinOf(now + wait, MaxTime)

FallBack(s) ==
  [s EXCEPT !.pc = "poll", !.deadline = Deadline(FallbackWait), !.segments = {},
            !.path = "recent"]

LookUpCutoff ==
  /\ saver.pc = "lookup"
  /\ saver' = IF saver.id \in DOMAIN cutoffs
              THEN [saver EXCEPT !.pc = "wait", !.deadline = Deadline(BoundaryWait)]
              ELSE FallBack(saver)
  /\ UNCHANGED <<now, sinkVars, bus, files, stateVars, fragVars, cutoffs,
                 markVars, outcome>>

BoundaryReached == \E i \in DOMAIN fragments : fragments[i].end >= cutoffs[saver.id]

(* Mutant: wait instead of wait_for. *)
WaitWithoutTimeout == ~running \/ BoundaryReached

WaitOver == ~running \/ BoundaryReached \/ now >= saver.deadline

(* Mutant: the window starts one second late. *)
SelectShorterWindow(cutoff) ==
  {fragments[i] : i \in {j \in DOMAIN fragments :
     /\ fragments[j].end > Before(cutoff, ClipLength - 1)
     /\ fragments[j].start < cutoff
     /\ fragments[j].path \in files}}

\* The fragments that overlap the window that ends at the cutoff.
InWindow(cutoff) ==
  {fragments[i] : i \in {j \in DOMAIN fragments :
     /\ fragments[j].end > Before(cutoff, ClipLength)
     /\ fragments[j].start < cutoff
     /\ fragments[j].path \in files}}

Earliest(frags) == CHOOSE t \in {f.start : f \in frags} : \A f \in frags : t <= f.start
Latest(frags)   == CHOOSE t \in {f.end : f \in frags} : \A f \in frags : t >= f.end

(* Mutants: the end is never trimmed; the difference is taken in a signed type. *)
NoEndTrim(frags, cutoff) == 0
SignedEndTrim(frags, cutoff) == Latest(frags) - cutoff

\* last_end - cutoff in std::uint64_t.
EndTrim(frags, cutoff) == (Latest(frags) - cutoff) % Word

SelectWindow ==
  /\ saver.pc = "wait"
  /\ WaitOver
  /\ LET cutoff   == cutoffs[saver.id]
         selected == InWindow(cutoff)
     IN  saver' = IF selected = {} THEN FallBack(saver)
                  ELSE [saver EXCEPT
                          !.pc = "mux",
                          !.segments = {f.path : f \in selected},
                          !.available = Latest(selected) - Earliest(selected),
                          !.endTrim = EndTrim(selected, cutoff),
                          !.path = IF BoundaryReached THEN "window" ELSE "timeout"]
  /\ UNCHANGED <<now, sinkVars, bus, files, stateVars, fragVars, cutoffs,
                 markVars, outcome>>

FinalizedFiles == files \cap (1..finalized)

\* The last segments by count: clip_length + clamp(buffer_safety, 1, 3).
RecentCount == ClipLength + MaxOf(1, MinOf(BufferSafety, 3))

RecentSegments ==
  {p \in FinalizedFiles : Cardinality({q \in FinalizedFiles : q > p}) < RecentCount}

SelectRecent ==
  /\ saver.pc = "poll"
  /\ RecentSegments # {}
  /\ saver' = [saver EXCEPT !.pc = "mux", !.segments = RecentSegments,
                            !.available = Cardinality(RecentSegments)]
  /\ UNCHANGED <<now, sinkVars, bus, files, stateVars, fragVars, cutoffs,
                 markVars, outcome>>

GiveUp ==
  /\ saver.pc = "poll"
  /\ RecentSegments = {}
  /\ now >= saver.deadline
  /\ Return(saver.id, [kind |-> "nothing"])
  /\ UNCHANGED <<now, sinkVars, bus, files, stateVars, fragVars, markVars>>

\* What the muxer exports from the staged segments: it trims endTrim seconds
\* off the end of the footage it was told is available and keeps the last
\* ClipLength of the rest.
Export(staged, available, endTrim) ==
  LET usable == MaxOf(0, available - endTrim)
      length == MinOf(usable, ClipLength)
      first  == CHOOSE p \in staged : \A q \in staged : p <= q
      from   == written[first].start + usable - length
  IN  IF length = 0 THEN [kind |-> "trimmed", path |-> saver.path]
      ELSE [kind |-> "clip", from |-> from, to |-> from + length,
            missing |-> saver.segments \ staged, path |-> saver.path]

MuxClip ==
  /\ saver.pc = "mux"
  /\ saver.segments \cap files # {}
  /\ Return(saver.id, Export(saver.segments \cap files, saver.available,
                             saver.endTrim))
  /\ UNCHANGED <<now, sinkVars, bus, files, stateVars, fragVars, markVars>>

MuxNothing ==
  /\ saver.pc = "mux"
  /\ saver.segments \cap files = {}
  /\ Return(saver.id, [kind |-> "blank"])
  /\ UNCHANGED <<now, sinkVars, bus, files, stateVars, fragVars, markVars>>

\* A staging, probing or ffmpeg step of the muxer fails.
MuxFails ==
  /\ saver.pc = "mux"
  /\ Return(saver.id, [kind |-> "muxFailed"])
  /\ UNCHANGED <<now, sinkVars, bus, files, stateVars, fragVars, markVars>>

-----------------------------------------------------------------------------
BusStep == BusOpened \/ BusClosed \/ BusFailed

MarkStep(id) == ReadRunningTime(id) \/ NoRunningTime(id) \/ RecordCutoff(id)

BeginSave(id) == BeginUnhealthy(id) \/ BeginHealthy(id)

SaveStep ==
  \/ LookUpCutoff
  \/ SelectWindow
  \/ SelectRecent
  \/ GiveUp
  \/ MuxClip
  \/ MuxNothing
  \/ MuxFails

\* The order SaveClip() itself uses: MarkClipBoundary, then SaveClip(request).
Marked(id) == markPc[id] \in {"marked", "late", "unmarked"}

\* The save queue serves requests in the order of their ids.
FirstUnserved(id) ==
  \A other \in Requests : other < id => outcome[other].kind \notin {"none", "saving"}

Next ==
  \/ Tick
  \/ SinkSplits
  \/ SinkFinalizes
  \/ SinkFails
  \/ BusStep
  \/ \E id \in Requests :
       \/ MarkStep(id)
       \/ Marked(id) /\ FirstUnserved(id) /\ BeginSave(id)
  \/ SaveStep

Spec == Init /\ [][Next]_vars

-----------------------------------------------------------------------------
(* Properties *)

Segment  == [start : 0..MaxTime, end : 0..MaxTime]
Message  == [kind : {"opened", "closed", "failed"}, path : Nat, at : 0..MaxTime]
Fragment == [path : Nat, start : 0..MaxTime, end : 0..MaxTime]
Saver == [pc : {"idle", "lookup", "wait", "poll", "mux"},
          id : Requests \cup {NoId}, deadline : Nat, segments : SUBSET Nat,
          available : Int, endTrim : Nat,
          path : {"none", "window", "timeout", "recent"}]

\* Every variable keeps the type of its C++ counterpart.
TypeOK ==
  /\ now \in 0..MaxTime
  /\ sink \in {"live", "failed"}
  /\ openStart \in 0..MaxTime
  /\ written \in Seq(Segment)
  /\ finalized \in Nat
  /\ bus \in Seq(Message)
  /\ files \in SUBSET Nat
  /\ running \in BOOLEAN
  /\ healthy \in BOOLEAN
  /\ DOMAIN open \in SUBSET Nat
  /\ fragments \in Seq(Fragment)
  /\ DOMAIN cutoffs \in SUBSET Requests
  /\ \A id \in DOMAIN cutoffs : cutoffs[id] \in 0..MaxTime
  /\ markPc \in [Requests -> {"none", "read", "marked", "late", "unmarked"}]
  /\ markTime \in [Requests -> 0..MaxTime]
  /\ saver \in Saver
  /\ DOMAIN outcome = Requests

\* Between the selection of a request's window and its staging, the bus thread
\* keeps pruning without save_mutex_: no file the save is about to copy is
\* removed, because its cutoff is still registered.
SelectedStayOnDisk ==
  (saver.pc = "mux" /\ saver.path \in {"window", "timeout"})
    => saver.segments \subseteq files

\* A clip saved after its boundary was reached is exactly the last ClipLength
\* seconds before the request (or all there is since the recording started),
\* although the save may begin long after, with the bus thread pruning all the
\* while.  The cutoff must have been recorded within the slack of the live
\* window.
ClipIsRequestedWindow ==
  \A id \in Requests :
    (outcome[id].kind = "clip" /\ outcome[id].path = "window" /\ markPc[id] = "marked")
      => /\ outcome[id].to = markTime[id]
         /\ outcome[id].from = Before(markTime[id], ClipLength)
         /\ outcome[id].missing = {}

\* The cutoffs are those of the requests recorded and not yet answered: every
\* way out of SaveClip releases its own, so none holds back pruning for ever.
CutoffsAreOutstanding ==
  DOMAIN cutoffs =
    {id \in Requests : /\ markPc[id] \in {"marked", "late"}
                       /\ outcome[id].kind \in {"none", "saving"}}

\* Every file in the segment directory is a fragment on the list or one whose
\* closing the bus thread has not handled yet: what leaves the list leaves the
\* disk.
Handled == IF fragments = <<>> THEN 0 ELSE fragments[Len(fragments)].path
NoOrphanFiles ==
  files = {fragments[i].path : i \in DOMAIN fragments} \cup ((Handled + 1)..OpenPath)

\* While nothing is outstanding the list spans no more than the live window and
\* the fragment it starts in (the bound on disk use the pruning is for), right
\* after any fragment has closed.
RetentionBounded ==
  [][(fragments' # fragments /\ cutoffs = <<>>) =>
       LET last == fragments'[Len(fragments')].end
       IN  \A i \in DOMAIN fragments' :
             last - fragments'[i].end <= ClipLength + BufferSafety + RetentionSlack]_vars

\* The test TrimsFootageAfterRequestBoundary: a clip never shows what happened
\* after its request.
ClipEndsAtBoundary ==
  \A id \in Requests :
    (outcome[id].kind = "clip" /\ markTime[id] > 0) => outcome[id].to <= markTime[id]

\* The test ExportsShorterRealCaptureWithoutPadding: when less than the target
\* was captured, what was captured is exported, not refused.
ShortCaptureIsExported ==
  \A id \in Requests : outcome[id].kind # "trimmed"
=============================================================================
