------------------------------ MODULE SavePath ------------------------------
(***************************************************************************)
(* The path of a save through the daemon: a thread's RequestSave, whose    *)
(* accept callback is GStreamerRecorder::MarkClipBoundary, and the         *)
(* controller's worker, whose save callback is SaveClip (the two lambdas   *)
(* RunListener passes).  It composes SaveQueue and Recorder, which share   *)
(* the clock; each step is a step of one of them, or of both where a       *)
(* callback begins or returns.                                             *)
(***************************************************************************)
EXTENDS Integers, Sequences

CONSTANTS
  Callers, Capacity, Debounce, MaxCalls, MaxTime,
  ClipLength, BufferSafety, RetentionSlack, BoundaryWait, FallbackWait,
  MaxSegment, MaxPending, MaxBus, Word

VARIABLES
  now,
  \* the controller
  calls, callerPc, call, requests, saving, stopped, stopRequested, nextId,
  lastKeybind, workerPc, request, stopperPc, accepted, served, dropped,
  \* the recorder
  sink, openStart, written, finalized, bus, files, running, healthy, open,
  fragments, cutoffs, markPc, markTime, saver, outcome

ASSUME SavePathAssumption ==
  /\ Callers \subseteq {"listener", "main"}
  /\ Capacity \in Nat
  /\ Debounce \in Nat
  /\ MaxCalls \in Nat
  /\ MaxTime \in Nat

Requests == 1..MaxCalls

Queue == INSTANCE SaveQueue
Rec   == INSTANCE Recorder

queueVars == <<calls, callerPc, call, requests, saving, stopped, stopRequested,
               nextId, lastKeybind, workerPc, request, stopperPc, accepted,
               served, dropped>>
recVars == <<sink, openStart, written, finalized, bus, files, running, healthy,
             open, fragments, cutoffs, markPc, markTime, saver, outcome>>
vars == <<now, queueVars, recVars>>

Init == Queue!Init /\ Rec!Init

Answered(id) == outcome[id].kind \notin {"none", "saving"}

\* A step of the recorder's own threads.
CaptureStep ==
  /\ \/ Rec!SinkSplits
     \/ Rec!SinkFinalizes
     \/ Rec!SinkFails
     \/ Rec!BusStep
  /\ UNCHANGED queueVars

\* The listener thread asks when the save keybind is pressed, the main loop when
\* it finds the signal of the save command.
SourceOf(c) == IF c = "listener" THEN Queue!Keybind ELSE Queue!Manual

RequestBegins ==
  /\ \E c \in Callers : Queue!BeginRequestSave(c, SourceOf(c))
  /\ UNCHANGED recVars

\* The accept callback runs MarkClipBoundary on the calling thread, outside the
\* controller's lock and after the request was queued.
AcceptCallbackReads(c) ==
  /\ callerPc[c] = "accept"
  /\ Rec!ReadRunningTime(call[c].id)
  /\ UNCHANGED queueVars

AcceptCallbackFails(c) ==
  /\ Queue!RunAcceptCallback(c)
  /\ Rec!NoRunningTime(call[c].id)

AcceptCallbackRecords(c) ==
  /\ Queue!RunAcceptCallback(c)
  /\ Rec!RecordCutoff(call[c].id)

CallerStep(c) ==
  \/ /\ \/ Queue!RefuseStopped(c)
        \/ Queue!RefuseDebounced(c)
        \/ Queue!RefuseFull(c)
        \/ Queue!AcceptRequest(c)
        \/ Queue!NotifyOne(c)
     /\ UNCHANGED recVars
  \/ AcceptCallbackReads(c)
  \/ AcceptCallbackFails(c)
  \/ AcceptCallbackRecords(c)

\* The save callback runs SaveClip on the worker thread.
SaveCallbackBegins ==
  /\ workerPc = "saving"
  /\ Rec!BeginSave(request)
  /\ UNCHANGED queueVars

SaveCallbackRuns == Rec!SaveStep /\ UNCHANGED queueVars

(* Mutant: the callback only starts the save and returns. *)
SaveCallbackReturnsEarly ==
  /\ workerPc = "saving" /\ outcome[request].kind # "none"
  /\ Queue!SaveCallbackReturns
  /\ UNCHANGED recVars

SaveCallbackReturns ==
  /\ workerPc = "saving" /\ Answered(request)
  /\ Queue!SaveCallbackReturns
  /\ UNCHANGED recVars

WorkerStep ==
  \/ /\ \/ Queue!WorkerChecksLoop
        \/ Queue!WorkerSleeps
        \/ Queue!WorkerStopsInWait
        \/ Queue!WorkerTakes
        \/ Queue!WorkerFinishes
        \/ Queue!WorkerStopsAfterSave
     /\ UNCHANGED recVars
  \/ SaveCallbackBegins
  \/ SaveCallbackRuns
  \/ SaveCallbackReturns

StopBegins == Queue!BeginStop /\ UNCHANGED recVars

StopRuns == Queue!StopStep /\ UNCHANGED recVars

Tick == Rec!Tick /\ UNCHANGED queueVars

Next ==
  \/ Tick
  \/ CaptureStep
  \/ RequestBegins
  \/ \E c \in Callers : CallerStep(c)
  \/ WorkerStep
  \/ StopBegins
  \/ StopRuns

\* As in SaveQueue and Recorder: the threads run and time passes; requests, a
\* stop and what the sink does are up to the environment.
Fairness ==
  /\ \A c \in Callers : WF_vars(CallerStep(c))
  /\ WF_vars(WorkerStep)
  /\ WF_vars(StopRuns)
  /\ WF_vars(Tick)
  /\ WF_vars(Rec!SinkSplits /\ UNCHANGED queueVars)

Spec == Init /\ [][Next]_vars
FairSpec == Spec /\ Fairness

-----------------------------------------------------------------------------
(* Properties *)

\* A request is answered (clip stored or failure recorded) only after every
\* request accepted before it: FIFO of the queue and one SaveClip at a time.
AnsweredInOrder ==
  \A i, j \in Requests : i < j /\ Answered(j) => Answered(i)

\* Once Stop has returned no SaveClip is running, so RunListener may stop and
\* destroy the recorder next.
StopWaitsForSave == stopperPc = "returned" => saver.pc = "idle"

\* Every accepted request is answered unless the controller is stopped: the
\* queue, the waits inside SaveClip and the hand-over between them all end.
AcceptedIsAnswered ==
  \A id \in Requests : (id < nextId) ~> (Answered(id) \/ workerPc = "exited")

\* Nobody is inside RequestSave, nothing is queued and nothing is being saved.
Quiet ==
  /\ \A c \in Callers : callerPc[c] = "idle"
  /\ requests = <<>>
  /\ ~saving
  /\ ~stopped

\* The help text of "settings buffer-safety": it sets the extra duration the
\* recorder buffers.  With nothing outstanding, a fragment that closes leaves no
\* more than the clip length, that extra and the slack behind.
BufferIsBounded ==
  [][(fragments' # fragments /\ Quiet) =>
       LET last == fragments'[Len(fragments')].end
       IN  \A i \in DOMAIN fragments' :
             last - fragments'[i].end <= ClipLength + BufferSafety + RetentionSlack]_vars
=============================================================================
