------------------------------- MODULE Daemon -------------------------------
(***************************************************************************)
(* RunListener: the life of the daemon process.  The main thread starts    *)
(* the recorder, the save controller and the listener, then polls three    *)
(* flags that signal handlers and the other threads set; the listener      *)
(* thread turns key presses into requests; the controller's worker calls   *)
(* SaveClip.  All three reach the recorder through one std::unique_ptr,    *)
(* which the main thread replaces when a new capture source is chosen.     *)
(*                                                                         *)
(* The controller is the abstract queue of SaveQueueSpec, which SaveQueue  *)
(* implements.  The recorder is its generation and whether it captures.    *)
(***************************************************************************)
EXTENDS Integers, Sequences

CONSTANTS
  Capacity,    \* queue_capacity
  MaxSaves,    \* bound: SIGUSR1 delivered
  MaxChooses,  \* bound: SIGUSR2 delivered
  MaxPresses   \* bound: save keybinds detected

ASSUME DaemonAssumption ==
  /\ Capacity \in Nat
  /\ MaxSaves \in Nat
  /\ MaxChooses \in Nat
  /\ MaxPresses \in Nat

VARIABLES
  \* the save controller
  count, queue, current, phase,
  \* the flags the signal handlers set
  saveRequested, chooseRequested, shutdownRequested,
  unanswered,       \* history: a SIGUSR1 came since RequestSave was last called
  sent,             \* how many signals and presses there were (bounds the model)
  chosenAt,         \* history: requests accepted when the last reselection began
  recorder,         \* the object recorder points to
  uses,             \* which generation each thread is inside a call of, 0 if none
  mainPc,
  listenerRunning,  \* DaemonListener::running_
  listenerPc,
  workerPc

queueVars    == <<count, queue, current, phase>>
signals      == <<saveRequested, chooseRequested, shutdownRequested, unanswered,
                  sent>>
listenerVars == <<listenerRunning, listenerPc>>
vars == <<queueVars, signals, chosenAt, recorder, uses, mainPc, listenerVars, workerPc>>

Queue == INSTANCE SaveQueueSpec

QueueFull == Len(queue) + Queue!InService >= Capacity

NoUse == 0

Init ==
  /\ Queue!Init
  /\ saveRequested = FALSE
  /\ chooseRequested = FALSE
  /\ shutdownRequested = FALSE
  /\ unanswered = FALSE
  /\ sent = [saves |-> 0, chooses |-> 0, presses |-> 0]
  /\ chosenAt = 0
  /\ recorder = [generation |-> 1, state |-> "new", source |-> "none"]
  /\ uses = [listener |-> NoUse, worker |-> NoUse]
  /\ mainPc = "boot"
  /\ listenerRunning = FALSE
  /\ listenerPc = "none"
  /\ workerPc = "none"

-----------------------------------------------------------------------------
(* Signals and the capture (the environment) *)

\* The handlers are installed: RunListener does that before it starts anything.
SaveSignal ==
  /\ mainPc # "done"
  /\ sent.saves < MaxSaves
  /\ sent' = [sent EXCEPT !.saves = @ + 1]
  /\ saveRequested' = TRUE
  /\ unanswered' = TRUE
  /\ UNCHANGED <<queueVars, chooseRequested, shutdownRequested, chosenAt, recorder,
                 uses, mainPc, listenerVars, workerPc>>

ChooseSignal ==
  /\ mainPc # "done"
  /\ sent.chooses < MaxChooses
  /\ sent' = [sent EXCEPT !.chooses = @ + 1]
  /\ chooseRequested' = TRUE
  /\ UNCHANGED <<queueVars, saveRequested, shutdownRequested, unanswered, chosenAt,
                 recorder, uses, mainPc, listenerVars, workerPc>>

ShutdownSignal ==
  /\ mainPc # "done"
  /\ shutdownRequested' = TRUE
  /\ UNCHANGED <<queueVars, saveRequested, chooseRequested, unanswered, sent,
                 chosenAt, recorder, uses, mainPc, listenerVars, workerPc>>

\* The bus thread clears running_: the window was closed or the pipeline failed.
CaptureEnds ==
  /\ recorder.state = "running"
  /\ recorder' = [recorder EXCEPT !.state = "ended"]
  /\ UNCHANGED <<queueVars, signals, chosenAt, uses, mainPc, listenerVars,
                 workerPc>>

-----------------------------------------------------------------------------
(* The main thread *)

\* Start succeeds with the source picked in the portal, or fails; a failure
\* does not stop the daemon.
RecorderStarts(from, to) ==
  /\ mainPc = from
  /\ \/ \E source \in {"window", "display"} :
          recorder' = [recorder EXCEPT !.state = "running", !.source = source]
     \/ UNCHANGED recorder
  /\ mainPc' = to
  /\ UNCHANGED <<queueVars, signals, chosenAt, uses, listenerVars, workerPc>>

Boot == RecorderStarts("boot", "startThreads")

StartThreads ==
  /\ mainPc = "startThreads"
  /\ workerPc' = "idle"
  /\ listenerRunning' = TRUE
  /\ listenerPc' = "poll"
  /\ mainPc' = "loop"
  /\ UNCHANGED <<queueVars, signals, chosenAt, recorder, uses>>

LoopCondition ==
  /\ mainPc = "loop"
  /\ mainPc' = IF listenerRunning /\ ~shutdownRequested THEN "signals"
               ELSE "stopListener"
  /\ UNCHANGED <<queueVars, signals, chosenAt, recorder, uses, listenerVars,
                 workerPc>>

CheckSave ==
  /\ mainPc = "signals"
  /\ saveRequested' = FALSE
  /\ mainPc' = IF saveRequested THEN "request" ELSE "choose"
  /\ UNCHANGED <<queueVars, chooseRequested, shutdownRequested, unanswered, sent,
                 chosenAt, recorder, uses, listenerVars, workerPc>>

\* The main thread calls RequestSave(Manual).
MainRequests ==
  /\ mainPc = "request"
  /\ unanswered' = FALSE
  /\ mainPc' = "lock"
  /\ UNCHANGED <<queueVars, saveRequested, chooseRequested, shutdownRequested, sent,
                 chosenAt, recorder, uses, listenerVars, workerPc>>

(* Mutant: the flag is cleared once the request is queued. *)
MainIsAcceptedAndClears ==
  /\ mainPc = "lock"
  /\ Queue!Accept
  /\ saveRequested' = FALSE
  /\ mainPc' = "choose"
  /\ UNCHANGED <<chooseRequested, shutdownRequested, unanswered, sent, chosenAt,
                 recorder, uses, listenerVars, workerPc>>

\* The accept callback marks on this thread, which alone replaces recorder.
MainIsAccepted ==
  /\ mainPc = "lock"
  /\ Queue!Accept
  /\ mainPc' = "choose"
  /\ UNCHANGED <<signals, chosenAt, recorder, uses, listenerVars, workerPc>>

MainIsRefused ==
  /\ mainPc = "lock"
  /\ phase # "open" \/ QueueFull
  /\ mainPc' = "choose"
  /\ UNCHANGED <<queueVars, signals, chosenAt, recorder, uses, listenerVars,
                 workerPc>>

\* Status().saving: a request is waiting or in service.
Saving == queue # <<>> \/ current # 0

\* Status is read under the controller's lock, and acted on after it.
ChooseWaits ==
  /\ mainPc = "choose"
  /\ ~chooseRequested \/ Saving
  /\ mainPc' = "status"
  /\ UNCHANGED <<queueVars, signals, chosenAt, recorder, uses, listenerVars, workerPc>>

(* Mutant: the requests that wait are not asked about. *)
ChooseBeginsBetweenSaves ==
  /\ mainPc = "choose"
  /\ chooseRequested /\ current = 0
  /\ chooseRequested' = FALSE
  /\ chosenAt' = count
  /\ mainPc' = "stopOld"
  /\ UNCHANGED <<queueVars, saveRequested, shutdownRequested, unanswered, sent,
                 recorder, uses, listenerVars, workerPc>>

ChooseBegins ==
  /\ mainPc = "choose"
  /\ chooseRequested /\ ~Saving
  /\ chooseRequested' = FALSE
  /\ chosenAt' = count
  /\ mainPc' = "stopOld"
  /\ UNCHANGED <<queueVars, saveRequested, shutdownRequested, unanswered, sent,
                 recorder, uses, listenerVars, workerPc>>

StopRecorder(from, to) ==
  /\ mainPc = from
  /\ recorder' = [recorder EXCEPT !.state = IF @ = "new" THEN "new" ELSE "stopped",
                                  !.source = "none"]
  /\ mainPc' = to
  /\ UNCHANGED <<queueVars, signals, chosenAt, uses, listenerVars, workerPc>>

StopOldRecorder == StopRecorder("stopOld", "replace")

\* The assignment destroys the old recorder.
ReplaceRecorder ==
  /\ mainPc = "replace"
  /\ recorder' = [generation |-> recorder.generation + 1, state |-> "new",
                  source |-> "none"]
  /\ mainPc' = "startNew"
  /\ UNCHANGED <<queueVars, signals, chosenAt, uses, listenerVars, workerPc>>

StartNewRecorder == RecorderStarts("startNew", "status")

(* Mutant: the end of the captured window is not noticed. *)
WriteStatusOnly ==
  /\ mainPc = "status"
  /\ mainPc' = "loop"
  /\ UNCHANGED <<queueVars, signals, chosenAt, recorder, uses, listenerVars,
                 workerPc>>

WindowEnded == recorder.state = "ended" /\ recorder.source = "window"

\* Once a second the status files are written, and a captured window that is
\* gone stops the daemon.
WriteStatus ==
  /\ mainPc = "status"
  /\ shutdownRequested' = (shutdownRequested \/ WindowEnded)
  /\ mainPc' = "loop"
  /\ UNCHANGED <<queueVars, saveRequested, chooseRequested, unanswered, sent,
                 chosenAt, recorder, uses, listenerVars, workerPc>>

StatusNotDue ==
  /\ mainPc = "status"
  /\ mainPc' = "loop"
  /\ UNCHANGED <<queueVars, signals, chosenAt, recorder, uses, listenerVars,
                 workerPc>>

(* Mutant: the listener is joined without being told to stop. *)
JoinOnly ==
  /\ mainPc = "stopListener"
  /\ mainPc' = "joinListener"
  /\ UNCHANGED <<queueVars, signals, chosenAt, recorder, uses, listenerVars,
                 workerPc>>

StopListener ==
  /\ mainPc = "stopListener"
  /\ listenerRunning' = FALSE
  /\ mainPc' = "joinListener"
  /\ UNCHANGED <<queueVars, signals, chosenAt, recorder, uses, listenerPc,
                 workerPc>>

(* Mutant: the listener is told to stop and not joined. *)
DetachListener ==
  /\ mainPc = "joinListener"
  /\ mainPc' = "stopQueue"
  /\ UNCHANGED <<queueVars, signals, chosenAt, recorder, uses, listenerVars,
                 workerPc>>

JoinListener ==
  /\ mainPc = "joinListener"
  /\ listenerPc = "exited"
  /\ mainPc' = "stopQueue"
  /\ UNCHANGED <<queueVars, signals, chosenAt, recorder, uses, listenerVars,
                 workerPc>>

\* SaveRequestController::Stop, in two moments and a join.
StopQueue ==
  /\ mainPc = "stopQueue"
  /\ Queue!Close
  /\ mainPc' = IF phase' = "closed" THEN "joinWorker" ELSE "stopQueue"
  /\ UNCHANGED <<signals, chosenAt, recorder, uses, listenerVars, workerPc>>

JoinWorker ==
  /\ mainPc = "joinWorker"
  /\ workerPc = "exited"
  /\ mainPc' = "stopRecorder"
  /\ UNCHANGED <<queueVars, signals, chosenAt, recorder, uses, listenerVars,
                 workerPc>>

StopLastRecorder == StopRecorder("stopRecorder", "done")

-----------------------------------------------------------------------------
(* The listener thread *)

ListenerDetectsSave ==
  /\ listenerPc = "poll"
  /\ listenerRunning
  /\ sent.presses < MaxPresses
  /\ sent' = [sent EXCEPT !.presses = @ + 1]
  /\ listenerPc' = "request"
  /\ UNCHANGED <<queueVars, saveRequested, chooseRequested, shutdownRequested,
                 unanswered, chosenAt, recorder, uses, mainPc, listenerRunning,
                 workerPc>>

ListenerDetectsStop ==
  /\ listenerPc = "poll"
  /\ listenerRunning
  /\ shutdownRequested' = TRUE
  /\ UNCHANGED <<queueVars, saveRequested, chooseRequested, unanswered, sent,
                 chosenAt, recorder, uses, mainPc, listenerVars, workerPc>>

\* The request is queued before its accept callback reads recorder.
ListenerIsAccepted ==
  /\ listenerPc = "request"
  /\ Queue!Accept
  /\ listenerPc' = "mark"
  /\ UNCHANGED <<signals, chosenAt, recorder, uses, mainPc, listenerRunning,
                 workerPc>>

\* Debounced, full or stopped.
ListenerIsRefused ==
  /\ listenerPc = "request"
  /\ listenerPc' = "poll"
  /\ UNCHANGED <<queueVars, signals, chosenAt, recorder, uses, mainPc,
                 listenerRunning, workerPc>>

ListenerMarks ==
  /\ listenerPc = "mark"
  /\ uses' = [uses EXCEPT !.listener = recorder.generation]
  /\ listenerPc' = "marking"
  /\ UNCHANGED <<queueVars, signals, chosenAt, recorder, mainPc, listenerRunning,
                 workerPc>>

ListenerHasMarked ==
  /\ listenerPc = "marking"
  /\ uses' = [uses EXCEPT !.listener = NoUse]
  /\ listenerPc' = "poll"
  /\ UNCHANGED <<queueVars, signals, chosenAt, recorder, mainPc, listenerRunning,
                 workerPc>>

ListenerExits ==
  /\ listenerPc = "poll"
  /\ ~listenerRunning
  /\ listenerPc' = "exited"
  /\ UNCHANGED <<queueVars, signals, chosenAt, recorder, uses, mainPc,
                 listenerRunning, workerPc>>

-----------------------------------------------------------------------------
(* The controller's worker *)

WorkerBegins ==
  /\ workerPc = "idle"
  /\ Queue!Begin
  /\ workerPc' = "call"
  /\ UNCHANGED <<signals, chosenAt, recorder, uses, mainPc, listenerVars>>

\* The save callback calls SaveClip, then Status, on what recorder points to.
WorkerEnters ==
  /\ workerPc \in {"call", "report"}
  /\ uses' = [uses EXCEPT !.worker = recorder.generation]
  /\ workerPc' = IF workerPc = "call" THEN "saving" ELSE "reporting"
  /\ UNCHANGED <<queueVars, signals, chosenAt, recorder, mainPc, listenerVars>>

WorkerLeaves ==
  /\ workerPc \in {"saving", "reporting"}
  /\ uses' = [uses EXCEPT !.worker = NoUse]
  /\ workerPc' = IF workerPc = "saving" THEN "report" ELSE "finish"
  /\ UNCHANGED <<queueVars, signals, chosenAt, recorder, mainPc, listenerVars>>

WorkerFinishes ==
  /\ workerPc = "finish"
  /\ Queue!Finish
  /\ workerPc' = IF phase = "open" THEN "idle" ELSE "exited"
  /\ UNCHANGED <<signals, chosenAt, recorder, uses, mainPc, listenerVars>>

\* Idle or between two saves, it sees the stop token.
WorkerStops ==
  /\ workerPc = "idle"
  /\ phase = "closed"
  /\ workerPc' = "exited"
  /\ \/ Queue!Discard
     \/ UNCHANGED queueVars
  /\ UNCHANGED <<signals, chosenAt, recorder, uses, mainPc, listenerVars>>

-----------------------------------------------------------------------------
SignalStep == SaveSignal \/ ChooseSignal \/ ShutdownSignal

MainStep ==
  \/ Boot
  \/ StartThreads
  \/ LoopCondition
  \/ CheckSave
  \/ MainRequests
  \/ MainIsAccepted
  \/ MainIsRefused
  \/ ChooseWaits
  \/ ChooseBegins
  \/ StopOldRecorder
  \/ ReplaceRecorder
  \/ StartNewRecorder
  \/ WriteStatus
  \/ StatusNotDue
  \/ StopListener
  \/ JoinListener
  \/ StopQueue
  \/ JoinWorker
  \/ StopLastRecorder

ListenerReturns ==
  \/ ListenerIsAccepted
  \/ ListenerIsRefused
  \/ ListenerMarks
  \/ ListenerHasMarked
  \/ ListenerExits

WorkerStep ==
  \/ WorkerBegins
  \/ WorkerEnters
  \/ WorkerLeaves
  \/ WorkerFinishes
  \/ WorkerStops

Next ==
  \/ SignalStep
  \/ CaptureEnds
  \/ MainStep
  \/ ListenerDetectsSave
  \/ ListenerDetectsStop
  \/ ListenerReturns
  \/ WorkerStep

\* The threads are scheduled, every call of the recorder returns (its waits
\* have timeouts) and the status write comes due again and again.  No signal,
\* key press or end of the capture has to happen.
Fairness ==
  /\ WF_vars(MainStep)
  /\ SF_vars(WriteStatus)
  /\ WF_vars(ListenerReturns)
  /\ WF_vars(WorkerStep)

Spec == Init /\ [][Next]_vars
FairSpec == Spec /\ Fairness

-----------------------------------------------------------------------------
(* Properties *)

Recorder == [generation : Nat \ {0}, state : {"new", "running", "ended", "stopped"},
             source : {"none", "window", "display"}]

TypeOK ==
  /\ count \in Nat
  /\ queue \in Seq(Nat \ {0})
  /\ current \in Nat
  /\ phase \in {"open", "closing", "closed"}
  /\ saveRequested \in BOOLEAN
  /\ chooseRequested \in BOOLEAN
  /\ shutdownRequested \in BOOLEAN
  /\ unanswered \in BOOLEAN
  /\ sent \in [saves : 0..MaxSaves, chooses : 0..MaxChooses, presses : 0..MaxPresses]
  /\ chosenAt \in Nat
  /\ recorder \in Recorder
  /\ uses \in [listener : Nat, worker : Nat]
  /\ mainPc \in {"boot", "startThreads", "loop", "signals", "request", "lock",
                 "choose", "stopOld", "replace", "startNew", "status",
                 "stopListener", "joinListener", "stopQueue", "joinWorker",
                 "stopRecorder", "done"}
  /\ listenerRunning \in BOOLEAN
  /\ listenerPc \in {"none", "poll", "request", "mark", "marking", "exited"}
  /\ workerPc \in {"none", "idle", "call", "saving", "report", "reporting",
                   "finish", "exited"}

\* The daemon takes itself apart in the order its threads depend on each other:
\* the queue is closed only when the listener thread is gone, so no request is
\* refused as stopped, and the last recorder is stopped only when neither that
\* thread nor the worker is inside it or will enter it again.
ShutdownOrder ==
  /\ phase # "open" => listenerPc = "exited"
  /\ mainPc \in {"stopRecorder", "done"} =>
       /\ listenerPc = "exited" /\ workerPc = "exited"
       /\ uses.listener = NoUse /\ uses.worker = NoUse

\* A SIGUSR1 is never lost: RequestSave is called after each one (or after a
\* later one, they coalesce) unless the daemon is shutting down, although the
\* flag is cleared and set without a lock.
SaveSignalIsServed == unanswered ~> (~unanswered \/ shutdownRequested)

\* When the captured window goes away the daemon shuts down, unless the recorder
\* is replaced first.
EndedWindowStops == WindowEnded ~> (shutdownRequested \/ ~WindowEnded)

\* Once a shutdown is requested the daemon comes to its end, whatever the
\* listener and the worker are doing at that moment.
ShutdownCompletes == shutdownRequested ~> (mainPc = "done")

\* A reselection waits for every request accepted before it: while the recorder
\* is stopped, replaced and started, the worker is inside it, and the queue holds,
\* only for requests that the listener thread has made since.
EarlierSavesAreServed ==
  mainPc \in {"stopOld", "replace", "startNew"} =>
    /\ uses.worker # NoUse => current > chosenAt
    /\ \A i \in DOMAIN queue : queue[i] > chosenAt

\* The log line of a reselection: it waits for the active save to finish, so no
\* save is left inside a recorder that has been replaced, and destroyed by that.
ReselectionWaitsForSave == uses.worker \in {NoUse, recorder.generation}
=============================================================================
