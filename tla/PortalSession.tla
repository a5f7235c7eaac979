--------------------------- MODULE PortalSession ---------------------------
(***************************************************************************)
(* GStreamerRecorder::Start and Stop and what they hold outside the        *)
(* program: the connection to the session bus, the portal's screen cast    *)
(* session, its PipeWire descriptor and the pipeline.  Every call to the   *)
(* portal may fail, be refused by the user or time out, and once the       *)
(* capture runs it may end by itself.  The daemon starts, stops and        *)
(* replaces its recorder.                                                  *)
(***************************************************************************)
EXTENDS Naturals

CONSTANT
  MaxAttempts  \* bound: the captures the daemon tries to start, 1, 2, ...

NoSession == 0 \* the empty session handle

VARIABLES
  main,      \* where the main thread is
  attempt,   \* the sessions tried so far
  recorder,  \* the members of the recorder: what it can release
  local,     \* the locals of OpenPortalScreenCastSession
  held,      \* what the process holds: counts of references and descriptors
  granted,   \* sessions whose handle the program has been given
  closed,    \* sessions it has asked the portal to close
  abandoned  \* sessions the portal opened too late for CreateSession

vars == <<main, attempt, recorder, local, held, granted, closed, abandoned>>

NoCapture == [running |-> FALSE, pipeline |-> FALSE, fd |-> FALSE,
              connection |-> FALSE, session |-> NoSession]

NothingHeld == [connections |-> 0, fds |-> 0, pipelines |-> 0]

NoLocals == [connection |-> FALSE, session |-> NoSession]

Init ==
  /\ main = "constructed"
  /\ attempt = 0
  /\ recorder = NoCapture
  /\ local = NoLocals
  /\ held = NothingHeld
  /\ granted = {} /\ closed = {} /\ abandoned = {}

At(pc) == main = pc

-----------------------------------------------------------------------------
(* OpenPortalScreenCastSession *)

\* Start on a fresh recorder: the segment directory is cleaned first.
StartBegins ==
  /\ At("constructed")
  /\ attempt < MaxAttempts
  /\ attempt' = attempt + 1
  /\ main' = "connect"
  /\ UNCHANGED <<recorder, local, held, granted, closed, abandoned>>

\* The video source is not the portal, or there is no session bus.
ConnectFails ==
  /\ At("connect")
  /\ main' = "ready"
  /\ UNCHANGED <<attempt, recorder, local, held, granted, closed, abandoned>>

Connect ==
  /\ At("connect")
  /\ local' = [local EXCEPT !.connection = TRUE]
  /\ held' = [held EXCEPT !.connections = @ + 1]
  /\ main' = "CreateSession"
  /\ UNCHANGED <<attempt, recorder, granted, closed, abandoned>>

SessionCreated ==
  /\ At("CreateSession")
  /\ granted' = granted \union {attempt}
  /\ local' = [local EXCEPT !.session = attempt]
  /\ main' = "SelectSources"
  /\ UNCHANGED <<attempt, recorder, held, closed, abandoned>>

\* ClosePortalSession: nothing to close without a handle.  The portal may answer
\* with an error, which is only logged.
Close(session) == closed' = closed \union ({session} \ {NoSession})

Unreferenced == [held EXCEPT !.connections = @ - 1]

\* The call fails, the user cancels, or two minutes pass: the portal may then
\* open the session all the same, and nobody will close it.
CreateSessionFails ==
  /\ At("CreateSession")
  /\ \E late \in SUBSET {attempt} : abandoned' = abandoned \union late
  /\ local' = NoLocals
  /\ held' = Unreferenced
  /\ main' = "ready"
  /\ UNCHANGED <<attempt, recorder, granted, closed>>

PortalCalls == {"SelectSources", "StartSession", "OpenPipeWireRemote"}

PortalAgrees ==
  \E step \in {<<"SelectSources", "StartSession">>,
               <<"StartSession", "OpenPipeWireRemote">>} :
    /\ At(step[1])
    /\ main' = step[2]
    /\ UNCHANGED <<attempt, recorder, local, held, granted, closed, abandoned>>

(* Mutant: a failing call only drops the connection. *)
PortalRefusesUnclosed ==
  /\ main \in PortalCalls
  /\ held' = Unreferenced
  /\ local' = NoLocals
  /\ main' = "ready"
  /\ UNCHANGED <<attempt, recorder, granted, closed, abandoned>>

\* A call fails, is cancelled or times out; the response of Start names no
\* monitor or window, or no stream; the descriptor cannot be taken.
PortalRefuses ==
  /\ main \in PortalCalls
  /\ Close(local.session)
  /\ held' = Unreferenced
  /\ local' = NoLocals
  /\ main' = "ready"
  /\ UNCHANGED <<attempt, recorder, granted, abandoned>>

RemoteOpened ==
  /\ At("OpenPipeWireRemote")
  /\ held' = [held EXCEPT !.fds = @ + 1]
  /\ recorder' = [recorder EXCEPT !.fd = TRUE, !.connection = local.connection,
                                  !.session = local.session]
  /\ local' = NoLocals
  /\ main' = "parse"
  /\ UNCHANGED <<attempt, granted, closed, abandoned>>

-----------------------------------------------------------------------------
(* The rest of Start *)

PipelineParsed ==
  /\ At("parse")
  /\ held' = [held EXCEPT !.pipelines = @ + 1]
  /\ main' = "play"
  /\ UNCHANGED <<attempt, recorder, local, granted, closed, abandoned>>

\* What the failing paths of Start and Stop have in common.
Release(pipelines) ==
  /\ Close(recorder.session)
  /\ held' = [connections |-> held.connections - (IF recorder.connection THEN 1 ELSE 0),
              fds         |-> held.fds - (IF recorder.fd THEN 1 ELSE 0),
              pipelines   |-> held.pipelines - pipelines]
  /\ recorder' = NoCapture

\* The description does not parse.
ParseFails ==
  /\ At("parse")
  /\ Release(0)
  /\ main' = "ready"
  /\ UNCHANGED <<attempt, local, granted, abandoned>>

\* There is no splitmux sink in it, or it refuses PLAYING.
PlayingFails ==
  /\ At("play")
  /\ Release(1)
  /\ main' = "ready"
  /\ UNCHANGED <<attempt, local, granted, abandoned>>

Started ==
  /\ At("play")
  /\ recorder' = [recorder EXCEPT !.running = TRUE, !.pipeline = TRUE]
  /\ main' = "ready"
  /\ UNCHANGED <<attempt, local, held, granted, closed, abandoned>>

\* The bus thread has popped an error or the end of the stream.
CaptureEnds ==
  /\ recorder.running
  /\ recorder' = [recorder EXCEPT !.running = FALSE]
  /\ UNCHANGED <<main, attempt, local, held, granted, closed, abandoned>>

-----------------------------------------------------------------------------
(* Stop, and the main loop around it *)

\* A request to choose another capture, or the end of the main loop.
StopRequested ==
  /\ At("ready")
  /\ main' \in {"stopOld", "stopLast"}
  /\ UNCHANGED <<attempt, recorder, local, held, granted, closed, abandoned>>

AfterStop == main' = IF At("stopOld") THEN "constructed" ELSE "exited"

Stopping == At("stopOld") \/ At("stopLast")

(* Mutant: a capture that has ended is taken for one that was stopped. *)
HoldsOnlyWhileRunning == recorder.running

HoldsSomething ==
  \/ recorder.running
  \/ recorder.pipeline
  \/ recorder.fd
  \/ recorder.session # NoSession

StopReturnsEarly ==
  /\ Stopping
  /\ ~HoldsSomething
  /\ recorder' = NoCapture
  /\ AfterStop
  /\ UNCHANGED <<attempt, local, held, granted, closed, abandoned>>

\* The bus thread is joined first.  Then the old recorder is destroyed, whose
\* destructor finds nothing left to stop, and a new one is constructed.
Stop ==
  /\ Stopping
  /\ HoldsSomething
  /\ Release(IF recorder.pipeline THEN 1 ELSE 0)
  /\ AfterStop
  /\ UNCHANGED <<attempt, local, granted, abandoned>>

Next ==
  \/ StartBegins \/ ConnectFails \/ Connect
  \/ SessionCreated \/ CreateSessionFails
  \/ PortalAgrees \/ PortalRefuses \/ RemoteOpened
  \/ PipelineParsed \/ ParseFails \/ PlayingFails \/ Started
  \/ CaptureEnds \/ StopRequested \/ StopReturnsEarly \/ Stop

Spec == Init /\ [][Next]_vars

-----------------------------------------------------------------------------
\* However a start fails, however the capture ends and however often another one
\* is chosen: a recorder that is not capturing any more holds no connection, no
\* descriptor and no pipeline once it is stopped, it has closed every session it
\* was given, and two sessions are never open at once.
PortalReleased ==
  /\ \A s, t \in granted \ closed : s = t
  /\ \/ main \in {"constructed", "connect", "exited"}
     \/ At("ready") /\ recorder = NoCapture
     => held = NothingHeld /\ granted \subseteq closed
=============================================================================
