--------------------------- MODULE SavePathProofs ---------------------------
(***************************************************************************)
(* What SaveQueueProofs proves of the controller alone holds of it with    *)
(* the recorder behind its callbacks: a step of SavePath is a step of      *)
(* SaveQueue or leaves its variables alone.  From it, that a save is       *)
(* answered in its turn and that none runs once Stop has returned.  Queue  *)
(* and QueueTheorems are the same definitions under two names.             *)
(***************************************************************************)
EXTENDS SavePath, FiniteSetTheorems, TLAPS

QueueTheorems == INSTANCE SaveQueueProofs

\* Every step of the path is a step of the controller or leaves it alone.
LEMMA QueueRefined ==
  /\ Init => QueueTheorems!Init
  /\ [Next]_vars => [QueueTheorems!Next]_(QueueTheorems!vars)
<1>1. Queue!Init <=> QueueTheorems!Init
  BY DEF Queue!Init, Queue!NoCall, Queue!Manual, Queue!Never, Queue!NoRequest,
         QueueTheorems!Init, QueueTheorems!NoCall, QueueTheorems!Manual,
         QueueTheorems!Never, QueueTheorems!NoRequest
<1>2. Queue!Next <=> QueueTheorems!Next
  BY DEF Queue!RefuseStopped, Queue!RefuseDebounced, Queue!RefuseFull,
         Queue!AcceptRequest, Queue!RunAcceptCallback, Queue!NotifyOne,
         Queue!WorkerChecksLoop, Queue!WorkerSleeps, Queue!WorkerStopsInWait,
         Queue!WorkerTakes, Queue!SaveCallbackReturns, Queue!WorkerFinishes,
         Queue!WorkerStopsAfterSave, Queue!RequestStop, Queue!NotifyAll,
         Queue!JoinWorker, Queue!Tick, Queue!BeginRequestSave, Queue!CallerStep,
         Queue!WorkerStep, Queue!SpuriousWakeup, Queue!BeginStop, Queue!StopStep,
         Queue!Next, Queue!Refuse, Queue!Debounced, Queue!KeybindDebouncePassed,
         Queue!QueueFull, Queue!Outstanding, Queue!NoteKeybind, Queue!Enqueue,
         Queue!WakeWorker, Queue!ClearQueue, Queue!Ids, Queue!callVars, Queue!queueVars,
         Queue!workerVars, Queue!history, Queue!NoCall, Queue!Keybind, Queue!Manual,
         Queue!Sources, Queue!Never, Queue!NoRequest, QueueTheorems!RefuseStopped,
         QueueTheorems!RefuseDebounced, QueueTheorems!RefuseFull,
         QueueTheorems!AcceptRequest, QueueTheorems!RunAcceptCallback,
         QueueTheorems!NotifyOne, QueueTheorems!WorkerChecksLoop,
         QueueTheorems!WorkerSleeps, QueueTheorems!WorkerStopsInWait,
         QueueTheorems!WorkerTakes, QueueTheorems!SaveCallbackReturns,
         QueueTheorems!WorkerFinishes, QueueTheorems!WorkerStopsAfterSave,
         QueueTheorems!RequestStop, QueueTheorems!NotifyAll, QueueTheorems!JoinWorker,
         QueueTheorems!Tick, QueueTheorems!BeginRequestSave, QueueTheorems!CallerStep,
         QueueTheorems!WorkerStep, QueueTheorems!SpuriousWakeup,
         QueueTheorems!BeginStop, QueueTheorems!StopStep, QueueTheorems!Next,
         QueueTheorems!Refuse, QueueTheorems!Debounced,
         QueueTheorems!KeybindDebouncePassed, QueueTheorems!QueueFull,
         QueueTheorems!Outstanding, QueueTheorems!NoteKeybind, QueueTheorems!Enqueue,
         QueueTheorems!WakeWorker, QueueTheorems!ClearQueue, QueueTheorems!Ids,
         QueueTheorems!callVars, QueueTheorems!queueVars, QueueTheorems!workerVars,
         QueueTheorems!history, QueueTheorems!NoCall, QueueTheorems!Keybind,
         QueueTheorems!Manual, QueueTheorems!Sources, QueueTheorems!Never,
         QueueTheorems!NoRequest
<1>3. Init => QueueTheorems!Init
  BY <1>1 DEF Init
<1>4. ASSUME [Next]_vars PROVE Queue!Next \/ UNCHANGED <<now, queueVars>>
  <2>1. CASE Tick
    BY <2>1 DEF Tick, Rec!Tick, Queue!Next, Queue!Tick, queueVars, Queue!callVars,
                Queue!queueVars, Queue!workerVars, Queue!history
  <2>2. CASE CaptureStep
    BY <2>2 DEF CaptureStep, Rec!SinkSplits, Rec!SinkFinalizes, Rec!SinkFails,
                Rec!BusStep, Rec!BusOpened, Rec!BusClosed, Rec!BusFailed
  <2>3. CASE RequestBegins
    BY <2>3 DEF RequestBegins, SourceOf, Queue!Next, Queue!Sources
  <2>4. ASSUME NEW c \in Callers, CallerStep(c)
        PROVE  Queue!Next \/ UNCHANGED <<now, queueVars>>
    BY <2>4 DEF CallerStep, AcceptCallbackReads, AcceptCallbackFails,
                AcceptCallbackRecords, Rec!ReadRunningTime, Queue!CallerStep, Queue!Next
  <2>5. CASE WorkerStep
    BY <2>5 DEF WorkerStep, SaveCallbackBegins, SaveCallbackRuns, SaveCallbackReturns,
                Rec!BeginSave, Rec!BeginUnhealthy, Rec!BeginHealthy, Rec!SaveStep,
                Rec!LookUpCutoff, Rec!SelectWindow, Rec!SelectRecent, Rec!GiveUp,
                Rec!MuxClip, Rec!MuxNothing, Rec!MuxFails, Queue!WorkerStep, Queue!Next
  <2>6. CASE StopBegins \/ StopRuns
    BY <2>6 DEF StopBegins, StopRuns, Queue!Next
  <2>7. CASE UNCHANGED vars
    BY <2>7 DEF vars
  <2> QED
    BY <1>4, <2>1, <2>2, <2>3, <2>4, <2>5, <2>6, <2>7 DEF Next
<1>5. UNCHANGED <<now, queueVars>> => UNCHANGED QueueTheorems!vars
  BY DEF queueVars, QueueTheorems!vars, QueueTheorems!callVars,
         QueueTheorems!queueVars, QueueTheorems!workerVars, QueueTheorems!history
<1> QED
  BY <1>2, <1>3, <1>4, <1>5

\* The path implements the controller: all of SaveQueueProofs holds of it.
THEOREM ImplementsSaveQueue == Spec => QueueTheorems!Spec
BY QueueRefined, PTL DEF Spec, QueueTheorems!Spec

-----------------------------------------------------------------------------
\* The callers about to take the lock.
AtLock == {c \in Callers : callerPc[c] = "lock"}

\* An accepted request is one of the calls begun, so there is an outcome for it.
IdsAreCalls ==
  /\ callerPc \in [Callers -> {"idle", "lock", "accept", "notify"}]
  /\ nextId - 1 + Cardinality(AtLock) <= calls

\* The requests served but the last are answered, the last too unless the
\* worker is in its save callback, and those not served have no outcome.
AnsweredSoFar ==
  /\ DOMAIN outcome = Requests
  /\ workerPc = "saving" => request = Len(served)
  /\ \A id \in Requests :
       /\ id > Len(served) => outcome[id].kind = "none"
       /\ id < Len(served) => Answered(id)
       /\ id = Len(served) /\ workerPc # "saving" => Answered(id)

\* A save runs only inside the save callback, for the worker's request.
SaveInCallback ==
  /\ {"pc", "id"} \subseteq DOMAIN saver
  /\ saver.pc = "idle" => \A id \in Requests : outcome[id].kind # "saving"
  /\ saver.pc # "idle" =>
       workerPc = "saving" /\ saver.id = request /\ outcome[request].kind = "saving"

Serving == AnsweredSoFar /\ SaveInCallback

-----------------------------------------------------------------------------
\* Cardinality(AtLock) when one caller leaves the set or enters it.
LEMMA AtLockChanges ==
  ASSUME NEW S \in SUBSET Callers, NEW T \in SUBSET Callers
  PROVE  /\ IsFiniteSet(S) /\ Cardinality(S) \in Nat
         /\ \A c \in S : T = S \ {c} => Cardinality(T) = Cardinality(S) - 1
         /\ \A c \in Callers : T = S \cup {c} => Cardinality(T) <= Cardinality(S) + 1
<1>1. IsFiniteSet(Callers)
  <2>1. IsFiniteSet({}) /\ IsFiniteSet({"listener"}) /\ IsFiniteSet({"listener", "main"})
    <3>1. IsFiniteSet({})
      BY FS_EmptySet
    <3>2. IsFiniteSet({} \cup {"listener"})
      BY <3>1, FS_AddElement
    <3>3. {} \cup {"listener"} = {"listener"}
      OBVIOUS
    <3>4. IsFiniteSet({"listener"} \cup {"main"})
      BY <3>2, <3>3, FS_AddElement
    <3>5. {"listener"} \cup {"main"} = {"listener", "main"}
      OBVIOUS
    <3> QED
      BY <3>1, <3>2, <3>3, <3>4, <3>5
  <2> QED
    BY <2>1, SavePathAssumption, FS_Subset
<1>2. IsFiniteSet(S) /\ Cardinality(S) \in Nat
  BY <1>1, FS_Subset, FS_CardinalityType
<1>3. ASSUME NEW c \in S, T = S \ {c} PROVE Cardinality(T) = Cardinality(S) - 1
  BY <1>2, <1>3, FS_RemoveElement
<1>4. ASSUME NEW c \in Callers, T = S \cup {c} PROVE Cardinality(T) <= Cardinality(S) + 1
  <2>1. Cardinality(T) = IF c \in S THEN Cardinality(S) ELSE Cardinality(S) + 1
    BY <1>2, <1>4, FS_AddElement
  <2> QED
    BY <1>2, <2>1
<1> QED
  BY <1>2, <1>3, <1>4

\* RequestBegins starts a call, AcceptRequest turns one into an id, a refusal
\* loses one; nothing else touches the three.
LEMMA IdsAreCallsStep ==
  ASSUME QueueTheorems!TypeOK, IdsAreCalls, [Next]_vars
  PROVE  IdsAreCalls'
<1>1. calls \in Nat /\ nextId \in Nat
  BY SavePathAssumption DEF QueueTheorems!TypeOK
<1>2. AtLock \in SUBSET Callers /\ AtLock' \in SUBSET Callers
  BY DEF AtLock
<1>3. Cardinality(AtLock) \in Nat
  BY <1>2, AtLockChanges
<1>4. CASE UNCHANGED <<calls, callerPc, nextId>>
  BY <1>4 DEF IdsAreCalls, AtLock
<1>5. ASSUME NEW c \in Callers, NEW place \in {"idle", "accept", "notify"},
             callerPc' = [callerPc EXCEPT ![c] = place],
             callerPc[c] # "lock", UNCHANGED <<calls, nextId>>
      PROVE  IdsAreCalls'
  <2>1. AtLock' = AtLock
    BY <1>5 DEF IdsAreCalls, AtLock
  <2> QED
    BY <1>5, <2>1 DEF IdsAreCalls
<1>6. ASSUME NEW c \in Callers, NEW place \in {"idle", "accept", "notify"},
             callerPc' = [callerPc EXCEPT ![c] = place],
             callerPc[c] = "lock", UNCHANGED calls, nextId' <= nextId + 1, nextId' \in Nat
      PROVE  IdsAreCalls'
  <2>1. AtLock' = AtLock \ {c} /\ c \in AtLock
    BY <1>6 DEF IdsAreCalls, AtLock
  <2>2. Cardinality(AtLock') = Cardinality(AtLock) - 1
    BY <1>2, <2>1, AtLockChanges
  <2>3. nextId' - 1 + Cardinality(AtLock') <= calls
    BY <1>1, <1>3, <1>6, <2>2 DEF IdsAreCalls
  <2> QED
    BY <1>6, <2>3 DEF IdsAreCalls
<1>7. CASE RequestBegins
  <2>1. PICK c \in Callers : Queue!BeginRequestSave(c, SourceOf(c))
    BY <1>7 DEF RequestBegins
  <2>2. /\ callerPc' = [callerPc EXCEPT ![c] = "lock"] /\ calls' = calls + 1
        /\ nextId' = nextId
    BY <2>1 DEF Queue!BeginRequestSave, Queue!queueVars
  <2>3. AtLock' = AtLock \cup {c}
    BY <2>2 DEF IdsAreCalls, AtLock
  <2>4. Cardinality(AtLock') \in Nat /\ Cardinality(AtLock') <= Cardinality(AtLock) + 1
    BY <1>2, <2>3, AtLockChanges
  <2>5. nextId' - 1 + Cardinality(AtLock') <= calls'
    BY <1>1, <1>3, <2>2, <2>4 DEF IdsAreCalls
  <2> QED
    BY <2>2, <2>5 DEF IdsAreCalls
<1>8. ASSUME NEW c \in Callers, CallerStep(c) PROVE IdsAreCalls'
  <2>1. CASE Queue!RefuseStopped(c) \/ Queue!RefuseDebounced(c) \/ Queue!RefuseFull(c)
    <3>1. /\ callerPc' = [callerPc EXCEPT ![c] = "idle"] /\ callerPc[c] = "lock"
          /\ UNCHANGED <<calls, nextId>>
      BY <2>1 DEF Queue!RefuseStopped, Queue!RefuseDebounced, Queue!RefuseFull, Queue!Refuse
    <3>2. nextId' <= nextId + 1 /\ nextId' \in Nat
      BY <1>1, <3>1
    <3> QED
      BY <1>6, <3>1, <3>2
  <2>2. CASE Queue!AcceptRequest(c)
    <3>1. /\ callerPc' = [callerPc EXCEPT ![c] = "accept"] /\ callerPc[c] = "lock"
          /\ UNCHANGED calls /\ nextId' = nextId + 1
      BY <2>2 DEF Queue!AcceptRequest
    <3>2. nextId' <= nextId + 1 /\ nextId' \in Nat
      BY <1>1, <3>1
    <3> QED
      BY <1>6, <3>1, <3>2
  <2>3. CASE Queue!RunAcceptCallback(c)
    BY <1>5, <2>3 DEF Queue!RunAcceptCallback, Queue!queueVars
  <2>4. CASE Queue!NotifyOne(c)
    BY <1>5, <2>4 DEF Queue!NotifyOne, Queue!queueVars
  <2>5. CASE AcceptCallbackReads(c)
    BY <1>4, <2>5 DEF AcceptCallbackReads, queueVars
  <2> QED
    BY <1>8, <2>1, <2>2, <2>3, <2>4, <2>5
    DEF CallerStep, AcceptCallbackFails, AcceptCallbackRecords
<1>9. CASE WorkerStep
  <2>1. UNCHANGED <<calls, callerPc, nextId>>
    BY <1>9 DEF WorkerStep, SaveCallbackBegins, SaveCallbackRuns, SaveCallbackReturns,
                queueVars, Queue!WorkerChecksLoop, Queue!WorkerSleeps,
                Queue!WorkerStopsInWait, Queue!WorkerTakes, Queue!WorkerFinishes,
                Queue!WorkerStopsAfterSave, Queue!SaveCallbackReturns, Queue!callVars,
                Queue!queueVars
  <2> QED
    BY <1>4, <2>1
<1>10. CASE StopBegins \/ StopRuns
  <2>1. UNCHANGED <<calls, callerPc, nextId>>
    BY <1>10 DEF StopBegins, StopRuns, Queue!BeginStop, Queue!StopStep,
                 Queue!RequestStop, Queue!NotifyAll, Queue!JoinWorker, Queue!callVars,
                 Queue!queueVars
  <2> QED
    BY <1>4, <2>1
<1>11. CASE Tick \/ CaptureStep \/ UNCHANGED vars
  BY <1>4, <1>11 DEF Tick, CaptureStep, queueVars, vars
<1> QED
  BY <1>7, <1>8, <1>9, <1>10, <1>11 DEF Next

-----------------------------------------------------------------------------
\* The worker's request is one of those there is an outcome for.
LEMMA RequestIsCall ==
  ASSUME QueueTheorems!TypeOK, QueueTheorems!IInv, IdsAreCalls, AnsweredSoFar,
         workerPc = "saving"
  PROVE  request \in Requests /\ request = Len(served)
<1>1. /\ calls \in Nat /\ calls <= MaxCalls /\ nextId \in Nat /\ request \in Nat
      /\ Len(served) \in Nat /\ Len(requests) \in Nat /\ MaxCalls \in Nat
  BY SavePathAssumption DEF QueueTheorems!TypeOK
<1>2. request # 0 /\ Len(served) + Len(requests) <= nextId - 1
  BY DEF QueueTheorems!IInv, QueueTheorems!WorkerConsistent,
         QueueTheorems!QueueConsistent, QueueTheorems!NoRequest
<1>3. Cardinality(AtLock) \in Nat
  BY AtLockChanges DEF AtLock
<1>4. nextId - 1 + Cardinality(AtLock) <= calls /\ request = Len(served)
  BY DEF IdsAreCalls, AnsweredSoFar
<1>5. request <= MaxCalls
  BY <1>1, <1>2, <1>3, <1>4
<1> QED
  BY <1>1, <1>2, <1>4, <1>5, SavePathAssumption DEF Requests

\* What the worker is not told of: no save begins, ends or answers.
LEMMA NothingServed ==
  ASSUME Serving, UNCHANGED <<outcome, saver, served>>,
         workerPc' = "saving" <=> workerPc = "saving",
         workerPc = "saving" => request' = request
  PROVE  Serving'
<1>1. ASSUME workerPc' = "saving" PROVE request' = Len(served')
  BY <1>1 DEF Serving, AnsweredSoFar
<1> QED
  BY <1>1 DEF Serving, AnsweredSoFar, SaveInCallback, Answered

\* WorkerTakes: the next request is the one after those served.
LEMMA TakenIsNext ==
  ASSUME QueueTheorems!TypeOK, QueueTheorems!IInv, Serving, Queue!WorkerTakes,
         UNCHANGED recVars
  PROVE  Serving'
<1>1. PICK n \in Nat : n = Len(served)
  BY DEF QueueTheorems!TypeOK
<1>2. Len(served') = n + 1
  BY <1>1 DEF Queue!WorkerTakes, QueueTheorems!TypeOK
<1>3. request' = n + 1
  <2>1. requests # <<>> /\ requests \in Seq(Nat) /\ request' = Head(requests)
    BY DEF Queue!WorkerTakes, QueueTheorems!TypeOK
  <2>2. 1 \in 1..Len(requests) /\ Head(requests) = requests[1]
    BY <2>1
  <2>3. requests[1] = Len(served) + 1
    BY <2>2 DEF QueueTheorems!IInv, QueueTheorems!QueueConsistent
  <2> QED
    BY <1>1, <2>1, <2>2, <2>3
<1>4. UNCHANGED <<outcome, saver>> /\ workerPc = "wait" /\ workerPc' = "saving"
  BY DEF recVars, Queue!WorkerTakes
<1>5. ASSUME NEW id \in Requests
      PROVE  /\ id > n + 1 => outcome[id].kind = "none"
             /\ id < n + 1 => Answered(id)
  <2>1. id \in Nat
    BY SavePathAssumption DEF Requests
  <2>2. id > n + 1 => id > n
    BY <1>1, <2>1
  <2>3. id < n + 1 => id < n \/ id = n
    BY <1>1, <2>1
  <2> QED
    BY <1>1, <1>4, <2>2, <2>3 DEF Serving, AnsweredSoFar
<1> QED
  BY <1>2, <1>3, <1>4, <1>5 DEF Serving, AnsweredSoFar, SaveInCallback, Answered

\* SaveCallbackBegins: the request has no outcome; it gets one or is being saved.
LEMMA SaveBegins ==
  ASSUME QueueTheorems!TypeOK, QueueTheorems!IInv, IdsAreCalls, Serving,
         SaveCallbackBegins
  PROVE  Serving'
<1>1. workerPc = "saving" /\ workerPc' = "saving" /\ request' = request /\ served' = served
  BY DEF SaveCallbackBegins, queueVars
<1>2. request \in Requests /\ request = Len(served)
  BY <1>1, RequestIsCall DEF Serving
<1>3. DOMAIN outcome = Requests /\ saver.pc = "idle"
  BY DEF Serving, AnsweredSoFar, SaveCallbackBegins, Rec!BeginSave, Rec!BeginUnhealthy,
         Rec!BeginHealthy
<1>4. PICK result : /\ outcome' = [outcome EXCEPT ![request] = result]
                    /\ \/ result.kind = "unhealthy" /\ saver' = Rec!Idle
                       \/ /\ result.kind = "saving"
                          /\ saver' = [Rec!Idle EXCEPT !.pc = "lookup", !.id = request]
  <2> DEFINE refused == [kind |-> "unhealthy"]
             taken   == [kind |-> "saving"]
  <2>1. CASE Rec!BeginUnhealthy(request)
    <3>1. outcome' = [outcome EXCEPT ![request] = refused] /\ saver' = Rec!Idle
      BY <2>1 DEF Rec!BeginUnhealthy, Rec!Return
    <3>2. refused.kind = "unhealthy"
      OBVIOUS
    <3> HIDE DEF refused
    <3> QED
      BY <3>1, <3>2
  <2>2. CASE Rec!BeginHealthy(request)
    <3>1. /\ outcome' = [outcome EXCEPT ![request] = taken]
          /\ saver' = [Rec!Idle EXCEPT !.pc = "lookup", !.id = request]
      BY <2>2 DEF Rec!BeginHealthy
    <3>2. taken.kind = "saving"
      OBVIOUS
    <3> HIDE DEF taken
    <3> QED
      BY <3>1, <3>2
  <2> QED
    BY <2>1, <2>2 DEF SaveCallbackBegins, Rec!BeginSave
<1>5. /\ DOMAIN outcome' = Requests /\ outcome'[request] = result
      /\ \A id \in Requests : id # request => outcome'[id] = outcome[id]
  BY <1>2, <1>3, <1>4
<1>6. /\ {"pc", "id"} \subseteq DOMAIN saver'
      /\ result.kind = "unhealthy" => saver'.pc = "idle"
      /\ result.kind = "saving" => saver'.pc = "lookup" /\ saver'.id = request
  <2>1. {"pc", "id"} \subseteq DOMAIN Rec!Idle /\ Rec!Idle.pc = "idle"
    BY DEF Rec!Idle
  <2>2. CASE result.kind = "unhealthy" /\ saver' = Rec!Idle
    BY <2>1, <2>2
  <2>3. CASE /\ result.kind = "saving"
             /\ saver' = [Rec!Idle EXCEPT !.pc = "lookup", !.id = request]
    BY <2>1, <2>3
  <2> QED
    BY <1>4, <2>2, <2>3
<1>7. AnsweredSoFar'
  <2>1. ASSUME NEW id \in Requests
        PROVE  /\ id > Len(served) => outcome'[id].kind = "none"
               /\ id < Len(served) => Answered(id)'
    <3>1. id \in Nat /\ request \in Nat
      BY <1>2, SavePathAssumption DEF Requests
    <3>2. id > Len(served) \/ id < Len(served) => id # request
      BY <1>2, <3>1
    <3> QED
      BY <1>5, <3>2 DEF Serving, AnsweredSoFar, Answered
  <2> QED
    BY <1>1, <1>2, <1>5, <2>1 DEF AnsweredSoFar
<1>8. SaveInCallback'
  <2>1. CASE result.kind = "unhealthy"
    BY <1>3, <1>5, <1>6, <2>1 DEF Serving, SaveInCallback
  <2>2. CASE result.kind = "saving"
    BY <1>1, <1>5, <1>6, <2>2 DEF SaveInCallback
  <2> QED
    BY <1>4, <2>1, <2>2
<1> QED
  BY <1>7, <1>8 DEF Serving

\* A step of SaveClip moves on for the same request, or returns with its outcome.
LEMMA SaveMovesOrReturns ==
  ASSUME {"pc", "id"} \subseteq DOMAIN saver, Rec!SaveStep
  PROVE  \/ /\ outcome' = outcome /\ {"pc", "id"} \subseteq DOMAIN saver'
            /\ saver.pc # "idle" /\ saver'.pc # "idle" /\ saver'.id = saver.id
         \/ \E result : /\ result.kind \notin {"none", "saving"}
                        /\ outcome' = [outcome EXCEPT ![saver.id] = result]
                        /\ saver' = Rec!Idle /\ saver.pc # "idle"
<1>1. CASE Rec!LookUpCutoff
  BY <1>1 DEF Rec!LookUpCutoff, Rec!FallBack
<1>2. CASE Rec!SelectWindow
  BY <1>2 DEF Rec!SelectWindow, Rec!FallBack
<1>3. CASE Rec!SelectRecent
  BY <1>3 DEF Rec!SelectRecent
<1>4. CASE Rec!GiveUp
  BY <1>4 DEF Rec!GiveUp, Rec!Return
<1>5. CASE Rec!MuxClip
  <2> DEFINE result == Rec!Export(saver.segments \cap files, saver.available, saver.endTrim)
  <2>1. result.kind \in {"trimmed", "clip"}
    BY DEF Rec!Export
  <2>2. /\ outcome' = [outcome EXCEPT ![saver.id] = result]
        /\ saver' = Rec!Idle /\ saver.pc # "idle"
    BY <1>5 DEF Rec!MuxClip, Rec!Return
  <2> HIDE DEF result
  <2> QED
    BY <2>1, <2>2
<1>6. CASE Rec!MuxNothing
  BY <1>6 DEF Rec!MuxNothing, Rec!Return
<1>7. CASE Rec!MuxFails
  BY <1>7 DEF Rec!MuxFails, Rec!Return
<1> QED
  BY <1>1, <1>2, <1>3, <1>4, <1>5, <1>6, <1>7 DEF Rec!SaveStep

\* SaveCallbackRuns: only the worker's request gets its outcome.
LEMMA SaveRuns ==
  ASSUME QueueTheorems!TypeOK, QueueTheorems!IInv, IdsAreCalls, Serving,
         SaveCallbackRuns
  PROVE  Serving'
<1>1. Rec!SaveStep /\ UNCHANGED <<workerPc, request, served>>
  BY DEF SaveCallbackRuns, queueVars
<1>2. saver.pc # "idle"
  BY <1>1, SaveMovesOrReturns DEF Serving, SaveInCallback
<1>3. workerPc = "saving" /\ saver.id = request /\ DOMAIN outcome = Requests
  BY <1>2 DEF Serving, AnsweredSoFar, SaveInCallback
<1>4. request \in Requests /\ request = Len(served)
  BY <1>3, RequestIsCall DEF Serving
<1>5. CASE /\ outcome' = outcome /\ {"pc", "id"} \subseteq DOMAIN saver'
           /\ saver'.pc # "idle" /\ saver'.id = saver.id
  BY <1>1, <1>2, <1>3, <1>5 DEF Serving, AnsweredSoFar, SaveInCallback, Answered
<1>6. ASSUME NEW result, result.kind \notin {"none", "saving"},
             outcome' = [outcome EXCEPT ![request] = result], saver' = Rec!Idle
      PROVE  Serving'
  <2>1. /\ DOMAIN outcome' = Requests /\ outcome'[request] = result
        /\ \A id \in Requests : id # request => outcome'[id] = outcome[id]
    BY <1>3, <1>4, <1>6
  <2>2. {"pc", "id"} \subseteq DOMAIN saver' /\ saver'.pc = "idle"
    BY <1>6 DEF Rec!Idle
  <2>3. ASSUME NEW id \in Requests, id # request
        PROVE  /\ id > Len(served) => outcome'[id].kind = "none"
               /\ id < Len(served) => Answered(id)'
               /\ outcome'[id].kind # "saving"
    <3>1. id \in Nat /\ Len(served) \in Nat
      BY <1>4, SavePathAssumption DEF Requests
    <3>2. id > Len(served) \/ id < Len(served)
      BY <1>4, <2>3, <3>1
    <3> QED
      BY <2>1, <2>3, <3>2 DEF Serving, AnsweredSoFar, Answered
  <2>4. outcome'[request].kind \notin {"none", "saving"}
    BY <1>6, <2>1
  <2>5. ~(request > Len(served))
    BY <1>4, SavePathAssumption DEF Requests
  <2>6. AnsweredSoFar'
    BY <1>1, <1>4, <2>1, <2>3, <2>4, <2>5 DEF AnsweredSoFar, Answered
  <2>7. SaveInCallback'
    BY <2>2, <2>3, <2>4 DEF SaveInCallback
  <2> QED
    BY <2>6, <2>7 DEF Serving
<1> QED
  BY <1>1, <1>3, <1>5, <1>6, SaveMovesOrReturns DEF Serving, SaveInCallback

\* SaveCallbackReturns: the request is answered, so no save is running.
LEMMA SaveReturns ==
  ASSUME QueueTheorems!TypeOK, QueueTheorems!IInv, IdsAreCalls, Serving,
         SaveCallbackReturns
  PROVE  Serving'
<1>1. /\ workerPc = "saving" /\ workerPc' = "finish" /\ Answered(request)
      /\ UNCHANGED <<outcome, saver, served>>
  BY DEF SaveCallbackReturns, Queue!SaveCallbackReturns, Queue!history, recVars
<1>2. request \in Requests /\ request = Len(served)
  BY <1>1, RequestIsCall DEF Serving
<1>3. saver.pc = "idle"
  BY <1>1 DEF Serving, SaveInCallback, Answered
<1> QED
  BY <1>1, <1>2, <1>3 DEF Serving, AnsweredSoFar, SaveInCallback, Answered

\* Every step, whichever thread takes it.
LEMMA ServingStep ==
  ASSUME QueueTheorems!TypeOK, QueueTheorems!IInv, IdsAreCalls, Serving, [Next]_vars
  PROVE  Serving'
<1>1. CASE Tick \/ CaptureStep
  <2>1. UNCHANGED <<outcome, saver, served, workerPc, request>>
    BY <1>1 DEF Tick, CaptureStep, queueVars, Rec!Tick, Rec!SinkSplits,
                Rec!SinkFinalizes, Rec!SinkFails, Rec!BusStep, Rec!BusOpened,
                Rec!BusClosed, Rec!BusFailed
  <2> QED
    BY <2>1, NothingServed
<1>2. CASE RequestBegins
  <2>1. UNCHANGED <<outcome, saver, served, workerPc, request>>
    BY <1>2 DEF RequestBegins, recVars, Queue!BeginRequestSave, Queue!workerVars,
                Queue!history
  <2> QED
    BY <2>1, NothingServed
<1>3. ASSUME NEW c \in Callers, CallerStep(c) PROVE Serving'
  <2>1. CASE AcceptCallbackReads(c) \/ AcceptCallbackFails(c) \/ AcceptCallbackRecords(c)
    <3>1. UNCHANGED <<outcome, saver, served, workerPc, request>>
      BY <2>1 DEF AcceptCallbackReads, AcceptCallbackFails, AcceptCallbackRecords,
                  Rec!ReadRunningTime, Rec!NoRunningTime, Rec!RecordCutoff, queueVars,
                  Queue!RunAcceptCallback, Queue!workerVars, Queue!history
    <3> QED
      BY <3>1, NothingServed
  <2>2. CASE ~(\/ AcceptCallbackReads(c) \/ AcceptCallbackFails(c)
               \/ AcceptCallbackRecords(c))
    <3>1. /\ UNCHANGED <<outcome, saver, served, request>>
          /\ workerPc' = workerPc \/ (workerPc = "asleep" /\ workerPc' = "wait")
      BY <1>3, <2>2 DEF CallerStep, recVars, Queue!RefuseStopped, Queue!RefuseDebounced,
                Queue!RefuseFull, Queue!Refuse, Queue!AcceptRequest, Queue!NotifyOne,
                Queue!WakeWorker, Queue!workerVars, Queue!history
    <3> QED
      BY <3>1, NothingServed
  <2> QED
    BY <2>1, <2>2
<1>4. CASE WorkerStep
  <2>1. CASE Queue!WorkerTakes /\ UNCHANGED recVars
    BY <2>1, TakenIsNext
  <2>2. CASE SaveCallbackBegins
    BY <2>2, SaveBegins
  <2>3. CASE SaveCallbackRuns
    BY <2>3, SaveRuns
  <2>4. CASE SaveCallbackReturns
    BY <2>4, SaveReturns
  <2>5. CASE /\ \/ Queue!WorkerChecksLoop \/ Queue!WorkerSleeps
                \/ Queue!WorkerStopsInWait \/ Queue!WorkerFinishes
                \/ Queue!WorkerStopsAfterSave
             /\ UNCHANGED recVars
    <3>1. UNCHANGED <<outcome, saver, served>> /\ workerPc # "saving" /\ workerPc' # "saving"
      BY <2>5 DEF recVars, Queue!WorkerChecksLoop, Queue!WorkerSleeps,
                  Queue!WorkerStopsInWait, Queue!WorkerFinishes,
                  Queue!WorkerStopsAfterSave, Queue!history
    <3> QED
      BY <3>1, NothingServed
  <2> QED
    BY <1>4, <2>1, <2>2, <2>3, <2>4, <2>5 DEF WorkerStep
<1>5. CASE StopBegins \/ StopRuns
  <2>1. /\ UNCHANGED <<outcome, saver, served, request>>
        /\ workerPc' = workerPc \/ (workerPc = "asleep" /\ workerPc' = "wait")
    BY <1>5 DEF StopBegins, StopRuns, recVars, Queue!BeginStop, Queue!StopStep,
                Queue!RequestStop, Queue!NotifyAll, Queue!JoinWorker, Queue!WakeWorker,
                Queue!workerVars, Queue!history
  <2> QED
    BY <2>1, NothingServed
<1>6. CASE UNCHANGED vars
  <2>1. UNCHANGED <<outcome, saver, served, workerPc, request>>
    BY <1>6 DEF vars, queueVars, recVars
  <2> QED
    BY <2>1, NothingServed
<1> QED
  BY <1>1, <1>2, <1>3, <1>4, <1>5, <1>6 DEF Next

\* The invariant of the path: the controller's own, and what the two halves owe
\* each other.
PathInv ==
  QueueTheorems!TypeOK /\ QueueTheorems!IInv /\ IdsAreCalls /\ Serving

\* What relates the controller's ids to the recorder's outcomes holds always.
THEOREM PathInvariant == Spec => []PathInv
<1>1. Spec => []QueueTheorems!TypeOK
  <2>1. QueueTheorems!Spec => []QueueTheorems!TypeOK
    BY QueueTheorems!TypeCorrect, SavePathAssumption DEF QueueTheorems!SaveQueueAssumption
  <2> QED
    BY <2>1, ImplementsSaveQueue, PTL
<1>2. Spec => []QueueTheorems!IInv
  <2>1. QueueTheorems!Spec => []QueueTheorems!IInv
    BY QueueTheorems!Inductive, SavePathAssumption DEF QueueTheorems!SaveQueueAssumption
  <2> QED
    BY <2>1, ImplementsSaveQueue, PTL
<1>3. Init => IdsAreCalls /\ Serving
  <2> SUFFICES ASSUME Init PROVE IdsAreCalls /\ Serving
    OBVIOUS
  <2>1. /\ callerPc = [c \in Callers |-> "idle"] /\ calls = 0 /\ nextId = 1
        /\ workerPc = "loop" /\ served = <<>> /\ saver = Rec!Idle
        /\ outcome = [id \in Requests |-> [kind |-> "none"]]
    BY DEF Init, Queue!Init, Rec!Init
  <2>2. AtLock = {}
    BY <2>1 DEF AtLock
  <2>3. Cardinality(AtLock) = 0
    BY <2>2, FS_EmptySet
  <2>4. IdsAreCalls
    BY <2>1, <2>3 DEF IdsAreCalls
  <2>5. \A id \in Requests : id \in Nat /\ id > 0 /\ outcome[id].kind = "none"
    BY <2>1, SavePathAssumption DEF Requests
  <2>6. Len(served) = 0 /\ saver.pc = "idle" /\ {"pc", "id"} \subseteq DOMAIN saver
    BY <2>1 DEF Rec!Idle
  <2>7. \A id \in Requests : ~(id < 0) /\ ~(id = 0)
    BY <2>5
  <2>8. Serving
    BY <2>1, <2>5, <2>6, <2>7 DEF Serving, AnsweredSoFar, SaveInCallback
  <2> QED
    BY <2>4, <2>8
<1>4. /\ QueueTheorems!TypeOK /\ QueueTheorems!IInv /\ IdsAreCalls /\ Serving /\ [Next]_vars
      => IdsAreCalls' /\ Serving'
  BY IdsAreCallsStep, ServingStep
<1>5. Spec => [](IdsAreCalls /\ Serving)
  BY <1>1, <1>2, <1>3, <1>4, PTL DEF Spec
<1>6. QueueTheorems!TypeOK /\ QueueTheorems!IInv /\ IdsAreCalls /\ Serving => PathInv
  BY DEF PathInv
<1> QED
  BY <1>1, <1>2, <1>5, <1>6, PTL

\* SaveRequestController and SaveClip: requests are answered one at a time, in
\* the order they were accepted.
THEOREM AnsweredInOrderHolds == Spec => []AnsweredInOrder
<1>1. ASSUME AnsweredSoFar, QueueTheorems!TypeOK PROVE AnsweredInOrder
  <2> SUFFICES ASSUME NEW i \in Requests, NEW j \in Requests, i < j, Answered(j)
               PROVE  Answered(i)
    BY DEF AnsweredInOrder
  <2>1. i \in Nat /\ j \in Nat /\ Len(served) \in Nat
    BY <1>1, SavePathAssumption DEF Requests, QueueTheorems!TypeOK
  <2>2. ~(j > Len(served))
    BY <1>1 DEF AnsweredSoFar, Answered
  <2>3. i < Len(served)
    BY <2>1, <2>2
  <2> QED
    BY <1>1, <2>3 DEF AnsweredSoFar
<1>2. PathInv => AnsweredInOrder
  BY <1>1 DEF PathInv, Serving
<1> QED
  BY <1>2, PathInvariant, PTL

\* SaveRequestController::Stop, before RunListener destroys the recorder: no
\* SaveClip is running once it has returned.
THEOREM StopWaitsForSaveHolds == Spec => []StopWaitsForSave
<1>1. PathInv => StopWaitsForSave
  BY DEF PathInv, Serving, SaveInCallback, StopWaitsForSave, QueueTheorems!IInv,
         QueueTheorems!WorkerConsistent
<1> QED
  BY <1>1, PathInvariant, PTL
=============================================================================
