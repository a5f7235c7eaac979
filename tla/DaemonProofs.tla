---------------------------- MODULE DaemonProofs ----------------------------
(***************************************************************************)
(* Proofs about Daemon, for any queue capacity and any number of signals,  *)
(* key presses and recorders.                                              *)
(***************************************************************************)
EXTENDS Daemon, SequenceTheorems, TLAPS

\* The daemon's variables keep their types through every step of its threads.
THEOREM TypeCorrect == Spec => []TypeOK
<1> USE DaemonAssumption DEF NoUse
<1>1. Init => TypeOK
  <2> SUFFICES ASSUME Init PROVE TypeOK
    OBVIOUS
  <2>1. recorder \in Recorder
    BY DEF Init, Recorder
  <2>2. /\ count \in Nat /\ queue \in Seq(Nat \ {0}) /\ current \in Nat
        /\ phase \in {"open", "closing", "closed"}
    BY DEF Init, Queue!Init
  <2>3. sent \in [saves : 0..MaxSaves, chooses : 0..MaxChooses,
                  presses : 0..MaxPresses]
    BY DEF Init, DaemonAssumption
  <2>4. uses \in [listener : Nat, worker : Nat]
    BY DEF Init
  <2>5. QED
    BY <2>1, <2>2, <2>3, <2>4 DEF Init, TypeOK
<1>2. TypeOK /\ [Next]_vars => TypeOK'
  <2> SUFFICES ASSUME TypeOK, [Next]_vars PROVE TypeOK'
    OBVIOUS
  <2> USE DEF TypeOK, queueVars, signals, listenerVars, Queue!vars
  <2>1. CASE SignalStep
    <3>1. CASE SaveSignal
      <4>1. sent' \in [saves : 0..MaxSaves, chooses : 0..MaxChooses,
                       presses : 0..MaxPresses]
        <5> HIDE DEF TypeOK
        <5>1. sent.saves < MaxSaves /\ sent' = [sent EXCEPT !.saves = @ + 1]
          BY <3>1 DEF SaveSignal
        <5>2. sent \in [saves : 0..MaxSaves, chooses : 0..MaxChooses,
                        presses : 0..MaxPresses]
          BY DEF TypeOK
        <5>3. QED
          BY <5>1, <5>2, DaemonAssumption
      <4>2. saveRequested' \in BOOLEAN /\ unanswered' \in BOOLEAN
        BY <3>1, Zenon DEF SaveSignal
      <4>3. UNCHANGED <<queueVars, chooseRequested, shutdownRequested, chosenAt,
                        recorder, uses, mainPc, listenerVars, workerPc>>
        BY <3>1, Zenon DEF SaveSignal
      <4>4. QED
        BY <4>1, <4>2, <4>3
    <3>2. CASE ChooseSignal
      <4>1. sent' \in [saves : 0..MaxSaves, chooses : 0..MaxChooses,
                       presses : 0..MaxPresses]
        <5> HIDE DEF TypeOK
        <5>1. sent.chooses < MaxChooses /\ sent' = [sent EXCEPT !.chooses = @ + 1]
          BY <3>2 DEF ChooseSignal
        <5>2. sent \in [saves : 0..MaxSaves, chooses : 0..MaxChooses,
                        presses : 0..MaxPresses]
          BY DEF TypeOK
        <5>3. QED
          BY <5>1, <5>2, DaemonAssumption
      <4>2. chooseRequested' \in BOOLEAN
        BY <3>2, Zenon DEF ChooseSignal
      <4>3. UNCHANGED <<queueVars, saveRequested, shutdownRequested, unanswered,
                        chosenAt, recorder, uses, mainPc, listenerVars, workerPc>>
        BY <3>2, Zenon DEF ChooseSignal
      <4>4. QED
        BY <4>1, <4>2, <4>3
    <3>3. CASE ShutdownSignal
      BY <3>3 DEF ShutdownSignal
    <3>4. QED
      BY <2>1, <3>1, <3>2, <3>3 DEF SignalStep
  <2>2. CASE MainStep
    <3>1. CASE Boot
      <4>1. recorder' \in Recorder
        BY <3>1 DEF Boot, RecorderStarts, Recorder
      <4>2. QED
        BY <3>1, <4>1 DEF Boot, RecorderStarts
    <3>2. CASE StartThreads
      BY <3>2 DEF StartThreads
    <3>3. CASE LoopCondition
      BY <3>3 DEF LoopCondition
    <3>4. CASE CheckSave
      <4>1. mainPc' = "request" \/ mainPc' = "choose"
        BY <3>4 DEF CheckSave
      <4>2. saveRequested' \in BOOLEAN
        BY <3>4, Zenon DEF CheckSave
      <4>3. UNCHANGED <<queueVars, chooseRequested, shutdownRequested, unanswered,
                        sent, chosenAt, recorder, uses, listenerVars, workerPc>>
        BY <3>4, Zenon DEF CheckSave
      <4>4. QED
        BY <4>1, <4>2, <4>3
    <3>5. CASE MainRequests
      <4>1. unanswered' \in BOOLEAN /\ mainPc' = "lock"
        BY <3>5, Zenon DEF MainRequests
      <4>2. UNCHANGED <<queueVars, saveRequested, chooseRequested, shutdownRequested,
                        sent, chosenAt, recorder, uses, listenerVars, workerPc>>
        BY <3>5, Zenon DEF MainRequests
      <4>3. QED
        BY <4>1, <4>2
    <3>6. CASE MainIsAccepted
      BY <3>6 DEF MainIsAccepted, Queue!Accept
    <3>7. CASE MainIsRefused
      BY <3>7 DEF MainIsRefused
    <3>8. CASE ChooseWaits
      BY <3>8 DEF ChooseWaits
    <3>9. CASE ChooseBegins
      <4>1. chooseRequested' \in BOOLEAN /\ chosenAt' = count /\ mainPc' = "stopOld"
        BY <3>9, Zenon DEF ChooseBegins
      <4>2. UNCHANGED <<queueVars, saveRequested, shutdownRequested, unanswered, sent,
                        recorder, uses, listenerVars, workerPc>>
        BY <3>9, Zenon DEF ChooseBegins
      <4>3. QED
        BY <4>1, <4>2
    <3>10. CASE StopOldRecorder
      <4>1. recorder' \in Recorder
        BY <3>10 DEF StopOldRecorder, StopRecorder, Recorder
      <4>2. QED
        BY <3>10, <4>1 DEF StopOldRecorder, StopRecorder
    <3>11. CASE ReplaceRecorder
      BY <3>11 DEF ReplaceRecorder, Recorder
    <3>12. CASE StartNewRecorder
      <4>1. recorder' \in Recorder
        BY <3>12 DEF StartNewRecorder, RecorderStarts, Recorder
      <4>2. QED
        BY <3>12, <4>1 DEF StartNewRecorder, RecorderStarts
    <3>13. CASE WriteStatus
      <4>1. shutdownRequested' \in BOOLEAN /\ mainPc' = "loop"
        BY <3>13 DEF WriteStatus
      <4>2. UNCHANGED <<queueVars, saveRequested, chooseRequested, unanswered, sent,
                        chosenAt, recorder, uses, listenerVars, workerPc>>
        BY <3>13, Zenon DEF WriteStatus
      <4>3. QED
        BY <4>1, <4>2
    <3>14. CASE StatusNotDue
      BY <3>14 DEF StatusNotDue
    <3>15. CASE StopListener
      <4>1. listenerRunning' \in BOOLEAN /\ mainPc' = "joinListener"
        BY <3>15, Zenon DEF StopListener
      <4>2. UNCHANGED <<queueVars, signals, chosenAt, recorder, uses, listenerPc,
                        workerPc>>
        BY <3>15, Zenon DEF StopListener
      <4>3. QED
        BY <4>1, <4>2
    <3>16. CASE JoinListener
      BY <3>16 DEF JoinListener
    <3>17. CASE StopQueue
      BY <3>17 DEF StopQueue, Queue!Close
    <3>18. CASE JoinWorker
      BY <3>18 DEF JoinWorker
    <3>19. CASE StopLastRecorder
      <4>1. recorder' \in Recorder
        BY <3>19 DEF StopLastRecorder, StopRecorder, Recorder
      <4>2. QED
        BY <3>19, <4>1 DEF StopLastRecorder, StopRecorder
    <3>20. QED
      BY <2>2, <3>1, <3>2, <3>3, <3>4, <3>5, <3>6, <3>7, <3>8, <3>9, <3>10,
         <3>11, <3>12, <3>13, <3>14, <3>15, <3>16, <3>17, <3>18, <3>19 DEF
         MainStep
  <2>3. CASE ListenerReturns
    <3>1. CASE ListenerIsAccepted
      BY <3>1 DEF ListenerIsAccepted, Queue!Accept
    <3>2. CASE ListenerIsRefused
      BY <3>2 DEF ListenerIsRefused
    <3>3. CASE ListenerMarks
      <4>1. uses' \in [listener : Nat, worker : Nat]
        BY <3>3 DEF ListenerMarks, Recorder
      <4>2. listenerPc' = "marking"
        BY <3>3 DEF ListenerMarks
      <4>3. UNCHANGED <<queueVars, signals, chosenAt, recorder, mainPc, listenerRunning,
                        workerPc>>
        BY <3>3, Zenon DEF ListenerMarks
      <4>4. QED
        BY <4>1, <4>2, <4>3
    <3>4. CASE ListenerHasMarked
      <4>1. uses' \in [listener : Nat, worker : Nat]
        BY <3>4 DEF ListenerHasMarked
      <4>2. listenerPc' = "poll"
        BY <3>4 DEF ListenerHasMarked
      <4>3. UNCHANGED <<queueVars, signals, chosenAt, recorder, mainPc, listenerRunning,
                        workerPc>>
        BY <3>4, Zenon DEF ListenerHasMarked
      <4>4. QED
        BY <4>1, <4>2, <4>3
    <3>5. CASE ListenerExits
      BY <3>5 DEF ListenerExits
    <3>6. QED
      BY <2>3, <3>1, <3>2, <3>3, <3>4, <3>5 DEF ListenerReturns
  <2>4. CASE WorkerStep
    <3>1. CASE WorkerBegins
      BY <3>1 DEF WorkerBegins, Queue!Begin
    <3>2. CASE WorkerEnters
      <4>1. uses' \in [listener : Nat, worker : Nat]
        BY <3>2 DEF WorkerEnters, Recorder
      <4>2. workerPc' \in {"saving", "reporting"}
        BY <3>2 DEF WorkerEnters
      <4>3. UNCHANGED <<queueVars, signals, chosenAt, recorder, mainPc, listenerVars>>
        BY <3>2, Zenon DEF WorkerEnters
      <4>4. QED
        BY <4>1, <4>2, <4>3
    <3>3. CASE WorkerLeaves
      <4>1. uses' \in [listener : Nat, worker : Nat]
        BY <3>3 DEF WorkerLeaves
      <4>2. workerPc' \in {"report", "finish"}
        BY <3>3 DEF WorkerLeaves
      <4>3. UNCHANGED <<queueVars, signals, chosenAt, recorder, mainPc, listenerVars>>
        BY <3>3, Zenon DEF WorkerLeaves
      <4>4. QED
        BY <4>1, <4>2, <4>3
    <3>4. CASE WorkerFinishes
      <4>1. queue' \in Seq(Nat \ {0})
        <5>1. queue' = queue \/ queue' = <<>>
          BY <3>4, Zenon DEF WorkerFinishes, Queue!Finish
        <5>2. queue \in Seq(Nat \ {0}) /\ <<>> \in Seq(Nat \ {0})
          OBVIOUS
        <5>3. QED
          BY <5>1, <5>2, Zenon
      <4>2. workerPc' = "idle" \/ workerPc' = "exited"
        BY <3>4 DEF WorkerFinishes
      <4>3. QED
        BY <3>4, <4>1, <4>2 DEF WorkerFinishes, Queue!Finish
    <3>5. CASE WorkerStops
      <4>1. queue' \in Seq(Nat \ {0})
        <5>1. queue' = queue \/ queue' = <<>>
          BY <3>5, Zenon DEF WorkerStops, Queue!Discard
        <5>2. queue \in Seq(Nat \ {0}) /\ <<>> \in Seq(Nat \ {0})
          OBVIOUS
        <5>3. QED
          BY <5>1, <5>2, Zenon
      <4>2. workerPc' = "exited" /\ UNCHANGED <<count, current, phase>>
        BY <3>5, Zenon DEF WorkerStops, Queue!Discard
      <4>3. UNCHANGED <<signals, chosenAt, recorder, uses, mainPc, listenerVars>>
        BY <3>5, Zenon DEF WorkerStops
      <4>4. QED
        BY <4>1, <4>2, <4>3
    <3>6. QED
      BY <2>4, <3>1, <3>2, <3>3, <3>4, <3>5 DEF WorkerStep
  <2>5. CASE CaptureEnds
    BY <2>5, SMTT(30) DEF CaptureEnds, Recorder
  <2>6. CASE ListenerDetectsSave
    <3>1. sent' \in [saves : 0..MaxSaves, chooses : 0..MaxChooses,
                     presses : 0..MaxPresses]
      <4> HIDE DEF TypeOK
      <4>1. sent.presses < MaxPresses /\ sent' = [sent EXCEPT !.presses = @ + 1]
        BY <2>6 DEF ListenerDetectsSave
      <4>2. sent \in [saves : 0..MaxSaves, chooses : 0..MaxChooses,
                      presses : 0..MaxPresses]
        BY DEF TypeOK
      <4>3. QED
        BY <4>1, <4>2, DaemonAssumption
    <3>2. listenerPc' = "request"
      BY <2>6, Zenon DEF ListenerDetectsSave
    <3>3. UNCHANGED <<queueVars, saveRequested, chooseRequested, shutdownRequested,
                      unanswered, chosenAt, recorder, uses, mainPc, listenerRunning,
                      workerPc>>
      BY <2>6, Zenon DEF ListenerDetectsSave
    <3>4. QED
      BY <3>1, <3>2, <3>3
  <2>7. CASE ListenerDetectsStop
    <3>1. shutdownRequested' \in BOOLEAN
      BY <2>7, Zenon DEF ListenerDetectsStop
    <3>2. UNCHANGED <<queueVars, saveRequested, chooseRequested, unanswered, sent,
                      chosenAt, recorder, uses, mainPc, listenerVars, workerPc>>
      BY <2>7, Zenon DEF ListenerDetectsStop
    <3>3. QED
      BY <3>1, <3>2
  <2>8. CASE UNCHANGED vars
    BY <2>8 DEF vars
  <2>9. QED
    BY <2>1, <2>2, <2>3, <2>4, <2>5, <2>6, <2>7, <2>8 DEF Next
<1>3. QED
  BY <1>1, <1>2, PTL DEF Spec

\* The strengthening ShutdownOrder rests on: the main thread's place says how far
\* the shutdown has come, and a thread is inside the recorder only at the
\* places where it calls it.
ShutdownProgress ==
  /\ mainPc \in {"boot", "startThreads"} <=> listenerPc = "none"
  /\ mainPc \in {"boot", "startThreads"} <=> workerPc = "none"
  /\ mainPc \in {"stopQueue", "joinWorker", "stopRecorder", "done"}
       => listenerPc = "exited"
  /\ phase # "open"
       => mainPc \in {"stopQueue", "joinWorker", "stopRecorder", "done"}
  /\ mainPc \in {"stopRecorder", "done"} => workerPc = "exited"
  /\ uses.listener # NoUse => listenerPc = "marking"
  /\ uses.worker # NoUse => workerPc \in {"saving", "reporting"}

\* Where the main thread is in its shutdown bounds what the other threads can
\* still be doing.
THEOREM ShutdownProgressHolds == Spec => []ShutdownProgress
<1> USE DEF NoUse
<1>1. Init => ShutdownProgress
  BY DEF Init, ShutdownProgress, Queue!Init
<1>2. TypeOK /\ ShutdownProgress /\ [Next]_vars => ShutdownProgress'
  <2> SUFFICES ASSUME TypeOK, ShutdownProgress, [Next]_vars PROVE ShutdownProgress'
    OBVIOUS
  <2> USE DEF ShutdownProgress, queueVars, signals, listenerVars
  <2>1. CASE SignalStep
    <3>1. CASE SaveSignal
      BY <3>1 DEF SaveSignal
    <3>2. CASE ChooseSignal
      BY <3>2 DEF ChooseSignal
    <3>3. CASE ShutdownSignal
      BY <3>3 DEF ShutdownSignal
    <3>4. QED
      BY <2>1, <3>1, <3>2, <3>3 DEF SignalStep
  <2>2. CASE MainStep
    <3>1. CASE Boot
      BY <3>1 DEF Boot, RecorderStarts, Recorder
    <3>2. CASE StartThreads
      BY <3>2 DEF StartThreads
    <3>3. CASE LoopCondition
      BY <3>3 DEF LoopCondition
    <3>4. CASE CheckSave
      BY <3>4 DEF CheckSave
    <3>5. CASE MainRequests
      BY <3>5 DEF MainRequests
    <3>6. CASE MainIsAccepted
      BY <3>6 DEF MainIsAccepted, Queue!Accept
    <3>7. CASE MainIsRefused
      BY <3>7 DEF MainIsRefused
    <3>8. CASE ChooseWaits
      BY <3>8 DEF ChooseWaits
    <3>9. CASE ChooseBegins
      BY <3>9 DEF ChooseBegins
    <3>10. CASE StopOldRecorder
      BY <3>10 DEF StopOldRecorder, StopRecorder, Recorder
    <3>11. CASE ReplaceRecorder
      BY <3>11 DEF ReplaceRecorder, Recorder
    <3>12. CASE StartNewRecorder
      BY <3>12 DEF StartNewRecorder, RecorderStarts, Recorder
    <3>13. CASE WriteStatus
      BY <3>13 DEF WriteStatus
    <3>14. CASE StatusNotDue
      BY <3>14 DEF StatusNotDue
    <3>15. CASE StopListener
      BY <3>15 DEF StopListener
    <3>16. CASE JoinListener
      BY <3>16 DEF JoinListener
    <3>17. CASE StopQueue
      BY <3>17 DEF StopQueue, Queue!Close
    <3>18. CASE JoinWorker
      BY <3>18 DEF JoinWorker
    <3>19. CASE StopLastRecorder
      BY <3>19 DEF StopLastRecorder, StopRecorder, Recorder
    <3>20. QED
      BY <2>2, <3>1, <3>2, <3>3, <3>4, <3>5, <3>6, <3>7, <3>8, <3>9, <3>10,
         <3>11, <3>12, <3>13, <3>14, <3>15, <3>16, <3>17, <3>18, <3>19 DEF
         MainStep
  <2>3. CASE ListenerReturns
    <3>1. CASE ListenerIsAccepted
      BY <3>1 DEF ListenerIsAccepted, Queue!Accept
    <3>2. CASE ListenerIsRefused
      BY <3>2 DEF ListenerIsRefused
    <3>3. CASE ListenerMarks
      BY <3>3 DEF ListenerMarks
    <3>4. CASE ListenerHasMarked
      BY <3>4 DEF ListenerHasMarked
    <3>5. CASE ListenerExits
      BY <3>5 DEF ListenerExits
    <3>6. QED
      BY <2>3, <3>1, <3>2, <3>3, <3>4, <3>5 DEF ListenerReturns
  <2>4. CASE WorkerStep
    <3>1. CASE WorkerBegins
      BY <3>1 DEF WorkerBegins, Queue!Begin
    <3>2. CASE WorkerEnters
      BY <3>2 DEF WorkerEnters
    <3>3. CASE WorkerLeaves
      BY <3>3 DEF WorkerLeaves
    <3>4. CASE WorkerFinishes
      BY <3>4 DEF WorkerFinishes, Queue!Finish
    <3>5. CASE WorkerStops
      BY <3>5 DEF WorkerStops, Queue!Discard
    <3>6. QED
      BY <2>4, <3>1, <3>2, <3>3, <3>4, <3>5 DEF WorkerStep
  <2>5. CASE CaptureEnds
    BY <2>5 DEF CaptureEnds, Recorder
  <2>6. CASE ListenerDetectsSave
    BY <2>6 DEF ListenerDetectsSave
  <2>7. CASE ListenerDetectsStop
    BY <2>7 DEF ListenerDetectsStop
  <2>8. CASE UNCHANGED vars
    BY <2>8 DEF vars
  <2>9. QED
    BY <2>1, <2>2, <2>3, <2>4, <2>5, <2>6, <2>7, <2>8 DEF Next
<1>3. QED
  BY <1>1, <1>2, TypeCorrect, PTL DEF Spec

\* The queue is closed after the listener thread is gone, and the last recorder
\* is stopped when no thread is or will be inside it.
THEOREM ShutdownOrderHolds == Spec => []ShutdownOrder
<1>1. TypeOK /\ ShutdownProgress => ShutdownOrder
  BY DEF TypeOK, ShutdownProgress, ShutdownOrder, NoUse
<1>2. QED
  BY <1>1, TypeCorrect, ShutdownProgressHolds, PTL

-----------------------------------------------------------------------------
(* The controller inside the daemon                                        *)

\* A step of a thread is a step of the queue or leaves it alone: the threads use the
\* controller only as SaveQueueSpec promises it.
LEMMA QueueStep == [Next]_vars => [Queue!Next]_(Queue!vars)
<1> SUFFICES ASSUME [Next]_vars PROVE [Queue!Next]_(Queue!vars)
  OBVIOUS
<1> USE DEF queueVars, Queue!vars
<1>1. CASE SignalStep
  BY <1>1 DEF SignalStep, SaveSignal, ChooseSignal, ShutdownSignal
<1>2. CASE CaptureEnds
  BY <1>2 DEF CaptureEnds
<1>3. CASE MainStep
  <2>1. CASE MainIsAccepted \/ StopQueue
    BY <2>1 DEF MainIsAccepted, StopQueue, Queue!Next
  <2>2. CASE Boot \/ StartNewRecorder \/ StopOldRecorder \/ StopLastRecorder
    BY <2>2 DEF Boot, StartNewRecorder, RecorderStarts, StopOldRecorder,
       StopLastRecorder, StopRecorder
  <2>3. CASE \/ StartThreads \/ LoopCondition \/ CheckSave \/ MainRequests
             \/ MainIsRefused
    BY <2>3 DEF StartThreads, LoopCondition, CheckSave, MainRequests, MainIsRefused
  <2>4. CASE ChooseWaits \/ ChooseBegins \/ ReplaceRecorder \/ WriteStatus \/ StatusNotDue
    BY <2>4 DEF ChooseWaits, ChooseBegins, ReplaceRecorder, WriteStatus, StatusNotDue
  <2>5. CASE StopListener \/ JoinListener \/ JoinWorker
    BY <2>5 DEF StopListener, JoinListener, JoinWorker
  <2> QED
    BY <1>3, <2>1, <2>2, <2>3, <2>4, <2>5 DEF MainStep
<1>4. CASE ListenerDetectsSave \/ ListenerDetectsStop
  BY <1>4 DEF ListenerDetectsSave, ListenerDetectsStop
<1>5. CASE ListenerReturns
  BY <1>5 DEF ListenerReturns, ListenerIsAccepted, ListenerIsRefused, ListenerMarks,
     ListenerHasMarked, ListenerExits, Queue!Next
<1>6. CASE WorkerStep
  BY <1>6 DEF WorkerStep, WorkerBegins, WorkerEnters, WorkerLeaves, WorkerFinishes,
     WorkerStops, Queue!Next
<1>7. CASE UNCHANGED vars
  BY <1>7 DEF vars
<1> QED
  BY <1>1, <1>2, <1>3, <1>4, <1>5, <1>6, <1>7 DEF Next

\* The daemon implements the abstract queue (SaveRequestController as RunListener
\* uses it): what holds of SaveQueueSpec holds of the daemon's save requests,
\* whatever the signals, the listener and the shutdown do around them.
THEOREM ImplementsSafeQueue == Spec => Queue!SafeSpec
<1>1. Init => Queue!Init
  BY DEF Init
<1> QED
  BY <1>1, QueueStep, PTL DEF Spec, Queue!SafeSpec

\* The queue promises: no more than Capacity requests wait or are served, those
\* that wait are the last accepted, in their order, and all accepted after the one
\* being served.
WithinCapacity == Len(queue) + Queue!InService <= Capacity

WaitInOrder ==
  /\ \A i \in 1..Len(queue) : queue[i] = count - Len(queue) + i
  /\ current <= count - Len(queue)

QueueTypes ==
  /\ count \in Nat /\ queue \in Seq(Nat) /\ current \in Nat

QueueInv == QueueTypes /\ WithinCapacity /\ WaitInOrder

\* A step of the queue keeps its promises.
LEMMA QueueInvStep ==
  ASSUME QueueInv, [Queue!Next]_(Queue!vars)
  PROVE  QueueInv'
<1> USE DaemonAssumption
<1>1. /\ count \in Nat /\ queue \in Seq(Nat) /\ current \in Nat /\ Len(queue) \in Nat
      /\ Queue!InService \in {0, 1}
  BY DEF QueueInv, QueueTypes, Queue!InService
<1>2. CASE Queue!Accept
  <2>1. queue' = Append(queue, count + 1) /\ count' = count + 1 /\ current' = current
    BY <1>2 DEF Queue!Accept
  <2>2. /\ queue' \in Seq(Nat) /\ Len(queue') = Len(queue) + 1
        /\ \A i \in 1..Len(queue) : queue'[i] = queue[i]
        /\ queue'[Len(queue) + 1] = count + 1
    BY <1>1, <2>1, AppendProperties
  <2>3. WithinCapacity'
    BY <1>1, <1>2, <2>1, <2>2 DEF Queue!Accept, WithinCapacity, Queue!InService
  <2>4. ASSUME NEW i \in 1..Len(queue')
        PROVE  queue'[i] = count' - Len(queue') + i
    <3>1. CASE i = Len(queue) + 1
      BY <1>1, <2>1, <2>2, <3>1
    <3>2. CASE i \in 1..Len(queue)
      <4>1. queue[i] = count - Len(queue) + i
        BY <3>2 DEF QueueInv, WaitInOrder
      <4> QED
        BY <1>1, <2>1, <2>2, <3>2, <4>1
    <3> QED
      BY <1>1, <2>2, <3>1, <3>2
  <2>5. current' <= count' - Len(queue')
    BY <1>1, <2>1, <2>2 DEF QueueInv, WaitInOrder
  <2> QED
    BY <1>1, <2>1, <2>2, <2>3, <2>4, <2>5 DEF QueueInv, QueueTypes, WaitInOrder
<1>3. CASE Queue!Begin
  <2>1. /\ queue # <<>> /\ queue' = Tail(queue) /\ current' = Head(queue)
        /\ count' = count /\ current = 0
    BY <1>3 DEF Queue!Begin
  <2>2. /\ queue' \in Seq(Nat) /\ Len(queue') = Len(queue) - 1
        /\ \A i \in 1..Len(queue') : queue'[i] = queue[i + 1]
        /\ current' = queue[1] /\ Len(queue) >= 1
    BY <1>1, <2>1, HeadTailProperties, EmptySeq
  <2>3. current' = count - Len(queue) + 1
    BY <1>1, <2>2 DEF QueueInv, WaitInOrder
  <2>4. WithinCapacity'
    BY <1>1, <2>1, <2>2 DEF QueueInv, WithinCapacity, Queue!InService
  <2>5. ASSUME NEW i \in 1..Len(queue')
        PROVE  queue'[i] = count' - Len(queue') + i
    <3>1. i + 1 \in 1..Len(queue)
      BY <1>1, <2>2
    <3>2. queue[i + 1] = count - Len(queue) + (i + 1)
      BY <3>1 DEF QueueInv, WaitInOrder
    <3> QED
      BY <1>1, <2>1, <2>2, <3>2
  <2> QED
    BY <1>1, <2>1, <2>2, <2>3, <2>4, <2>5 DEF QueueInv, QueueTypes, WaitInOrder
<1>4. CASE Queue!Finish \/ Queue!Discard
  <2>1. count' = count /\ current' \in {0, current} /\ queue' \in {queue, <<>>}
    BY <1>4 DEF Queue!Finish, Queue!Discard
  <2>2. Queue!InService' <= Queue!InService /\ Queue!InService' \in {0, 1}
    BY <2>1 DEF Queue!InService
  <2>3. CASE queue' = queue
    BY <1>1, <2>1, <2>2, <2>3 DEF QueueInv, QueueTypes, WithinCapacity, WaitInOrder
  <2>4. CASE queue' = <<>>
    <3>1. Len(queue') = 0 /\ queue' \in Seq(Nat)
      BY <2>4
    <3>2. current <= count /\ current' <= count
      BY <1>1, <2>1 DEF QueueInv, WaitInOrder
    <3>3. WithinCapacity'
      BY <1>1, <2>2, <3>1 DEF QueueInv, WithinCapacity, Queue!InService
    <3>4. current' <= count' - Len(queue')
      BY <1>1, <2>1, <3>1, <3>2
    <3>5. \A i \in 1..Len(queue') : queue'[i] = count' - Len(queue') + i
      <4>1. 1..Len(queue') = {}
        BY <3>1
      <4> QED
        BY <4>1
    <3>6. QueueTypes'
      BY <1>1, <2>1, <3>1 DEF QueueTypes
    <3> QED
      BY <3>3, <3>4, <3>5, <3>6 DEF QueueInv, WaitInOrder
  <2> QED
    BY <2>1, <2>3, <2>4
<1>5. CASE Queue!Close \/ UNCHANGED Queue!vars
  BY <1>5 DEF Queue!Close, Queue!vars, QueueInv, QueueTypes, WithinCapacity, WaitInOrder,
     Queue!InService
<1> QED
  BY <1>2, <1>3, <1>4, <1>5 DEF Queue!Next

\* The daemon never holds more requests than its queue has room for, and they wait
\* in the order they were accepted, manual and keybind requests alike
\* (SaveRequestController behind SIGUSR1 and the save keybind).
THEOREM RequestsWaitInOrder == Spec => [](WithinCapacity /\ WaitInOrder)
<1>1. Queue!Init => QueueInv
  BY DaemonAssumption DEF Queue!Init, QueueInv, QueueTypes, WithinCapacity, WaitInOrder,
     Queue!InService
<1>2. QueueInv /\ [Queue!Next]_(Queue!vars) => QueueInv'
  BY QueueInvStep
<1>3. QueueInv => WithinCapacity /\ WaitInOrder
  BY DEF QueueInv
<1> QED
  BY <1>1, <1>2, <1>3, ImplementsSafeQueue, PTL DEF Queue!SafeSpec

\* saving_ holds from the moment the worker takes a request until it is done with it.
Serving == {"call", "saving", "report", "reporting", "finish"}

WorkerServes == current # 0 <=> workerPc \in Serving

\* It is kept by what the worker does; no other thread touches the two.
LEMMA WorkerServesStep ==
  ASSUME TypeOK, ShutdownProgress, WorkerServes, [Next]_vars
  PROVE  WorkerServes'
<1> USE DEF queueVars, listenerVars
<1>1. CASE UNCHANGED <<current, workerPc>>
  BY <1>1 DEF WorkerServes
<1>2. CASE StartThreads
  BY <1>2 DEF StartThreads, ShutdownProgress, WorkerServes, Serving
<1>3. CASE WorkerBegins
  <2>1. queue \in Seq(Nat \ {0}) /\ queue # <<>>
    BY <1>3 DEF WorkerBegins, Queue!Begin, TypeOK
  <2>2. Head(queue) # 0
    BY <2>1
  <2> QED
    BY <1>3, <2>2 DEF WorkerBegins, Queue!Begin, WorkerServes, Serving
<1>4. CASE WorkerEnters \/ WorkerLeaves
  BY <1>4 DEF WorkerEnters, WorkerLeaves, WorkerServes, Serving
<1>5. CASE WorkerFinishes
  BY <1>5 DEF WorkerFinishes, Queue!Finish, WorkerServes, Serving
<1>6. CASE WorkerStops
  BY <1>6 DEF WorkerStops, Queue!Discard, WorkerServes, Serving
<1>7. SignalStep \/ CaptureEnds \/ ListenerDetectsSave \/ ListenerDetectsStop
        => UNCHANGED <<current, workerPc>>
  BY DEF SignalStep, SaveSignal, ChooseSignal, ShutdownSignal, CaptureEnds,
     ListenerDetectsSave, ListenerDetectsStop
<1>8. ListenerReturns => UNCHANGED <<current, workerPc>>
  BY DEF ListenerReturns, ListenerIsAccepted, ListenerIsRefused, ListenerMarks,
     ListenerHasMarked, ListenerExits, Queue!Accept
<1>9. MainStep => StartThreads \/ UNCHANGED <<current, workerPc>>
  BY DEF MainStep, Boot, LoopCondition, CheckSave, MainRequests, MainIsAccepted,
     Queue!Accept, MainIsRefused, ChooseWaits, ChooseBegins, StopOldRecorder,
     StopRecorder, ReplaceRecorder, StartNewRecorder, RecorderStarts, WriteStatus,
     StatusNotDue, StopListener, JoinListener, StopQueue, Queue!Close, JoinWorker,
     StopLastRecorder
<1>10. UNCHANGED vars => UNCHANGED <<current, workerPc>>
  BY DEF vars
<1> QED
  BY <1>1, <1>2, <1>3, <1>4, <1>5, <1>6, <1>7, <1>8, <1>9, <1>10 DEF Next, WorkerStep

\* What a reselection meets: no more was accepted than counted when it began, and
\* what waits or is served since then was accepted later.
Reselecting == mainPc \in {"stopOld", "replace", "startNew"}

LaterOnly ==
  /\ chosenAt <= count
  /\ Reselecting => /\ current # 0 => current > chosenAt
                    /\ \A i \in 1..Len(queue) : queue[i] > chosenAt

\* It is kept by every step: a reselection begins with nothing to serve, and from
\* then on requests are added at the end with higher numbers.
LEMMA LaterOnlyStep ==
  ASSUME TypeOK, LaterOnly, [Next]_vars
  PROVE  LaterOnly'
<1> USE DEF queueVars, Reselecting
<1>1. /\ count \in Nat /\ chosenAt \in Nat /\ current \in Nat
      /\ queue \in Seq(Nat \ {0}) /\ Len(queue) \in Nat
  BY DEF TypeOK
<1>2. CASE UNCHANGED <<queueVars, chosenAt>> /\ (Reselecting' => Reselecting)
  BY <1>2 DEF LaterOnly
<1>3. CASE ChooseBegins
  BY <1>1, <1>3 DEF ChooseBegins, Saving, LaterOnly
<1>4. CASE MainIsAccepted
  BY <1>1, <1>4 DEF MainIsAccepted, Queue!Accept, LaterOnly
<1>5. CASE ListenerIsAccepted
  <2>1. /\ count' = count + 1 /\ queue' = Append(queue, count + 1)
        /\ UNCHANGED <<current, chosenAt, mainPc>>
    BY <1>5 DEF ListenerIsAccepted, Queue!Accept
  <2>2. /\ Len(queue') = Len(queue) + 1
        /\ \A i \in 1..Len(queue) : queue'[i] = queue[i]
        /\ queue'[Len(queue) + 1] = count + 1
    BY <1>1, <2>1
  <2>3. ASSUME Reselecting, NEW i \in 1..Len(queue') PROVE queue'[i] > chosenAt
    <3>1. CASE i = Len(queue) + 1
      BY <1>1, <2>2, <3>1 DEF LaterOnly
    <3>2. CASE i \in 1..Len(queue)
      BY <2>2, <2>3, <3>2 DEF LaterOnly
    <3> QED
      BY <1>1, <2>2, <2>3, <3>1, <3>2
  <2> QED
    BY <1>1, <2>1, <2>3 DEF LaterOnly
<1>6. CASE WorkerBegins
  <2>1. /\ queue # <<>> /\ current' = Head(queue) /\ queue' = Tail(queue)
        /\ UNCHANGED <<count, chosenAt, mainPc>>
    BY <1>6 DEF WorkerBegins, Queue!Begin
  <2>2. Len(queue) > 0 /\ current' = queue[1]
    BY <1>1, <2>1
  <2>3. /\ Len(queue') = Len(queue) - 1
        /\ \A i \in 1..Len(queue') : queue'[i] = queue[i + 1]
    BY <1>1, <2>1, <2>2
  <2>4. Reselecting => current' > chosenAt
    BY <1>1, <2>2 DEF LaterOnly
  <2>5. ASSUME Reselecting, NEW i \in 1..Len(queue') PROVE queue'[i] > chosenAt
    <3>1. i + 1 \in 1..Len(queue)
      BY <1>1, <2>2, <2>3
    <3> QED
      BY <2>3, <2>5, <3>1 DEF LaterOnly
  <2> QED
    BY <2>1, <2>4, <2>5 DEF LaterOnly
<1>7. CASE WorkerFinishes \/ WorkerStops
  <2>1. /\ current' \in {0, current} /\ queue' \in {queue, <<>>}
        /\ UNCHANGED <<count, chosenAt, mainPc>>
    BY <1>7 DEF WorkerFinishes, Queue!Finish, WorkerStops, Queue!Discard
  <2> QED
    BY <1>1, <2>1 DEF LaterOnly
<1>8. CASE StopQueue
  BY <1>8 DEF StopQueue, Queue!Close, LaterOnly
<1>9. SignalStep \/ CaptureEnds \/ ListenerDetectsSave \/ ListenerDetectsStop
        => UNCHANGED <<queueVars, chosenAt, mainPc>>
  BY DEF SignalStep, SaveSignal, ChooseSignal, ShutdownSignal, CaptureEnds,
     ListenerDetectsSave, ListenerDetectsStop
<1>10. ListenerReturns
         => ListenerIsAccepted \/ UNCHANGED <<queueVars, chosenAt, mainPc>>
  BY DEF ListenerReturns, ListenerIsRefused, ListenerMarks, ListenerHasMarked,
     ListenerExits
<1>11. WorkerEnters \/ WorkerLeaves => UNCHANGED <<queueVars, chosenAt, mainPc>>
  BY DEF WorkerEnters, WorkerLeaves
<1>12. MainStep => \/ ChooseBegins \/ MainIsAccepted \/ StopQueue
                   \/ UNCHANGED <<queueVars, chosenAt>> /\ (Reselecting' => Reselecting)
  BY DEF MainStep, Boot, StartThreads, LoopCondition, CheckSave, MainRequests,
     MainIsRefused, ChooseWaits, StopOldRecorder, StopRecorder, ReplaceRecorder,
     StartNewRecorder, RecorderStarts, WriteStatus, StatusNotDue, StopListener,
     JoinListener, JoinWorker, StopLastRecorder
<1>13. UNCHANGED vars => UNCHANGED <<queueVars, chosenAt, mainPc>>
  BY DEF vars
<1> QED
  BY <1>2, <1>3, <1>4, <1>5, <1>6, <1>7, <1>8, <1>9, <1>10, <1>11, <1>12, <1>13 DEF Next,
     WorkerStep

\* EarlierSavesAreServed (RunListener's test of Status().saving): however the listener
\* thread and the worker run meanwhile, the recorder is stopped and replaced when
\* every request accepted before has been served; what the worker may be inside the
\* recorder for, and what waits, the listener thread has asked for since.
THEOREM EarlierSavesAreServedHolds == Spec => []EarlierSavesAreServed
<1>1. Init => WorkerServes /\ LaterOnly
  BY DEF Init, Queue!Init, WorkerServes, Serving, LaterOnly, Reselecting
<1>2. /\ TypeOK /\ ShutdownProgress /\ WorkerServes /\ LaterOnly /\ [Next]_vars
      => WorkerServes' /\ LaterOnly'
  BY WorkerServesStep, LaterOnlyStep
<1>3. TypeOK /\ ShutdownProgress /\ WorkerServes /\ LaterOnly => EarlierSavesAreServed
  BY DEF TypeOK, ShutdownProgress, WorkerServes, Serving, LaterOnly, Reselecting,
     EarlierSavesAreServed
<1> QED
  BY <1>1, <1>2, <1>3, TypeCorrect, ShutdownProgressHolds, PTL DEF Spec
=============================================================================
