-------------------------- MODULE SaveQueueProofs --------------------------
(***************************************************************************)
(* Proofs about SaveQueue, for any set of callers, capacity, debounce and  *)
(* bounds.                                                                 *)
(***************************************************************************)
EXTENDS SaveQueue, SequenceTheorems, TLAPS

USE DEF Keybind, Manual, Sources, Never, NoRequest, NoCall

\* The elements of a sequence of naturals are naturals, and the empty
\* sequence has none.
LEMMA IdsOfNat == ASSUME NEW seq \in Seq(Nat) PROVE Ids(seq) \in SUBSET Nat
BY DEF Ids

\* The controller's variables keep their types: Init establishes TypeOK and
\* every critical section and every step between two of them preserves it.
THEOREM TypeCorrect == Spec => []TypeOK
<1> USE SaveQueueAssumption
<1>1. Init => TypeOK
  <2> SUFFICES ASSUME Init PROVE TypeOK
    OBVIOUS
  <2>1. NoCall \in [source : Sources, at : 0..MaxTime, id : Nat]
    OBVIOUS
  <2>2. call \in [Callers -> [source : Sources, at : 0..MaxTime, id : Nat]]
    <3> HIDE DEF NoCall, Sources
    <3> QED  BY <2>1 DEF Init
  <2>3. requests \in Seq(Nat) /\ served \in Seq(Nat)
        /\ accepted \in Seq([source : Sources, at : 0..MaxTime])
    BY DEF Init
  <2>4. callerPc \in [Callers -> {"idle", "lock", "accept", "notify"}]
    BY DEF Init
  <2>5. /\ now \in 0..MaxTime
        /\ calls \in 0..MaxCalls
        /\ nextId \in Nat \ {0}
        /\ lastKeybind \in {Never} \cup (0..MaxTime)
        /\ request \in Nat
        /\ dropped \in SUBSET Nat
    BY DEF Init
  <2> HIDE DEF Sources, NoCall, Never
  <2>6. QED
    BY <2>2, <2>3, <2>4, <2>5 DEF Init, TypeOK
<1>2. TypeOK /\ [Next]_vars => TypeOK'
  <2> SUFFICES ASSUME TypeOK, [Next]_vars PROVE TypeOK'
    OBVIOUS
  <2> USE DEF TypeOK, callVars, queueVars, workerVars, history
  <2>1. CASE Tick
    BY <2>1 DEF Tick
  <2>2. ASSUME NEW c \in Callers, NEW source \in Sources,
               BeginRequestSave(c, source)
        PROVE  TypeOK'
    BY <2>2 DEF BeginRequestSave
  <2>3. ASSUME NEW c \in Callers, CallerStep(c)
        PROVE  TypeOK'
    <3>1. CASE RefuseStopped(c)
      BY <3>1 DEF RefuseStopped, Refuse
    <3>2. CASE RefuseDebounced(c)
      BY <3>2 DEF RefuseDebounced, Refuse
    <3>3. CASE RefuseFull(c)
      BY <3>3 DEF RefuseFull, Refuse
    <3>4. CASE AcceptRequest(c)
      <4>1. [source |-> call[c].source, at |-> call[c].at]
              \in [source : Sources, at : 0..MaxTime]
        OBVIOUS
      <4>2. accepted' \in Seq([source : Sources, at : 0..MaxTime])
        <5> HIDE DEF Sources
        <5> QED  BY <3>4, <4>1 DEF AcceptRequest
      <4>3. call' \in [Callers -> [source : Sources, at : 0..MaxTime, id : Nat]]
        BY <3>4 DEF AcceptRequest
      <4>4. requests' \in Seq(Nat)
        BY <3>4 DEF AcceptRequest, Enqueue
      <4>5. nextId' \in Nat \ {0}
        BY <3>4 DEF AcceptRequest
      <4>6. lastKeybind' \in {Never} \cup (0..MaxTime)
        <5>1. call[c].at \in 0..MaxTime
          OBVIOUS
        <5>2. lastKeybind' = call[c].at \/ lastKeybind' = lastKeybind
          BY <3>4 DEF AcceptRequest, NoteKeybind
        <5>3. QED
          BY <5>1, <5>2
      <4>7. callerPc' \in [Callers -> {"idle", "lock", "accept", "notify"}]
        BY <3>4 DEF AcceptRequest
      <4> HIDE DEF Sources, Never
      <4>8. QED
        BY <3>4, <4>2, <4>3, <4>4, <4>5, <4>6, <4>7 DEF AcceptRequest
    <3>5. CASE RunAcceptCallback(c)
      BY <3>5 DEF RunAcceptCallback
    <3>6. CASE NotifyOne(c)
      BY <3>6 DEF NotifyOne, WakeWorker
    <3>7. QED
      BY <2>3, <3>1, <3>2, <3>3, <3>4, <3>5, <3>6 DEF CallerStep
  <2>4. CASE WorkerStep
    <3>1. CASE WorkerChecksLoop
      BY <3>1 DEF WorkerChecksLoop
    <3>2. CASE WorkerSleeps
      BY <3>2 DEF WorkerSleeps
    <3>3. CASE WorkerStopsInWait
      <4>1. dropped' \in SUBSET Nat
        BY <3>3, IdsOfNat DEF WorkerStopsInWait, ClearQueue
      <4>2. requests' \in Seq(Nat)
        BY <3>3 DEF WorkerStopsInWait, ClearQueue
      <4>3. QED
        BY <3>3, <4>1, <4>2 DEF WorkerStopsInWait
    <3>4. CASE WorkerTakes
      BY <3>4 DEF WorkerTakes
    <3>5. CASE SaveCallbackReturns
      BY <3>5 DEF SaveCallbackReturns
    <3>6. CASE WorkerFinishes
      BY <3>6 DEF WorkerFinishes
    <3>7. CASE WorkerStopsAfterSave
      <4>1. dropped' \in SUBSET Nat
        BY <3>7, IdsOfNat DEF WorkerStopsAfterSave, ClearQueue
      <4>2. requests' \in Seq(Nat)
        BY <3>7 DEF WorkerStopsAfterSave, ClearQueue
      <4>3. QED
        BY <3>7, <4>1, <4>2 DEF WorkerStopsAfterSave
    <3>8. QED
      BY <2>4, <3>1, <3>2, <3>3, <3>4, <3>5, <3>6, <3>7 DEF WorkerStep
  <2>5. CASE SpuriousWakeup
    BY <2>5 DEF SpuriousWakeup
  <2>6. CASE BeginStop
    BY <2>6 DEF BeginStop
  <2>7. CASE StopStep
    BY <2>7 DEF StopStep, RequestStop, NotifyAll, JoinWorker, WakeWorker
  <2>8. CASE UNCHANGED vars
    BY <2>8 DEF vars
  <2> HIDE DEF TypeOK, Sources
  <2>9. QED
    BY <2>1, <2>2, <2>3, <2>4, <2>5, <2>6, <2>7, <2>8 DEF Next
<1>3. QED
  BY <1>1, <1>2, PTL DEF Spec

-----------------------------------------------------------------------------
\* The queue holds exactly the ids that follow those served.
LEMMA QueueIds ==
  ASSUME TypeOK, QueueConsistent
  PROVE  Ids(requests) = (Len(served) + 1)..(Len(served) + Len(requests))
<1>1. DOMAIN requests = 1..Len(requests) /\ Len(requests) \in Nat
  BY DEF TypeOK
<1>2. Len(served) \in Nat
  BY DEF TypeOK
<1>3. ASSUME NEW id \in (Len(served) + 1)..(Len(served) + Len(requests))
      PROVE  id \in Ids(requests)
  <2>1. id - Len(served) \in 1..Len(requests)
    BY <1>1, <1>2
  <2>2. requests[id - Len(served)] = id
    BY <2>1, <1>1, <1>2 DEF QueueConsistent
  <2>3. QED
    BY <2>1, <2>2, <1>1 DEF Ids
<1>4. ASSUME NEW id \in Ids(requests)
      PROVE  id \in (Len(served) + 1)..(Len(served) + Len(requests))
  <2>1. PICK i \in 1..Len(requests) : id = requests[i]
    BY <1>1 DEF Ids
  <2>2. QED
    BY <2>1, <1>1, <1>2 DEF QueueConsistent
<1>5. QED
  BY <1>3, <1>4

\* Likewise for the ids served.
LEMMA ServedIds ==
  ASSUME TypeOK, QueueConsistent
  PROVE  Ids(served) = 1..Len(served)
<1>1. DOMAIN served = 1..Len(served)
  BY DEF TypeOK
<1>2. QED
  BY <1>1 DEF QueueConsistent, Ids

\* Dropping the whole queue keeps it consistent when the worker is leaving.
LEMMA ClearConsistent ==
  ASSUME TypeOK, QueueConsistent, ClearQueue, workerPc' = "exited",
         UNCHANGED <<served, nextId>>, saving' \in BOOLEAN,
         saving' => saving
  PROVE  QueueConsistent'
<1>1. dropped' = (Len(served) + 1)..(nextId - 1)
  <2>1. dropped' = dropped \cup Ids(requests)
    BY DEF ClearQueue
  <2>2. Len(served) \in Nat /\ Len(requests) \in Nat /\ nextId \in Nat
    BY DEF TypeOK
  <2>3. CASE requests = <<>>
    <3>1. Ids(requests) = {}
      BY <2>3 DEF Ids
    <3>2. Len(requests) = 0
      BY <2>3
    <3>3. QED
      BY <2>1, <2>2, <3>1, <3>2 DEF QueueConsistent
  <2>4. CASE requests # <<>>
    <3>1. dropped = {} /\ dropped = (Len(served) + Len(requests) + 1)..(nextId - 1)
      BY <2>4 DEF QueueConsistent
    <3>2. Len(served) + Len(requests) <= nextId - 1
      BY DEF QueueConsistent
    <3>3. nextId - 1 = Len(served) + Len(requests)
      <4>1. CASE Len(served) + Len(requests) < nextId - 1
        <5>1. nextId - 1 \in (Len(served) + Len(requests) + 1)..(nextId - 1)
          BY <4>1, <2>2
        <5>2. QED
          BY <5>1, <3>1
      <4>2. QED
        BY <4>1, <3>2, <2>2
    <3>4. QED
      BY <2>1, <3>1, <3>3, QueueIds
  <2>5. QED
    BY <2>3, <2>4
<1>2. requests' = <<>> /\ Len(requests') = 0
  BY DEF ClearQueue
<1>3. Len(served) \in Nat /\ Len(requests) \in Nat /\ nextId \in Nat
  BY DEF TypeOK
<1>4. Outstanding' <= Outstanding
  BY <1>2, <1>3 DEF Outstanding, TypeOK
<1>5. Outstanding' <= Capacity
  BY <1>2, <1>3, <1>4, SaveQueueAssumption DEF Outstanding, QueueConsistent, TypeOK
<1>6. QED
  BY <1>1, <1>2, <1>3, <1>5 DEF QueueConsistent

\* The strengthening is inductive: see WorkerConsistent, QueueConsistent and
\* KeybindConsistent in SaveQueue.
THEOREM Inductive == Spec => []IInv
<1>1. Init => IInv
  BY SaveQueueAssumption
  DEF Init, IInv, WorkerConsistent, QueueConsistent, KeybindConsistent,
      Outstanding
<1>2. TypeOK /\ TypeOK' /\ IInv /\ [Next]_vars => IInv'
  <2> SUFFICES ASSUME TypeOK, TypeOK', IInv, [Next]_vars PROVE IInv'
    OBVIOUS
  <2>0. WorkerConsistent /\ QueueConsistent /\ KeybindConsistent
    BY DEF IInv
  <2>1. WorkerConsistent'
    <3> USE DEF callVars, queueVars, workerVars, history, WorkerConsistent
    <3>1. CASE Tick
      BY <2>0, <3>1 DEF Tick
    <3>2. ASSUME NEW c \in Callers, NEW source \in Sources,
                 BeginRequestSave(c, source)
          PROVE  WorkerConsistent'
      BY <2>0, <3>2 DEF BeginRequestSave
    <3>3. ASSUME NEW c \in Callers, CallerStep(c)
          PROVE  WorkerConsistent'
      BY <2>0, <3>3 DEF CallerStep, RefuseStopped, RefuseDebounced, RefuseFull,
                        Refuse, AcceptRequest, Enqueue, RunAcceptCallback,
                        NotifyOne, WakeWorker
    <3>4. CASE WorkerStep
      <4>1. CASE WorkerTakes
        <5>1. Head(requests) # 0
          <6>1. Len(requests) \in Nat \ {0} /\ Len(served) \in Nat
                /\ Head(requests) = requests[1]
            BY <4>1 DEF WorkerTakes, TypeOK
          <6>2. requests[1] = Len(served) + 1
            BY <2>0, <6>1 DEF QueueConsistent
          <6>3. QED
            BY <6>1, <6>2
        <5>2. QED
          BY <2>0, <4>1, <5>1 DEF WorkerTakes
      <4>2. CASE ~WorkerTakes
        BY <2>0, <3>4, <4>2
        DEF WorkerStep, WorkerChecksLoop, WorkerSleeps, WorkerStopsInWait,
            SaveCallbackReturns, WorkerFinishes, WorkerStopsAfterSave, TypeOK
      <4>3. QED
        BY <4>1, <4>2
    <3>5. CASE SpuriousWakeup
      BY <2>0, <3>5 DEF SpuriousWakeup
    <3>6. CASE BeginStop
      BY <2>0, <3>6 DEF BeginStop
    <3>7. CASE StopStep
      BY <2>0, <3>7 DEF StopStep, RequestStop, NotifyAll, JoinWorker, WakeWorker
    <3>8. CASE UNCHANGED vars
      BY <2>0, <3>8 DEF vars
    <3>9. QED
      BY <3>1, <3>2, <3>3, <3>4, <3>5, <3>6, <3>7, <3>8 DEF Next
  <2>2. QueueConsistent'
    <3> USE DEF callVars, workerVars, history
    <3>1. ASSUME UNCHANGED <<requests, saving, nextId, served, dropped>>,
                 workerPc = "exited" => workerPc' = "exited"
          PROVE  QueueConsistent'
      BY <2>0, <3>1 DEF QueueConsistent, Outstanding
    <3>2. CASE Tick \/ SpuriousWakeup \/ BeginStop \/ StopStep
      BY <3>1, <3>2 DEF Tick, SpuriousWakeup, BeginStop, StopStep, RequestStop,
                        NotifyAll, JoinWorker, WakeWorker, queueVars
    <3>3. ASSUME NEW c \in Callers, NEW source \in Sources,
                 BeginRequestSave(c, source)
          PROVE  QueueConsistent'
      BY <3>1, <3>3 DEF BeginRequestSave, queueVars
    <3>4. ASSUME NEW c \in Callers, CallerStep(c)
          PROVE  QueueConsistent'
      <4>1. CASE AcceptRequest(c)
        <5>1. dropped = {} /\ ~stopped
          BY <2>0, <4>1 DEF AcceptRequest, QueueConsistent, WorkerConsistent
        <5>2. Len(requests) \in Nat /\ Len(served) \in Nat /\ nextId \in Nat
          BY DEF TypeOK
        <5>3. nextId - 1 = Len(served) + Len(requests)
          <6>1. CASE Len(served) + Len(requests) < nextId - 1
            <7>1. nextId - 1 \in dropped
              BY <6>1, <5>2, <2>0 DEF QueueConsistent
            <7>2. QED
              BY <7>1, <5>1
          <6>2. QED
            BY <6>1, <5>2, <2>0 DEF QueueConsistent
        <5>4. requests' = Append(requests, nextId) /\ nextId' = nextId + 1
              /\ UNCHANGED <<served, dropped, saving>>
          BY <4>1 DEF AcceptRequest, Enqueue
        <5>5. Len(requests') = Len(requests) + 1
              /\ requests'[Len(requests) + 1] = nextId
              /\ \A i \in 1..Len(requests) : requests'[i] = requests[i]
          BY <5>4, <5>2 DEF TypeOK
        <5>6. \A i \in 1..Len(requests') : requests'[i] = Len(served') + i
          <6>1. \A i \in 1..Len(requests) : requests'[i] = Len(served) + i
            BY <5>5, <2>0 DEF QueueConsistent
          <6>2. requests'[Len(requests) + 1] = Len(served) + Len(requests) + 1
            BY <5>2, <5>3, <5>5
          <6>3. ASSUME NEW i \in 1..Len(requests')
                PROVE  requests'[i] = Len(served) + i
            <7>1. i \in 1..Len(requests) \/ i = Len(requests) + 1
              BY <5>2, <5>5
            <7>2. QED
              BY <5>2, <6>1, <6>2, <7>1
          <6>4. Len(served') = Len(served)
            BY <5>4
          <6>5. QED
            BY <6>3, <6>4
        <5>7. Outstanding' <= Capacity
          BY <4>1, <5>2, <5>4, <5>5, SaveQueueAssumption
          DEF AcceptRequest, QueueFull, Outstanding
        <5>8. dropped' = (Len(served') + Len(requests') + 1)..(nextId' - 1)
          BY <5>1, <5>2, <5>3, <5>4, <5>5
        <5>9. QED
          BY <5>1, <5>2, <5>3, <5>4, <5>5, <5>6, <5>7, <5>8, <2>0
          DEF QueueConsistent
      <4>2. CASE ~AcceptRequest(c)
        BY <3>1, <3>4, <4>2
        DEF CallerStep, RefuseStopped, RefuseDebounced, RefuseFull, Refuse,
            RunAcceptCallback, NotifyOne, WakeWorker, queueVars
      <4>3. QED
        BY <4>1, <4>2
    <3>5. CASE WorkerStep
      <4>1. CASE WorkerTakes
        <5>1. dropped = {} /\ saving = FALSE
          BY <2>0, <4>1 DEF WorkerTakes, QueueConsistent, WorkerConsistent, TypeOK
        <5>2. Len(requests) \in Nat \ {0} /\ Len(served) \in Nat
              /\ nextId \in Nat
          BY <4>1 DEF WorkerTakes, TypeOK
        <5>3. Len(requests') = Len(requests) - 1
              /\ \A i \in 1..Len(requests') : requests'[i] = requests[i + 1]
          BY <4>1, <5>2 DEF WorkerTakes, TypeOK
        <5>4. Len(served') = Len(served) + 1
              /\ served'[Len(served) + 1] = requests[1]
              /\ \A i \in 1..Len(served) : served'[i] = served[i]
          BY <4>1, <5>2 DEF WorkerTakes, TypeOK
        <5>5. \A i \in 1..Len(served') : served'[i] = i
          BY <5>2, <5>4, <2>0 DEF QueueConsistent
        <5>6. \A i \in 1..Len(requests') : requests'[i] = Len(served') + i
          BY <5>2, <5>3, <5>4, <2>0 DEF QueueConsistent
        <5>7. Outstanding' = Outstanding
          BY <4>1, <5>1, <5>2, <5>3 DEF Outstanding, WorkerTakes
        <5>8. UNCHANGED <<nextId, dropped>>
          BY <4>1 DEF WorkerTakes
        <5>9. Len(served') + Len(requests') = Len(served) + Len(requests)
          BY <5>2, <5>3, <5>4
        <5>10. QED
          BY <5>1, <5>2, <5>5, <5>6, <5>7, <5>8, <5>9, <2>0 DEF QueueConsistent
      <4>2. CASE WorkerStopsInWait
        BY <2>0, <4>2, ClearConsistent DEF WorkerStopsInWait, TypeOK
      <4>3. CASE WorkerStopsAfterSave
        BY <2>0, <4>3, ClearConsistent DEF WorkerStopsAfterSave
      <4>4. CASE WorkerFinishes
        <5>1. Outstanding' <= Outstanding
          BY <4>4 DEF WorkerFinishes, Outstanding, TypeOK
        <5>2. Outstanding' \in Int /\ Outstanding \in Int
          BY DEF Outstanding, TypeOK
        <5>3. Outstanding' <= Capacity
          BY <2>0, <5>1, <5>2, SaveQueueAssumption DEF QueueConsistent
        <5>4. QED
          BY <2>0, <4>4, <5>3 DEF WorkerFinishes, QueueConsistent
      <4>5. CASE WorkerChecksLoop \/ WorkerSleeps \/ SaveCallbackReturns
        BY <3>1, <4>5 DEF WorkerChecksLoop, WorkerSleeps, SaveCallbackReturns,
                          queueVars
      <4>6. QED
        BY <3>5, <4>1, <4>2, <4>3, <4>4, <4>5 DEF WorkerStep
    <3>6. CASE UNCHANGED vars
      BY <3>1, <3>6 DEF vars, queueVars
    <3>7. QED
      BY <3>2, <3>3, <3>4, <3>5, <3>6 DEF Next
  <2>3. KeybindConsistent'
    <3>1. ASSUME UNCHANGED <<accepted, lastKeybind>>
          PROVE  KeybindConsistent'
      BY <2>0, <3>1 DEF KeybindConsistent
    <3>2. ASSUME NEW c \in Callers, AcceptRequest(c)
          PROVE  KeybindConsistent'
      <4>1. call[c].at \in Nat /\ Len(accepted) \in Nat
        BY SaveQueueAssumption DEF TypeOK
      <4>2. Len(accepted') = Len(accepted) + 1
            /\ accepted'[Len(accepted) + 1]
                 = [source |-> call[c].source, at |-> call[c].at]
            /\ \A i \in 1..Len(accepted) : accepted'[i] = accepted[i]
        BY <3>2, <4>1 DEF AcceptRequest, TypeOK
      <4>3. lastKeybind' = IF call[c].source = Keybind THEN call[c].at
                           ELSE lastKeybind
        BY <3>2 DEF AcceptRequest, NoteKeybind
      <4>4. call[c].source = Keybind =>
              lastKeybind = Never \/ lastKeybind <= call[c].at
        <5>1. call[c].source = Keybind => KeybindDebouncePassed(call[c].at)
          BY <3>2 DEF AcceptRequest, Debounced
        <5>2. lastKeybind \in Int /\ Debounce \in Nat
          BY SaveQueueAssumption DEF TypeOK
        <5>3. QED
          BY <4>1, <5>1, <5>2 DEF KeybindDebouncePassed
      <4>5. lastKeybind \in Int /\ lastKeybind' \in Int
        BY DEF TypeOK
      <4>6. ASSUME NEW i \in 1..Len(accepted'), accepted'[i].source = Keybind
            PROVE  lastKeybind' # Never /\ accepted'[i].at <= lastKeybind'
        <5>1. CASE i = Len(accepted) + 1
          BY <5>1, <4>1, <4>2, <4>3, <4>6
        <5>2. CASE i \in 1..Len(accepted)
          <6>1. lastKeybind # Never /\ accepted[i].at <= lastKeybind
            BY <5>2, <4>2, <4>6, <2>0 DEF KeybindConsistent
          <6>2. accepted[i].at \in Int
            <7>1. accepted[i] \in [source : Sources, at : 0..MaxTime]
              BY <5>2, ElementOfSeq DEF TypeOK
            <7>2. QED
              BY <7>1
          <6>3. QED
            BY <6>1, <6>2, <5>2, <4>1, <4>2, <4>3, <4>4, <4>5
        <5>3. QED
          BY <5>1, <5>2, <4>1, <4>2
      <4>7. ASSUME lastKeybind' # Never
            PROVE  \E i \in 1..Len(accepted') :
                     accepted'[i].source = Keybind /\ accepted'[i].at = lastKeybind'
        <5>1. CASE call[c].source = Keybind
          BY <5>1, <4>1, <4>2, <4>3
        <5>2. CASE call[c].source # Keybind
          <6>1. PICK i \in 1..Len(accepted) :
                  accepted[i].source = Keybind /\ accepted[i].at = lastKeybind
            BY <5>2, <4>3, <4>7, <2>0 DEF KeybindConsistent
          <6>2. i \in 1..Len(accepted') /\ accepted'[i] = accepted[i]
            BY <4>1, <4>2
          <6>3. QED
            BY <5>2, <6>1, <6>2, <4>3
        <5>3. QED
          BY <5>1, <5>2
      <4>8. QED
        BY <4>6, <4>7 DEF KeybindConsistent
    <3>3. CASE ~(\E c \in Callers : AcceptRequest(c))
      BY <3>1, <3>3
      DEF Next, Tick, BeginRequestSave, CallerStep, RefuseStopped,
          RefuseDebounced, RefuseFull, Refuse, RunAcceptCallback, NotifyOne,
          WorkerStep, WorkerChecksLoop, WorkerSleeps, WorkerStopsInWait,
          ClearQueue, WorkerTakes, SaveCallbackReturns, WorkerFinishes,
          WorkerStopsAfterSave, SpuriousWakeup, BeginStop, StopStep,
          RequestStop, NotifyAll, JoinWorker, vars, queueVars, history
    <3>4. QED
      BY <3>2, <3>3
  <2>4. QED
    BY <2>1, <2>2, <2>3 DEF IInv
<1>3. QED
  BY <1>1, <1>2, TypeCorrect, PTL DEF Spec

-----------------------------------------------------------------------------
\* The requests waiting and in progress never exceed queue_capacity.
THEOREM CapacityHolds == Spec => []WithinCapacity
<1>1. IInv => WithinCapacity
  BY DEF IInv, QueueConsistent, WithinCapacity
<1>2. QED
  BY <1>1, Inductive, PTL

\* Saves begin in the order RequestSave accepted them, none skipped.
THEOREM ServedInOrderHolds == Spec => []ServedInOrder
<1>1. TypeOK /\ IInv => ServedInOrder
  BY DEF IInv, QueueConsistent, ServedInOrder, TypeOK
<1>2. QED
  BY <1>1, TypeCorrect, Inductive, PTL

\* No accepted request is lost, saved twice, or dropped without a stop.
THEOREM NoRequestLostHolds == Spec => []NoRequestLost
<1>1. TypeOK /\ IInv => NoRequestLost
  <2> SUFFICES ASSUME TypeOK, IInv PROVE NoRequestLost
    OBVIOUS
  <2>1. QueueConsistent /\ WorkerConsistent
    BY DEF IInv
  <2>2. Len(served) \in Nat /\ Len(requests) \in Nat /\ nextId \in Nat
    BY DEF TypeOK
  <2>3. Ids(requests) = (Len(served) + 1)..(Len(served) + Len(requests))
    BY <2>1, QueueIds
  <2>4. Ids(served) = 1..Len(served)
    BY <2>1, ServedIds
  <2>5. /\ dropped = (Len(served) + Len(requests) + 1)..(nextId - 1)
        /\ Len(served) + Len(requests) <= nextId - 1
        /\ dropped # {} => stopped
    BY <2>1 DEF QueueConsistent, WorkerConsistent
  <2>6. Ids(requests) \cup Ids(served) \cup dropped = 1..(nextId - 1)
    BY <2>2, <2>3, <2>4, <2>5
  <2>7. Ids(requests) \cap Ids(served) = {}
    BY <2>2, <2>3, <2>4
  <2>8. dropped \cap (Ids(requests) \cup Ids(served)) = {}
    BY <2>2, <2>3, <2>4, <2>5
  <2>9. QED
    BY <2>5, <2>6, <2>7, <2>8 DEF NoRequestLost
<1>2. QED
  BY <1>1, TypeCorrect, Inductive, PTL

\* A press is debounced only against an accepted press: last_keybind_request_at_
\* is the time of one.
THEOREM DebouncedByAcceptedHolds == Spec => DebouncedByAccepted
<1>1. TypeOK /\ IInv /\ [Next]_vars =>
        [\A c \in Callers : RefuseDebounced(c) =>
           \E i \in DOMAIN accepted :
             /\ accepted[i].source = Keybind
             /\ call[c].at - accepted[i].at < Debounce]_vars
  <2> SUFFICES ASSUME TypeOK, IInv, NEW c \in Callers, RefuseDebounced(c)
               PROVE  \E i \in DOMAIN accepted :
                        /\ accepted[i].source = Keybind
                        /\ call[c].at - accepted[i].at < Debounce
    OBVIOUS
  <2>1. lastKeybind # Never /\ ~(call[c].at - lastKeybind >= Debounce)
    BY DEF RefuseDebounced, Debounced, KeybindDebouncePassed
  <2>2. PICK i \in 1..Len(accepted) :
          accepted[i].source = Keybind /\ accepted[i].at = lastKeybind
    BY <2>1 DEF IInv, KeybindConsistent
  <2>3. lastKeybind \in Int /\ call[c].at \in Int /\ Debounce \in Int
    BY SaveQueueAssumption DEF TypeOK
  <2>4. call[c].at - lastKeybind < Debounce
    BY <2>1, <2>3
  <2>5. DOMAIN accepted = 1..Len(accepted)
    BY DEF TypeOK
  <2>6. QED
    BY <2>2, <2>4, <2>5
<1>2. QED
  BY <1>1, TypeCorrect, Inductive, PTL DEF Spec, DebouncedByAccepted

\* Accepted keybind requests are a debounce apart: a new one is compared with
\* the latest, and no earlier one is later than that.
THEOREM KeybindsSpacedHolds == Spec => []KeybindsSpaced
<1>1. Init => KeybindsSpaced
  BY DEF Init, KeybindsSpaced
<1>2. TypeOK /\ IInv /\ KeybindsSpaced /\ [Next]_vars => KeybindsSpaced'
  <2> SUFFICES ASSUME TypeOK, IInv, KeybindsSpaced, [Next]_vars
               PROVE  KeybindsSpaced'
    OBVIOUS
  <2>1. CASE UNCHANGED accepted
    BY <2>1 DEF KeybindsSpaced
  <2>2. ASSUME NEW c \in Callers, AcceptRequest(c)
        PROVE  KeybindsSpaced'
    <3>1. Len(accepted) \in Nat /\ DOMAIN accepted = 1..Len(accepted)
      BY DEF TypeOK
    <3>2. /\ DOMAIN accepted' = 1..(Len(accepted) + 1)
          /\ accepted'[Len(accepted) + 1]
               = [source |-> call[c].source, at |-> call[c].at]
          /\ \A i \in 1..Len(accepted) : accepted'[i] = accepted[i]
      BY <2>2, <3>1 DEF AcceptRequest, TypeOK
    <3>3. /\ lastKeybind \in Int
          /\ call[c].at \in Int
          /\ Debounce \in Nat
      BY SaveQueueAssumption DEF TypeOK
    <3>4. ASSUME NEW i \in 1..Len(accepted), accepted[i].source = Keybind,
                 call[c].source = Keybind
          PROVE  call[c].at - accepted[i].at >= Debounce
      <4>1. lastKeybind # Never /\ accepted[i].at <= lastKeybind
        BY <3>4 DEF IInv, KeybindConsistent
      <4>2. call[c].at - lastKeybind >= Debounce
        BY <2>2, <3>4, <4>1 DEF AcceptRequest, Debounced, KeybindDebouncePassed
      <4>3. accepted[i].at \in Int
        <5>1. accepted[i] \in [source : Sources, at : 0..MaxTime]
          BY ElementOfSeq DEF TypeOK
        <5>2. QED
          BY <5>1
      <4>4. QED
        BY <3>3, <4>1, <4>2, <4>3
    <3>5. ASSUME NEW i \in DOMAIN accepted', NEW j \in DOMAIN accepted', i < j,
                 accepted'[i].source = Keybind, accepted'[j].source = Keybind
          PROVE  accepted'[j].at - accepted'[i].at >= Debounce
      <4>1. i \in 1..Len(accepted)
        BY <3>1, <3>2, <3>5
      <4>2. CASE j \in 1..Len(accepted)
        BY <3>1, <3>2, <3>5, <4>1, <4>2 DEF KeybindsSpaced
      <4>3. CASE j = Len(accepted) + 1
        BY <3>2, <3>4, <3>5, <4>1, <4>3
      <4>4. QED
        BY <3>1, <3>2, <4>2, <4>3
    <3>6. QED
      <4>1. Debounce' = Debounce
        OBVIOUS
      <4>2. QED
        BY <3>5 DEF KeybindsSpaced
  <2>3. CASE ~(\E c \in Callers : AcceptRequest(c))
    BY <2>1, <2>3
    DEF Next, Tick, BeginRequestSave, CallerStep, RefuseStopped,
        RefuseDebounced, RefuseFull, Refuse, RunAcceptCallback, NotifyOne,
        WorkerStep, WorkerChecksLoop, WorkerSleeps, WorkerStopsInWait,
        ClearQueue, WorkerTakes, SaveCallbackReturns, WorkerFinishes,
        WorkerStopsAfterSave, SpuriousWakeup, BeginStop, StopStep,
        RequestStop, NotifyAll, JoinWorker, vars, queueVars, history
  <2>4. QED
    BY <2>2, <2>3
<1>3. QED
  BY <1>1, <1>2, TypeCorrect, Inductive, PTL DEF Spec

\* When Stop has returned, no save callback runs or will run.
THEOREM NoSaveAfterStopHolds == Spec => []NoSaveAfterStop
<1>1. IInv => NoSaveAfterStop
  BY DEF IInv, WorkerConsistent, NoSaveAfterStop
<1>2. QED
  BY <1>1, Inductive, PTL
-----------------------------------------------------------------------------
\* The queue's safety as an abstract queue: every critical section is a step of
\* SaveQueueSpec or invisible to it.
THEOREM ImplementsSafeQueue == Spec => Abstract!SafeSpec
<1>1. Init => Abstract!Init
  BY DEF Init, Abstract!Init
<1>2. TypeOK /\ IInv /\ [Next]_vars => [Abstract!Next]_(Abstract!vars)
  <2> SUFFICES ASSUME TypeOK, IInv, [Next]_vars
               PROVE  Abstract!Next \/ UNCHANGED Abstract!vars
    OBVIOUS
  <2>0. WorkerConsistent /\ QueueConsistent
    BY DEF IInv
  <2>1. ASSUME UNCHANGED <<requests, request, nextId, stopped, stopRequested>>
        PROVE  UNCHANGED Abstract!vars
    BY <2>1 DEF Abstract!vars
  <2>2. ASSUME NEW c \in Callers, AcceptRequest(c)
        PROVE  Abstract!Accept
    <3>1. ~stopped /\ ~stopRequested
      BY <2>0, <2>2 DEF AcceptRequest, WorkerConsistent
    <3>2. Len(requests) + Abstract!InService < Capacity
      <4>1. Outstanding = Len(requests) + Abstract!InService
        BY <2>0 DEF Outstanding, Abstract!InService, WorkerConsistent
      <4>2. ~(Outstanding >= Capacity)
        BY <2>2 DEF AcceptRequest, QueueFull
      <4>3. Outstanding \in Int /\ Capacity \in Int
        BY SaveQueueAssumption DEF Outstanding, TypeOK
      <4>4. QED
        BY <4>1, <4>2, <4>3
    <3>3. nextId' = nextId + 1 /\ requests' = Append(requests, nextId)
          /\ UNCHANGED <<request, stopped, stopRequested>>
      BY <2>2 DEF AcceptRequest, Enqueue, workerVars
    <3>4. nextId' - 1 = (nextId - 1) + 1 /\ nextId = (nextId - 1) + 1
      BY <3>3 DEF TypeOK
    <3>5. requests' = Append(requests, (nextId - 1) + 1)
      BY <3>3, <3>4
    <3>6. QED
      BY <3>1, <3>2, <3>3, <3>4, <3>5 DEF Abstract!Accept
  <2>3. ASSUME WorkerTakes PROVE Abstract!Begin
    <3>1. request = 0
      BY <2>0, <2>3 DEF WorkerTakes, WorkerConsistent, TypeOK
    <3>2. QED
      BY <2>3, <3>1 DEF WorkerTakes, Abstract!Begin
  <2>4. ASSUME WorkerFinishes PROVE Abstract!Finish
    <3>1. request # 0
      BY <2>0, <2>4 DEF WorkerFinishes, WorkerConsistent
    <3>2. QED
      BY <2>4, <3>1 DEF WorkerFinishes, Abstract!Finish
  <2>5. ASSUME WorkerStopsAfterSave PROVE Abstract!Finish
    <3>1. request # 0 /\ stopped
      BY <2>0, <2>5 DEF WorkerStopsAfterSave, WorkerConsistent
    <3>2. QED
      BY <2>5, <3>1 DEF WorkerStopsAfterSave, ClearQueue, Abstract!Finish
  <2>6. ASSUME WorkerStopsInWait PROVE Abstract!Discard
    BY <2>6 DEF WorkerStopsInWait, ClearQueue, Abstract!Discard
  <2>7. ASSUME BeginStop PROVE Abstract!Close \/ UNCHANGED Abstract!vars
    <3>1. CASE stopped
      BY <2>1, <2>7, <3>1 DEF BeginStop, workerVars, TypeOK
    <3>2. CASE ~stopped
      <4>1. ~stopRequested
        BY <2>0, <3>2 DEF WorkerConsistent
      <4>2. QED
        BY <2>7, <3>2, <4>1 DEF BeginStop, workerVars, Abstract!Close
    <3>3. QED
      BY <3>1, <3>2
  <2>8. ASSUME RequestStop PROVE Abstract!Close \/ UNCHANGED Abstract!vars
    <3>1. stopped
      BY <2>0, <2>8 DEF RequestStop, WorkerConsistent
    <3>2. UNCHANGED <<requests, request, nextId, stopped>> /\ stopRequested'
      BY <2>8 DEF RequestStop, queueVars
    <3>3. CASE stopRequested
      BY <2>1, <3>2, <3>3 DEF TypeOK
    <3>4. CASE ~stopRequested
      BY <3>1, <3>2, <3>4 DEF Abstract!Close
    <3>5. QED
      BY <3>3, <3>4
  <2>9. ASSUME \/ Tick \/ SpuriousWakeup \/ NotifyAll \/ JoinWorker
               \/ WorkerChecksLoop \/ WorkerSleeps \/ SaveCallbackReturns
               \/ UNCHANGED vars
        PROVE  UNCHANGED Abstract!vars
    BY <2>1, <2>9
    DEF Tick, SpuriousWakeup, NotifyAll, JoinWorker, WakeWorker,
        WorkerChecksLoop, WorkerSleeps, SaveCallbackReturns, vars, queueVars,
        workerVars
  <2>10. ASSUME NEW c \in Callers,
                \/ \E source \in Sources : BeginRequestSave(c, source)
                \/ RefuseStopped(c) \/ RefuseDebounced(c) \/ RefuseFull(c)
                \/ RunAcceptCallback(c) \/ NotifyOne(c)
         PROVE  UNCHANGED Abstract!vars
    BY <2>1, <2>10
    DEF BeginRequestSave, RefuseStopped, RefuseDebounced, RefuseFull, Refuse,
        RunAcceptCallback, NotifyOne, WakeWorker, queueVars, workerVars
  <2>11. QED
    BY <2>2, <2>3, <2>4, <2>5, <2>6, <2>7, <2>8, <2>9, <2>10
    DEF Next, CallerStep, WorkerStep, StopStep, Abstract!Next
<1>3. QED
  BY <1>1, <1>2, TypeCorrect, Inductive, PTL DEF Spec, Abstract!SafeSpec
=============================================================================
