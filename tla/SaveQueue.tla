----------------------------- MODULE SaveQueue -----------------------------
(***************************************************************************)
(* SaveRequestController: the bounded queue between the threads that ask   *)
(* for a clip (the listener thread, the daemon's main loop) and the one    *)
(* worker thread that saves clips.                                         *)
(*                                                                         *)
(* Every critical section of mutex_ is one action; what the code does      *)
(* between two critical sections (the accept callback, notify_one, the     *)
(* save callback, request_stop, notify_all, join) is an action of its own, *)
(* so the threads interleave exactly where the code lets them.  A request  *)
(* is its id: nothing the controller decides depends on its other fields   *)
(* once it is queued.                                                      *)
(***************************************************************************)
EXTENDS Integers, Sequences

CONSTANTS
  Callers,      \* threads that call RequestSave
  Capacity,     \* SaveRequestControllerConfig::queue_capacity
  Debounce,     \* SaveRequestControllerConfig::keybind_debounce, in ticks
  MaxCalls,     \* bound: number of RequestSave calls
  MaxTime       \* bound: last tick of the steady clock

ASSUME SaveQueueAssumption ==
  /\ Capacity \in Nat
  /\ Debounce \in Nat
  /\ MaxCalls \in Nat
  /\ MaxTime \in Nat

Keybind == "keybind"
Manual  == "manual"
Sources == {Keybind, Manual}

Never == -1     \* an empty std::optional<time_point>
NoRequest == 0  \* ids start at 1

VARIABLES
  now,          \* steady_clock
  calls,        \* number of RequestSave calls begun (bounds the model)
  callerPc,     \* where each caller is inside RequestSave
  call,         \* the argument, the clock reading and the id of its call
  requests,     \* requests_, as ids
  saving,       \* saving_
  stopped,      \* stopped_
  stopRequested,\* the worker's stop_token
  nextId,       \* next_request_id_
  lastKeybind,  \* last_keybind_request_at_
  workerPc,     \* where the worker is inside WorkerLoop
  request,      \* WorkerLoop's local request
  stopperPc,    \* where the thread calling Stop is
  accepted,     \* history: source and time of each accepted request, by id
  served,       \* history: ids handed to the save callback, in order
  dropped       \* history: ids removed from the queue without a save

callVars   == <<calls, callerPc, call>>
queueVars  == <<requests, saving, stopped, nextId, lastKeybind>>
workerVars == <<workerPc, request>>
history    == <<accepted, served, dropped>>
vars == <<now, callVars, queueVars, stopRequested, workerVars, stopperPc,
          history>>

NoCall == [source |-> Manual, at |-> 0, id |-> NoRequest]

Init ==
  /\ now = 0
  /\ calls = 0
  /\ callerPc = [c \in Callers |-> "idle"]
  /\ call = [c \in Callers |-> NoCall]
  /\ requests = <<>>
  /\ saving = FALSE
  /\ stopped = FALSE
  /\ stopRequested = FALSE
  /\ nextId = 1
  /\ lastKeybind = Never
  /\ workerPc = "loop"
  /\ request = NoRequest
  /\ stopperPc = "idle"
  /\ accepted = <<>>
  /\ served = <<>>
  /\ dropped = {}

Ids(seq) == {seq[i] : i \in DOMAIN seq}

-----------------------------------------------------------------------------
(* RequestSave: a caller reads the clock, decides under the lock, then runs *)
(* the accept callback and notifies the worker outside it.                 *)

(* Mutant: the caller notes the end of the debounce, not the present. *)
BeginWithDeadline(c, source) ==
  /\ callerPc[c] = "idle"
  /\ calls < MaxCalls
  /\ calls' = calls + 1
  /\ callerPc' = [callerPc EXCEPT ![c] = "lock"]
  /\ call' = [call EXCEPT ![c] = [source |-> source, at |-> now + Debounce,
                                  id |-> NoRequest]]
  /\ UNCHANGED <<now, queueVars, stopRequested, workerVars, stopperPc, history>>

\* The clock is read before the lock is taken: another caller may get there
\* first with a later reading.
BeginRequestSave(c, source) ==
  /\ callerPc[c] = "idle"
  /\ calls < MaxCalls
  /\ calls' = calls + 1
  /\ callerPc' = [callerPc EXCEPT ![c] = "lock"]
  /\ call' = [call EXCEPT ![c] = [source |-> source, at |-> now,
                                  id |-> NoRequest]]
  /\ UNCHANGED <<now, queueVars, stopRequested, workerVars, stopperPc, history>>

(* Mutants of the guards below. *)
DebounceOffByOne(at) == lastKeybind = Never \/ at - lastKeybind >= Debounce - 1
CapacityIgnoresActiveSave == Len(requests) >= Capacity

KeybindDebouncePassed(at) ==
  lastKeybind = Never \/ at - lastKeybind >= Debounce

Debounced(c) == call[c].source = Keybind /\ ~KeybindDebouncePassed(call[c].at)

Outstanding == Len(requests) + (IF saving THEN 1 ELSE 0)

QueueFull == Outstanding >= Capacity

Refuse(c) ==
  /\ callerPc' = [callerPc EXCEPT ![c] = "idle"]
  /\ call' = [call EXCEPT ![c] = NoCall]
  /\ UNCHANGED <<now, calls, requests, saving, stopped, nextId, stopRequested,
                 workerVars, stopperPc, history>>

RefuseStopped(c) ==
  /\ callerPc[c] = "lock"
  /\ stopped
  /\ Refuse(c)
  /\ UNCHANGED lastKeybind

RefuseDebounced(c) ==
  /\ callerPc[c] = "lock"
  /\ ~stopped
  /\ Debounced(c)
  /\ Refuse(c)
  /\ UNCHANGED lastKeybind

RefuseFull(c) ==
  /\ callerPc[c] = "lock"
  /\ ~stopped
  /\ ~Debounced(c)
  /\ QueueFull
  /\ Refuse(c)
  /\ UNCHANGED lastKeybind

(* Mutant: a manual save starts the debounce too. *)
NoteAnyRequest(c) == lastKeybind' = call[c].at

NoteKeybind(c) ==
  lastKeybind' = IF call[c].source = Keybind THEN call[c].at ELSE lastKeybind

(* Mutant: the newest request is served first. *)
EnqueueAtFront(id) == requests' = <<id>> \o requests

Enqueue(id) == requests' = Append(requests, id)

AcceptRequest(c) ==
  /\ callerPc[c] = "lock"
  /\ ~stopped
  /\ ~Debounced(c)
  /\ ~QueueFull
  /\ NoteKeybind(c)
  /\ nextId' = nextId + 1
  /\ Enqueue(nextId)
  /\ callerPc' = [callerPc EXCEPT ![c] = "accept"]
  /\ call' = [call EXCEPT ![c].id = nextId]
  /\ accepted' = Append(accepted,
                        [source |-> call[c].source, at |-> call[c].at])
  /\ UNCHANGED <<now, calls, saving, stopped, stopRequested, workerVars,
                 stopperPc, served, dropped>>

RunAcceptCallback(c) ==
  /\ callerPc[c] = "accept"
  /\ callerPc' = [callerPc EXCEPT ![c] = "notify"]
  /\ UNCHANGED <<now, calls, call, queueVars, stopRequested, workerVars,
                 stopperPc, history>>

WakeWorker == workerPc' = IF workerPc = "asleep" THEN "wait" ELSE workerPc

(* Mutant: the accepting caller does not notify. *)
NotifyNobody(c) ==
  /\ callerPc[c] = "notify"
  /\ callerPc' = [callerPc EXCEPT ![c] = "idle"]
  /\ call' = [call EXCEPT ![c] = NoCall]
  /\ UNCHANGED <<now, calls, queueVars, stopRequested, workerVars,
                 stopperPc, history>>

NotifyOne(c) ==
  /\ callerPc[c] = "notify"
  /\ callerPc' = [callerPc EXCEPT ![c] = "idle"]
  /\ call' = [call EXCEPT ![c] = NoCall]
  /\ WakeWorker
  /\ UNCHANGED <<now, calls, queueVars, stopRequested, request,
                 stopperPc, history>>

-----------------------------------------------------------------------------
(* WorkerLoop *)

WorkerChecksLoop ==
  /\ workerPc = "loop"
  /\ workerPc' = IF stopRequested THEN "exited" ELSE "wait"
  /\ UNCHANGED <<now, callVars, queueVars, stopRequested, request, stopperPc,
                 history>>

\* condition_.wait: under the lock, a stop request wins over the predicate.
WorkerSleeps ==
  /\ workerPc = "wait"
  /\ ~stopRequested
  /\ requests = <<>>
  /\ workerPc' = "asleep"
  /\ UNCHANGED <<now, callVars, queueVars, stopRequested, request, stopperPc,
                 history>>

SpuriousWakeup ==
  /\ workerPc = "asleep"
  /\ workerPc' = "wait"
  /\ UNCHANGED <<now, callVars, queueVars, stopRequested, request, stopperPc,
                 history>>

ClearQueue ==
  /\ requests' = <<>>
  /\ dropped' = dropped \cup Ids(requests)

WorkerStopsInWait ==
  /\ workerPc = "wait"
  /\ stopRequested
  /\ ClearQueue
  /\ workerPc' = "exited"
  /\ UNCHANGED <<now, callVars, saving, stopped, nextId, lastKeybind,
                 stopRequested, request, stopperPc, accepted, served>>

(* Mutant: a non-empty queue wins over the stop request. *)
WorkerTakesDespiteStop ==
  /\ workerPc = "wait"
  /\ requests # <<>>
  /\ request' = Head(requests)
  /\ requests' = Tail(requests)
  /\ saving' = TRUE
  /\ served' = Append(served, Head(requests))
  /\ workerPc' = "saving"
  /\ UNCHANGED <<now, callVars, stopped, nextId, lastKeybind, stopRequested,
                 stopperPc, accepted, dropped>>

WorkerTakes ==
  /\ workerPc = "wait"
  /\ ~stopRequested
  /\ requests # <<>>
  /\ request' = Head(requests)
  /\ requests' = Tail(requests)
  /\ saving' = TRUE
  /\ served' = Append(served, Head(requests))
  /\ workerPc' = "saving"
  /\ UNCHANGED <<now, callVars, stopped, nextId, lastKeybind, stopRequested,
                 stopperPc, accepted, dropped>>

SaveCallbackReturns ==
  /\ workerPc = "saving"
  /\ workerPc' = "finish"
  /\ UNCHANGED <<now, callVars, queueVars, stopRequested, request, stopperPc,
                 history>>

(* Mutant: the queue is cleared after every save. *)
WorkerFinishesAndClears ==
  /\ workerPc = "finish"
  /\ ~(stopRequested \/ stopped)
  /\ saving' = FALSE
  /\ request' = NoRequest
  /\ ClearQueue
  /\ workerPc' = "loop"
  /\ UNCHANGED <<now, callVars, stopped, nextId, lastKeybind,
                 stopRequested, stopperPc, accepted, served>>

WorkerFinishes ==
  /\ workerPc = "finish"
  /\ ~(stopRequested \/ stopped)
  /\ saving' = FALSE
  /\ request' = NoRequest
  /\ workerPc' = "loop"
  /\ UNCHANGED <<now, callVars, requests, stopped, nextId, lastKeybind,
                 stopRequested, stopperPc, history>>

WorkerStopsAfterSave ==
  /\ workerPc = "finish"
  /\ stopRequested \/ stopped
  /\ saving' = FALSE
  /\ request' = NoRequest
  /\ ClearQueue
  /\ workerPc' = "exited"
  /\ UNCHANGED <<now, callVars, stopped, nextId, lastKeybind, stopRequested,
                 stopperPc, accepted, served>>

-----------------------------------------------------------------------------
(* Stop, and the destructor's second call of it. *)

BeginStop ==
  /\ stopperPc \in {"idle", "returned"}
  /\ stopped' = TRUE
  /\ stopperPc' = "request"
  /\ UNCHANGED <<now, callVars, requests, saving, nextId, lastKeybind,
                 stopRequested, workerVars, history>>

(* Mutant: Stop relies on stopped_ alone and never asks the thread to stop. *)
StopWithoutToken ==
  /\ stopperPc = "request"
  /\ WakeWorker
  /\ stopperPc' = "notify"
  /\ UNCHANGED <<now, callVars, queueVars, stopRequested, request, history>>

\* request_stop runs the stop callback condition_any registered: it wakes.
RequestStop ==
  /\ stopperPc = "request"
  /\ stopRequested' = TRUE
  /\ WakeWorker
  /\ stopperPc' = "notify"
  /\ UNCHANGED <<now, callVars, queueVars, request, history>>

NotifyAll ==
  /\ stopperPc = "notify"
  /\ WakeWorker
  /\ stopperPc' = "join"
  /\ UNCHANGED <<now, callVars, queueVars, stopRequested, request, history>>

(* Mutant: Stop returns without joining the worker. *)
DetachWorker ==
  /\ stopperPc = "join"
  /\ stopperPc' = "returned"
  /\ UNCHANGED <<now, callVars, queueVars, stopRequested, workerVars, history>>

JoinWorker ==
  /\ stopperPc = "join"
  /\ workerPc = "exited"
  /\ stopperPc' = "returned"
  /\ UNCHANGED <<now, callVars, queueVars, stopRequested, workerVars, history>>

-----------------------------------------------------------------------------
Tick ==
  /\ now < MaxTime
  /\ now' = now + 1
  /\ UNCHANGED <<callVars, queueVars, stopRequested, workerVars, stopperPc,
                 history>>

CallerStep(c) ==
  \/ RefuseStopped(c)
  \/ RefuseDebounced(c)
  \/ RefuseFull(c)
  \/ AcceptRequest(c)
  \/ RunAcceptCallback(c)
  \/ NotifyOne(c)

WorkerStep ==
  \/ WorkerChecksLoop
  \/ WorkerSleeps
  \/ WorkerStopsInWait
  \/ WorkerTakes
  \/ SaveCallbackReturns
  \/ WorkerFinishes
  \/ WorkerStopsAfterSave

StopStep == RequestStop \/ NotifyAll \/ JoinWorker

Next ==
  \/ Tick
  \/ \E c \in Callers, source \in Sources : BeginRequestSave(c, source)
  \/ \E c \in Callers : CallerStep(c)
  \/ WorkerStep
  \/ SpuriousWakeup
  \/ BeginStop
  \/ StopStep

\* The threads are scheduled; nothing forces a request, a Stop, the clock or a
\* spurious wakeup to happen.  That a save callback returns is part of
\* WF(WorkerStep): every wait inside SaveClip has a timeout.
Fairness ==
  /\ \A c \in Callers : WF_vars(CallerStep(c))
  /\ WF_vars(WorkerStep)
  /\ WF_vars(StopStep)

Spec == Init /\ [][Next]_vars
FairSpec == Spec /\ Fairness

-----------------------------------------------------------------------------
(* Properties *)

\* Every variable keeps the type its C++ counterpart has.
TypeOK ==
  /\ now \in 0..MaxTime
  /\ calls \in 0..MaxCalls
  /\ callerPc \in [Callers -> {"idle", "lock", "accept", "notify"}]
  /\ call \in [Callers -> [source : Sources, at : 0..MaxTime, id : Nat]]
  /\ requests \in Seq(Nat)
  /\ saving \in BOOLEAN
  /\ stopped \in BOOLEAN
  /\ stopRequested \in BOOLEAN
  /\ nextId \in Nat \ {0}
  /\ lastKeybind \in {Never} \cup (0..MaxTime)
  /\ workerPc \in {"loop", "wait", "asleep", "saving", "finish", "exited"}
  /\ request \in Nat
  /\ stopperPc \in {"idle", "request", "notify", "join", "returned"}
  /\ accepted \in Seq([source : Sources, at : 0..MaxTime])
  /\ served \in Seq(Nat)
  /\ dropped \in SUBSET Nat

\* The strengthening the proofs rest on: the worker's place determines saving_
\* and its local request, the stop flags rise in the order Stop raises them,
\* the queue holds consecutive ids after those served and only a worker on its
\* way out drops any, and last_keybind_request_at_ is the latest accepted one.
WorkerConsistent ==
  /\ saving <=> workerPc \in {"saving", "finish"}
  /\ saving <=> request # NoRequest
  /\ stopRequested => stopped
  /\ stopperPc # "idle" => stopped
  /\ workerPc = "exited" => stopped
  /\ stopperPc = "returned" => workerPc = "exited"

QueueConsistent ==
  /\ \A i \in 1..Len(served) : served[i] = i
  /\ \A i \in 1..Len(requests) : requests[i] = Len(served) + i
  /\ Len(served) + Len(requests) <= nextId - 1
  /\ dropped = (Len(served) + Len(requests) + 1)..(nextId - 1)
  /\ dropped # {} => workerPc = "exited" /\ requests = <<>>
  /\ Outstanding <= Capacity

KeybindConsistent ==
  /\ \A i \in 1..Len(accepted) : accepted[i].source = Keybind =>
       lastKeybind # Never /\ accepted[i].at <= lastKeybind
  /\ lastKeybind # Never => \E i \in 1..Len(accepted) :
       accepted[i].source = Keybind /\ accepted[i].at = lastKeybind

IInv == WorkerConsistent /\ QueueConsistent /\ KeybindConsistent

\* The requests waiting and the one being saved never exceed the configured
\* capacity together, whatever the callers and the worker interleave (the
\* count is taken under the lock in RequestSave, the worker moves a request
\* from one term of it to the other).
WithinCapacity == Outstanding <= Capacity

\* Saves begin in the order the requests were accepted and none is skipped:
\* the ids handed to the save callback are 1, 2, 3, ... (push_back and
\* pop_front; the FIFO that RapidRequestsFillBoundedFifoInOrder tests).
ServedInOrder == \A i \in DOMAIN served : served[i] = i

\* A request RequestSave has accepted is waiting, was handed to the save
\* callback or was dropped by a stop, and only one of the three: none is lost,
\* none is saved twice, and none is dropped while the controller runs.
NoRequestLost ==
  /\ Ids(requests) \cup Ids(served) \cup dropped = 1..(nextId - 1)
  /\ Ids(requests) \cap Ids(served) = {}
  /\ dropped \cap (Ids(requests) \cup Ids(served)) = {}
  /\ dropped # {} => stopped

\* Two accepted keybind requests were asked for at least the debounce apart,
\* in the order they were accepted, although each caller reads the clock
\* before it takes the lock.
KeybindsSpaced ==
  \A i, j \in DOMAIN accepted :
    (i < j /\ accepted[i].source = Keybind /\ accepted[j].source = Keybind)
      => accepted[j].at - accepted[i].at >= Debounce

\* A keybind press is only debounced against a press that was accepted: neither
\* a manual save nor a press refused because the queue was full swallows it.
DebouncedByAccepted ==
  [][\A c \in Callers : RefuseDebounced(c) =>
       \E i \in DOMAIN accepted :
         /\ accepted[i].source = Keybind
         /\ call[c].at - accepted[i].at < Debounce]_vars

\* Once Stop has returned the worker is gone: no save callback is running or
\* will begin, so what the callback uses may be destroyed.
NoSaveAfterStop == stopperPc = "returned" => workerPc = "exited" /\ ~saving

\* Every accepted request is handed to the save callback, or the worker has
\* exited because of a stop: no notification is lost between the push and
\* notify_one or between the predicate and the wait.
AcceptedIsServed ==
  \A id \in 1..MaxCalls :
    (id < nextId) ~> (id \in Ids(served) \/ workerPc = "exited")

\* What the callers and the worker do implements the bounded queue of
\* SaveQueueSpec, its fairness included: a save begins whenever one waits and
\* none is running, and every save that begins ends.
Abstract == INSTANCE SaveQueueSpec WITH
  count   <- nextId - 1,
  queue   <- requests,
  current <- request,
  phase   <- IF stopRequested THEN "closed"
             ELSE IF stopped THEN "closing" ELSE "open"

ImplementsQueue == Abstract!Spec

\* Stop returns: the worker leaves its wait, or the save in progress, and exits.
StopReturns == (stopperPc = "request") ~> (stopperPc = "returned")
=============================================================================
