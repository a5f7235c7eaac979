--------------------------- MODULE SaveQueueSpec ---------------------------
(***************************************************************************)
(* What SaveRequestController promises its users, without threads, locks   *)
(* or wake-ups: a bounded first-in first-out queue of numbered requests    *)
(* served one at a time, that can be closed.  Closing takes two moments:   *)
(* after the first no request is accepted, after the second none begins.   *)
(***************************************************************************)
EXTENDS Integers, Sequences

CONSTANT Capacity

VARIABLES
  count,    \* number of requests accepted so far; they are numbered from 1
  queue,    \* the numbers waiting
  current,  \* the number being served, 0 when there is none
  phase     \* "open", "closing" or "closed"

vars == <<count, queue, current, phase>>

Init ==
  /\ count = 0
  /\ queue = <<>>
  /\ current = 0
  /\ phase = "open"

InService == IF current = 0 THEN 0 ELSE 1

(* Mutant: the numbers start at 0, the value that means no request. *)
AcceptNumberedFromZero ==
  /\ phase = "open"
  /\ Len(queue) + InService < Capacity
  /\ count' = count + 1
  /\ queue' = Append(queue, count)
  /\ UNCHANGED <<current, phase>>

Accept ==
  /\ phase = "open"
  /\ Len(queue) + InService < Capacity
  /\ count' = count + 1
  /\ queue' = Append(queue, count + 1)
  /\ UNCHANGED <<current, phase>>

Begin ==
  /\ phase # "closed"
  /\ current = 0
  /\ queue # <<>>
  /\ current' = Head(queue)
  /\ queue' = Tail(queue)
  /\ UNCHANGED <<count, phase>>

Finish ==
  /\ current # 0
  /\ current' = 0
  /\ \/ queue' = queue
     \/ phase # "open" /\ queue' = <<>>
  /\ UNCHANGED <<count, phase>>

Discard ==
  /\ phase # "open"
  /\ queue' = <<>>
  /\ UNCHANGED <<count, current, phase>>

Close ==
  /\ \/ phase = "open" /\ phase' = "closing"
     \/ phase = "closing" /\ phase' = "closed"
  /\ UNCHANGED <<count, queue, current>>

Next == Accept \/ Begin \/ Finish \/ Discard \/ Close

Fairness == WF_vars(Begin) /\ WF_vars(Finish)

SafeSpec == Init /\ [][Next]_vars
Spec == SafeSpec /\ Fairness
=============================================================================
