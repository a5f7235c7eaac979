--------------------------- MODULE RecorderProofs ---------------------------
(***************************************************************************)
(* The safety properties of Recorder for every set of requests, length of  *)
(* clip, retention and bound.  The invariant relates the list of fragments *)
(* to what the sink has written (Disk), and what a request holds on to to  *)
(* what has been pruned (Saves).                                           *)
(***************************************************************************)
EXTENDS Recorder, FiniteSetTheorems, SequenceTheorems, TLAPS

\* Where a segment starts: where the one before it ends.
StartOf(segments, p) == IF p = 1 THEN 0 ELSE segments[p - 1].end

\* The segments follow each other without a gap.
Timeline ==
  /\ finalized <= Len(written)
  /\ openStart <= now
  /\ openStart = StartOf(written, OpenPath)
  /\ \A p \in 1..Len(written) :
       /\ written[p].start = StartOf(written, p)
       /\ written[p].start < written[p].end
       /\ written[p].end <= openStart
  /\ \A p, q \in 1..Len(written) : p < q => written[p].end <= written[q].start

\* The closed messages on the bus are those of the finalized segments the bus
\* thread has not handled, in order; the messages tell the times of the sink.
BusOrder ==
  /\ \A i \in 1..Len(bus) :
       /\ bus[i].kind = "closed" =>
            /\ bus[i].path \in (Handled + 1)..finalized
            /\ bus[i].at = written[bus[i].path].end
       /\ bus[i].kind = "opened" =>
            /\ bus[i].path \in 1..OpenPath
            /\ bus[i].at = StartOf(written, bus[i].path)
  /\ \A i, j \in 1..Len(bus) :
       i < j /\ bus[i].kind = "closed" /\ bus[j].kind = "closed"
         => bus[i].path < bus[j].path
  /\ \A p \in (Handled + 1)..finalized :
       \E i \in 1..Len(bus) : bus[i].kind = "closed" /\ bus[i].path = p

\* The start times noted for segments that are not closed yet are the sink's.
OpenTimes == \A p \in DOMAIN open : p \in 1..OpenPath /\ open[p] = StartOf(written, p)

\* How many fragments have been pruned.
Gone == Handled - Len(fragments)

\* The list is the end of what has been handled.
List ==
  /\ Handled \in 0..finalized
  /\ Gone \in Nat
  /\ \A i \in 1..Len(fragments) :
       /\ fragments[i].path = Gone + i
       /\ fragments[i].start = written[Gone + i].start
       /\ fragments[i].end = written[Gone + i].end

\* Only what is older than the live window has been pruned.
PrunedIsOld ==
  \A p \in 1..Gone :
    written[p].end < Before(now, ClipLength + BufferSafety + RetentionSlack)

\* The list, the bus and the disk against the sink.
Disk == Timeline /\ BusOrder /\ OpenTimes /\ List /\ PrunedIsOld /\ NoOrphanFiles

IsMarked(id) == markPc[id] \in {"marked", "late", "unmarked"}

\* What a request goes through.
Order ==
  /\ CutoffsAreOutstanding
  /\ \A id \in DOMAIN cutoffs : cutoffs[id] = markTime[id]
  /\ \A id \in Requests :
       /\ markTime[id] <= now
       /\ ~IsMarked(id) => outcome[id].kind = "none"
  /\ saver.pc # "idle" =>
       /\ saver.id \in Requests
       /\ outcome[saver.id].kind = "saving"
       /\ IsMarked(saver.id)

\* A cutoff recorded in time keeps its whole window.
Kept ==
  \A id \in DOMAIN cutoffs : markPc[id] = "marked" =>
    \A p \in 1..Gone : written[p].end < Before(cutoffs[id], ClipLength)

\* What was selected for a cutoff, before the muxer has it.
Selected ==
  saver.pc = "mux" /\ saver.path \in {"window", "timeout"} =>
    /\ saver.id \in DOMAIN cutoffs
    /\ \A p \in saver.segments :
         /\ p \in files /\ p \in 1..Handled
         /\ written[p].end > Before(cutoffs[saver.id], ClipLength)

\* The segments from lo to hi, when the boundary was reached.
Window(lo, hi, cutoff) ==
  /\ saver.segments = lo..hi
  /\ saver.available = written[hi].end - written[lo].start
  /\ saver.endTrim = written[hi].end - cutoff
  /\ written[lo].start < cutoff /\ cutoff <= written[hi].end
  /\ markPc[saver.id] = "marked" => written[lo].start <= Before(cutoff, ClipLength)

\* What was selected for a cutoff that the footage had reached.
Reached ==
  saver.pc = "mux" /\ saver.path = "window" =>
    \E lo, hi \in 1..Len(written) : lo <= hi /\ Window(lo, hi, cutoffs[saver.id])

\* A save waits for a cutoff it found, and polls when it goes without.
Waiting ==
  /\ saver.pc = "wait" => saver.id \in DOMAIN cutoffs
  /\ saver.pc = "poll" => saver.path = "recent"

\* The requests against the disk.
Saves ==
  Order /\ Kept /\ Waiting /\ Selected /\ Reached /\ ClipIsRequestedWindow

IInv == TypeOK /\ Disk /\ Saves

-----------------------------------------------------------------------------
(* Helpers *)

\* The types of the numbers the proofs compute with.
LEMMA Numbers ==
  ASSUME TypeOK
  PROVE  /\ now \in Nat /\ now <= MaxTime /\ openStart \in Nat /\ finalized \in Nat
         /\ Len(written) \in Nat /\ Len(bus) \in Nat /\ Len(fragments) \in Nat
         /\ OpenPath = Len(written) + 1
         /\ \A p \in 1..Len(written) :
              /\ written[p].start \in Nat /\ written[p].end \in Nat
              /\ written[p].end <= MaxTime
         /\ \A i \in 1..Len(fragments) :
              /\ fragments[i].path \in Nat
              /\ fragments[i].start \in Nat /\ fragments[i].end \in Nat
         /\ Handled \in Nat
<1>0. MaxTime \in Nat
  BY RecorderAssumption
<1>1. /\ now \in Nat /\ now <= MaxTime /\ openStart \in Nat /\ finalized \in Nat
      /\ Len(written) \in Nat /\ Len(bus) \in Nat /\ Len(fragments) \in Nat
      /\ OpenPath = Len(written) + 1
  BY <1>0 DEF TypeOK, OpenPath
<1>2. ASSUME NEW p \in 1..Len(written)
      PROVE  /\ written[p].start \in Nat /\ written[p].end \in Nat
             /\ written[p].end <= MaxTime
  <2>1. written[p] \in Segment
    BY DEF TypeOK
  <2> QED
    BY <1>0, <2>1 DEF Segment
<1>3. ASSUME NEW i \in 1..Len(fragments)
      PROVE  /\ fragments[i].path \in Nat
             /\ fragments[i].start \in Nat /\ fragments[i].end \in Nat
  <2>1. fragments[i] \in Fragment
    BY DEF TypeOK
  <2> QED
    BY <1>0, <2>1 DEF Fragment
<1>4. Handled \in Nat
  <2>1. CASE fragments = <<>>
    BY <2>1 DEF Handled
  <2>2. CASE fragments # <<>>
    <3>1. Len(fragments) \in 1..Len(fragments)
      BY <2>2 DEF TypeOK
    <3> QED
      BY <1>3, <2>2, <3>1 DEF Handled
  <2> QED
    BY <2>1, <2>2
<1> QED
  BY <1>1, <1>2, <1>3, <1>4

\* A moment before a later time is not earlier.
LEMMA BeforeGrows ==
  ASSUME NEW s \in Nat, NEW t \in Nat, s <= t, NEW d \in Nat
  PROVE  Before(s, d) <= Before(t, d) /\ Before(s, d) \in Nat /\ Before(t, d) <= t
BY DEF Before

\* A set of indices that holds all those before each of its own is an initial one.
LEMMA InitialSegment ==
  ASSUME NEW n \in Nat, NEW S \in SUBSET (1..n), \A i \in S : \A j \in 1..i : j \in S
  PROVE  Cardinality(S) \in 0..n /\ S = 1..Cardinality(S)
<1> DEFINE g == Cardinality(S)
<1>1. IsFiniteSet(S) /\ g <= n /\ g \in Nat
  <2>1. IsFiniteSet(1..n) /\ Cardinality(1..n) = IF 1 > n THEN 0 ELSE n - 1 + 1
    BY FS_Interval
  <2>2. IsFiniteSet(S) /\ g <= Cardinality(1..n)
    BY <2>1, FS_Subset
  <2>3. g \in Nat
    BY <2>2, FS_CardinalityType
  <2> HIDE DEF g
  <2> QED
    BY <2>1, <2>2, <2>3
<1> HIDE DEF g
<1>2. ASSUME NEW i \in S PROVE i \in 1..g
  <2>1. i \in Nat \ {0} /\ 1..i \in SUBSET S
    OBVIOUS
  <2>2. Cardinality(1..i) = i
    BY <2>1, FS_Interval
  <2>3. Cardinality(1..i) <= g
    BY <1>1, <2>1, FS_Subset DEF g
  <2> QED
    BY <1>1, <2>1, <2>2, <2>3
<1>3. S = 1..g
  <2>1. IsFiniteSet(1..g) /\ Cardinality(1..g) = g
    BY <1>1, FS_Interval
  <2>2. S \in SUBSET (1..g)
    BY <1>2
  <2> QED
    BY <2>1, <2>2, FS_Subset DEF g
<1> QED
  BY <1>1, <1>3 DEF g

\* The fragments that are pruned are the first ones of the list.
LEMMA PrunedAreFirst ==
  ASSUME NEW f \in Seq(Fragment), NEW latest
  PROVE  /\ Cardinality(Pruned(f, latest)) \in 0..Len(f)
         /\ Pruned(f, latest) = 1..Cardinality(Pruned(f, latest))
<1>1. Len(f) \in Nat /\ Pruned(f, latest) \in SUBSET (1..Len(f))
  BY DEF Pruned
<1>2. ASSUME NEW i \in Pruned(f, latest), NEW j \in 1..i PROVE j \in Pruned(f, latest)
  <2>1. i \in 1..Len(f) /\ j \in 1..Len(f) /\ \A k \in 1..j : k \in 1..i
    BY <1>1
  <2>2. \A k \in 1..i : Expired(f[k].end, latest, cutoffs)
    BY DEF Pruned
  <2> QED
    BY <2>1, <2>2 DEF Pruned
<1> QED
  BY <1>1, <1>2, InitialSegment
-----------------------------------------------------------------------------
(* The sink and the clock *)

\* What is on record of the segments stays.
Grows ==
  /\ Len(written') \in Nat /\ Len(written) <= Len(written')
  /\ \A p \in 1..Len(written) : written'[p] = written[p]

requestVars == <<cutoffs, markVars, saver, outcome>>

\* What the saves rely on is left alone by every step that prunes nothing.
LEMMA SavesStay ==
  ASSUME TypeOK, Saves, Grows, UNCHANGED requestVars, UNCHANGED fragments,
         List, finalized <= Len(written),
         files \subseteq files', now <= now', now' \in Nat
  PROVE  Saves'
<1>1. /\ cutoffs' = cutoffs /\ markPc' = markPc /\ markTime' = markTime
      /\ saver' = saver /\ outcome' = outcome
      /\ Handled' = Handled /\ Gone' = Gone
  BY DEF requestVars, markVars, Handled, Gone
<1>2. /\ Len(written) \in Nat /\ now \in Nat /\ Handled \in 0..Len(written)
      /\ Gone <= Handled /\ Gone \in Nat
  BY Numbers DEF List, Gone
<1>3. Order'
  <2>1. \A id \in Requests : markTime[id] \in Nat
    BY RecorderAssumption DEF TypeOK
  <2>2. \A id \in Requests : markTime[id] <= now'
    BY <1>2, <2>1 DEF Saves, Order
  <2> QED
    BY <1>1, <2>2 DEF Saves, Order, IsMarked, CutoffsAreOutstanding
<1>4. Kept'
  BY <1>1, <1>2 DEF Saves, Kept, Grows
<1>5. Waiting' /\ ClipIsRequestedWindow'
  BY <1>1 DEF Saves, Waiting, ClipIsRequestedWindow
<1>6. Selected'
  BY <1>1, <1>2 DEF Saves, Selected, Grows
<1>7. Reached'
  <2> SUFFICES ASSUME saver.pc = "mux", saver.path = "window"
               PROVE  Reached'
    BY <1>1 DEF Reached
  <2>1. PICK lo, hi \in 1..Len(written) : lo <= hi /\ Window(lo, hi, cutoffs[saver.id])
    BY DEF Saves, Reached
  <2>2. lo \in 1..Len(written') /\ hi \in 1..Len(written')
    BY <1>2 DEF Grows
  <2>3. Window(lo, hi, cutoffs[saver.id])'
    BY <1>1, <2>1 DEF Window, Grows
  <2> QED
    BY <1>1, <2>1, <2>2, <2>3 DEF Reached
<1> QED
  BY <1>3, <1>4, <1>5, <1>6, <1>7 DEF Saves

\* Tick
LEMMA TickStep == ASSUME IInv, Tick PROVE IInv'
<1>1. /\ now < MaxTime /\ now' = now + 1
      /\ UNCHANGED <<sinkVars, bus, files, stateVars, fragVars, cutoffs, markVars,
                     saver, outcome>>
  BY DEF Tick
<1>2. /\ now \in Nat /\ MaxTime \in Nat /\ openStart \in Nat
      /\ ClipLength + BufferSafety + RetentionSlack \in Nat
      /\ \A p \in 1..Len(written) : written[p].end \in Nat
      /\ Len(written) \in Nat
  BY Numbers, RecorderAssumption DEF IInv
<1>3. TypeOK'
  <2>1. now' \in 0..MaxTime
    BY <1>1, <1>2
  <2> QED
    BY <1>1, <2>1 DEF IInv, TypeOK, sinkVars, stateVars, fragVars, markVars
<1>4. Timeline' /\ BusOrder' /\ OpenTimes' /\ List' /\ NoOrphanFiles'
  <2>1. Timeline'
    BY <1>1, <1>2 DEF IInv, Disk, Timeline, StartOf, OpenPath, sinkVars
  <2>2. BusOrder' /\ OpenTimes' /\ List' /\ NoOrphanFiles'
    BY <1>1 DEF IInv, Disk, BusOrder, OpenTimes, List, NoOrphanFiles, StartOf, OpenPath,
                Handled, Gone, sinkVars, fragVars
  <2> QED
    BY <2>1, <2>2
<1>5. PrunedIsOld'
  <2> DEFINE d == ClipLength + BufferSafety + RetentionSlack
  <2>1. Before(now, d) <= Before(now', d) /\ Before(now, d) \in Nat /\ Before(now', d) \in Nat
    BY <1>1, <1>2, BeforeGrows DEF Before
  <2>2. Gone' = Gone /\ Gone \in 0..Len(written)
    BY <1>1, <1>2, Numbers DEF Gone, Handled, fragVars, IInv, Disk, List, Timeline
  <2> HIDE DEF d
  <2>3. \A p \in 1..Gone : written[p].end < Before(now', d)
    BY <1>2, <2>1, <2>2 DEF IInv, Disk, PrunedIsOld, d
  <2> QED
    BY <1>1, <2>2, <2>3 DEF PrunedIsOld, sinkVars, d
<1>6. Saves'
  BY <1>1, <1>2, SavesStay
     DEF IInv, Disk, Timeline, Grows, requestVars, sinkVars, fragVars
<1> QED
  BY <1>3, <1>4, <1>5, <1>6 DEF IInv, Disk

\* SinkSplits
LEMMA SinkSplitsStep == ASSUME IInv, SinkSplits PROVE IInv'
<1> DEFINE segment == [start |-> openStart, end |-> now]
           message == [kind |-> "opened", path |-> OpenPath + 1, at |-> now]
<1>0. PICK n \in Nat : n = Len(written)
  BY Numbers DEF IInv
<1>1. /\ now > openStart
      /\ written' = Append(written, segment) /\ openStart' = now
      /\ files' = files \cup {OpenPath + 1} /\ bus' = Append(bus, message)
      /\ UNCHANGED <<now, sink, finalized, stateVars, fragVars, cutoffs, markVars,
                     saver, outcome>>
  BY DEF SinkSplits
<1>2. /\ TypeOK /\ Timeline /\ BusOrder /\ OpenTimes /\ List /\ PrunedIsOld
      /\ NoOrphanFiles
  BY DEF IInv, Disk
<1>3. /\ now \in Nat /\ now \in 0..MaxTime /\ openStart \in 0..MaxTime /\ openStart \in Nat
      /\ n \in Nat /\ OpenPath = n + 1 /\ Len(bus) \in Nat /\ finalized \in Nat
      /\ Len(fragments) \in Nat
      /\ \A p \in 1..n : written[p].start \in Nat /\ written[p].end \in Nat
  BY <1>0, <1>2, Numbers DEF TypeOK
<1>4. /\ segment \in Segment /\ segment.start = openStart /\ segment.end = now
      /\ message \in Message /\ message.kind = "opened" /\ message.path = n + 2
      /\ message.at = now
  BY <1>0, <1>3 DEF Segment, Message
<1> HIDE DEF segment, message
<1>5. /\ written' \in Seq(Segment) /\ Len(written') = n + 1
      /\ \A p \in 1..n : written'[p] = written[p]
      /\ written'[n + 1] = segment
  BY <1>0, <1>1, <1>2, <1>4, AppendProperties DEF TypeOK
<1>6. /\ bus' \in Seq(Message) /\ Len(bus') = Len(bus) + 1
      /\ \A i \in 1..Len(bus) : bus'[i] = bus[i]
      /\ bus'[Len(bus) + 1] = message
  BY <1>0, <1>1, <1>2, <1>4, AppendProperties DEF TypeOK
<1>7. /\ OpenPath' = n + 2
      /\ \A p \in 1..(n + 1) : StartOf(written', p) = StartOf(written, p)
      /\ StartOf(written', n + 2) = now
  <2>1. OpenPath' = n + 2
    BY <1>0, <1>3, <1>5 DEF OpenPath
  <2>2. ASSUME NEW p \in 1..(n + 1) PROVE StartOf(written', p) = StartOf(written, p)
    <3>1. p = 1 \/ p - 1 \in 1..n
      BY <1>0, <1>3
    <3> QED
      BY <1>0, <1>5, <3>1 DEF StartOf
  <2>3. StartOf(written', n + 2) = written'[n + 1].end
    <3>1. n + 2 # 1 /\ n + 2 - 1 = n + 1
      BY <1>0, <1>3
    <3> QED
      BY <1>3, <3>1 DEF StartOf
  <2> QED
    BY <1>0, <1>4, <1>5, <2>1, <2>2, <2>3
<1>8. TypeOK'
  <2>1. OpenPath + 1 \in Nat
    BY <1>3
  <2>2. files' \in SUBSET Nat
    BY <1>1, <1>2, <2>1 DEF TypeOK
  <2> QED
    BY <1>0, <1>1, <1>2, <1>3, <1>5, <1>6, <2>2 DEF TypeOK, stateVars, fragVars, markVars
<1>9. Timeline'
  <2>1. finalized' <= Len(written') /\ openStart' <= now' /\ openStart' = StartOf(written', OpenPath')
    BY <1>0, <1>1, <1>2, <1>3, <1>5, <1>7 DEF Timeline
  <2>2. ASSUME NEW p \in 1..(n + 1)
        PROVE  /\ written'[p].start = StartOf(written', p)
               /\ written'[p].start < written'[p].end
               /\ written'[p].end <= openStart'
    <3>1. CASE p \in 1..n
      BY <1>0, <1>1, <1>2, <1>3, <1>5, <1>7, <3>1 DEF Timeline
    <3>2. CASE p = n + 1
      BY <1>0, <1>1, <1>2, <1>3, <1>4, <1>5, <1>7, <3>2 DEF Timeline
    <3> QED
      BY <1>0, <1>3, <3>1, <3>2
  <2>3. ASSUME NEW p \in 1..(n + 1), NEW q \in 1..(n + 1), p < q
        PROVE  written'[p].end <= written'[q].start
    <3>1. p \in 1..n
      BY <1>0, <1>3, <2>3
    <3>2. CASE q \in 1..n
      BY <1>0, <1>2, <1>5, <2>3, <3>1, <3>2 DEF Timeline
    <3>3. CASE q = n + 1
      BY <1>0, <1>2, <1>4, <1>5, <3>1, <3>3 DEF Timeline
    <3> QED
      BY <1>0, <1>3, <3>2, <3>3
  <2> QED
    BY <1>0, <1>5, <2>1, <2>2, <2>3 DEF Timeline
<1>10. Handled' = Handled /\ Gone' = Gone /\ Handled \in 0..n /\ Gone \in 0..n
  BY <1>0, <1>1, <1>2, <1>3 DEF Handled, Gone, fragVars, List, Timeline
<1>11. BusOrder'
  <2>1. ASSUME NEW i \in 1..Len(bus')
        PROVE  /\ bus'[i].kind = "closed" =>
                    /\ bus'[i].path \in (Handled + 1)..finalized
                    /\ bus'[i].at = written'[bus'[i].path].end
               /\ bus'[i].kind = "opened" =>
                    /\ bus'[i].path \in 1..OpenPath'
                    /\ bus'[i].at = StartOf(written', bus'[i].path)
    <3>1. CASE i \in 1..Len(bus)
      <4>1. bus'[i] = bus[i]
        BY <1>0, <1>6, <3>1
      <4>2. bus[i].kind = "closed" =>
              /\ bus[i].path \in (Handled + 1)..finalized
              /\ bus[i].at = written'[bus[i].path].end
        <5>1. \A p \in (Handled + 1)..finalized : p \in 1..n
          BY <1>0, <1>2, <1>3, <1>10 DEF Timeline
        <5> QED
          BY <1>0, <1>2, <1>5, <3>1, <5>1 DEF BusOrder
      <4>3. bus[i].kind = "opened" =>
              /\ bus[i].path \in 1..OpenPath'
              /\ bus[i].at = StartOf(written', bus[i].path)
        BY <1>0, <1>2, <1>3, <1>7, <3>1 DEF BusOrder
      <4> QED
        BY <4>1, <4>2, <4>3
    <3>2. CASE i = Len(bus) + 1
      BY <1>3, <1>4, <1>6, <1>7, <3>2
    <3> QED
      BY <1>0, <1>3, <1>6, <3>1, <3>2
  <2>2. ASSUME NEW i \in 1..Len(bus'), NEW j \in 1..Len(bus'), i < j,
               bus'[i].kind = "closed", bus'[j].kind = "closed"
        PROVE  bus'[i].path < bus'[j].path
    <3>1. j # Len(bus) + 1
      BY <1>4, <1>6, <2>2
    <3>2. i \in 1..Len(bus) /\ j \in 1..Len(bus)
      BY <1>3, <1>6, <2>2, <3>1
    <3> QED
      BY <1>0, <1>2, <1>6, <2>2, <3>2 DEF BusOrder
  <2>3. ASSUME NEW p \in (Handled + 1)..finalized
        PROVE  \E i \in 1..Len(bus') : bus'[i].kind = "closed" /\ bus'[i].path = p
    <3>1. PICK i \in 1..Len(bus) : bus[i].kind = "closed" /\ bus[i].path = p
      BY <1>0, <1>2 DEF BusOrder
    <3> QED
      BY <1>0, <1>3, <1>6, <3>1
  <2> QED
    BY <1>0, <1>1, <1>10, <2>1, <2>2, <2>3 DEF BusOrder
<1>12. OpenTimes'
  BY <1>0, <1>1, <1>2, <1>3, <1>7 DEF OpenTimes, fragVars
<1>13. List' /\ PrunedIsOld'
  <2>1. \A i \in 1..Len(fragments) : Gone + i \in 1..n
    BY <1>0, <1>2, <1>3, <1>10 DEF List, Gone, Timeline
  <2>2. List'
    BY <1>0, <1>1, <1>2, <1>5, <1>10, <2>1 DEF List, fragVars
  <2>3. \A p \in 1..Gone : p \in 1..n
    BY <1>0, <1>3, <1>10
  <2>4. PrunedIsOld'
    BY <1>0, <1>1, <1>2, <1>5, <1>10, <2>3 DEF PrunedIsOld
  <2> QED
    BY <2>2, <2>4
<1>14. NoOrphanFiles'
  <2>1. (Handled + 1)..OpenPath' = ((Handled + 1)..OpenPath) \cup {OpenPath + 1}
    BY <1>0, <1>3, <1>7, <1>10
  <2> QED
    BY <1>0, <1>1, <1>2, <1>10, <2>1 DEF NoOrphanFiles, fragVars
<1>15. Saves'
  <2>1. Grows
    BY <1>0, <1>3, <1>5 DEF Grows
  <2> QED
    BY <1>0, <1>1, <1>2, <1>3, <2>1, SavesStay
       DEF IInv, Timeline, requestVars, fragVars
<1> QED
  BY <1>0, <1>8, <1>9, <1>11, <1>12, <1>13, <1>14, <1>15 DEF IInv, Disk

\* SinkFinalizes
LEMMA SinkFinalizesStep == ASSUME IInv, SinkFinalizes PROVE IInv'
<1> DEFINE p0 == finalized + 1
           message == [kind |-> "closed", path |-> p0, at |-> written[p0].end]
<1>1. /\ finalized < Len(written) /\ finalized' = p0 /\ bus' = Append(bus, message)
      /\ UNCHANGED <<now, sink, openStart, written, files, stateVars, fragVars,
                     cutoffs, markVars, saver, outcome>>
  BY DEF SinkFinalizes
<1>2. /\ TypeOK /\ Timeline /\ BusOrder /\ OpenTimes /\ List /\ PrunedIsOld
      /\ NoOrphanFiles
  BY DEF IInv, Disk
<1>3. /\ now \in Nat /\ Len(written) \in Nat /\ Len(bus) \in Nat /\ finalized \in Nat
      /\ Handled \in Nat /\ Handled <= finalized /\ p0 \in 1..Len(written)
      /\ written[p0].end \in 0..MaxTime
  BY <1>1, <1>2, Numbers, RecorderAssumption DEF List
<1>4. message \in Message /\ message.kind = "closed" /\ message.path = p0
      /\ message.at = written[p0].end
  BY <1>3 DEF Message
<1> HIDE DEF message
<1>5. /\ bus' \in Seq(Message) /\ Len(bus') = Len(bus) + 1
      /\ \A i \in 1..Len(bus) : bus'[i] = bus[i]
      /\ bus'[Len(bus) + 1] = message
  BY <1>1, <1>2, <1>4, AppendProperties DEF TypeOK
<1>6. TypeOK'
  BY <1>1, <1>2, <1>3, <1>5 DEF TypeOK, stateVars, fragVars, markVars
<1>7. Handled' = Handled /\ Gone' = Gone /\ OpenPath' = OpenPath
      /\ \A p : StartOf(written', p) = StartOf(written, p)
  BY <1>1 DEF Handled, Gone, OpenPath, StartOf, fragVars
<1>8. Timeline' /\ OpenTimes' /\ List' /\ PrunedIsOld' /\ NoOrphanFiles'
  <2>1. Timeline'
    BY <1>1, <1>2, <1>3, <1>7 DEF Timeline
  <2>2. OpenTimes' /\ PrunedIsOld' /\ NoOrphanFiles'
    BY <1>1, <1>2, <1>7 DEF OpenTimes, PrunedIsOld, NoOrphanFiles, fragVars
  <2>3. List'
    <3>1. Handled \in 0..p0
      BY <1>2, <1>3 DEF List
    <3> QED
      BY <1>1, <1>2, <1>7, <3>1 DEF List, fragVars
  <2> QED
    BY <2>1, <2>2, <2>3
<1>9. BusOrder'
  <2>1. ASSUME NEW i \in 1..Len(bus')
        PROVE  /\ bus'[i].kind = "closed" =>
                    /\ bus'[i].path \in (Handled + 1)..p0
                    /\ bus'[i].at = written[bus'[i].path].end
               /\ bus'[i].kind = "opened" =>
                    /\ bus'[i].path \in 1..OpenPath
                    /\ bus'[i].at = StartOf(written, bus'[i].path)
    <3>1. CASE i \in 1..Len(bus)
      <4>1. \A p \in (Handled + 1)..finalized : p \in (Handled + 1)..p0
        BY <1>3
      <4> QED
        BY <1>2, <1>5, <3>1, <4>1 DEF BusOrder
    <3>2. CASE i = Len(bus) + 1
      BY <1>3, <1>4, <1>5, <3>2
    <3> QED
      BY <1>3, <1>5, <3>1, <3>2
  <2>2. ASSUME NEW i \in 1..Len(bus'), NEW j \in 1..Len(bus'), i < j,
               bus'[i].kind = "closed", bus'[j].kind = "closed"
        PROVE  bus'[i].path < bus'[j].path
    <3>1. i \in 1..Len(bus)
      BY <1>3, <1>5, <2>2
    <3>2. CASE j \in 1..Len(bus)
      BY <1>2, <1>5, <2>2, <3>1, <3>2 DEF BusOrder
    <3>3. CASE j = Len(bus) + 1
      <4>1. bus'[i].path \in (Handled + 1)..finalized /\ bus'[j].path = p0
        BY <1>2, <1>4, <1>5, <2>2, <3>1, <3>3 DEF BusOrder
      <4> QED
        BY <1>3, <4>1
    <3> QED
      BY <1>3, <1>5, <3>2, <3>3
  <2>3. ASSUME NEW p \in (Handled + 1)..p0
        PROVE  \E i \in 1..Len(bus') : bus'[i].kind = "closed" /\ bus'[i].path = p
    <3>1. CASE p \in (Handled + 1)..finalized
      <4>1. PICK i \in 1..Len(bus) : bus[i].kind = "closed" /\ bus[i].path = p
        BY <1>2, <3>1 DEF BusOrder
      <4> QED
        BY <1>3, <1>5, <4>1
    <3>2. CASE p = p0
      <4>1. Len(bus) + 1 \in 1..Len(bus')
        BY <1>3, <1>5
      <4> QED
        BY <1>4, <1>5, <3>2, <4>1
    <3> QED
      BY <1>3, <3>1, <3>2
  <2> QED
    BY <1>1, <1>7, <2>1, <2>2, <2>3 DEF BusOrder
<1>10. Saves'
  <2>1. Grows
    BY <1>1, <1>3 DEF Grows
  <2> QED
    BY <1>1, <1>2, <1>3, <2>1, SavesStay
       DEF IInv, Timeline, requestVars, fragVars
<1> QED
  BY <1>6, <1>8, <1>9, <1>10 DEF IInv, Disk

\* SinkFails
LEMMA SinkFailsStep == ASSUME IInv, SinkFails PROVE IInv'
<1> DEFINE message == [kind |-> "failed", path |-> 0, at |-> now]
<1>1. /\ sink' = "failed" /\ bus' = Append(bus, message)
      /\ UNCHANGED <<now, openStart, written, finalized, files, stateVars, fragVars,
                     cutoffs, markVars, saver, outcome>>
  BY DEF SinkFails
<1>2. /\ TypeOK /\ Timeline /\ BusOrder /\ OpenTimes /\ List /\ PrunedIsOld
      /\ NoOrphanFiles
  BY DEF IInv, Disk
<1>3. /\ now \in Nat /\ now \in 0..MaxTime /\ Len(written) \in Nat /\ Len(bus) \in Nat
  BY <1>2, Numbers DEF TypeOK
<1>4. message \in Message /\ message.kind = "failed"
  BY <1>3 DEF Message
<1> HIDE DEF message
<1>5. /\ bus' \in Seq(Message) /\ Len(bus') = Len(bus) + 1
      /\ \A i \in 1..Len(bus) : bus'[i] = bus[i]
      /\ bus'[Len(bus) + 1] = message
  BY <1>1, <1>2, <1>4, AppendProperties DEF TypeOK
<1>6. TypeOK'
  BY <1>1, <1>2, <1>5 DEF TypeOK, stateVars, fragVars, markVars
<1>7. Handled' = Handled /\ Gone' = Gone /\ OpenPath' = OpenPath
      /\ \A p : StartOf(written', p) = StartOf(written, p)
  BY <1>1 DEF Handled, Gone, OpenPath, StartOf, fragVars
<1>8. Timeline' /\ OpenTimes' /\ List' /\ PrunedIsOld' /\ NoOrphanFiles'
  BY <1>1, <1>2, <1>7 DEF Timeline, OpenTimes, List, PrunedIsOld, NoOrphanFiles, fragVars
<1>9. BusOrder'
  <2>1. \A i \in 1..Len(bus') : bus'[i].kind # "failed" => i \in 1..Len(bus)
    BY <1>3, <1>4, <1>5
  <2>2. \A i \in 1..Len(bus) : i \in 1..Len(bus')
    BY <1>3, <1>5
  <2>3. ASSUME NEW i \in 1..Len(bus')
        PROVE  /\ bus'[i].kind = "closed" =>
                    /\ bus'[i].path \in (Handled + 1)..finalized
                    /\ bus'[i].at = written[bus'[i].path].end
               /\ bus'[i].kind = "opened" =>
                    /\ bus'[i].path \in 1..OpenPath
                    /\ bus'[i].at = StartOf(written, bus'[i].path)
    BY <1>2, <1>5, <2>1 DEF BusOrder
  <2>4. ASSUME NEW i \in 1..Len(bus'), NEW j \in 1..Len(bus'), i < j,
               bus'[i].kind = "closed", bus'[j].kind = "closed"
        PROVE  bus'[i].path < bus'[j].path
    BY <1>2, <1>5, <2>1, <2>4 DEF BusOrder
  <2>5. ASSUME NEW p \in (Handled + 1)..finalized
        PROVE  \E i \in 1..Len(bus') : bus'[i].kind = "closed" /\ bus'[i].path = p
    BY <1>2, <1>5, <2>2 DEF BusOrder
  <2> QED
    BY <1>1, <1>7, <2>3, <2>4, <2>5 DEF BusOrder
<1>10. Saves'
  <2>1. Grows
    BY <1>1, <1>3 DEF Grows
  <2> QED
    BY <1>1, <1>2, <1>3, <2>1, SavesStay
       DEF IInv, Timeline, requestVars, fragVars
<1> QED
  BY <1>6, <1>8, <1>9, <1>10 DEF IInv, Disk


-----------------------------------------------------------------------------
(* The bus thread *)

\* What is left of the bus when its first message is taken.
LEMMA PopBus ==
  ASSUME TypeOK, bus # <<>>, bus' = Tail(bus)
  PROVE  /\ Len(bus) \in Nat \ {0} /\ Head(bus) = bus[1] /\ bus[1] \in Message
         /\ bus' \in Seq(Message) /\ Len(bus') = Len(bus) - 1
         /\ \A i \in 1..Len(bus') : i + 1 \in 1..Len(bus) /\ bus'[i] = bus[i + 1]
         /\ \A i \in 1..Len(bus) : i # 1 => i - 1 \in 1..Len(bus') /\ bus'[i - 1] = bus[i]
<1>1. bus \in Seq(Message) /\ Len(bus) \in Nat
  BY DEF TypeOK
<1>2. Len(bus) # 0 /\ Head(bus) = bus[1]
  BY <1>1, EmptySeq
<1>3. bus[1] \in Message
  BY <1>1, <1>2
<1>4. /\ bus' \in Seq(Message) /\ Len(bus') = Len(bus) - 1
      /\ \A i \in 1..Len(bus') : bus'[i] = bus[i + 1]
  BY <1>1, <1>2, HeadTailProperties
<1> QED
  BY <1>1, <1>2, <1>3, <1>4

\* Taking a message that closes nothing.
LEMMA PopOther ==
  ASSUME TypeOK, BusOrder, bus # <<>>, bus' = Tail(bus), Head(bus).kind # "closed",
         UNCHANGED <<sinkVars, fragments>>
  PROVE  BusOrder'
<1>1. /\ written' = written /\ finalized' = finalized /\ OpenPath' = OpenPath
      /\ Handled' = Handled
  BY DEF sinkVars, OpenPath, Handled
<1>2. ASSUME NEW i \in 1..Len(bus')
      PROVE  /\ bus'[i].kind = "closed" =>
                  /\ bus'[i].path \in (Handled + 1)..finalized
                  /\ bus'[i].at = written[bus'[i].path].end
             /\ bus'[i].kind = "opened" =>
                  /\ bus'[i].path \in 1..OpenPath
                  /\ bus'[i].at = StartOf(written, bus'[i].path)
  BY PopBus DEF BusOrder
<1>3. ASSUME NEW i \in 1..Len(bus'), NEW j \in 1..Len(bus'), i < j,
             bus'[i].kind = "closed", bus'[j].kind = "closed"
      PROVE  bus'[i].path < bus'[j].path
  <2>1. /\ i + 1 \in 1..Len(bus) /\ j + 1 \in 1..Len(bus) /\ i + 1 < j + 1
        /\ bus'[i] = bus[i + 1] /\ bus'[j] = bus[j + 1]
    BY <1>3, PopBus
  <2> QED
    BY <1>3, <2>1 DEF BusOrder
<1>4. ASSUME NEW p \in (Handled + 1)..finalized
      PROVE  \E i \in 1..Len(bus') : bus'[i].kind = "closed" /\ bus'[i].path = p
  <2>1. PICK i \in 1..Len(bus) : bus[i].kind = "closed" /\ bus[i].path = p
    BY DEF BusOrder
  <2>2. i # 1
    BY <2>1, PopBus
  <2> QED
    BY ZenonT(30), <2>1, <2>2, PopBus
<1> QED
  BY <1>1, <1>2, <1>3, <1>4 DEF BusOrder

\* BusOpened
LEMMA BusOpenedStep == ASSUME IInv, BusOpened PROVE IInv'
<1> DEFINE m == Head(bus)
<1>1. /\ bus # <<>> /\ m.kind = "opened" /\ bus' = Tail(bus)
      /\ open' = Put(open, m.path, m.at)
      /\ UNCHANGED <<now, sinkVars, files, stateVars, fragments, cutoffs, markVars,
                     saver, outcome>>
  BY DEF BusOpened
<1>2. /\ TypeOK /\ Timeline /\ BusOrder /\ OpenTimes /\ List /\ PrunedIsOld
      /\ NoOrphanFiles
  BY DEF IInv, Disk
<1>3. /\ Len(written) \in Nat /\ OpenPath = Len(written) + 1 /\ now \in Nat
      /\ m.path \in 1..OpenPath /\ m.at = StartOf(written, m.path)
      /\ bus' \in Seq(Message)
  <2>1. m = bus[1] /\ 1 \in 1..Len(bus) /\ bus' \in Seq(Message)
    BY <1>1, <1>2, PopBus
  <2>2. m.path \in 1..OpenPath /\ m.at = StartOf(written, m.path)
    BY <1>1, <1>2, <2>1 DEF BusOrder
  <2> QED
    BY <1>2, <2>1, <2>2, Numbers
<1> HIDE DEF m
<1>4. /\ DOMAIN open' = DOMAIN open \cup {m.path}
      /\ \A p \in DOMAIN open' : open'[p] = IF p = m.path THEN m.at ELSE open[p]
  BY <1>1 DEF Put
<1>5. TypeOK'
  <2>1. m.path \in Nat
    BY <1>3
  <2>2. DOMAIN open' \in SUBSET Nat
    BY <1>2, <1>4, <2>1 DEF TypeOK
  <2> QED
    BY <1>1, <1>2, <1>3, <2>2 DEF TypeOK, sinkVars, stateVars, markVars
<1>6. OpenPath' = OpenPath /\ Handled' = Handled /\ Gone' = Gone /\ written' = written
  BY <1>1 DEF OpenPath, Handled, Gone, sinkVars
<1>7. Timeline' /\ List' /\ PrunedIsOld' /\ NoOrphanFiles'
  BY <1>1, <1>2, <1>6 DEF Timeline, List, PrunedIsOld, NoOrphanFiles, sinkVars
<1>8. OpenTimes'
  BY <1>2, <1>3, <1>4, <1>6 DEF OpenTimes
<1>9. BusOrder'
  BY <1>1, <1>2, PopOther DEF m
<1>10. Saves'
  <2>1. Grows
    BY <1>3, <1>6 DEF Grows
  <2> QED
    BY <1>1, <1>2, <1>3, <2>1, SavesStay DEF IInv, Timeline, requestVars
<1> QED
  BY <1>5, <1>7, <1>8, <1>9, <1>10 DEF IInv, Disk

\* BusFailed
LEMMA BusFailedStep == ASSUME IInv, BusFailed PROVE IInv'
<1>1. /\ bus # <<>> /\ Head(bus).kind = "failed" /\ bus' = Tail(bus)
      /\ running' = FALSE /\ healthy' = FALSE
      /\ UNCHANGED <<now, sinkVars, files, fragVars, cutoffs, markVars, saver, outcome>>
  BY DEF BusFailed
<1>2. /\ TypeOK /\ Timeline /\ BusOrder /\ OpenTimes /\ List /\ PrunedIsOld
      /\ NoOrphanFiles
  BY DEF IInv, Disk
<1>3. Len(written) \in Nat /\ now \in Nat /\ bus' \in Seq(Message)
  BY <1>1, <1>2, PopBus, Numbers
<1>4. TypeOK'
  BY <1>1, <1>2, <1>3 DEF TypeOK, sinkVars, fragVars, markVars
<1>5. OpenPath' = OpenPath /\ Handled' = Handled /\ Gone' = Gone /\ written' = written
  BY <1>1 DEF OpenPath, Handled, Gone, sinkVars, fragVars
<1>6. Timeline' /\ OpenTimes' /\ List' /\ PrunedIsOld' /\ NoOrphanFiles'
  BY <1>1, <1>2, <1>5
     DEF Timeline, OpenTimes, List, PrunedIsOld, NoOrphanFiles, sinkVars, fragVars
<1>7. BusOrder'
  BY <1>1, <1>2, PopOther DEF fragVars
<1>8. Saves'
  <2>1. Grows
    BY <1>3, <1>5 DEF Grows
  <2> QED
    BY <1>1, <1>2, <1>3, <2>1, SavesStay DEF IInv, Timeline, requestVars, fragVars
<1> QED
  BY <1>4, <1>6, <1>7, <1>8 DEF IInv, Disk

\* What taking a closed message does: the next segment joins the list, and the
\* first g fragments, all expired, leave it and the disk.
ClosedShape(g, frags) ==
  /\ Len(frags) = Len(fragments) + 1 - g
  /\ frags \in Seq(Fragment)
  /\ \A i \in 1..Len(frags) :
       /\ frags[i].path = Gone + g + i
       /\ frags[i].start = written[Gone + g + i].start
       /\ frags[i].end = written[Gone + g + i].end
  /\ \A i \in 1..g :
       Expired(written[Gone + i].end, written[Handled + 1].end, cutoffs)
  /\ ~Expired(written[Gone + g + 1].end, written[Handled + 1].end, cutoffs)

\* The closed message at the head of the bus is of the next segment.
LEMMA ClosedIsNext ==
  ASSUME TypeOK, Timeline, BusOrder, List, BusClosed
  PROVE  /\ Head(bus).path = Handled + 1 /\ Head(bus).at = written[Handled + 1].end
         /\ Handled + 1 \in 1..finalized /\ Handled + 1 \in 1..Len(written)
<1>1. /\ Len(bus) \in Nat \ {0} /\ Head(bus) = bus[1] /\ 1 \in 1..Len(bus)
      /\ bus[1].kind = "closed" /\ \A i \in 1..Len(bus) : i # 1 => 1 < i
  BY PopBus DEF BusClosed
<1>2. Handled \in Nat /\ finalized \in Nat /\ Len(written) \in Nat
  BY Numbers
<1>3. bus[1].path \in (Handled + 1)..finalized /\ bus[1].at = written[bus[1].path].end
  BY <1>1 DEF BusOrder
<1>4. Handled + 1 \in (Handled + 1)..finalized
  BY <1>2, <1>3
<1>5. PICK i \in 1..Len(bus) : bus[i].kind = "closed" /\ bus[i].path = Handled + 1
  BY <1>4 DEF BusOrder
<1>6. i = 1
  <2> SUFFICES ASSUME i # 1 PROVE FALSE
    OBVIOUS
  <2>1. bus[1].path < Handled + 1
    BY <1>1, <1>5 DEF BusOrder
  <2> QED
    BY <1>2, <1>3, <2>1
<1> QED
  BY <1>1, <1>2, <1>3, <1>4, <1>5, <1>6 DEF Timeline

\* BusClosed adds that segment and removes the expired ones from list and disk.
LEMMA BusClosedShape ==
  ASSUME TypeOK, Timeline, BusOrder, OpenTimes, List, BusClosed
  PROVE  \E g \in 0..Len(fragments) :
           /\ ClosedShape(g, fragments')
           /\ files' = files \ ((Gone + 1)..(Gone + g))
<1>0. PICK h \in Nat, k \in Nat, n \in Nat :
        h = Handled /\ k = Gone /\ n = Len(fragments) /\ h = k + n
  <2>1. Handled \in Nat /\ Gone \in Nat /\ Len(fragments) \in Nat
    BY Numbers DEF List
  <2>2. Handled = Gone + Len(fragments)
    BY <2>1 DEF Gone
  <2> QED
    BY <2>1, <2>2
<1> DEFINE m == Head(bus)
           f == ClosedFragment(m)
           pushed == Append(fragments, f)
           gone == Pruned(pushed, m.at)
           g == Cardinality(gone)
<1>1. /\ m.path = h + 1 /\ m.at = written[h + 1].end
      /\ h + 1 \in 1..finalized /\ h + 1 \in 1..Len(written)
  BY <1>0, ClosedIsNext
<1>2. fragments' = SubSeq(pushed, g + 1, Len(pushed)) /\ files' = files \ RemovedFiles(pushed, gone)
  BY DEF BusClosed
<1>3. /\ Len(written) \in Nat /\ OpenPath = Len(written) + 1
      /\ \A p \in 1..Len(written) :
           written[p].start \in Nat /\ written[p].end \in Nat /\ written[p] \in Segment
  BY Numbers DEF TypeOK
<1>4. f.path = h + 1 /\ f.start = written[h + 1].start /\ f.end = written[h + 1].end
  <2>1. f.path = m.path /\ f.end = m.at
    BY DEF ClosedFragment
  <2>2. written[h + 1].start = StartOf(written, h + 1)
    BY <1>1 DEF Timeline
  <2>3. CASE m.path \in DOMAIN open
    <3>1. f.start = open[m.path]
      BY <2>3 DEF ClosedFragment
    <3> QED
      BY <1>1, <2>1, <2>2, <2>3, <3>1 DEF OpenTimes
  <2>4. CASE ~(m.path \in DOMAIN open) /\ n = 0
    <3>1. fragments = <<>>
      BY <1>0, <2>4, EmptySeq DEF TypeOK
    <3>2. h = 0
      BY <1>0, <3>1 DEF Handled
    <3>3. f.start = 0
      BY <2>4, <3>1 DEF ClosedFragment
    <3>4. StartOf(written, h + 1) = 0
      BY <3>2 DEF StartOf
    <3> QED
      BY <1>1, <2>1, <2>2, <3>3, <3>4
  <2>5. CASE ~(m.path \in DOMAIN open) /\ n # 0
    <3>1. fragments # <<>> /\ n \in 1..n
      BY <1>0, <2>5
    <3>2. f.start = fragments[n].end
      BY <1>0, <2>5, <3>1 DEF ClosedFragment
    <3>3. fragments[n].end = written[h].end
      BY <1>0, <3>1 DEF List
    <3>4. StartOf(written, h + 1) = written[h].end
      <4>1. h + 1 # 1 /\ h + 1 - 1 = h
        BY <1>0, <3>1
      <4> QED
        BY <4>1 DEF StartOf
    <3> QED
      BY <1>1, <2>1, <2>2, <3>2, <3>3, <3>4
  <2> QED
    BY <2>3, <2>4, <2>5
<1>5. f \in Fragment
  <2>1. written[h + 1] \in Segment /\ h + 1 \in Nat
    BY <1>0, <1>1, <1>3
  <2>2. f = [path |-> f.path, start |-> f.start, end |-> f.end]
    BY DEF ClosedFragment
  <2> HIDE DEF f
  <2>3. f.path \in Nat /\ f.start \in 0..MaxTime /\ f.end \in 0..MaxTime
    BY <1>4, <2>1 DEF Segment
  <2> QED
    BY <2>2, <2>3 DEF Fragment
<1> HIDE DEF f, m
<1>6. /\ pushed \in Seq(Fragment) /\ Len(pushed) = n + 1
      /\ \A i \in 1..n : pushed[i] = fragments[i]
      /\ pushed[n + 1] = f
  BY <1>0, <1>5, AppendProperties DEF TypeOK
<1> HIDE DEF pushed
<1>7. ASSUME NEW i \in 1..(n + 1)
      PROVE  /\ pushed[i].path = k + i /\ k + i \in 1..Len(written)
             /\ pushed[i].start = written[k + i].start
             /\ pushed[i].end = written[k + i].end
  <2>1. CASE i \in 1..n
    BY SMTT(30), <1>0, <1>1, <1>3, <1>6, <2>1 DEF List
  <2>2. CASE i = n + 1
    BY <1>0, <1>1, <1>4, <1>6, <2>2
  <2> QED
    BY <1>0, <2>1, <2>2
<1>8. g \in 0..(n + 1) /\ gone = 1..g
  BY <1>6, PrunedAreFirst
<1> HIDE DEF g
<1>9. \A i \in gone : \A j \in 1..i : Expired(pushed[j].end, m.at, cutoffs)
  BY DEF Pruned
<1>10. g # n + 1
  <2> SUFFICES ASSUME g = n + 1 PROVE FALSE
    OBVIOUS
  <2>1. n + 1 \in gone /\ n + 1 \in 1..(n + 1)
    BY <1>0, <1>8
  <2>2. Expired(pushed[n + 1].end, m.at, cutoffs)
    BY <1>9, <2>1
  <2>3. pushed[n + 1].end = m.at /\ m.at \in Nat
    BY <1>0, <1>1, <1>3, <1>4, <1>6
  <2>4. m.at < Before(m.at, ClipLength + BufferSafety + RetentionSlack)
    BY <2>2, <2>3 DEF Expired
  <2>5. ClipLength + BufferSafety + RetentionSlack \in Nat
    BY RecorderAssumption
  <2>6. \A d \in Nat : Before(m.at, d) <= m.at /\ Before(m.at, d) \in Nat
    BY <2>3 DEF Before
  <2>7. ASSUME NEW b \in Nat, b <= m.at, m.at < b PROVE FALSE
    BY <2>3, <2>7
  <2> QED
    BY <2>4, <2>5, <2>6, <2>7
<1>11. g \in 0..n /\ g + 1 \in 1..(n + 1)
  BY <1>0, <1>8, <1>10
<1>12. \A i \in 1..g : Expired(pushed[i].end, m.at, cutoffs)
  BY <1>8, <1>9, <1>11
<1>13. ~Expired(pushed[g + 1].end, m.at, cutoffs)
  <2> SUFFICES ASSUME Expired(pushed[g + 1].end, m.at, cutoffs) PROVE FALSE
    OBVIOUS
  <2>1. \A j \in 1..(g + 1) : j = g + 1 \/ j \in 1..g
    BY <1>11
  <2>2. \A j \in 1..(g + 1) : Expired(pushed[j].end, m.at, cutoffs)
    BY <1>12, <2>1
  <2>3. g + 1 \in DOMAIN pushed
    BY <1>6, <1>11
  <2>4. g + 1 \in gone
    BY <2>2, <2>3 DEF Pruned
  <2> QED
    BY <1>8, <1>11, <2>4
<1> HIDE DEF gone
<1>14. /\ fragments' \in Seq(Fragment) /\ Len(fragments') = n + 1 - g
       /\ \A i \in 1..(n + 1 - g) : fragments'[i] = pushed[g + i]
  <2>1. \A i \in (g + 1)..(n + 1) : i \in 1..(n + 1) /\ pushed[i] \in Fragment
    BY <1>0, <1>6, <1>11
  <2>2. g + 1 \in 1..(n + 2) /\ n + 1 \in Nat
    BY <1>0, <1>11
  <2>3. fragments' = SubSeq(pushed, g + 1, n + 1)
    BY <1>2, <1>6
  <2>4. /\ fragments' \in Seq(Fragment)
        /\ Len(fragments') = (n + 1) - (g + 1) + 1
        /\ \A i \in 1..((n + 1) - (g + 1) + 1) : fragments'[i] = pushed[(g + 1) + i - 1]
    BY <1>0, <1>6, <1>11, <2>1, <2>2, <2>3, SubSeqProperties
  <2>5. (n + 1) - (g + 1) + 1 = n + 1 - g /\ \A i \in 1..(n + 1 - g) : (g + 1) + i - 1 = g + i
    BY <1>0, <1>11
  <2> QED
    BY <2>4, <2>5
<1>15. ClosedShape(g, fragments')
  <2>1. ASSUME NEW i \in 1..(n + 1 - g)
        PROVE  /\ fragments'[i].path = k + g + i
               /\ fragments'[i].start = written[k + g + i].start
               /\ fragments'[i].end = written[k + g + i].end
    <3>1. g + i \in 1..(n + 1) /\ k + (g + i) = k + g + i
      BY <1>0, <1>11
    <3> QED
      BY <1>7, <1>14, <3>1
  <2>2. \A i \in 1..g : i \in 1..(n + 1)
    BY <1>0, <1>11
  <2>3. \A i \in 1..g : Expired(written[k + i].end, written[h + 1].end, cutoffs)
    BY <1>1, <1>7, <1>12, <2>2
  <2>4. k + (g + 1) = k + g + 1
    BY <1>0, <1>11
  <2>5. ~Expired(written[k + g + 1].end, written[h + 1].end, cutoffs)
    BY <1>1, <1>7, <1>11, <1>13, <2>4
  <2> QED
    BY <1>0, <1>14, <2>1, <2>3, <2>5 DEF ClosedShape
<1>16. RemovedFiles(pushed, gone) = (k + 1)..(k + g)
  <2>1. RemovedFiles(pushed, gone) = {pushed[i].path : i \in 1..g}
    BY <1>8 DEF RemovedFiles
  <2>2. \A i \in 1..g : pushed[i].path = k + i /\ k + i \in (k + 1)..(k + g)
    BY <1>0, <1>7, <1>11
  <2>3. ASSUME NEW p \in (k + 1)..(k + g) PROVE p - k \in 1..g /\ k + (p - k) = p
    BY <1>0, <1>11
  <2> QED
    BY <2>1, <2>2, <2>3
<1> QED
  BY <1>0, <1>2, <1>11, <1>15, <1>16

\* The files on disk are those of the segments that were not pruned.
LEMMA FilesAre ==
  ASSUME TypeOK, Timeline, List, NoOrphanFiles
  PROVE  files = (Gone + 1)..OpenPath
<1>1. PICK n \in Nat : n = Len(fragments)
  BY Numbers
<1>2. /\ Gone \in Nat /\ OpenPath \in Nat /\ Handled = Gone + n /\ Handled <= OpenPath
      /\ DOMAIN fragments = 1..n
  BY <1>1, Numbers DEF List, Gone, Timeline, TypeOK
<1>3. \A i \in 1..n : fragments[i].path = Gone + i
  BY <1>1 DEF List
<1>4. ASSUME NEW p PROVE p \in files <=> p \in (Gone + 1)..OpenPath
  <2>1. p \in files <=> \/ \E i \in 1..n : p = Gone + i
                        \/ p \in (Handled + 1)..OpenPath
    BY <1>2, <1>3 DEF NoOrphanFiles
  <2>2. \A i \in 1..n : Gone + i \in (Gone + 1)..OpenPath
    BY <1>1, <1>2
  <2>3. ASSUME p \in (Gone + 1)..OpenPath, ~(p \in (Handled + 1)..OpenPath)
        PROVE  p - Gone \in 1..n /\ p = Gone + (p - Gone)
    BY <1>1, <1>2, <2>3
  <2>4. p \in (Handled + 1)..OpenPath => p \in (Gone + 1)..OpenPath
    BY <1>1, <1>2
  <2> QED
    BY <2>1, <2>2, <2>3, <2>4
<1> QED
  BY <1>2, <1>4 DEF NoOrphanFiles

\* The ends of the segments grow.
LEMMA EndsGrow ==
  ASSUME TypeOK, Timeline, NEW p \in 1..Len(written), NEW q \in 1..Len(written), p <= q
  PROVE  written[p].end <= written[q].end /\ written[p].start <= written[q].start
<1>1. Len(written) \in Nat
  BY Numbers
<1>2. CASE p = q
  BY <1>2, Numbers
<1>3. CASE p < q
  <2>1. /\ written[p].end <= written[q].start
        /\ written[p].start < written[p].end /\ written[q].start < written[q].end
    BY <1>3 DEF Timeline
  <2>2. /\ written[p].start \in Nat /\ written[p].end \in Nat
        /\ written[q].start \in Nat /\ written[q].end \in Nat
    BY Numbers
  <2> QED
    BY <2>1, <2>2
<1> QED
  BY <1>1, <1>2, <1>3

\* BusClosed
LEMMA BusClosedStep == ASSUME IInv, BusClosed PROVE IInv'
<1>1. /\ bus # <<>> /\ bus' = Tail(bus) /\ open' = Erase(open, Head(bus).path)
      /\ UNCHANGED <<now, sinkVars, stateVars, cutoffs, markVars, saver, outcome>>
  BY DEF BusClosed
<1>2. /\ TypeOK /\ Timeline /\ BusOrder /\ OpenTimes /\ List /\ PrunedIsOld
      /\ NoOrphanFiles /\ Saves
  BY DEF IInv, Disk
<1>3. PICK g \in 0..Len(fragments) :
        ClosedShape(g, fragments') /\ files' = files \ ((Gone + 1)..(Gone + g))
  BY <1>2, BusClosedShape
<1>4. PICK h \in Nat, k \in Nat, n \in Nat :
        h = Handled /\ k = Gone /\ n = Len(fragments) /\ h = k + n
  <2>1. Handled \in Nat /\ Gone \in Nat /\ Len(fragments) \in Nat
    BY <1>2, Numbers DEF List
  <2>2. Handled = Gone + Len(fragments)
    BY <2>1 DEF Gone
  <2> QED
    BY <2>1, <2>2
<1>5. g \in 0..n
  BY <1>3, <1>4
<1>6. /\ now \in Nat /\ Len(written) \in Nat /\ finalized \in Nat /\ OpenPath \in Nat
      /\ OpenPath = Len(written) + 1 /\ Len(bus) \in Nat
      /\ \A p \in 1..Len(written) : written[p].end \in Nat
  BY <1>2, Numbers
<1>7. /\ Head(bus).path = h + 1 /\ h + 1 \in 1..finalized /\ h + 1 \in 1..Len(written)
      /\ Head(bus) = bus[1] /\ bus[1].kind = "closed" /\ 1 \in 1..Len(bus)
      /\ bus' \in Seq(Message)
  BY <1>1, <1>2, <1>4, ClosedIsNext, PopBus DEF BusClosed
<1>8. /\ Len(fragments') = n + 1 - g /\ fragments' \in Seq(Fragment)
      /\ \A i \in 1..(n + 1 - g) :
           /\ fragments'[i].path = k + g + i
           /\ fragments'[i].start = written[k + g + i].start
           /\ fragments'[i].end = written[k + g + i].end
      /\ \A i \in 1..g : Expired(written[k + i].end, written[h + 1].end, cutoffs)
  BY <1>3, <1>4 DEF ClosedShape
<1>9. /\ written' = written /\ finalized' = finalized /\ OpenPath' = OpenPath
      /\ now' = now /\ openStart' = openStart
      /\ Handled' = h + 1 /\ Gone' = k + g
  <2>1. fragments' # <<>> /\ n + 1 - g \in 1..(n + 1 - g) /\ k + g + (n + 1 - g) = h + 1
    BY <1>4, <1>5, <1>8
  <2>2. Handled' = h + 1
    BY <1>8, <2>1 DEF Handled
  <2>3. Gone' = h + 1 - (n + 1 - g)
    BY <1>8, <2>2 DEF Gone
  <2> QED
    BY <1>1, <1>4, <1>5, <2>2, <2>3 DEF sinkVars, OpenPath
<1>10. files = (k + 1)..OpenPath /\ files' = (k + g + 1)..OpenPath
  <2>1. files = (k + 1)..OpenPath
    BY <1>2, <1>4, FilesAre
  <2>2. files' = files \ ((k + 1)..(k + g))
    BY <1>3, <1>4
  <2>3. ((k + 1)..OpenPath) \ ((k + 1)..(k + g)) = (k + g + 1)..OpenPath
    BY <1>4, <1>5, <1>6
  <2> QED
    BY <2>1, <2>2, <2>3
<1>11. TypeOK'
  <2>1. DOMAIN open' \in SUBSET Nat
    BY <1>1, <1>2 DEF Erase, TypeOK
  <2>2. files' \in SUBSET Nat
    BY <1>2, <1>3 DEF TypeOK
  <2> QED
    BY <1>1, <1>2, <1>7, <1>8, <2>1, <2>2 DEF TypeOK, sinkVars, stateVars, markVars
<1>12. Timeline' /\ OpenTimes'
  <2>1. Timeline'
    BY <1>2, <1>9 DEF Timeline
  <2>2. DOMAIN open' \subseteq DOMAIN open /\ \A p \in DOMAIN open' : open'[p] = open[p]
    BY <1>1 DEF Erase
  <2>3. OpenTimes'
    BY <1>2, <1>9, <2>2 DEF OpenTimes
  <2> QED
    BY <2>1, <2>3
<1>13. BusOrder'
  <2>1. ASSUME NEW i \in 1..Len(bus')
        PROVE  /\ bus'[i].kind = "closed" =>
                    /\ bus'[i].path \in (h + 2)..finalized
                    /\ bus'[i].at = written[bus'[i].path].end
               /\ bus'[i].kind = "opened" =>
                    /\ bus'[i].path \in 1..OpenPath
                    /\ bus'[i].at = StartOf(written, bus'[i].path)
    <3>1. i + 1 \in 1..Len(bus) /\ bus'[i] = bus[i + 1] /\ 1 < i + 1
      BY <1>1, <1>2, PopBus
    <3>2. bus[i + 1].kind = "closed" =>
            bus[1].path < bus[i + 1].path /\ bus[i + 1].path \in (h + 1)..finalized
      BY <1>2, <1>4, <1>7, <3>1 DEF BusOrder
    <3>3. bus[i + 1].kind = "closed" => bus[i + 1].path \in (h + 2)..finalized
      BY SMTT(30), <1>4, <1>6, <1>7, <3>2
    <3> QED
      BY <1>2, <3>1, <3>3 DEF BusOrder
  <2>2. ASSUME NEW i \in 1..Len(bus'), NEW j \in 1..Len(bus'), i < j,
               bus'[i].kind = "closed", bus'[j].kind = "closed"
        PROVE  bus'[i].path < bus'[j].path
    <3>1. /\ i + 1 \in 1..Len(bus) /\ j + 1 \in 1..Len(bus) /\ i + 1 < j + 1
          /\ bus'[i] = bus[i + 1] /\ bus'[j] = bus[j + 1]
      BY <1>1, <1>2, <2>2, PopBus
    <3> QED
      BY <1>2, <2>2, <3>1 DEF BusOrder
  <2>3. ASSUME NEW p \in (h + 2)..finalized
        PROVE  \E i \in 1..Len(bus') : bus'[i].kind = "closed" /\ bus'[i].path = p
    <3>1. p \in (h + 1)..finalized /\ p # h + 1
      BY <1>4, <1>6
    <3>2. PICK i \in 1..Len(bus) : bus[i].kind = "closed" /\ bus[i].path = p
      BY <1>2, <1>4, <3>1 DEF BusOrder
    <3>3. i # 1
      BY <1>7, <3>1, <3>2
    <3> QED
      BY ZenonT(30), <1>1, <1>2, <3>2, <3>3, PopBus
  <2>4. h + 1 + 1 = h + 2
    BY <1>4
  <2> QED
    BY <1>9, <2>1, <2>2, <2>3, <2>4 DEF BusOrder
<1>14. List'
  <2>1. h + 1 \in 0..finalized /\ k + g \in Nat
    BY <1>4, <1>5, <1>7
  <2> QED
    BY <1>8, <1>9, <2>1 DEF List
<1>15. ASSUME NEW p \in 1..(k + g)
       PROVE  p \in 1..k \/ Expired(written[p].end, written[h + 1].end, cutoffs)
  <2>1. CASE p <= k
    BY <1>4, <2>1
  <2>2. CASE p > k
    <3>1. p - k \in 1..g /\ k + (p - k) = p
      BY <1>4, <1>5, <2>2
    <3> QED
      BY <1>8, <3>1
  <2> QED
    BY <1>4, <1>5, <2>1, <2>2
<1>16. PrunedIsOld'
  <2> DEFINE d == ClipLength + BufferSafety + RetentionSlack
  <2>1. d \in Nat
    BY RecorderAssumption
  <2>2. written[h + 1].end <= now /\ written[h + 1].end \in Nat
    <3>1. written[h + 1].end <= openStart /\ openStart <= now /\ openStart \in Nat
      BY <1>2, <1>7, Numbers DEF Timeline
    <3> QED
      BY SMTT(30), <1>6, <1>7, <3>1
  <2>3. Before(written[h + 1].end, d) <= Before(now, d)
        /\ Before(written[h + 1].end, d) \in Nat /\ Before(now, d) \in Nat
    BY SMTT(30), <1>6, <2>1, <2>2, BeforeGrows DEF Before
  <2>4. ASSUME NEW p \in 1..(k + g) PROVE written[p].end < Before(now, d)
    <3>1. CASE p \in 1..k
      BY <1>2, <1>4, <3>1 DEF PrunedIsOld
    <3>2. CASE Expired(written[p].end, written[h + 1].end, cutoffs)
      <4>1. written[p].end < Before(written[h + 1].end, d)
        BY <3>2 DEF Expired
      <4>2. p \in 1..Len(written)
        BY <1>4, <1>5, <1>6, <1>7
      <4>3. written[p].end \in Nat
        BY <1>6, <4>2
      <4> HIDE DEF d
      <4> QED
        BY <2>3, <4>1, <4>3
    <3> QED
      BY <1>15, <3>1, <3>2
  <2> QED
    BY <1>9, <2>4 DEF PrunedIsOld
<1>17. NoOrphanFiles'
  <2> DEFINE listed == {fragments'[i].path : i \in DOMAIN fragments'}
  <2>1. DOMAIN fragments' = 1..(n + 1 - g)
    BY <1>8
  <2>2. \A p : p \in listed <=> \E i \in 1..(n + 1 - g) : p = k + g + i
    BY <1>8, <2>1
  <2> HIDE DEF listed
  <2>3. ASSUME NEW p
        PROVE  p \in listed \cup ((h + 2)..OpenPath) <=> p \in (k + g + 1)..OpenPath
    <3>1. \A i \in 1..(n + 1 - g) : k + g + i \in (k + g + 1)..OpenPath
      <4>1. h + 1 <= OpenPath /\ OpenPath \in Nat
        BY <1>6, <1>7
      <4> QED
        BY <1>4, <1>5, <4>1
    <3>2. ASSUME p \in (k + g + 1)..OpenPath, ~(p \in (h + 2)..OpenPath)
          PROVE  p - k - g \in 1..(n + 1 - g) /\ p = k + g + (p - k - g)
      BY <1>4, <1>5, <3>2
    <3>3. p \in (h + 2)..OpenPath => p \in (k + g + 1)..OpenPath
      BY <1>4, <1>5
    <3> QED
      BY ZenonT(30), <2>2, <3>1, <3>2, <3>3
  <2>4. listed \cup ((h + 2)..OpenPath) = (k + g + 1)..OpenPath /\ h + 1 + 1 = h + 2
    BY <1>4, <2>3
  <2> QED
    BY <1>9, <1>10, <2>4 DEF NoOrphanFiles, listed
<1>18. Saves'
  <2>1. /\ cutoffs' = cutoffs /\ markPc' = markPc /\ markTime' = markTime
        /\ saver' = saver /\ outcome' = outcome
    BY <1>1 DEF markVars
  <2>2. Order' /\ Waiting' /\ ClipIsRequestedWindow'
    BY <1>2, <1>9, <2>1
       DEF Saves, Order, Waiting, ClipIsRequestedWindow, CutoffsAreOutstanding, IsMarked
  <2>3. Kept'
    <3>1. ASSUME NEW id \in DOMAIN cutoffs, markPc[id] = "marked", NEW p \in 1..(k + g)
          PROVE  written[p].end < Before(cutoffs[id], ClipLength)
      <4>1. CASE p \in 1..k
        BY <1>2, <1>4, <3>1, <4>1 DEF Saves, Kept
      <4>2. CASE Expired(written[p].end, written[h + 1].end, cutoffs)
        BY <4>2 DEF Expired
      <4> QED
        BY <1>15, <4>1, <4>2
    <3> QED
      BY <1>9, <2>1, <3>1 DEF Kept
  <2>4. Selected'
    <3> SUFFICES ASSUME saver.pc = "mux", saver.path \in {"window", "timeout"}
                 PROVE  Selected'
      BY <2>1 DEF Selected
    <3>1. saver.id \in DOMAIN cutoffs
      BY <1>2 DEF Saves, Selected
    <3>2. ASSUME NEW p \in saver.segments
          PROVE  /\ p \in files' /\ p \in 1..(h + 1)
                 /\ written[p].end > Before(cutoffs[saver.id], ClipLength)
      <4>1. /\ p \in files /\ p \in 1..h
            /\ written[p].end > Before(cutoffs[saver.id], ClipLength)
        BY <1>2, <1>4, <3>2 DEF Saves, Selected
      <4>2. p \in 1..(h + 1) /\ p \in 1..Len(written)
        BY <1>4, <1>6, <1>7, <4>1
      <4>3. cutoffs[saver.id] \in Nat /\ Before(cutoffs[saver.id], ClipLength) \in Nat
        <5>1. cutoffs[saver.id] \in Nat /\ ClipLength \in Nat
          BY <1>2, <3>1, RecorderAssumption DEF TypeOK
        <5> QED
          BY <5>1 DEF Before
      <4>4. ~(p \in (k + 1)..(k + g))
        <5> SUFFICES ASSUME p \in (k + 1)..(k + g) PROVE FALSE
          OBVIOUS
        <5>1. p \in 1..(k + g) /\ ~(p \in 1..k)
          BY <1>4, <1>5
        <5>2. Expired(written[p].end, written[h + 1].end, cutoffs)
          BY <1>15, <5>1
        <5>3. written[p].end < Before(cutoffs[saver.id], ClipLength)
          BY <3>1, <5>2 DEF Expired
        <5> QED
          BY <1>6, <4>1, <4>2, <4>3, <5>3
      <4> QED
        BY <1>3, <1>4, <4>1, <4>2, <4>4
    <3> QED
      BY <1>9, <2>1, <3>1, <3>2 DEF Selected
  <2>5. Reached'
    BY <1>2, <1>9, <2>1 DEF Saves, Reached, Window
  <2> QED
    BY <2>2, <2>3, <2>4, <2>5 DEF Saves
<1> QED
  BY <1>11, <1>12, <1>13, <1>14, <1>16, <1>17, <1>18 DEF IInv, Disk

\* The fragment that closes last, and those that stay, lie in the live window.
LEMMA BusClosedBounds ==
  ASSUME IInv, BusClosed, cutoffs = <<>>
  PROVE  LET last == fragments'[Len(fragments')].end
         IN  \A i \in DOMAIN fragments' :
               last - fragments'[i].end <= ClipLength + BufferSafety + RetentionSlack
<1>1. TypeOK /\ Timeline /\ BusOrder /\ OpenTimes /\ List
  BY DEF IInv, Disk
<1>2. PICK g \in 0..Len(fragments) : ClosedShape(g, fragments')
  BY <1>1, BusClosedShape
<1>3. PICK h \in Nat, k \in Nat, n \in Nat :
        h = Handled /\ k = Gone /\ n = Len(fragments) /\ h = k + n
  <2>1. Handled \in Nat /\ Gone \in Nat /\ Len(fragments) \in Nat
    BY <1>1, Numbers DEF List
  <2>2. Handled = Gone + Len(fragments)
    BY <2>1 DEF Gone
  <2> QED
    BY <2>1, <2>2
<1>4. /\ g \in 0..n /\ Len(written) \in Nat /\ h + 1 \in 1..Len(written)
      /\ \A p \in 1..Len(written) : written[p].end \in Nat
  BY <1>1, <1>2, <1>3, ClosedIsNext, Numbers
<1>5. /\ Len(fragments') = n + 1 - g /\ fragments' \in Seq(Fragment)
      /\ \A i \in 1..(n + 1 - g) : fragments'[i].end = written[k + g + i].end
      /\ ~Expired(written[k + g + 1].end, written[h + 1].end, cutoffs)
  BY <1>2, <1>3 DEF ClosedShape
<1>6. fragments'[n + 1 - g].end = written[h + 1].end
  <2>1. n + 1 - g \in 1..(n + 1 - g) /\ k + g + (n + 1 - g) = h + 1
    BY <1>3, <1>4
  <2> QED
    BY <1>5, <2>1
<1> DEFINE d == ClipLength + BufferSafety + RetentionSlack
<1>7. d \in Nat
  BY RecorderAssumption
<1>8. ~(written[k + g + 1].end < Before(written[h + 1].end, d))
  BY <1>5 DEF Expired
<1> HIDE DEF d
<1>9. k + g + 1 \in 1..Len(written)
  BY <1>3, <1>4
<1>10. written[h + 1].end - written[k + g + 1].end <= d
  BY <1>4, <1>7, <1>8, <1>9 DEF Before
<1>11. ASSUME NEW i \in 1..(n + 1 - g)
       PROVE  written[h + 1].end - fragments'[i].end <= d
  <2>1. k + g + i \in 1..Len(written) /\ k + g + 1 <= k + g + i
    BY <1>3, <1>4
  <2>2. written[k + g + 1].end <= written[k + g + i].end
    BY <1>1, <1>9, <2>1, EndsGrow
  <2>3. /\ fragments'[i].end = written[k + g + i].end
        /\ written[h + 1].end \in Nat /\ written[k + g + 1].end \in Nat
        /\ written[k + g + i].end \in Nat
    BY <1>4, <1>5, <1>9, <2>1
  <2> QED
    BY SMTT(30), <1>7, <1>10, <2>2, <2>3
<1> QED
  BY SMTT(30), <1>5, <1>6, <1>11 DEF d

-----------------------------------------------------------------------------
(* Marking a boundary *)

\* The disk is not touched by the requests.
LEMMA DiskStays ==
  ASSUME Disk, UNCHANGED <<now, sinkVars, bus, files, fragVars>>
  PROVE  Disk' /\ written' = written /\ Handled' = Handled /\ Gone' = Gone
<1>1. /\ now' = now /\ openStart' = openStart /\ written' = written
      /\ finalized' = finalized /\ bus' = bus /\ files' = files
      /\ open' = open /\ fragments' = fragments
  BY DEF sinkVars, fragVars
<1>2. Handled' = Handled /\ Gone' = Gone /\ OpenPath' = OpenPath
  BY <1>1 DEF Handled, Gone, OpenPath
<1>3. Timeline' /\ BusOrder'
  BY <1>1, <1>2 DEF Disk, Timeline, BusOrder
<1>4. OpenTimes' /\ List' /\ PrunedIsOld' /\ NoOrphanFiles'
  BY SMTT(30), <1>1, <1>2 DEF Disk, OpenTimes, List, PrunedIsOld, NoOrphanFiles
<1> QED
  BY <1>1, <1>2, <1>3, <1>4 DEF Disk

\* A request on its way into MarkClipBoundary that nothing depends on yet.
LEMMA Unmarked ==
  ASSUME TypeOK, Saves, NEW id \in Requests, ~IsMarked(id)
  PROVE  /\ outcome[id].kind = "none" /\ id \notin DOMAIN cutoffs
         /\ saver.pc # "idle" => saver.id # id
BY DEF Saves, Order, CutoffsAreOutstanding, IsMarked

\* ReadRunningTime
LEMMA ReadRunningTimeStep ==
  ASSUME IInv, NEW id \in Requests, ReadRunningTime(id)
  PROVE  IInv'
<1>1. /\ markPc[id] = "none" /\ markPc' = [markPc EXCEPT ![id] = "read"]
      /\ markTime' = [markTime EXCEPT ![id] = now]
      /\ UNCHANGED <<now, sinkVars, bus, files, stateVars, fragVars, cutoffs, saver,
                     outcome>>
  BY DEF ReadRunningTime
<1>2. TypeOK /\ Disk /\ Saves /\ now \in Nat /\ now \in 0..MaxTime
  BY Numbers DEF IInv, TypeOK
<1>3. Disk' /\ written' = written /\ Handled' = Handled /\ Gone' = Gone
  BY <1>1, <1>2, DiskStays
<1>4. /\ outcome[id].kind = "none" /\ id \notin DOMAIN cutoffs
      /\ saver.pc # "idle" => saver.id # id
  BY <1>1, <1>2, Unmarked DEF IsMarked
<1>5. /\ cutoffs' = cutoffs /\ saver' = saver /\ outcome' = outcome /\ now' = now
      /\ files' = files
      /\ markPc'[id] = "read" /\ markTime'[id] = now
      /\ \A o \in Requests : o # id => markPc'[o] = markPc[o] /\ markTime'[o] = markTime[o]
  BY <1>1, <1>2 DEF TypeOK
<1>6. TypeOK'
  BY <1>1, <1>2 DEF TypeOK, sinkVars, stateVars, fragVars
<1>7. Order'
  <2>1. CutoffsAreOutstanding'
    BY <1>1, <1>2, <1>4, <1>5 DEF Saves, Order, CutoffsAreOutstanding
  <2>2. \A o \in DOMAIN cutoffs : o \in Requests /\ o # id /\ cutoffs[o] = markTime'[o]
    BY <1>2, <1>4, <1>5 DEF Saves, Order, TypeOK
  <2>3. ASSUME NEW o \in Requests
        PROVE  markTime'[o] <= now /\ (~IsMarked(o)' => outcome[o].kind = "none")
    <3>1. CASE o = id
      BY <1>2, <1>4, <1>5, <3>1
    <3>2. CASE o # id
      BY <1>2, <1>5, <3>2 DEF Saves, Order, IsMarked
    <3> QED
      BY <3>1, <3>2
  <2>4. saver.pc # "idle" =>
          /\ saver.id \in Requests /\ outcome[saver.id].kind = "saving"
          /\ markPc'[saver.id] \in {"marked", "late", "unmarked"}
    BY <1>2, <1>4, <1>5 DEF Saves, Order, IsMarked
  <2> QED
    BY <1>5, <2>1, <2>2, <2>3, <2>4 DEF Order, IsMarked
<1>8. Kept' /\ Waiting' /\ Selected' /\ Reached' /\ ClipIsRequestedWindow'
  <2>1. Kept'
    BY <1>2, <1>3, <1>4, <1>5 DEF Saves, Kept, TypeOK
  <2>2. Waiting' /\ Selected'
    BY <1>2, <1>3, <1>5 DEF Saves, Waiting, Selected
  <2>3. Reached'
    BY <1>2, <1>3, <1>4, <1>5 DEF Saves, Order, Reached, Window
  <2>4. ClipIsRequestedWindow'
    BY <1>2, <1>4, <1>5 DEF Saves, ClipIsRequestedWindow
  <2> QED
    BY <2>1, <2>2, <2>3, <2>4
<1> QED
  BY <1>3, <1>6, <1>7, <1>8 DEF IInv, Saves

\* NoRunningTime
LEMMA NoRunningTimeStep ==
  ASSUME IInv, NEW id \in Requests, NoRunningTime(id)
  PROVE  IInv'
<1>1. /\ markPc[id] = "none" /\ markPc' = [markPc EXCEPT ![id] = "unmarked"]
      /\ UNCHANGED <<now, sinkVars, bus, files, stateVars, fragVars, cutoffs, markTime,
                     saver, outcome>>
  BY DEF NoRunningTime
<1>2. TypeOK /\ Disk /\ Saves
  BY DEF IInv
<1>3. Disk' /\ written' = written /\ Handled' = Handled /\ Gone' = Gone
  BY <1>1, <1>2, DiskStays
<1>4. /\ outcome[id].kind = "none" /\ id \notin DOMAIN cutoffs
      /\ saver.pc # "idle" => saver.id # id
  BY <1>1, <1>2, Unmarked DEF IsMarked
<1>5. /\ cutoffs' = cutoffs /\ saver' = saver /\ outcome' = outcome /\ now' = now
      /\ files' = files /\ markTime' = markTime
      /\ markPc'[id] = "unmarked"
      /\ \A o \in Requests : o # id => markPc'[o] = markPc[o]
  BY <1>1, <1>2 DEF TypeOK
<1>6. TypeOK'
  BY <1>1, <1>2 DEF TypeOK, sinkVars, stateVars, fragVars
<1>7. Order'
  <2>1. CutoffsAreOutstanding'
    BY <1>1, <1>2, <1>4, <1>5 DEF Saves, Order, CutoffsAreOutstanding
  <2>2. saver.pc # "idle" =>
          /\ saver.id \in Requests /\ outcome[saver.id].kind = "saving"
          /\ markPc'[saver.id] \in {"marked", "late", "unmarked"}
    BY <1>2, <1>4, <1>5 DEF Saves, Order, IsMarked
  <2> QED
    BY <1>2, <1>4, <1>5, <2>1, <2>2 DEF Saves, Order, IsMarked
<1>8. Kept' /\ Waiting' /\ Selected' /\ Reached' /\ ClipIsRequestedWindow'
  <2>1. Kept'
    BY <1>2, <1>3, <1>4, <1>5 DEF Saves, Kept, TypeOK
  <2>2. Waiting' /\ Selected'
    BY <1>2, <1>3, <1>5 DEF Saves, Waiting, Selected
  <2>3. Reached'
    BY <1>2, <1>3, <1>4, <1>5 DEF Saves, Order, Reached, Window
  <2>4. ClipIsRequestedWindow'
    BY <1>2, <1>4, <1>5 DEF Saves, ClipIsRequestedWindow
  <2> QED
    BY <2>1, <2>2, <2>3, <2>4
<1> QED
  BY <1>3, <1>6, <1>7, <1>8 DEF IInv, Saves

\* A boundary that was recorded within the slack: its window has not been pruned.
LEMMA WindowIsKept ==
  ASSUME NEW t \in Nat, NEW s \in Nat, NEW slack \in Nat, NEW length \in Nat,
         s - t <= slack, NEW end \in Nat, end < Before(s, length + slack)
  PROVE  end < Before(t, length)
BY DEF Before

\* RecordCutoff
LEMMA RecordCutoffStep ==
  ASSUME IInv, NEW id \in Requests, RecordCutoff(id)
  PROVE  IInv'
<1> DEFINE slack == BufferSafety + RetentionSlack
           pc == IF now - markTime[id] <= slack THEN "marked" ELSE "late"
<1>1. /\ markPc[id] = "read" /\ markPc' = [markPc EXCEPT ![id] = pc]
      /\ cutoffs' = Put(cutoffs, id, markTime[id])
      /\ UNCHANGED <<now, sinkVars, bus, files, stateVars, fragVars, markTime, saver,
                     outcome>>
  BY DEF RecordCutoff
<1>2. TypeOK /\ Disk /\ Saves
  BY DEF IInv
<1>3. Disk' /\ written' = written /\ Handled' = Handled /\ Gone' = Gone
  BY <1>1, <1>2, DiskStays
<1>4. /\ outcome[id].kind = "none" /\ id \notin DOMAIN cutoffs
      /\ saver.pc # "idle" => saver.id # id
  BY <1>1, <1>2, Unmarked DEF IsMarked
<1>5. pc \in {"marked", "late"} /\ (pc = "marked" => now - markTime[id] <= slack)
  OBVIOUS
<1> HIDE DEF pc, slack
<1>6. /\ saver' = saver /\ outcome' = outcome /\ now' = now /\ files' = files
      /\ markTime' = markTime /\ markPc'[id] = pc
      /\ \A o \in Requests : o # id => markPc'[o] = markPc[o]
      /\ DOMAIN cutoffs' = DOMAIN cutoffs \cup {id} /\ cutoffs'[id] = markTime[id]
      /\ \A o \in DOMAIN cutoffs : o # id => cutoffs'[o] = cutoffs[o]
  BY <1>1, <1>2 DEF TypeOK, Put
<1>7. TypeOK'
  <2>1. markPc' \in [Requests -> {"none", "read", "marked", "late", "unmarked"}]
    BY <1>1, <1>2, <1>5 DEF TypeOK
  <2>2. markTime[id] \in 0..MaxTime
    BY <1>2 DEF TypeOK
  <2>3. DOMAIN cutoffs' \in SUBSET Requests /\ \A o \in DOMAIN cutoffs' : cutoffs'[o] \in 0..MaxTime
    BY <1>2, <1>6, <2>2 DEF TypeOK
  <2> QED
    BY <1>1, <1>2, <2>1, <2>3 DEF TypeOK, sinkVars, stateVars, fragVars
<1>8. Order'
  <2>1. CutoffsAreOutstanding'
    BY <1>2, <1>4, <1>5, <1>6 DEF Saves, Order, CutoffsAreOutstanding
  <2>2. saver.pc # "idle" =>
          /\ saver.id \in Requests /\ outcome[saver.id].kind = "saving"
          /\ markPc'[saver.id] \in {"marked", "late", "unmarked"}
    BY <1>2, <1>4, <1>6 DEF Saves, Order, IsMarked
  <2>3. \A o \in DOMAIN cutoffs' : cutoffs'[o] = markTime[o]
    BY <1>2, <1>4, <1>6 DEF Saves, Order
  <2>4. \A o \in Requests : markTime[o] <= now /\ (~IsMarked(o)' => outcome[o].kind = "none")
    BY <1>2, <1>4, <1>6 DEF Saves, Order, IsMarked
  <2> QED
    BY <1>6, <2>1, <2>2, <2>3, <2>4 DEF Order, IsMarked
<1>9. Kept'
  <2>1. ASSUME pc = "marked", NEW p \in 1..Gone
        PROVE  written[p].end < Before(markTime[id], ClipLength)
    <3>1. /\ markTime[id] \in Nat /\ now \in Nat /\ slack \in Nat /\ ClipLength \in Nat
          /\ now - markTime[id] <= slack
      BY <1>2, <1>5, <2>1, RecorderAssumption DEF TypeOK, slack
    <3>2. ClipLength + BufferSafety + RetentionSlack = ClipLength + slack
      BY RecorderAssumption DEF slack
    <3>3. p \in 1..Len(written)
      BY <1>2, Numbers DEF Disk, List, Gone, Timeline
    <3>4. written[p].end \in Nat
      BY <1>2, <3>3, Numbers
    <3>5. written[p].end < Before(now, ClipLength + slack)
      BY <1>2, <3>2 DEF Disk, PrunedIsOld
    <3> QED
      BY <3>1, <3>4, <3>5, WindowIsKept
  <2>2. ASSUME NEW o \in DOMAIN cutoffs', markPc'[o] = "marked", NEW p \in 1..Gone
        PROVE  written[p].end < Before(cutoffs'[o], ClipLength)
    <3>1. CASE o = id
      BY <1>6, <2>1, <2>2, <3>1
    <3>2. CASE o # id
      BY <1>2, <1>6, <2>2, <3>2 DEF Saves, Kept, TypeOK
    <3> QED
      BY <3>1, <3>2
  <2> QED
    BY <1>3, <2>2 DEF Kept
<1>10. Waiting' /\ Selected' /\ Reached' /\ ClipIsRequestedWindow'
  <2>1. Waiting' /\ Selected'
    BY <1>2, <1>3, <1>4, <1>6 DEF Saves, Waiting, Selected
  <2>2. Reached'
    BY <1>2, <1>3, <1>4, <1>6 DEF Saves, Order, Selected, Reached, Window
  <2>3. ClipIsRequestedWindow'
    BY <1>2, <1>4, <1>6 DEF Saves, ClipIsRequestedWindow
  <2> QED
    BY <2>1, <2>2, <2>3
<1> QED
  BY <1>3, <1>7, <1>8, <1>9, <1>10 DEF IInv, Saves

-----------------------------------------------------------------------------
(* SaveClip *)

SaverFields == {"pc", "id", "deadline", "segments", "available", "endTrim", "path"}

\* A record with the fields of a save, each of its type, is one.
LEMMA IsSaver ==
  ASSUME NEW q, DOMAIN q = SaverFields, q = [k \in DOMAIN q |-> q[k]],
         q["pc"] \in {"idle", "lookup", "wait", "poll", "mux"},
         q["id"] \in Requests \cup {NoId}, q["deadline"] \in Nat,
         q["segments"] \in SUBSET Nat, q["available"] \in Int, q["endTrim"] \in Nat,
         q["path"] \in {"none", "window", "timeout", "recent"}
  PROVE  q \in Saver
BY DEF Saver, SaverFields

\* No save in progress.
LEMMA IdleIsSaver == Idle \in Saver /\ Idle.pc = "idle"
BY DEF Idle, Saver, NoId

\* A deadline is a time.
LEMMA DeadlineType == ASSUME TypeOK, NEW w \in Nat PROVE Deadline(w) \in Nat
BY Numbers, RecorderAssumption DEF Deadline, MinOf

\* A step of SaveClip that answers nothing yet.
LEMMA SaverMoves ==
  ASSUME IInv, saver.pc # "idle", saver' \in Saver, saver'.id = saver.id,
         UNCHANGED <<now, sinkVars, bus, files, stateVars, fragVars, cutoffs, markVars,
                     outcome>>,
         Waiting', Selected', Reached'
  PROVE  IInv'
<1>1. TypeOK /\ Disk /\ Saves
  BY DEF IInv
<1>2. Disk' /\ written' = written /\ Handled' = Handled /\ Gone' = Gone
  BY <1>1, DiskStays
<1>3. /\ cutoffs' = cutoffs /\ outcome' = outcome /\ now' = now
      /\ markPc' = markPc /\ markTime' = markTime
  BY DEF markVars
<1>4. TypeOK'
  BY <1>1 DEF TypeOK, sinkVars, stateVars, fragVars, markVars
<1>5. Order'
  <2>1. CutoffsAreOutstanding'
    BY <1>1, <1>3 DEF Saves, Order, CutoffsAreOutstanding
  <2>2. saver.id \in Requests /\ outcome[saver.id].kind = "saving" /\ IsMarked(saver.id)
    BY <1>1 DEF Saves, Order
  <2> QED
    BY <1>1, <1>3, <2>1, <2>2 DEF Saves, Order, IsMarked
<1>6. Kept' /\ ClipIsRequestedWindow'
  BY <1>1, <1>2, <1>3 DEF Saves, Kept, ClipIsRequestedWindow
<1> QED
  BY <1>2, <1>4, <1>5, <1>6 DEF IInv, Saves

\* What a clip of a request with a window has to be.
GoodClip(id, result) ==
  result.kind = "clip" /\ result.path = "window" /\ markPc[id] = "marked" =>
    /\ result.to = markTime[id]
    /\ result.from = Before(markTime[id], ClipLength)
    /\ result.missing = {}

\* Every return of SaveClip.
LEMMA ReturnStep ==
  ASSUME IInv, NEW id \in Requests, NEW result, Return(id, result),
         IsMarked(id), saver.pc = "idle" \/ saver.id = id,
         result.kind \notin {"none", "saving"}, GoodClip(id, result),
         UNCHANGED <<now, sinkVars, bus, files, stateVars, fragVars, markVars>>
  PROVE  IInv'
<1>1. TypeOK /\ Disk /\ Saves
  BY DEF IInv
<1>2. Disk' /\ written' = written /\ Handled' = Handled /\ Gone' = Gone
  BY <1>1, DiskStays
<1>3. /\ outcome' = [outcome EXCEPT ![id] = result] /\ saver' = Idle
      /\ cutoffs' = Erase(cutoffs, id)
      /\ now' = now /\ markPc' = markPc /\ markTime' = markTime
  BY DEF Return, Release, markVars
<1>4. /\ DOMAIN outcome' = Requests /\ outcome'[id] = result
      /\ \A o \in Requests : o # id => outcome'[o] = outcome[o]
  BY <1>1, <1>3 DEF TypeOK
<1>5. /\ DOMAIN cutoffs' = DOMAIN cutoffs \ {id}
      /\ \A o \in DOMAIN cutoffs' : cutoffs'[o] = cutoffs[o]
  BY <1>3 DEF Erase
<1>6. saver' \in Saver /\ saver'.pc = "idle"
  BY <1>3, IdleIsSaver
<1>7. TypeOK'
  BY <1>1, <1>4, <1>5, <1>6 DEF TypeOK, sinkVars, stateVars, fragVars, markVars
<1>8. Order'
  <2>1. CutoffsAreOutstanding'
    BY <1>1, <1>3, <1>4, <1>5 DEF Saves, Order, CutoffsAreOutstanding
  <2>2. \A o \in DOMAIN cutoffs' : cutoffs'[o] = markTime[o]
    BY <1>1, <1>5 DEF Saves, Order
  <2>3. \A o \in Requests : markTime[o] <= now /\ (~IsMarked(o) => outcome'[o].kind = "none")
    BY <1>1, <1>4 DEF Saves, Order
  <2> QED
    BY <1>3, <1>6, <2>1, <2>2, <2>3 DEF Order, IsMarked
<1>9. Kept' /\ Waiting' /\ Selected' /\ Reached'
  <2>1. Kept'
    BY <1>1, <1>2, <1>3, <1>5 DEF Saves, Kept
  <2> QED
    BY <1>6, <2>1 DEF Waiting, Selected, Reached
<1>10. ClipIsRequestedWindow'
  <2>1. ASSUME NEW o \in Requests, outcome'[o].kind = "clip", outcome'[o].path = "window",
               markPc[o] = "marked"
        PROVE  /\ outcome'[o].to = markTime[o]
               /\ outcome'[o].from = Before(markTime[o], ClipLength)
               /\ outcome'[o].missing = {}
    <3>1. CASE o = id
      BY <1>4, <2>1, <3>1 DEF GoodClip
    <3>2. CASE o # id
      BY <1>1, <1>4, <2>1, <3>2 DEF Saves, ClipIsRequestedWindow
    <3> QED
      BY <3>1, <3>2
  <2> QED
    BY <1>3, <2>1 DEF ClipIsRequestedWindow
<1> QED
  BY <1>2, <1>7, <1>8, <1>9, <1>10 DEF IInv, Saves

\* BeginUnhealthy
LEMMA BeginUnhealthyStep ==
  ASSUME IInv, NEW id \in Requests, Marked(id), BeginUnhealthy(id)
  PROVE  IInv'
<1> DEFINE result == [kind |-> "unhealthy"]
<1>1. result.kind \notin {"none", "saving"} /\ result.kind # "clip"
  OBVIOUS
<1> HIDE DEF result
<1>2. Return(id, result) /\ saver.pc = "idle"
  BY DEF BeginUnhealthy, result
<1> QED
  BY <1>1, <1>2, ReturnStep DEF BeginUnhealthy, Marked, IsMarked, GoodClip

\* BeginHealthy
LEMMA BeginHealthyStep ==
  ASSUME IInv, NEW id \in Requests, Marked(id), BeginHealthy(id)
  PROVE  IInv'
<1> DEFINE q == [Idle EXCEPT !.pc = "lookup", !.id = id]
<1>1. /\ saver.pc = "idle" /\ outcome[id].kind = "none" /\ saver' = q
      /\ outcome' = [outcome EXCEPT ![id] = [kind |-> "saving"]]
      /\ UNCHANGED <<now, sinkVars, bus, files, stateVars, fragVars, cutoffs, markVars>>
  BY DEF BeginHealthy
<1>2. TypeOK /\ Disk /\ Saves
  BY DEF IInv
<1>3. Disk' /\ written' = written /\ Handled' = Handled /\ Gone' = Gone
  BY <1>1, <1>2, DiskStays
<1>4. /\ DOMAIN q = SaverFields /\ q = [k \in DOMAIN q |-> q[k]]
      /\ q["pc"] = "lookup" /\ q["id"] = id /\ q["deadline"] = 0 /\ q["segments"] = {}
      /\ q["available"] = 0 /\ q["endTrim"] = 0 /\ q["path"] = "none"
  BY DEF Idle, SaverFields
<1> HIDE DEF q
<1>5. q \in Saver
  BY <1>4, IsSaver
<1>6. /\ DOMAIN outcome' = Requests /\ outcome'[id].kind = "saving"
      /\ \A o \in Requests : o # id => outcome'[o] = outcome[o]
  BY <1>1, <1>2 DEF TypeOK
<1>7. cutoffs' = cutoffs /\ now' = now /\ markPc' = markPc /\ markTime' = markTime
  BY <1>1 DEF markVars
<1>8. TypeOK'
  BY <1>1, <1>2, <1>5, <1>6 DEF TypeOK, sinkVars, stateVars, fragVars, markVars
<1>9. Order'
  <2>1. CutoffsAreOutstanding'
    BY <1>1, <1>2, <1>6, <1>7 DEF Saves, Order, CutoffsAreOutstanding
  <2>2. \A o \in Requests : markTime[o] <= now /\ (~IsMarked(o) => outcome'[o].kind = "none")
    BY <1>2, <1>6 DEF Saves, Order, Marked, IsMarked
  <2>3. saver'.id = id
    BY <1>1, <1>4
  <2> QED
    BY <1>2, <1>6, <1>7, <2>1, <2>2, <2>3 DEF Saves, Order, Marked, IsMarked
<1>10. Kept' /\ Waiting' /\ Selected' /\ Reached'
  <2>1. saver'.pc = "lookup"
    BY <1>1, <1>4
  <2>2. Kept'
    BY <1>2, <1>3, <1>7 DEF Saves, Kept
  <2> QED
    BY <2>1, <2>2 DEF Waiting, Selected, Reached
<1>11. ClipIsRequestedWindow'
  BY <1>2, <1>6, <1>7 DEF Saves, ClipIsRequestedWindow
<1> QED
  BY <1>3, <1>8, <1>9, <1>10, <1>11 DEF IInv, Saves

\* The record a save falls back with.
LEMMA FallBackIsSaver ==
  ASSUME TypeOK
  PROVE  /\ FallBack(saver) \in Saver /\ FallBack(saver).id = saver.id
         /\ FallBack(saver).pc = "poll" /\ FallBack(saver).path = "recent"
<1> DEFINE q == FallBack(saver)
<1>1. saver \in Saver /\ Deadline(FallbackWait) \in Nat
  BY DeadlineType, RecorderAssumption DEF TypeOK
<1>2. /\ DOMAIN q = SaverFields /\ q = [k \in DOMAIN q |-> q[k]]
      /\ q["pc"] = "poll" /\ q["id"] = saver["id"]
      /\ q["deadline"] = Deadline(FallbackWait)
      /\ q["segments"] = {} /\ q["available"] = saver["available"]
      /\ q["endTrim"] = saver["endTrim"] /\ q["path"] = "recent"
  BY <1>1 DEF FallBack, Saver, SaverFields
<1>3. /\ saver["id"] \in Requests \cup {NoId} /\ saver["available"] \in Int
      /\ saver["endTrim"] \in Nat
  BY <1>1 DEF Saver
<1> HIDE DEF q
<1>4. q \in Saver
  BY <1>1, <1>2, <1>3, IsSaver
<1> QED
  BY <1>2, <1>4 DEF q

\* LookUpCutoff
LEMMA LookUpCutoffStep == ASSUME IInv, LookUpCutoff PROVE IInv'
<1>1. /\ saver.pc = "lookup"
      /\ UNCHANGED <<now, sinkVars, bus, files, stateVars, fragVars, cutoffs, markVars,
                     outcome>>
  BY DEF LookUpCutoff
<1>2. TypeOK
  BY DEF IInv
<1>3. CASE saver.id \in DOMAIN cutoffs
  <2> DEFINE q == [saver EXCEPT !.pc = "wait", !.deadline = Deadline(BoundaryWait)]
  <2>1. saver' = q
    BY <1>3 DEF LookUpCutoff
  <2>2. saver \in Saver /\ Deadline(BoundaryWait) \in Nat
    BY <1>2, DeadlineType, RecorderAssumption DEF TypeOK
  <2>3. /\ DOMAIN q = SaverFields /\ q = [k \in DOMAIN q |-> q[k]]
        /\ q["pc"] = "wait" /\ q["id"] = saver["id"]
        /\ q["deadline"] = Deadline(BoundaryWait)
        /\ q["segments"] = saver["segments"] /\ q["available"] = saver["available"]
        /\ q["endTrim"] = saver["endTrim"] /\ q["path"] = saver["path"]
    BY <2>2 DEF Saver, SaverFields
  <2>4. /\ saver["id"] \in Requests \cup {NoId} /\ saver["available"] \in Int
        /\ saver["segments"] \in SUBSET Nat /\ saver["endTrim"] \in Nat
        /\ saver["path"] \in {"none", "window", "timeout", "recent"}
    BY <2>2 DEF Saver
  <2> HIDE DEF q
  <2>5. q \in Saver
    BY <2>2, <2>3, <2>4, IsSaver
  <2>6. saver'.pc = "wait" /\ saver'.id = saver.id /\ saver' \in Saver
    BY <2>1, <2>3, <2>5
  <2>7. Waiting' /\ Selected' /\ Reached'
    BY <1>1, <1>3, <2>6 DEF Waiting, Selected, Reached
  <2> QED
    BY <1>1, <2>6, <2>7, SaverMoves
<1>4. CASE saver.id \notin DOMAIN cutoffs
  <2>1. saver' = FallBack(saver)
    BY <1>4 DEF LookUpCutoff
  <2>2. /\ saver' \in Saver /\ saver'.id = saver.id /\ saver'.pc = "poll"
        /\ saver'.path = "recent"
    BY <1>2, <2>1, FallBackIsSaver
  <2>3. Waiting' /\ Selected' /\ Reached'
    BY <2>2 DEF Waiting, Selected, Reached
  <2> QED
    BY <1>1, <2>2, <2>3, SaverMoves
<1> QED
  BY <1>3, <1>4

\* SelectRecent
LEMMA SelectRecentStep == ASSUME IInv, SelectRecent PROVE IInv'
<1> DEFINE q == [saver EXCEPT !.pc = "mux", !.segments = RecentSegments,
                              !.available = Cardinality(RecentSegments)]
<1>1. /\ saver.pc = "poll" /\ saver' = q
      /\ UNCHANGED <<now, sinkVars, bus, files, stateVars, fragVars, cutoffs, markVars,
                     outcome>>
  BY DEF SelectRecent
<1>2. TypeOK /\ Waiting /\ finalized \in Nat /\ saver \in Saver
  BY DEF IInv, Saves, TypeOK
<1>3. RecentSegments \in SUBSET Nat /\ Cardinality(RecentSegments) \in Nat
  <2>1. RecentSegments \in SUBSET (1..finalized)
    BY DEF RecentSegments, FinalizedFiles
  <2>2. IsFiniteSet(1..finalized)
    BY <1>2, FS_Interval
  <2>3. IsFiniteSet(RecentSegments)
    BY <2>1, <2>2, FS_Subset
  <2>4. 1..finalized \in SUBSET Nat
    BY <1>2
  <2> QED
    BY <2>1, <2>3, <2>4, FS_CardinalityType
<1>4. saver.path = "recent"
  BY <1>1, <1>2 DEF Waiting
<1>5. /\ DOMAIN q = SaverFields /\ q = [k \in DOMAIN q |-> q[k]]
      /\ q["pc"] = "mux" /\ q["id"] = saver["id"] /\ q["deadline"] = saver["deadline"]
      /\ q["segments"] = RecentSegments /\ q["available"] = Cardinality(RecentSegments)
      /\ q["endTrim"] = saver["endTrim"] /\ q["path"] = saver["path"]
  BY <1>2 DEF Saver, SaverFields
<1>6. /\ saver["id"] \in Requests \cup {NoId} /\ saver["deadline"] \in Nat
      /\ saver["endTrim"] \in Nat
  BY <1>2 DEF Saver
<1> HIDE DEF q
<1>7. q \in Saver
  BY <1>3, <1>4, <1>5, <1>6, IsSaver
<1>8. /\ saver'.pc = "mux" /\ saver'.id = saver.id /\ saver'.path = "recent"
      /\ saver' \in Saver
  BY <1>1, <1>4, <1>5, <1>7
<1>9. Waiting' /\ Selected' /\ Reached'
  BY <1>8 DEF Waiting, Selected, Reached
<1> QED
  BY <1>1, <1>8, <1>9, SaverMoves

\* The save in progress is of a request that was marked.
LEMMA SaverIsMarked ==
  ASSUME IInv, saver.pc # "idle"
  PROVE  saver.id \in Requests /\ IsMarked(saver.id)
BY DEF IInv, Saves, Order

\* GiveUp
LEMMA GiveUpStep == ASSUME IInv, GiveUp PROVE IInv'
<1> DEFINE result == [kind |-> "nothing"]
<1>1. result.kind \notin {"none", "saving"} /\ result.kind # "clip"
  OBVIOUS
<1> HIDE DEF result
<1>2. Return(saver.id, result) /\ saver.pc = "poll"
  BY DEF GiveUp, result
<1>3. saver.id \in Requests /\ IsMarked(saver.id)
  BY <1>2, SaverIsMarked
<1> QED
  BY <1>1, <1>2, <1>3, ReturnStep DEF GiveUp, GoodClip

\* MuxNothing and MuxFails
LEMMA MuxRefusesStep == ASSUME IInv, MuxNothing \/ MuxFails PROVE IInv'
<1>1. PICK result : /\ result \in {[kind |-> "blank"], [kind |-> "muxFailed"]}
                    /\ Return(saver.id, result)
  BY DEF MuxNothing, MuxFails
<1>2. result.kind \notin {"none", "saving"} /\ result.kind # "clip"
  BY <1>1
<1>3. /\ saver.pc = "mux"
      /\ UNCHANGED <<now, sinkVars, bus, files, stateVars, fragVars, markVars>>
  BY DEF MuxNothing, MuxFails
<1>4. saver.id \in Requests /\ IsMarked(saver.id)
  BY <1>3, SaverIsMarked
<1> QED
  BY <1>1, <1>2, <1>3, <1>4, ReturnStep DEF GoodClip

\* The earliest and the latest of some fragments are those of a first and a last.
LEMMA EarliestIs ==
  ASSUME NEW F, NEW e \in F, e.start \in Nat,
         \A f \in F : f.start \in Nat /\ e.start <= f.start
  PROVE  Earliest(F) = e.start
<1> DEFINE P(t) == \A f \in F : t <= f.start
<1>1. e.start \in {f.start : f \in F} /\ P(e.start)
  OBVIOUS
<1>2. Earliest(F) \in {f.start : f \in F} /\ P(Earliest(F))
  BY <1>1 DEF Earliest
<1>3. PICK g \in F : Earliest(F) = g.start
  BY <1>2
<1>4. g.start <= e.start /\ e.start <= g.start /\ g.start \in Nat
  BY <1>2, <1>3
<1> QED
  BY <1>3, <1>4

\* Likewise for the latest end.
LEMMA LatestIs ==
  ASSUME NEW F, NEW e \in F, e.end \in Nat,
         \A f \in F : f.end \in Nat /\ f.end <= e.end
  PROVE  Latest(F) = e.end
<1> DEFINE P(t) == \A f \in F : t >= f.end
<1>1. e.end \in {f.end : f \in F} /\ P(e.end)
  OBVIOUS
<1>2. Latest(F) \in {f.end : f \in F} /\ P(Latest(F))
  BY <1>1 DEF Latest
<1>3. PICK g \in F : Latest(F) = g.end
  BY <1>2
<1>4. g.end >= e.end /\ g.end <= e.end /\ g.end \in Nat
  BY <1>2, <1>3
<1> QED
  BY <1>3, <1>4

\* What InWindow selects: the segments from the first that ends after the start of
\* the window to the last that starts before the cutoff.
WindowShape(lo, hi, c) ==
  /\ lo <= hi
  /\ {f.path : f \in InWindow(c)} = lo..hi
  /\ Earliest(InWindow(c)) = written[lo].start
  /\ Latest(InWindow(c)) = written[hi].end
  /\ written[lo].start < c
  /\ \A p \in lo..hi : written[p].end > Before(c, ClipLength)
  /\ lo = Gone + 1 \/ written[lo - 1].end <= Before(c, ClipLength)
  /\ (\E i \in DOMAIN fragments : fragments[i].end >= c) => c <= written[hi].end

\* The index after b, on the list and in the segments.
LEMMA NextIndex ==
  ASSUME NEW b \in Nat \ {0}, NEW k \in Nat, NEW n \in Nat, NEW i \in Nat, b < i, i <= n
  PROVE  /\ b + 1 \in 1..n /\ ~(b + 1 \in 1..b) /\ k + (b + 1) = k + b + 1
         /\ k + b + 1 # 1 /\ k + b + 1 - 1 = k + b
OBVIOUS

\* Whatever InWindow selects has that shape.
LEMMA WindowIsAnInterval ==
  ASSUME TypeOK, Disk, NEW c \in Nat, InWindow(c) # {}
  PROVE  \E lo, hi \in (Gone + 1)..Handled : WindowShape(lo, hi, c)
<1>1. TypeOK /\ Timeline /\ List /\ NoOrphanFiles
  BY DEF Disk
<1>2. PICK h \in Nat, k \in Nat, n \in Nat :
        h = Handled /\ k = Gone /\ n = Len(fragments) /\ h = k + n
  <2>1. Handled \in Nat /\ Gone \in Nat /\ Len(fragments) \in Nat
    BY <1>1, Numbers DEF List
  <2>2. Handled = Gone + Len(fragments)
    BY <2>1 DEF Gone
  <2> QED
    BY <2>1, <2>2
<1>3. /\ Len(written) \in Nat /\ h <= Len(written) /\ OpenPath = Len(written) + 1
      /\ DOMAIN fragments = 1..n
      /\ \A p \in 1..Len(written) : written[p].start \in Nat /\ written[p].end \in Nat
  BY <1>1, <1>2, Numbers DEF List, Timeline, TypeOK
<1>4. ASSUME NEW i \in 1..n
      PROVE  /\ k + i \in 1..Len(written) /\ fragments[i].path = k + i
             /\ fragments[i].start = written[k + i].start
             /\ fragments[i].end = written[k + i].end
             /\ fragments[i].start \in Nat /\ fragments[i].end \in Nat
             /\ fragments[i].path \in files
  <2>1. k + i \in 1..Len(written) /\ k + i \in (k + 1)..OpenPath
    BY <1>2, <1>3
  <2>2. /\ fragments[i].path = k + i /\ fragments[i].start = written[k + i].start
        /\ fragments[i].end = written[k + i].end
    BY <1>1, <1>2 DEF List
  <2>3. files = (k + 1)..OpenPath
    BY <1>1, <1>2, FilesAre
  <2> QED
    BY <1>3, <2>1, <2>2, <2>3
<1>5. ASSUME NEW i \in 1..n, NEW j \in 1..n, i <= j
      PROVE  fragments[i].end <= fragments[j].end /\ fragments[i].start <= fragments[j].start
  <2>1. k + i \in 1..Len(written) /\ k + j \in 1..Len(written) /\ k + i <= k + j
    BY <1>2, <1>4, <1>5
  <2> QED
    BY <1>1, <1>4, <2>1, EndsGrow
<1> DEFINE from == Before(c, ClipLength)
           A == {i \in 1..n : fragments[i].end <= from}
           S == {i \in 1..n : fragments[i].start < c}
           J == {j \in DOMAIN fragments : /\ fragments[j].end > from
                                          /\ fragments[j].start < c
                                          /\ fragments[j].path \in files}
<1>6. from \in Nat
  BY RecorderAssumption DEF Before
<1> HIDE DEF from
<1>7. PICK a \in 0..n : A = 1..a
  <2>1. A \in SUBSET (1..n)
    OBVIOUS
  <2>2. ASSUME NEW i \in A, NEW j \in 1..i PROVE j \in A
    <3>1. i \in 1..n /\ j \in 1..n /\ j <= i
      BY <1>2
    <3>2. fragments[j].end <= fragments[i].end
      BY <1>5, <3>1
    <3> QED
      BY <1>4, <1>6, <3>1, <3>2
  <2> HIDE DEF A
  <2> QED
    BY <1>2, <2>1, <2>2, InitialSegment
<1>8. PICK b \in 0..n : S = 1..b
  <2>1. S \in SUBSET (1..n)
    OBVIOUS
  <2>2. ASSUME NEW i \in S, NEW j \in 1..i PROVE j \in S
    <3>1. i \in 1..n /\ j \in 1..n /\ j <= i
      BY <1>2
    <3>2. fragments[j].start <= fragments[i].start
      BY <1>5, <3>1
    <3> QED
      BY <1>4, <3>1, <3>2
  <2> HIDE DEF S
  <2> QED
    BY <1>2, <2>1, <2>2, InitialSegment
<1>9. J = (a + 1)..b
  <2>1. ASSUME NEW i \in 1..n PROVE i \in J <=> i \in (a + 1)..b
    <3>1. i \in J <=> fragments[i].end > from /\ fragments[i].start < c
      BY <1>3, <1>4
    <3>2. i \in A <=> ~(fragments[i].end > from)
      BY <1>4, <1>6
    <3>3. i \in S <=> fragments[i].start < c
      OBVIOUS
    <3>4. (i \in 1..a <=> ~(i \in (a + 1)..n)) /\ (i \in (a + 1)..n /\ i \in 1..b <=> i \in (a + 1)..b)
      BY <1>2, <1>7, <1>8
    <3> HIDE DEF A, S, J
    <3> QED
      BY <1>7, <1>8, <3>1, <3>2, <3>3, <3>4, <1>2
  <2>2. J \subseteq 1..n
    BY <1>3
  <2>3. (a + 1)..b \subseteq 1..n
    BY <1>2, <1>7, <1>8
  <2> HIDE DEF J
  <2> QED
    BY <2>1, <2>2, <2>3
<1>10. InWindow(c) = {fragments[i] : i \in J}
  BY DEF InWindow, from
<1>11. /\ \A i \in 1..a : fragments[i].end <= from
       /\ \A i \in 1..b : fragments[i].start < c
       /\ \A i \in 1..n : ~(i \in 1..a) => fragments[i].end > from
       /\ \A i \in 1..n : ~(i \in 1..b) => fragments[i].start >= c
  <2>1. \A i \in 1..a : fragments[i].end <= from
    BY <1>7
  <2>2. \A i \in 1..b : fragments[i].start < c
    BY <1>8
  <2>3. \A i \in 1..n : ~(i \in 1..a) => fragments[i].end > from
    BY SMTT(30), <1>4, <1>6, <1>7
  <2>4. ASSUME NEW i \in 1..n, ~(i \in 1..b) PROVE fragments[i].start >= c
    <3>1. ~(fragments[i].start < c)
      BY <1>8, <2>4
    <3> QED
      BY <1>4, <3>1
  <2> QED
    BY <2>1, <2>2, <2>3, <2>4
<1> HIDE DEF A, S, J
<1> DEFINE W == InWindow(c)
<1>12. W = {fragments[i] : i \in (a + 1)..b}
  BY <1>9, <1>10
<1>13. a + 1 <= b /\ a + 1 \in 1..n /\ b \in 1..n /\ a \in Nat /\ b \in Nat
  <2>1. (a + 1)..b # {}
    BY <1>12
  <2> QED
    BY <1>2, <1>7, <1>8, <2>1
<1>14. \A i \in (a + 1)..b : i \in 1..n /\ i \in 1..b /\ ~(i \in 1..a) /\ a + 1 <= i /\ i <= b
  BY <1>2, <1>13
<1> HIDE DEF W
<1>15. Earliest(W) = written[k + a + 1].start
  <2>1. fragments[a + 1] \in W /\ fragments[a + 1].start \in Nat
    BY <1>4, <1>12, <1>13
  <2>2. \A f \in W : f.start \in Nat /\ fragments[a + 1].start <= f.start
    BY <1>4, <1>5, <1>12, <1>13, <1>14
  <2>3. k + (a + 1) = k + a + 1
    BY <1>2, <1>13
  <2> QED
    BY <1>4, <1>13, <2>1, <2>2, <2>3, EarliestIs
<1>16. Latest(W) = written[k + b].end
  <2>1. fragments[b] \in W /\ fragments[b].end \in Nat
    <3>1. b \in (a + 1)..b
      BY <1>13
    <3> QED
      BY <1>4, <1>12, <1>13, <3>1
  <2>2. \A f \in W : f.end \in Nat /\ f.end <= fragments[b].end
    BY <1>4, <1>5, <1>12, <1>13, <1>14
  <2> QED
    BY <1>4, <1>13, <2>1, <2>2, LatestIs
<1>17. {f.path : f \in W} = (k + a + 1)..(k + b)
  <2>1. \A f \in W : f.path \in (k + a + 1)..(k + b)
    <3>1. \A i \in (a + 1)..b : k + i \in (k + a + 1)..(k + b)
      BY <1>2, <1>13
    <3> QED
      BY <1>4, <1>12, <1>14, <3>1
  <2>2. ASSUME NEW p \in (k + a + 1)..(k + b) PROVE p \in {f.path : f \in W}
    <3>1. p - k \in (a + 1)..b /\ k + (p - k) = p
      BY <1>2, <1>13
    <3>2. fragments[p - k] \in W /\ fragments[p - k].path = p
      BY <1>4, <1>12, <1>14, <3>1
    <3> QED
      BY <3>2
  <2> QED
    BY <2>1, <2>2
<1>18. written[k + a + 1].start < c
  <2>1. k + (a + 1) = k + a + 1 /\ a + 1 \in 1..b
    BY <1>2, <1>13
  <2> QED
    BY <1>4, <1>11, <1>13, <2>1
<1>19. \A p \in (k + a + 1)..(k + b) : written[p].end > from
  <2> SUFFICES ASSUME NEW p \in (k + a + 1)..(k + b) PROVE written[p].end > from
    OBVIOUS
  <2>1. p - k \in (a + 1)..b /\ k + (p - k) = p
    BY <1>2, <1>13
  <2> QED
    BY <1>4, <1>11, <1>14, <2>1
<1>20. k + a + 1 = k + 1 \/ written[k + a + 1 - 1].end <= from
  <2>1. CASE a = 0
    BY <1>2, <2>1
  <2>2. CASE a # 0
    <3>1. a \in 1..a /\ a \in 1..n /\ k + a + 1 - 1 = k + a
      BY <1>2, <1>13, <2>2
    <3> QED
      BY <1>4, <1>11, <3>1
  <2> QED
    BY <2>1, <2>2
<1>21. ASSUME NEW i \in DOMAIN fragments, fragments[i].end >= c
       PROVE  c <= written[k + b].end
  <2>1. i \in 1..n /\ fragments[i].end \in Nat
    BY <1>3, <1>4
  <2>2. fragments[b].end = written[k + b].end /\ fragments[b].end \in Nat
    BY <1>4, <1>13
  <2>3. CASE i <= b
    <3>1. fragments[i].end <= fragments[b].end
      BY <1>5, <1>13, <2>1, <2>3
    <3> QED
      BY <1>21, <2>1, <2>2, <3>1
  <2>4. CASE i > b
    <3>0. i \in Nat /\ b \in Nat \ {0} /\ k \in Nat /\ n \in Nat /\ b < i /\ i <= n
      BY <1>2, <1>13, <2>1, <2>4
    <3>1. /\ b + 1 \in 1..n /\ ~(b + 1 \in 1..b) /\ k + (b + 1) = k + b + 1
          /\ k + b + 1 # 1 /\ k + b + 1 - 1 = k + b
      BY Zenon, <3>0, NextIndex
    <3>2. fragments[b + 1].start >= c
      BY <1>11, <3>1
    <3>3. fragments[b + 1].start = written[k + b + 1].start /\ k + b + 1 \in 1..Len(written)
      BY <1>4, <3>1
    <3>4. written[k + b + 1].start = StartOf(written, k + b + 1)
      BY <1>1, <3>3 DEF Timeline
    <3>5. StartOf(written, k + b + 1) = written[k + b].end
      BY <3>1 DEF StartOf
    <3> QED
      BY <2>2, <3>2, <3>3, <3>4, <3>5
  <2> QED
    BY <1>13, <2>1, <2>3, <2>4
<1>22. k + a + 1 \in (k + 1)..h /\ k + b \in (k + 1)..h /\ k + a + 1 <= k + b
  BY <1>2, <1>13
<1>23. WindowShape(k + a + 1, k + b, c)
  BY <1>2, <1>15, <1>16, <1>17, <1>18, <1>19, <1>20, <1>21, <1>22
     DEF WindowShape, W, from
<1> QED
  BY <1>2, <1>22, <1>23

\* The difference of the end of the last fragment and the cutoff, in std::uint64_t.
LEMMA EndTrimType ==
  ASSUME NEW x \in 0..MaxTime, NEW y \in 0..MaxTime
  PROVE  (x - y) % Word \in Nat /\ (y <= x => (x - y) % Word = x - y)
<1>1. Word \in Nat /\ MaxTime \in Nat /\ Word > 2 * MaxTime
  BY RecorderAssumption
<1>2. x - y \in Int /\ x - y < Word /\ Word > 0
  BY <1>1
<1>3. (x - y) % Word \in 0..(Word - 1)
  BY <1>1, <1>2
<1>4. ASSUME y <= x PROVE (x - y) % Word = x - y
  BY <1>1, <1>2, <1>4
<1> QED
  BY <1>1, <1>3, <1>4

\* A window of a marked request starts no later than it should.
LEMMA WindowStarts ==
  ASSUME TypeOK, Disk, Kept, NEW id \in DOMAIN cutoffs, markPc[id] = "marked",
         NEW lo \in 1..Len(written),
         lo = Gone + 1 \/ written[lo - 1].end <= Before(cutoffs[id], ClipLength)
  PROVE  written[lo].start <= Before(cutoffs[id], ClipLength)
<1>1. /\ Len(written) \in Nat /\ Gone \in Nat
      /\ \A p \in 1..Len(written) : written[p].start \in Nat /\ written[p].end \in Nat
      /\ written[lo].start = StartOf(written, lo)
  BY Numbers DEF Disk, List, Timeline
<1> DEFINE from == Before(cutoffs[id], ClipLength)
<1>2. from \in Nat
  <2>1. cutoffs[id] \in Nat /\ ClipLength \in Nat
    BY RecorderAssumption DEF TypeOK
  <2> QED
    BY <2>1 DEF Before
<1>3. lo = 1 \/ written[lo - 1].end <= from
  <2>1. CASE lo = Gone + 1 /\ Gone # 0
    <3>1. Gone \in 1..Gone /\ lo - 1 = Gone /\ Gone \in 1..Len(written)
      BY <1>1, <2>1
    <3>2. written[Gone].end < from
      BY <3>1 DEF Kept
    <3> QED
      BY <1>1, <1>2, <3>1, <3>2
  <2>2. CASE lo = Gone + 1 /\ Gone = 0
    BY <2>2
  <2> QED
    BY <2>1, <2>2
<1> HIDE DEF from
<1>4. CASE lo = 1
  BY <1>1, <1>2, <1>4 DEF StartOf, from
<1>5. CASE lo # 1 /\ written[lo - 1].end <= from
  BY <1>1, <1>5 DEF StartOf, from
<1> QED
  BY <1>3, <1>4, <1>5

\* SelectWindow
LEMMA SelectWindowStep == ASSUME IInv, SelectWindow PROVE IInv'
<1> DEFINE c == cutoffs[saver.id]
           F == InWindow(c)
<1>1. /\ saver.pc = "wait"
      /\ UNCHANGED <<now, sinkVars, bus, files, stateVars, fragVars, cutoffs, markVars,
                     outcome>>
  BY DEF SelectWindow
<1>2. TypeOK /\ Disk /\ Saves /\ Timeline /\ List /\ NoOrphanFiles
  BY DEF IInv, Disk
<1>3. saver.id \in DOMAIN cutoffs /\ c \in 0..MaxTime /\ c \in Nat
  BY <1>1, <1>2, RecorderAssumption DEF Saves, Waiting, TypeOK
<1>4. CASE F = {}
  <2>1. saver' = FallBack(saver)
    BY <1>4 DEF SelectWindow
  <2>2. /\ saver' \in Saver /\ saver'.id = saver.id /\ saver'.pc = "poll"
        /\ saver'.path = "recent"
    BY <1>2, <2>1, FallBackIsSaver
  <2>3. Waiting' /\ Selected' /\ Reached'
    BY <2>2 DEF Waiting, Selected, Reached
  <2> QED
    BY <1>1, <2>2, <2>3, SaverMoves
<1>5. CASE F # {}
  <2> DEFINE segments == {f.path : f \in F}
             available == Latest(F) - Earliest(F)
             trim == EndTrim(F, c)
             path == IF BoundaryReached THEN "window" ELSE "timeout"
             q == [saver EXCEPT !.pc = "mux", !.segments = segments,
                                !.available = available, !.endTrim = trim, !.path = path]
  <2>1. saver' = q
    BY <1>5 DEF SelectWindow
  <2>2. PICK lo \in (Gone + 1)..Handled, hi \in (Gone + 1)..Handled : WindowShape(lo, hi, c)
    BY <1>2, <1>3, <1>5, WindowIsAnInterval
  <2>3. /\ lo <= hi /\ segments = lo..hi
        /\ available = written[hi].end - written[lo].start
        /\ trim = (written[hi].end - c) % Word
        /\ written[lo].start < c
        /\ \A p \in lo..hi : written[p].end > Before(c, ClipLength)
        /\ lo = Gone + 1 \/ written[lo - 1].end <= Before(c, ClipLength)
        /\ path = "window" => c <= written[hi].end
    BY <2>2 DEF WindowShape, EndTrim, BoundaryReached
  <2>4. path \in {"window", "timeout"}
    OBVIOUS
  <2> HIDE DEF segments, available, trim, path, F, c
  <2>5. /\ Gone \in Nat /\ Handled \in Nat /\ Handled <= Len(written) /\ Len(written) \in Nat
        /\ OpenPath = Len(written) + 1
    BY <1>2, Numbers DEF List, Timeline
  <2>6. /\ lo \in 1..Len(written) /\ hi \in 1..Len(written)
        /\ \A p \in lo..hi : p \in 1..Handled /\ p \in (Gone + 1)..OpenPath /\ p \in Nat
    BY <2>5
  <2>7. /\ written[lo].start \in 0..MaxTime /\ written[hi].end \in 0..MaxTime
        /\ written[lo].start \in Nat /\ written[hi].end \in Nat
    <3>1. written[lo] \in Segment /\ written[hi] \in Segment
      BY <1>2, <2>6 DEF TypeOK
    <3> QED
      BY <3>1, RecorderAssumption DEF Segment
  <2>8. trim \in Nat /\ (path = "window" => trim = written[hi].end - c)
    BY <1>3, <2>3, <2>7, EndTrimType
  <2>9. available \in Int /\ segments \in SUBSET Nat
    BY <2>3, <2>6, <2>7
  <2>10. saver \in Saver
    BY <1>2 DEF TypeOK
  <2>11. /\ DOMAIN q = SaverFields /\ q = [k \in DOMAIN q |-> q[k]]
         /\ q["pc"] = "mux" /\ q["id"] = saver["id"] /\ q["deadline"] = saver["deadline"]
         /\ q["segments"] = segments /\ q["available"] = available
         /\ q["endTrim"] = trim /\ q["path"] = path
    BY <2>10 DEF Saver, SaverFields
  <2>12. saver["id"] \in Requests \cup {NoId} /\ saver["deadline"] \in Nat
    BY <2>10 DEF Saver
  <2> HIDE DEF q
  <2>13. q \in Saver
    BY <2>4, <2>8, <2>9, <2>11, <2>12, IsSaver
  <2>14. /\ saver' \in Saver /\ saver'.id = saver.id /\ saver'.pc = "mux"
         /\ saver'.segments = lo..hi /\ saver'.path = path /\ saver'.endTrim = trim
         /\ saver'.available = written[hi].end - written[lo].start
    BY <2>1, <2>3, <2>11, <2>13
  <2>15. /\ written' = written /\ Handled' = Handled /\ files' = files
         /\ cutoffs' = cutoffs /\ markPc' = markPc
    BY <1>1 DEF sinkVars, fragVars, markVars, Handled
  <2>16. Waiting'
    BY <2>14 DEF Waiting
  <2>17. Selected'
    <3>1. files = (Gone + 1)..OpenPath
      BY <1>2, FilesAre
    <3>2. \A p \in lo..hi :
            /\ p \in files /\ p \in 1..Handled
            /\ written[p].end > Before(cutoffs[saver.id], ClipLength)
      BY <2>3, <2>6, <3>1 DEF c
    <3> QED
      BY <1>3, <2>14, <2>15, <3>2 DEF Selected
  <2>18. Reached'
    <3> SUFFICES ASSUME path = "window" PROVE Reached'
      BY <2>14 DEF Reached
    <3>1. markPc[saver.id] = "marked" => written[lo].start <= Before(c, ClipLength)
      BY <1>2, <1>3, <2>3, <2>6, WindowStarts DEF Saves, c
    <3>2. /\ c <= written[hi].end /\ trim = written[hi].end - c
      BY <2>3, <2>8
    <3>3. Window(lo, hi, cutoffs[saver.id])'
      BY <2>3, <2>14, <2>15, <3>1, <3>2 DEF Window, c
    <3> QED
      BY <2>3, <2>6, <2>15, <3>3 DEF Reached
  <2> QED
    BY <1>1, <2>14, <2>16, <2>17, <2>18, SaverMoves
<1> QED
  BY <1>4, <1>5

\* MuxClip
LEMMA MuxClipStep == ASSUME IInv, MuxClip PROVE IInv'
<1> DEFINE staged == saver.segments \cap files
           result == Export(staged, saver.available, saver.endTrim)
           id == saver.id
<1>1. /\ saver.pc = "mux" /\ Return(id, result)
      /\ UNCHANGED <<now, sinkVars, bus, files, stateVars, fragVars, markVars>>
  BY DEF MuxClip
<1>2. TypeOK /\ Disk /\ Saves
  BY DEF IInv
<1>3. id \in Requests /\ IsMarked(id)
  BY <1>1, SaverIsMarked
<1> DEFINE usable == MaxOf(0, saver.available - saver.endTrim)
           length == MinOf(usable, ClipLength)
           first == CHOOSE p \in staged : \A q \in staged : p <= q
           from == written[first].start + usable - length
<1>4. result = IF length = 0 THEN [kind |-> "trimmed", path |-> saver.path]
               ELSE [kind |-> "clip", from |-> from, to |-> from + length,
                     missing |-> saver.segments \ staged, path |-> saver.path]
  BY DEF Export
<1> HIDE DEF result, usable, length, first, from, staged
<1>5. /\ result.kind \in {"trimmed", "clip"} /\ result.path = saver.path
      /\ result.kind = "clip" => /\ result.from = from /\ result.to = from + length
                                 /\ result.missing = saver.segments \ staged
  BY <1>4
<1>6. ASSUME saver.path = "window", markPc[id] = "marked"
      PROVE  /\ from = Before(markTime[id], ClipLength) /\ from + length = markTime[id]
             /\ saver.segments \ staged = {}
  <2>1. PICK lo \in 1..Len(written), hi \in 1..Len(written) :
          lo <= hi /\ Window(lo, hi, cutoffs[id])
    BY <1>1, <1>2, <1>6 DEF Saves, Reached
  <2>2. /\ id \in DOMAIN cutoffs /\ cutoffs[id] = markTime[id] /\ markTime[id] \in Nat
        /\ saver.segments \subseteq files
    BY <1>1, <1>2, <1>3, <1>6, RecorderAssumption DEF Saves, Selected, Order, TypeOK
  <2>3. staged = lo..hi /\ saver.segments \ staged = {}
    BY <2>1, <2>2 DEF Window, staged
  <2>4. Len(written) \in Nat /\ written[lo].start \in Nat /\ written[hi].end \in Nat
    BY <1>2, Numbers
  <2>5. first = lo
    <3>1. lo \in staged /\ \A q \in staged : lo <= q
      BY <2>1, <2>3, <2>4
    <3>2. first \in staged /\ \A q \in staged : first <= q
      BY <3>1 DEF first
    <3> QED
      BY <2>3, <2>4, <3>1, <3>2
  <2>6. PICK start \in Nat, end \in Nat, c \in Nat :
          start = written[lo].start /\ end = written[hi].end /\ c = markTime[id]
    BY <2>2, <2>4
  <2>7. /\ usable = MaxOf(0, (end - start) - (end - c))
        /\ start < c /\ c <= end /\ start <= Before(c, ClipLength)
    BY <1>6, <2>1, <2>2, <2>6 DEF Window, usable
  <2>8. usable = c - start /\ usable \in Nat
    BY <2>7 DEF MaxOf
  <2>9. length = MinOf(usable, ClipLength) /\ from = start + usable - length
    BY <2>5, <2>6 DEF length, from
  <2>10. from = Before(c, ClipLength) /\ from + length = c
    <3>1. ClipLength \in Nat
      BY RecorderAssumption
    <3> QED
      BY <2>7, <2>8, <2>9, <3>1 DEF MinOf, Before
  <2> QED
    BY <2>3, <2>6, <2>10
<1>7. GoodClip(id, result)
  BY <1>5, <1>6 DEF GoodClip
<1>8. result.kind \notin {"none", "saving"}
  BY <1>5
<1> QED
  BY <1>1, <1>3, <1>7, <1>8, ReturnStep

-----------------------------------------------------------------------------
(* The theorems *)

\* What Start leaves behind satisfies the invariant.
LEMMA RecorderInit == Init => IInv
<1> SUFFICES ASSUME Init PROVE IInv
  OBVIOUS
<1> DEFINE m == [kind |-> "opened", path |-> 1, at |-> 0]
<1>1. /\ written = <<>> /\ Len(written) = 0 /\ fragments = <<>> /\ Len(fragments) = 0
      /\ Handled = 0 /\ Gone = 0 /\ OpenPath = 1 /\ DOMAIN fragments = {}
  <2>1. written = <<>> /\ fragments = <<>>
    BY DEF Init
  <2>2. Len(written) = 0 /\ Len(fragments) = 0 /\ DOMAIN fragments = {}
    BY <2>1
  <2>3. Handled = 0
    BY <2>1 DEF Handled
  <2>4. Gone = 0 /\ OpenPath = 1
    BY <2>2, <2>3 DEF Gone, OpenPath
  <2> QED
    BY <2>1, <2>2, <2>3, <2>4
<1>2. /\ MaxTime \in Nat /\ 0 \in 0..MaxTime
  BY RecorderAssumption
<1>3. m \in Message /\ m.kind = "opened" /\ m.path = 1 /\ m.at = 0
  BY <1>2 DEF Message
<1>4. bus = <<m>>
  BY DEF Init
<1> HIDE DEF m
<1>5. bus \in Seq(Message) /\ Len(bus) = 1 /\ bus[1] = m
  BY <1>3, <1>4
<1>6. DOMAIN open = {} /\ DOMAIN cutoffs = {}
  BY DEF Init
<1>7. TypeOK
  <2>1. written \in Seq(Segment) /\ fragments \in Seq(Fragment)
    BY <1>1
  <2>2. markPc \in [Requests -> {"none", "read", "marked", "late", "unmarked"}]
        /\ markTime \in [Requests -> 0..MaxTime] /\ DOMAIN outcome = Requests
    BY <1>2 DEF Init
  <2> QED
    BY <1>2, <1>5, <1>6, <2>1, <2>2, IdleIsSaver DEF Init, TypeOK
<1>8. Timeline /\ OpenTimes /\ List /\ PrunedIsOld
  BY <1>1, <1>6 DEF Init, Timeline, OpenTimes, List, PrunedIsOld, StartOf
<1>9. BusOrder
  BY <1>1, <1>3, <1>5 DEF Init, BusOrder, StartOf
<1>10. NoOrphanFiles
  BY <1>1 DEF Init, NoOrphanFiles
<1>11. saver.pc = "idle" /\ \A id \in Requests : /\ outcome[id].kind = "none"
                                                /\ markPc[id] = "none" /\ markTime[id] = 0
  BY IdleIsSaver DEF Init
<1>12. Order
  BY <1>6, <1>11 DEF Init, Order, CutoffsAreOutstanding, IsMarked
<1>13. Kept /\ Waiting /\ Selected /\ Reached /\ ClipIsRequestedWindow
  BY <1>6, <1>11 DEF Kept, Waiting, Selected, Reached, ClipIsRequestedWindow
<1> QED
  BY <1>7, <1>8, <1>9, <1>10, <1>12, <1>13 DEF IInv, Disk, Saves

\* A step that changes nothing.
LEMMA RecorderStutters == ASSUME IInv, UNCHANGED vars PROVE IInv'
<1>1. /\ UNCHANGED <<now, sinkVars, bus, files, stateVars, fragVars, cutoffs, markVars,
                     saver, outcome>>
  BY DEF vars
<1>2. TypeOK /\ Disk /\ Saves /\ Timeline /\ List
  BY DEF IInv, Disk
<1>3. TypeOK'
  BY <1>1, <1>2 DEF TypeOK, sinkVars, stateVars, fragVars, markVars
<1>4. Disk'
  BY <1>1, <1>2, DiskStays
<1>5. Saves'
  <2>1. Grows /\ now \in Nat
    BY <1>1, <1>2, Numbers DEF Grows, sinkVars
  <2>2. finalized <= Len(written) /\ now <= now' /\ now' \in Nat /\ files \subseteq files'
    BY <1>1, <1>2, <2>1 DEF Timeline
  <2>3. UNCHANGED requestVars /\ UNCHANGED fragments
    BY <1>1 DEF requestVars, fragVars
  <2> QED
    BY <1>2, <2>1, <2>2, <2>3, SavesStay
<1> QED
  BY <1>3, <1>4, <1>5 DEF IInv

\* Every step of the sink, the bus thread and the requests preserves it.
LEMMA RecorderStep == IInv /\ [Next]_vars => IInv'
<1> SUFFICES ASSUME IInv, [Next]_vars PROVE IInv'
  OBVIOUS
<1>1. CASE Tick \/ SinkSplits \/ SinkFinalizes \/ SinkFails
  BY <1>1, TickStep, SinkSplitsStep, SinkFinalizesStep, SinkFailsStep
<1>2. CASE BusStep
  BY <1>2, BusOpenedStep, BusClosedStep, BusFailedStep DEF BusStep
<1>3. ASSUME NEW id \in Requests, MarkStep(id) PROVE IInv'
  BY <1>3, ReadRunningTimeStep, NoRunningTimeStep, RecordCutoffStep DEF MarkStep
<1>4. ASSUME NEW id \in Requests, Marked(id), BeginSave(id) PROVE IInv'
  BY <1>4, BeginUnhealthyStep, BeginHealthyStep DEF BeginSave
<1>5. CASE SaveStep
  BY <1>5, LookUpCutoffStep, SelectWindowStep, SelectRecentStep, GiveUpStep, MuxClipStep,
     MuxRefusesStep DEF SaveStep
<1>6. CASE UNCHANGED vars
  BY <1>6, RecorderStutters
<1> QED
  BY <1>1, <1>2, <1>3, <1>4, <1>5, <1>6 DEF Next

\* The invariant holds of every run of the recorder.
THEOREM RecorderInvariant == Spec => []IInv
<1>1. Init => IInv
  BY RecorderInit
<1>2. IInv /\ [Next]_vars => IInv'
  BY RecorderStep
<1> QED
  BY <1>1, <1>2, PTL DEF Spec

\* Every variable of the recorder keeps its type.
THEOREM TypeCorrect == Spec => []TypeOK
<1>1. IInv => TypeOK
  BY DEF IInv
<1> QED
  BY <1>1, RecorderInvariant, PTL

\* The cutoffs are exactly those of the requests not yet answered.
THEOREM CutoffsAreOutstandingHolds == Spec => []CutoffsAreOutstanding
<1>1. IInv => CutoffsAreOutstanding
  BY DEF IInv, Saves, Order
<1> QED
  BY <1>1, RecorderInvariant, PTL

\* No file leaves the list and stays on disk, or the other way round.
THEOREM NoOrphanFilesHolds == Spec => []NoOrphanFiles
<1>1. IInv => NoOrphanFiles
  BY DEF IInv, Disk
<1> QED
  BY <1>1, RecorderInvariant, PTL

\* What a save has selected for its cutoff is not pruned before it is staged.
THEOREM SelectedStayOnDiskHolds == Spec => []SelectedStayOnDisk
<1>1. IInv => SelectedStayOnDisk
  BY DEF IInv, Saves, Selected, SelectedStayOnDisk
<1> QED
  BY <1>1, RecorderInvariant, PTL

\* A clip saved after its boundary was reached is the requested window.
THEOREM ClipIsRequestedWindowHolds == Spec => []ClipIsRequestedWindow
<1>1. IInv => ClipIsRequestedWindow
  BY DEF IInv, Saves
<1> QED
  BY <1>1, RecorderInvariant, PTL

\* Only BusClosed changes the list.
LEMMA OnlyBusClosed ==
  ASSUME [Next]_vars, fragments' # fragments
  PROVE  BusClosed
<1>1. CASE Tick \/ SinkSplits \/ SinkFinalizes \/ SinkFails
  BY <1>1 DEF Tick, SinkSplits, SinkFinalizes, SinkFails, fragVars
<1>2. CASE BusStep
  BY <1>2 DEF BusStep, BusOpened, BusFailed, fragVars
<1>3. ASSUME NEW id \in Requests, MarkStep(id) PROVE BusClosed
  BY <1>3 DEF MarkStep, ReadRunningTime, NoRunningTime, RecordCutoff, fragVars
<1>4. ASSUME NEW id \in Requests, BeginSave(id) PROVE BusClosed
  BY <1>4 DEF BeginSave, BeginUnhealthy, BeginHealthy, fragVars
<1>5. CASE SaveStep
  BY <1>5 DEF SaveStep, LookUpCutoff, SelectWindow, SelectRecent, GiveUp, MuxClip,
     MuxNothing, MuxFails, fragVars
<1>6. CASE UNCHANGED vars
  BY <1>6 DEF vars, fragVars
<1> QED
  BY <1>1, <1>2, <1>3, <1>4, <1>5, <1>6 DEF Next

\* While nothing is outstanding the list spans no more than the live window.
THEOREM RetentionBoundedHolds == Spec => RetentionBounded
<1> DEFINE Bounded ==
      (fragments' # fragments /\ cutoffs = <<>>) =>
        LET last == fragments'[Len(fragments')].end
        IN  \A i \in DOMAIN fragments' :
              last - fragments'[i].end <= ClipLength + BufferSafety + RetentionSlack
<1>1. IInv /\ [Next]_vars => [Bounded]_vars
  BY OnlyBusClosed, BusClosedBounds
<1>2. [][Bounded]_vars => RetentionBounded
  BY DEF RetentionBounded
<1> QED
  BY <1>1, <1>2, RecorderInvariant, PTL DEF Spec
=============================================================================
