-------------------------- MODULE ClipMuxerProofs --------------------------
(***************************************************************************)
(* TypeOK, NothingLeftBehind and PublishedIsRequested for every set of     *)
(* processes and calls.  What another process can do to a call is to empty *)
(* its staging directory; so whatever is still there when a call looks is  *)
(* what the call itself has put there.                                     *)
(***************************************************************************)
EXTENDS ClipMuxer, SequenceTheorems, TLAPS

Places == {"begin", "stage", "run", "wait", "terminate", "copied", "encoded",
           "validate", "publish", "copying", "cleanup", "done", "unremoved",
           "killed"}

AnyCall == [segments : Nat, endTrim : Nat, target : Nat \ {0},
            trust : BOOLEAN, black : BOOLEAN]

Process ==
  [pc : Places, call : AnyCall, next : Nat, staged : Seq(Nat),
   copying : BOOLEAN, ok : BOOLEAN, result : {"none", "failed", "published"}]

Files == [seconds : Seq(Nat), black : BOOLEAN, state : {"none", "partial", "whole"}]

Directories == [exists : BOOLEAN, segments : Seq(Nat), output : Files]

Types ==
  /\ writer \in [Writers -> Process]
  /\ staging \in [Writers -> Directories]
  /\ ffmpeg \in [Writers -> {"none", "running", "ok", "error"}]
  /\ clip \in [Writers -> Files]

\* There is a directory only inside the call, and a child only while it is waited
\* for, or its process was killed.
Tidy(w) ==
  /\ At(w, "begin") \/ At(w, "done") => ~staging[w].exists
  /\ ffmpeg[w] # "none" => writer[w].pc \in {"wait", "terminate", "killed"}

\* As long as none was skipped, the segments are staged in order.
StagedInOrder(w) ==
  /\ Len(writer[w].staged) < writer[w].next
  /\ writer[w].next <= writer[w].call.segments + 1
  /\ Len(writer[w].staged) + 1 = writer[w].next
       => \A i \in 1..Len(writer[w].staged) : writer[w].staged[i] = i

\* A video that begins where the trimmed footage does and is not longer.
FromStaged(w, seconds) ==
  /\ Len(seconds) <= ExportDuration(w)
  /\ \A i \in 1..Len(seconds) :
       /\ TrimStart(w) + i <= Len(writer[w].staged)
       /\ seconds[i] = writer[w].staged[TrimStart(w) + i]

OutputFromStaged(w) ==
  staging[w].output.state = "whole" =>
    /\ ~At(w, "begin") /\ ~At(w, "stage")
    /\ FromStaged(w, staging[w].output.seconds)

\* The clip is what was asked for, or on its way to be.
Delivered(w) ==
  /\ writer[w].call.black => ~clip[w].black
  /\ Len(clip[w].seconds) + Tolerance(w) >= ExportDuration(w)
  /\ FromStaged(w, clip[w].seconds)

Deliverable(w) ==
  /\ At(w, "publish") /\ staging[w].output.state = "whole" => OutputIsValid(w)
  /\ At(w, "copying") => Delivered(w)
  /\ Published(w) =>
       /\ writer[w].pc \in {"cleanup", "done", "unremoved", "killed"}
       /\ clip[w].state = "whole"
       /\ Delivered(w)

Sound(w) ==
  Tidy(w) /\ StagedInOrder(w) /\ OutputFromStaged(w) /\ Deliverable(w)

IInv == Types /\ \A w \in Writers : Sound(w)

-----------------------------------------------------------------------------
(* What a step does to the process that takes it *)

OthersStay(w) ==
  /\ writer' \in [Writers -> Process]
  /\ \A v \in Writers \ {w} : writer'[v] = writer[v]

\* The call and what was staged for it stay the same.
SameCall(w) ==
  /\ writer'[w].call = writer[w].call
  /\ writer'[w].next = writer[w].next
  /\ writer'[w].staged = writer[w].staged


\* Min and Max of two numbers.
LEMMA MinOfTwo ==
  ASSUME NEW a \in Int, NEW b \in Int
  PROVE  Min({a, b}) = IF a <= b THEN a ELSE b
<1> DEFINE m == IF a <= b THEN a ELSE b
<1>1. m \in {a, b} /\ \A y \in {a, b} : m =< y
  OBVIOUS
<1>2. \A x \in {a, b} : (\A y \in {a, b} : x =< y) => x = m
  OBVIOUS
<1> QED
  BY <1>1, <1>2 DEF Min

\* The larger of two numbers.
LEMMA MaxOfTwo ==
  ASSUME NEW a \in Int, NEW b \in Int
  PROVE  Max({a, b}) = IF a >= b THEN a ELSE b
<1> DEFINE m == IF a >= b THEN a ELSE b
<1>1. m \in {a, b} /\ \A y \in {a, b} : m >= y
  OBVIOUS
<1>2. \A x \in {a, b} : (\A y \in {a, b} : x >= y) => x = m
  OBVIOUS
<1> QED
  BY <1>1, <1>2 DEF Max

\* The durations of the export are natural numbers.
LEMMA Durations ==
  ASSUME Types, NEW w \in Writers
  PROVE  ExportDuration(w) \in Nat /\ TrimStart(w) \in Nat /\ Tolerance(w) \in {0, 1}
<1>1. /\ writer[w].call.segments \in Nat /\ writer[w].call.endTrim \in Nat
      /\ writer[w].call.target \in Nat /\ writer[w].staged \in Seq(Nat)
  BY DEF Types, Process, AnyCall
<1>2. Available(w) \in Nat
  BY <1>1 DEF Available
<1>3. Usable(w) \in Nat
  <2> DEFINE left == Available(w) - writer[w].call.endTrim
  <2>1. left \in Int
    BY <1>1, <1>2
  <2>2. Usable(w) = Max({0, left})
    BY DEF Usable
  <2> HIDE DEF left
  <2>3. Max({0, left}) = IF 0 >= left THEN 0 ELSE left
    BY <2>1, MaxOfTwo
  <2> QED
    BY <2>1, <2>2, <2>3
<1>4. ExportDuration(w) = IF Usable(w) <= writer[w].call.target
                           THEN Usable(w) ELSE writer[w].call.target
  BY <1>1, <1>3, MinOfTwo, SMTT(30) DEF ExportDuration
<1>5. ExportDuration(w) \in Nat /\ TrimStart(w) \in Nat
  BY <1>1, <1>3, <1>4 DEF TrimStart
<1>6. Tolerance(w) \in {0, 1}
  <2> DEFINE long == writer[w].call.trust /\ ExportDuration(w) >= LongClip
  <2>1. CASE long
    BY <2>1 DEF Tolerance
  <2>2. CASE ~long
    BY <2>2 DEF Tolerance
  <2> QED
    BY <2>1, <2>2
<1> QED
  BY <1>5, <1>6

\* They depend on the call and on what was staged.
LEMMA SameDurations ==
  ASSUME NEW w, writer'[w].call = writer[w].call, writer'[w].staged = writer[w].staged
  PROVE  /\ ExportDuration(w)' = ExportDuration(w)
         /\ TrimStart(w)' = TrimStart(w)
         /\ Tolerance(w)' = Tolerance(w)
BY DEF ExportDuration, TrimStart, Tolerance, Usable, Available

\* One process is replaced by another that has the type.
LEMMA OneMoves ==
  ASSUME Types, NEW w \in Writers, NEW q \in Process, writer' = [writer EXCEPT ![w] = q]
  PROVE  writer'[w] = q /\ OthersStay(w)
BY DEF Types, OthersStay

\* What GoTo leaves of a process.
LEMMA GoToMoves ==
  ASSUME Types, NEW w \in Writers, NEW p \in Places,
         GoTo(w, p)
  PROVE  /\ OthersStay(w)
         /\ writer'[w].pc = p
         /\ writer'[w].call = writer[w].call
         /\ writer'[w].next = writer[w].next
         /\ writer'[w].staged = writer[w].staged
         /\ writer'[w].copying = writer[w].copying
         /\ writer'[w].ok = writer[w].ok
         /\ writer'[w].result = writer[w].result
<1> DEFINE q == [writer[w] EXCEPT !.pc = p]
<1>1. writer' = [writer EXCEPT ![w] = q]
  BY DEF GoTo
<1>2. writer[w] \in Process
  BY DEF Types
<1>3. /\ DOMAIN q = {"pc", "call", "next", "staged", "copying", "ok", "result"}
      /\ q = [k \in DOMAIN q |-> q[k]]
      /\ q["pc"] = p
      /\ q["call"] = writer[w]["call"]
      /\ q["next"] = writer[w]["next"]
      /\ q["staged"] = writer[w]["staged"]
      /\ q["copying"] = writer[w]["copying"]
      /\ q["ok"] = writer[w]["ok"]
      /\ q["result"] = writer[w]["result"]
  BY <1>2 DEF Process
<1> HIDE DEF q
<1>4. q \in Process
  BY <1>2, <1>3 DEF Process, Places
<1>5. writer'[w] = q /\ OthersStay(w)
  BY <1>1, <1>4, OneMoves
<1> QED
  BY <1>3, <1>5

\* What a return, or a refusal, leaves of it.
LEMMA LeaveMoves ==
  ASSUME Types, NEW w \in Writers, NEW p \in Places,
         NEW r \in {"failed", "published"},
         writer' = [writer EXCEPT ![w].pc = p, ![w].result = r]
  PROVE  /\ OthersStay(w)
         /\ writer'[w].pc = p
         /\ writer'[w].result = r
         /\ writer'[w].call = writer[w].call
         /\ writer'[w].next = writer[w].next
         /\ writer'[w].staged = writer[w].staged
         /\ writer'[w].copying = writer[w].copying
         /\ writer'[w].ok = writer[w].ok
<1> DEFINE q == [writer[w] EXCEPT !.pc = p, !.result = r]
<1>1. writer' = [writer EXCEPT ![w] = q]
  OBVIOUS
<1>2. writer[w] \in Process
  BY DEF Types
<1>3. /\ DOMAIN q = {"pc", "call", "next", "staged", "copying", "ok", "result"}
      /\ q = [k \in DOMAIN q |-> q[k]]
      /\ q["pc"] = p
      /\ q["call"] = writer[w]["call"]
      /\ q["next"] = writer[w]["next"]
      /\ q["staged"] = writer[w]["staged"]
      /\ q["copying"] = writer[w]["copying"]
      /\ q["ok"] = writer[w]["ok"]
      /\ q["result"] = r
  BY <1>2 DEF Process
<1> HIDE DEF q
<1>4. q \in Process
  BY <1>2, <1>3 DEF Process, Places
<1>5. writer'[w] = q /\ OthersStay(w)
  BY <1>1, <1>4, OneMoves
<1> QED
  BY <1>3, <1>5

\* What the end of RunCommand leaves of it.
LEMMA RanMoves ==
  ASSUME Types, NEW w \in Writers, NEW p \in Places, NEW b \in BOOLEAN,
         writer' = [writer EXCEPT ![w].pc = p, ![w].ok = b]
  PROVE  /\ OthersStay(w)
         /\ writer'[w].pc = p
         /\ writer'[w].ok = b
         /\ writer'[w].call = writer[w].call
         /\ writer'[w].next = writer[w].next
         /\ writer'[w].staged = writer[w].staged
         /\ writer'[w].copying = writer[w].copying
         /\ writer'[w].result = writer[w].result
<1> DEFINE q == [writer[w] EXCEPT !.pc = p, !.ok = b]
<1>1. writer' = [writer EXCEPT ![w] = q]
  OBVIOUS
<1>2. writer[w] \in Process
  BY DEF Types
<1>3. /\ DOMAIN q = {"pc", "call", "next", "staged", "copying", "ok", "result"}
      /\ q = [k \in DOMAIN q |-> q[k]]
      /\ q["pc"] = p
      /\ q["call"] = writer[w]["call"]
      /\ q["next"] = writer[w]["next"]
      /\ q["staged"] = writer[w]["staged"]
      /\ q["copying"] = writer[w]["copying"]
      /\ q["ok"] = b
      /\ q["result"] = writer[w]["result"]
  BY <1>2 DEF Process
<1> HIDE DEF q
<1>4. q \in Process
  BY <1>2, <1>3 DEF Process, Places
<1>5. writer'[w] = q /\ OthersStay(w)
  BY <1>1, <1>4, OneMoves
<1> QED
  BY <1>3, <1>5

\* What a segment that is skipped leaves of it.
LEMMA SkipMoves ==
  ASSUME Types, NEW w \in Writers, NEW n \in Nat,
         writer' = [writer EXCEPT ![w].next = n]
  PROVE  /\ OthersStay(w)
         /\ writer'[w].next = n
         /\ writer'[w].pc = writer[w].pc
         /\ writer'[w].call = writer[w].call
         /\ writer'[w].staged = writer[w].staged
         /\ writer'[w].copying = writer[w].copying
         /\ writer'[w].ok = writer[w].ok
         /\ writer'[w].result = writer[w].result
<1> DEFINE q == [writer[w] EXCEPT !.next = n]
<1>1. writer' = [writer EXCEPT ![w] = q]
  OBVIOUS
<1>2. writer[w] \in Process
  BY DEF Types
<1>3. /\ DOMAIN q = {"pc", "call", "next", "staged", "copying", "ok", "result"}
      /\ q = [k \in DOMAIN q |-> q[k]]
      /\ q["pc"] = writer[w]["pc"]
      /\ q["call"] = writer[w]["call"]
      /\ q["next"] = n
      /\ q["staged"] = writer[w]["staged"]
      /\ q["copying"] = writer[w]["copying"]
      /\ q["ok"] = writer[w]["ok"]
      /\ q["result"] = writer[w]["result"]
  BY <1>2 DEF Process
<1> HIDE DEF q
<1>4. q \in Process
  BY <1>2, <1>3 DEF Process, Places
<1>5. writer'[w] = q /\ OthersStay(w)
  BY <1>1, <1>4, OneMoves
<1> QED
  BY <1>3, <1>5

\* What a segment that is staged leaves of it.
LEMMA StageMoves ==
  ASSUME Types, NEW w \in Writers, NEW n \in Nat, NEW t \in Seq(Nat),
         writer' = [writer EXCEPT ![w].next = n, ![w].staged = t]
  PROVE  /\ OthersStay(w)
         /\ writer'[w].next = n
         /\ writer'[w].staged = t
         /\ writer'[w].pc = writer[w].pc
         /\ writer'[w].call = writer[w].call
         /\ writer'[w].copying = writer[w].copying
         /\ writer'[w].ok = writer[w].ok
         /\ writer'[w].result = writer[w].result
<1> DEFINE q == [writer[w] EXCEPT !.next = n, !.staged = t]
<1>1. writer' = [writer EXCEPT ![w] = q]
  OBVIOUS
<1>2. writer[w] \in Process
  BY DEF Types
<1>3. /\ DOMAIN q = {"pc", "call", "next", "staged", "copying", "ok", "result"}
      /\ q = [k \in DOMAIN q |-> q[k]]
      /\ q["pc"] = writer[w]["pc"]
      /\ q["call"] = writer[w]["call"]
      /\ q["next"] = n
      /\ q["staged"] = t
      /\ q["copying"] = writer[w]["copying"]
      /\ q["ok"] = writer[w]["ok"]
      /\ q["result"] = writer[w]["result"]
  BY <1>2 DEF Process
<1> HIDE DEF q
<1>4. q \in Process
  BY <1>2, <1>3 DEF Process, Places
<1>5. writer'[w] = q /\ OthersStay(w)
  BY <1>1, <1>4, OneMoves
<1> QED
  BY <1>3, <1>5

\* What the second attempt leaves of it.
LEMMA RetryMoves ==
  ASSUME Types, NEW w \in Writers,
         writer' = [writer EXCEPT ![w].pc = "run", ![w].copying = FALSE, ![w].ok = FALSE]
  PROVE  /\ OthersStay(w)
         /\ writer'[w].pc = "run"
         /\ writer'[w].copying = FALSE
         /\ writer'[w].ok = FALSE
         /\ writer'[w].call = writer[w].call
         /\ writer'[w].next = writer[w].next
         /\ writer'[w].staged = writer[w].staged
         /\ writer'[w].result = writer[w].result
<1> DEFINE q == [writer[w] EXCEPT !.pc = "run", !.copying = FALSE, !.ok = FALSE]
<1>1. writer' = [writer EXCEPT ![w] = q]
  OBVIOUS
<1>2. writer[w] \in Process
  BY DEF Types
<1>3. /\ DOMAIN q = {"pc", "call", "next", "staged", "copying", "ok", "result"}
      /\ q = [k \in DOMAIN q |-> q[k]]
      /\ q["pc"] = "run"
      /\ q["call"] = writer[w]["call"]
      /\ q["next"] = writer[w]["next"]
      /\ q["staged"] = writer[w]["staged"]
      /\ q["copying"] = FALSE
      /\ q["ok"] = FALSE
      /\ q["result"] = writer[w]["result"]
  BY <1>2 DEF Process
<1> HIDE DEF q
<1>4. q \in Process
  BY <1>2, <1>3 DEF Process, Places
<1>5. writer'[w] = q /\ OthersStay(w)
  BY <1>1, <1>4, OneMoves
<1> QED
  BY <1>3, <1>5

-----------------------------------------------------------------------------
(* What a step does to the others, and what most steps do to the one that   *)
(* takes them                                                               *)

Untouched(v) ==
  /\ ffmpeg'[v] = ffmpeg[v]
  /\ clip'[v] = clip[v]
  /\ \/ staging'[v] = staging[v]
     \/ staging'[v].output = NoFile /\ (staging'[v].exists => staging[v].exists)

\* Another process may lose its directory; it stays sound.
LEMMA OtherSound ==
  ASSUME IInv, NEW v \in Writers, writer'[v] = writer[v], Untouched(v)
  PROVE  Sound(v)'
<1>1. Sound(v)
  BY DEF IInv
<1>2. /\ ExportDuration(v)' = ExportDuration(v) /\ TrimStart(v)' = TrimStart(v)
      /\ Tolerance(v)' = Tolerance(v)
  BY SameDurations
<1>3. staging'[v] = staging[v] \/ staging'[v].output.state = "none"
  BY DEF Untouched, NoFile
<1>4. Tidy(v)'
  BY <1>1 DEF Sound, Tidy, At, Untouched
<1>5. StagedInOrder(v)'
  BY <1>1 DEF Sound, StagedInOrder
<1>6. OutputFromStaged(v)'
  BY <1>1, <1>2, <1>3 DEF Sound, OutputFromStaged, FromStaged, At
<1>7. Delivered(v) => Delivered(v)'
  BY <1>2 DEF Delivered, FromStaged, Untouched
<1>8. OutputIsValid(v) /\ staging'[v] = staging[v] => OutputIsValid(v)'
  BY <1>2 DEF OutputIsValid, FinalClipPassesValidation, ProbeMediaFile, IsUsableFinalClip,
              BlackFramesPass
<1>9. Deliverable(v)'
  BY <1>1, <1>3, <1>7, <1>8 DEF Sound, Deliverable, At, Published, Untouched
<1> QED
  BY <1>4, <1>5, <1>6, <1>9 DEF Sound

\* A step after which the call, the clip and the output are as before, or the
\* output is gone, keeps the process sound.
LEMMA QuietSound ==
  ASSUME IInv, NEW w \in Writers, SameCall(w), clip'[w] = clip[w],
         staging'[w].output = staging[w].output \/ staging'[w].output.state = "none",
         writer'[w].pc \notin {"begin", "stage", "copying"},
         Published(w)' =>
           Published(w) /\ writer'[w].pc \in {"cleanup", "done", "unremoved", "killed"},
         writer'[w].pc = "publish" =>
           OutputIsValid(w) \/ staging'[w].output.state = "none",
         Tidy(w)'
  PROVE  Sound(w)'
<1>1. Sound(w)
  BY DEF IInv
<1>2. /\ ExportDuration(w)' = ExportDuration(w) /\ TrimStart(w)' = TrimStart(w)
      /\ Tolerance(w)' = Tolerance(w)
  BY SameDurations DEF SameCall
<1>3. StagedInOrder(w)'
  BY <1>1 DEF Sound, StagedInOrder, SameCall
<1>4. OutputFromStaged(w)'
  BY <1>1, <1>2 DEF Sound, OutputFromStaged, FromStaged, SameCall, At
<1>5. Delivered(w) => Delivered(w)'
  BY <1>2 DEF Delivered, FromStaged, SameCall
<1>6. OutputIsValid(w) /\ staging'[w].output = staging[w].output => OutputIsValid(w)'
  BY <1>2 DEF OutputIsValid, FinalClipPassesValidation, ProbeMediaFile, IsUsableFinalClip,
              BlackFramesPass, SameCall
<1>7. Deliverable(w)'
  BY <1>1, <1>5, <1>6 DEF Sound, Deliverable, At, Published
<1> QED
  BY <1>3, <1>4, <1>7 DEF Sound

\* A step of one process.
StepOf(w) ==
  /\ OthersStay(w)
  /\ staging' \in [Writers -> Directories]
  /\ ffmpeg' \in [Writers -> {"none", "running", "ok", "error"}]
  /\ clip' \in [Writers -> Files]
  /\ \A v \in Writers \ {w} : Untouched(v)

\* It preserves the invariant when its own process stays sound.
LEMMA StepSound ==
  ASSUME IInv, NEW w \in Writers, StepOf(w), Sound(w)'
  PROVE  IInv'
<1>1. Types'
  BY DEF Types, StepOf, OthersStay
<1>2. ASSUME NEW v \in Writers \ {w} PROVE Sound(v)'
  BY OtherSound DEF StepOf, OthersStay
<1>3. \A v \in Writers : Sound(v)'
  BY <1>2
<1> QED
  BY <1>1, <1>3 DEF IInv

\* What is in the directory, and that it is one.
LEMMA OutputMoves ==
  ASSUME Types, NEW w \in Writers, NEW o \in Files,
         staging' = [staging EXCEPT ![w].output = o]
  PROVE  /\ staging' \in [Writers -> Directories]
         /\ staging'[w].output = o /\ staging'[w].exists = staging[w].exists
         /\ \A v \in Writers \ {w} : staging'[v] = staging[v]
BY DEF Types, Directories

\* The constants of the model have their types.
LEMMA Nothing == NoFile \in Files /\ NoDirectory \in Directories
<1>1. <<>> \in Seq(Nat)
  OBVIOUS
<1>2. NoFile \in Files
  BY <1>1 DEF NoFile, Files
<1> QED
  BY <1>1, <1>2 DEF NoDirectory, Directories

\* Steps that only move on, with or without the child, keep the invariant.
LEMMA OnlyMoves ==
  ASSUME IInv, NEW w \in Writers, OthersStay(w), SameCall(w),
         UNCHANGED <<staging, clip>>,
         ffmpeg' \in [Writers -> {"none", "running", "ok", "error"}],
         \A v \in Writers \ {w} : ffmpeg'[v] = ffmpeg[v],
         writer'[w].pc \notin {"begin", "stage", "copying"},
         writer'[w].result = "published" =>
           Published(w) /\ writer'[w].pc \in {"cleanup", "done", "unremoved", "killed"},
         writer'[w].pc = "publish" => OutputIsValid(w),
         writer'[w].pc = "done" => ~staging[w].exists,
         ffmpeg'[w] # "none" => writer'[w].pc \in {"wait", "terminate", "killed"}
  PROVE  IInv'
<1>1. StepOf(w)
  BY DEF StepOf, Untouched, IInv, Types
<1>2. Tidy(w)'
  BY DEF Tidy, At
<1>3. Sound(w)'
  BY <1>2, QuietSound DEF Published
<1> QED
  BY <1>1, <1>3, StepSound

\* A call that has not reached its end has not published, and no child runs
\* where none is waited for.
LEMMA Unpublished ==
  ASSUME IInv, NEW w \in Writers
  PROVE  /\ writer[w].pc \notin {"cleanup", "done", "unremoved", "killed"} =>
              ~Published(w)
         /\ writer[w].pc \notin {"wait", "terminate", "killed"} => ffmpeg[w] = "none"
         /\ writer[w].pc \in {"begin", "done"} => ~staging[w].exists
BY DEF IInv, Sound, Tidy, Deliverable, At

-----------------------------------------------------------------------------
(* The steps *)

\* DirectoryFails
LEMMA DirectoryFailsStep ==
  ASSUME IInv, NEW w \in Writers, DirectoryFails(w) PROVE IInv'
<1>1. Types /\ writer[w].pc = "begin" /\ UNCHANGED <<staging, ffmpeg, clip>>
  BY DEF IInv, DirectoryFails, Refuse, At
<1>2. writer' = [writer EXCEPT ![w].pc = "done", ![w].result = "failed"]
  BY DEF DirectoryFails, Refuse
<1>3. /\ OthersStay(w) /\ SameCall(w)
      /\ writer'[w].pc = "done" /\ writer'[w].result = "failed"
  BY <1>1, <1>2, LeaveMoves DEF SameCall, Places
<1> QED
  BY <1>1, <1>3, OnlyMoves, Unpublished DEF Types

\* GoTo, where nothing else happens and no child is left
LEMMA GoesOn ==
  ASSUME IInv, NEW w \in Writers,
         NEW p \in {"run", "validate", "publish"},
         writer[w].pc \in {"stage", "copied", "validate", "encoded"},
         GoTo(w, p), UNCHANGED <<staging, ffmpeg, clip>>,
         p = "publish" => OutputIsValid(w)
  PROVE  IInv'
<1>1. Types
  BY DEF IInv
<1>2. /\ OthersStay(w) /\ SameCall(w)
      /\ writer'[w].pc = p /\ writer'[w].result = writer[w].result
  BY <1>1, GoToMoves DEF SameCall, Places
<1>3. ffmpeg[w] = "none" /\ ~Published(w)
  BY Unpublished
<1> QED
  BY <1>1, <1>2, <1>3, OnlyMoves DEF Types, Published

\* Leave, where nothing else happens
LEMMA Leaves ==
  ASSUME IInv, NEW w \in Writers,
         writer[w].pc \in {"stage", "encoded", "publish", "copying"},
         Leave(w, "failed"), UNCHANGED <<staging, ffmpeg, clip>>
  PROVE  IInv'
<1>1. Types
  BY DEF IInv
<1>2. /\ OthersStay(w) /\ SameCall(w)
      /\ writer'[w].pc = "cleanup" /\ writer'[w].result = "failed"
  BY <1>1, LeaveMoves DEF SameCall, Places, Leave
<1>3. ffmpeg[w] = "none"
  BY Unpublished
<1> QED
  BY <1>1, <1>2, <1>3, OnlyMoves DEF Types

\* Staged
LEMMA StagedStep ==
  ASSUME IInv, NEW w \in Writers, Staged(w) PROVE IInv'
<1>1. writer[w].pc = "stage" /\ UNCHANGED <<staging, ffmpeg, clip>>
  BY DEF Staged, At
<1>2. CASE Leave(w, "failed")
  BY <1>1, <1>2, Leaves
<1>3. CASE GoTo(w, "run")
  BY <1>1, <1>3, GoesOn
<1> QED
  BY <1>2, <1>3 DEF Staged

\* The end of RunCommand
LEMMA Returns ==
  ASSUME IInv, NEW w \in Writers, NEW b \in BOOLEAN, Ran(w, b),
         writer[w].pc \in {"run", "wait", "terminate"},
         UNCHANGED <<staging, clip>>,
         ffmpeg' = [ffmpeg EXCEPT ![w] = "none"]
  PROVE  IInv'
<1>1. Types
  BY DEF IInv
<1> DEFINE p == IF writer[w].copying THEN "copied" ELSE "encoded"
<1>2. p \in {"copied", "encoded"}
  OBVIOUS
<1>3. writer' = [writer EXCEPT ![w].pc = p, ![w].ok = b]
  BY DEF Ran
<1> HIDE DEF p
<1>4. /\ OthersStay(w) /\ SameCall(w)
      /\ writer'[w].pc = p /\ writer'[w].result = writer[w].result
  BY <1>1, <1>2, <1>3, RanMoves DEF SameCall, Places
<1>5. ~Published(w)
  BY Unpublished
<1>6. /\ ffmpeg' \in [Writers -> {"none", "running", "ok", "error"}]
      /\ ffmpeg'[w] = "none" /\ \A v \in Writers \ {w} : ffmpeg'[v] = ffmpeg[v]
  BY <1>1 DEF Types
<1> QED
  BY <1>2, <1>4, <1>5, <1>6, OnlyMoves DEF Published

\* RunCommand
LEMMA RunCommandStep ==
  ASSUME IInv, NEW w \in Writers, RunCommand(w) PROVE IInv'
<1>1. Types /\ writer[w].pc = "run" /\ UNCHANGED <<staging, clip>>
  BY DEF IInv, RunCommand, At
<1>2. ffmpeg[w] = "none" /\ ~Published(w)
  BY <1>1, Unpublished
<1>3. CASE ffmpeg' = [ffmpeg EXCEPT ![w] = "running"] /\ GoTo(w, "wait")
  <2>1. /\ OthersStay(w) /\ SameCall(w)
        /\ writer'[w].pc = "wait" /\ writer'[w].result = writer[w].result
    BY <1>1, <1>3, GoToMoves DEF SameCall, Places
  <2>2. /\ ffmpeg' \in [Writers -> {"none", "running", "ok", "error"}]
        /\ \A v \in Writers \ {w} : ffmpeg'[v] = ffmpeg[v]
    BY <1>1, <1>3 DEF Types
  <2> QED
    BY <1>1, <1>2, <2>1, <2>2, OnlyMoves DEF Published
<1>4. CASE Ran(w, FALSE) /\ UNCHANGED ffmpeg
  <2>1. ffmpeg' = [ffmpeg EXCEPT ![w] = "none"]
    BY <1>1, <1>2, <1>4 DEF Types
  <2> QED
    BY <1>1, <1>4, <2>1, Returns
<1> QED
  BY <1>3, <1>4 DEF RunCommand

\* FfmpegReaped, FfmpegTerminated and FfmpegKilled
LEMMA ReapStep ==
  ASSUME IInv, NEW w \in Writers,
         FfmpegReaped(w) \/ FfmpegTerminated(w) \/ FfmpegKilled(w)
  PROVE  IInv'
<1>1. writer[w].pc \in {"wait", "terminate"}
  BY DEF FfmpegReaped, FfmpegTerminated, FfmpegKilled, At
<1>2. PICK b \in BOOLEAN : Reap(w, b)
  BY DEF FfmpegReaped, FfmpegTerminated, FfmpegKilled
<1> QED
  BY <1>1, <1>2, Returns DEF Reap

\* WaitTimesOut and the death of the process
LEMMA MovesOn ==
  ASSUME IInv, NEW w \in Writers, WaitTimesOut(w) \/ Killed(w)
  PROVE  IInv'
<1>1. Types /\ UNCHANGED <<staging, ffmpeg, clip>>
  BY DEF IInv, WaitTimesOut, Killed
<1>2. PICK p \in {"terminate", "killed"} :
        GoTo(w, p) /\ (p = "terminate" => writer[w].pc = "wait")
  BY DEF WaitTimesOut, Killed, At
<1>3. /\ OthersStay(w) /\ SameCall(w)
      /\ writer'[w].pc = p /\ writer'[w].result = writer[w].result
  BY <1>1, <1>2, GoToMoves DEF SameCall, Places
<1>4. Published(w) => p = "killed"
  BY <1>2, Unpublished
<1> QED
  BY <1>1, <1>2, <1>3, <1>4, OnlyMoves DEF Types, Published

\* The child ends, whoever waits for it.
LEMMA FfmpegFailsStep ==
  ASSUME IInv, NEW w \in Writers, FfmpegFails(w) PROVE IInv'
<1>1. /\ Types /\ UNCHANGED <<writer, staging, clip>>
      /\ ffmpeg[w] = "running" /\ ffmpeg' = [ffmpeg EXCEPT ![w] = "error"]
  BY DEF IInv, FfmpegFails
<1>2. writer[w].pc \in {"wait", "terminate", "killed"}
  BY <1>1, Unpublished
<1>3. /\ ffmpeg' \in [Writers -> {"none", "running", "ok", "error"}]
      /\ \A v \in Writers \ {w} : ffmpeg'[v] = ffmpeg[v]
  BY <1>1 DEF Types
<1>4. OthersStay(w) /\ SameCall(w)
  BY <1>1 DEF OthersStay, SameCall, Types
<1>5. Published(w) => writer[w].pc = "killed"
  BY <1>2, Unpublished
<1> QED
  BY <1>1, <1>2, <1>3, <1>4, <1>5, OnlyMoves DEF Published

\* Removing the output, before another attempt or on the way out
LEMMA RemovesOutput ==
  ASSUME IInv, NEW w \in Writers,
         writer[w].pc \in {"copied", "validate", "encoded"},
         OthersStay(w), SameCall(w), RemoveOutput(w), UNCHANGED <<ffmpeg, clip>>,
         writer'[w].pc \in {"run", "cleanup"}, writer'[w].result # "published"
  PROVE  IInv'
<1>1. Types /\ ffmpeg[w] = "none"
  BY Unpublished DEF IInv
<1>2. /\ staging' \in [Writers -> Directories] /\ staging'[w].output = NoFile
      /\ \A v \in Writers \ {w} : staging'[v] = staging[v]
  BY <1>1, OutputMoves, Nothing DEF RemoveOutput
<1>3. StepOf(w)
  BY <1>1, <1>2 DEF StepOf, Untouched, Types
<1>4. Tidy(w)'
  BY <1>1 DEF Tidy, At
<1>5. Sound(w)'
  BY <1>2, <1>4, QuietSound DEF Published, NoFile
<1> QED
  BY <1>3, <1>5, StepSound

\* CopyRejected
LEMMA CopyRejectedStep ==
  ASSUME IInv, NEW w \in Writers, CopyRejected(w) PROVE IInv'
<1>1. Types /\ writer[w].pc = "copied" /\ RemoveOutput(w) /\ UNCHANGED <<ffmpeg, clip>>
  BY DEF IInv, CopyRejected, At
<1>2. writer' = [writer EXCEPT ![w].pc = "run", ![w].copying = FALSE, ![w].ok = FALSE]
  BY DEF CopyRejected
<1>3. /\ OthersStay(w) /\ SameCall(w)
      /\ writer'[w].pc = "run" /\ writer'[w].result = writer[w].result
  BY <1>1, <1>2, RetryMoves DEF SameCall
<1>4. ~Published(w)
  BY <1>1, Unpublished
<1> QED
  BY <1>1, <1>3, <1>4, RemovesOutput DEF Published

\* CopyAccepted, ComposeFailed and Validate
LEMMA ValidateStep ==
  ASSUME IInv, NEW w \in Writers, CopyAccepted(w) \/ ComposeFailed(w) \/ Validate(w)
  PROVE  IInv'
<1>1. CASE CopyAccepted(w)
  BY <1>1, GoesOn DEF CopyAccepted, At
<1>2. CASE ComposeFailed(w)
  BY <1>2, Leaves DEF ComposeFailed, At
<1>3. CASE Validate(w)
  <2>1. writer[w].pc \in {"validate", "encoded"} /\ UNCHANGED <<ffmpeg, clip>>
    BY <1>3 DEF Validate, AtFinalProbe, At
  <2>2. CASE OutputIsValid(w) /\ GoTo(w, "publish") /\ UNCHANGED staging
    BY <2>1, <2>2, GoesOn
  <2>3. CASE RemoveOutput(w) /\ Leave(w, "failed")
    <3>1. Types
      BY DEF IInv
    <3>2. /\ OthersStay(w) /\ SameCall(w)
          /\ writer'[w].pc = "cleanup" /\ writer'[w].result = "failed"
      BY <2>3, <3>1, LeaveMoves DEF SameCall, Places, Leave
    <3> QED
      BY <2>1, <2>3, <3>2, RemovesOutput
  <2> QED
    BY <1>3, <2>2, <2>3 DEF Validate
<1> QED
  BY <1>1, <1>2, <1>3

\* What remove_all leaves is a directory, with nothing new in it.
LEMMA RemovedIsLess ==
  ASSUME Types, NEW v \in Writers, NEW d \in Removed(v)
  PROVE  /\ d \in Directories
         /\ d = staging[v] \/ (d.output = NoFile /\ (d.exists => staging[v].exists))
         /\ d.segments \in {staging[v].segments, <<>>}
<1>1. staging[v] \in Directories /\ NoDirectory \in Directories
  BY Nothing DEF Types
<1>2. /\ NoDirectory.output = NoFile /\ NoDirectory.exists = FALSE
      /\ NoDirectory.segments = <<>>
  BY DEF NoDirectory
<1>3. CASE d = NoDirectory
  BY <1>1, <1>2, <1>3
<1>4. CASE d = [NoDirectory EXCEPT !.exists = staging[v].exists]
  <2> DEFINE b == staging[v].exists
  <2>1. b \in BOOLEAN
    BY <1>1 DEF Directories
  <2>2. d = [NoDirectory EXCEPT !.exists = b]
    BY <1>4
  <2> HIDE DEF b
  <2>3. /\ d \in Directories /\ d.output = NoFile /\ d.exists = b
        /\ d.segments = <<>>
    BY <1>1, <2>1, <2>2 DEF Directories, NoDirectory
  <2> QED
    BY <2>3 DEF b
<1>5. CASE d = staging[v]
  BY <1>1, <1>5
<1> QED
  BY <1>3, <1>4, <1>5 DEF Removed

\* The others may lose their directories, or what is in them.
LEMMA CleansOthers ==
  ASSUME Types, NEW w \in Writers, NEW own \in Directories,
         CleanStaleStagingDirectories(w, own), UNCHANGED <<ffmpeg, clip>>
  PROVE  /\ staging' \in [Writers -> Directories] /\ staging'[w] = own
         /\ \A v \in Writers \ {w} :
              Untouched(v) /\ staging'[v].segments \in {staging[v].segments, <<>>}
<1>1. PICK after \in [Writers -> UNION {Removed(v) : v \in Writers}] :
        /\ \A v \in Writers : after[v] \in Removed(v)
        /\ staging' = [after EXCEPT ![w] = own]
  BY DEF CleanStaleStagingDirectories
<1>2. staging'[w] = own /\ \A v \in Writers \ {w} : staging'[v] \in Removed(v)
  BY <1>1
<1>3. \A v \in Writers : staging'[v] \in Directories
  BY <1>2, RemovedIsLess
<1>4. staging' = [v \in Writers |-> staging'[v]]
  BY <1>1
<1>5. staging' \in [Writers -> Directories]
  BY <1>3, <1>4
<1>6. ASSUME NEW v \in Writers \ {w}
      PROVE  Untouched(v) /\ staging'[v].segments \in {staging[v].segments, <<>>}
  BY <1>2, RemovedIsLess DEF Untouched
<1> QED
  BY <1>2, <1>5, <1>6

\* Begin
LEMMA BeginStep ==
  ASSUME IInv, NEW w \in Writers, Begin(w) PROVE IInv'
<1> DEFINE own == [NoDirectory EXCEPT !.exists = TRUE]
<1>1. Types /\ writer[w].pc = "begin" /\ GoTo(w, "stage") /\ UNCHANGED <<ffmpeg, clip>>
  BY DEF IInv, Begin, At
<1>2. own \in Directories /\ own.output = NoFile
  BY Nothing DEF Directories, NoDirectory
<1>3. /\ OthersStay(w) /\ SameCall(w)
      /\ writer'[w].pc = "stage" /\ writer'[w].result = writer[w].result
  BY <1>1, GoToMoves DEF SameCall, Places
<1>4. CleanStaleStagingDirectories(w, own)
  BY DEF Begin
<1> HIDE DEF own
<1>5. /\ staging' \in [Writers -> Directories] /\ staging'[w] = own
      /\ \A v \in Writers \ {w} : Untouched(v)
  BY <1>1, <1>2, <1>4, CleansOthers
<1>6. StepOf(w)
  BY <1>1, <1>3, <1>5 DEF StepOf, Types
<1>7. ffmpeg[w] = "none" /\ ~Published(w) /\ Sound(w)
  BY <1>1, Unpublished DEF IInv
<1>8. staging'[w].output.state = "none"
  BY <1>2, <1>5 DEF NoFile
<1>9. Sound(w)'
  BY <1>1, <1>3, <1>7, <1>8 DEF Sound, Tidy, StagedInOrder, OutputFromStaged, Deliverable,
                                At, Published, SameCall
<1> QED
  BY <1>6, <1>9, StepSound

\* StagingDirectoryFails
LEMMA StagingDirectoryFailsStep ==
  ASSUME IInv, NEW w \in Writers, StagingDirectoryFails(w) PROVE IInv'
<1>1. Types /\ writer[w].pc = "begin" /\ UNCHANGED <<ffmpeg, clip>>
  BY DEF IInv, StagingDirectoryFails, At
<1>2. writer' = [writer EXCEPT ![w].pc = "done", ![w].result = "failed"]
  BY DEF StagingDirectoryFails
<1>3. /\ OthersStay(w) /\ SameCall(w)
      /\ writer'[w].pc = "done" /\ writer'[w].result = "failed"
  BY <1>1, <1>2, LeaveMoves DEF SameCall, Places
<1>4. /\ staging' \in [Writers -> Directories] /\ staging'[w] = NoDirectory
      /\ \A v \in Writers \ {w} : Untouched(v)
  BY <1>1, Nothing, CleansOthers DEF StagingDirectoryFails
<1>5. ~staging'[w].exists /\ staging'[w].output.state = "none"
  BY <1>4 DEF NoDirectory, NoFile
<1>6. StepOf(w)
  BY <1>1, <1>3, <1>4 DEF StepOf, Types
<1>7. ffmpeg[w] = "none"
  BY <1>1, Unpublished
<1>8. Tidy(w)'
  BY <1>1, <1>5, <1>7 DEF Tidy, At
<1>9. Sound(w)'
  BY <1>1, <1>3, <1>5, <1>8, QuietSound DEF Published
<1> QED
  BY <1>6, <1>9, StepSound

\* The number of segments of a call.
LEMMA SegmentsAreCounted ==
  ASSUME Types, NEW w \in Writers PROVE writer[w].call.segments \in Nat
BY DEF Types, Process, AnyCall

\* StageSegment
LEMMA StageSegmentStep ==
  ASSUME IInv, NEW w \in Writers, StageSegment(w) PROVE IInv'
<1> DEFINE staged == writer[w].staged
           next == writer[w].next
<1>1. /\ Types /\ writer[w].pc = "stage" /\ next <= writer[w].call.segments
      /\ UNCHANGED <<ffmpeg, clip>>
  BY DEF IInv, StageSegment, At
<1>2. next \in Nat /\ staged \in Seq(Nat)
  BY <1>1 DEF Types, Process
<1>3. ffmpeg[w] = "none" /\ ~Published(w) /\ Sound(w)
  BY <1>1, Unpublished DEF IInv
<1> DEFINE n == Len(staged)
           InOrder == n + 1 = next => \A i \in 1..n : staged[i] = i
<1>0. n \in Nat /\ n < next /\ InOrder
  BY <1>2, <1>3 DEF Sound, StagedInOrder
<1>4. staging[w].output.state # "whole"
  BY <1>1, <1>3 DEF Sound, OutputFromStaged, At
<1>5. ASSUME OthersStay(w), writer'[w].pc = "stage",
             writer'[w].result = writer[w].result,
             StagedInOrder(w)',
             staging' \in [Writers -> Directories],
             staging'[w].output = staging[w].output,
             \A v \in Writers \ {w} : staging'[v] = staging[v]
      PROVE  IInv'
  <2>1. StepOf(w)
    BY <1>1, <1>5 DEF StepOf, Untouched, Types
  <2>2. Sound(w)'
    BY <1>1, <1>3, <1>4, <1>5
       DEF Sound, Tidy, OutputFromStaged, Deliverable, At, Published
  <2> QED
    BY <2>1, <2>2, StepSound
<1>6. CASE /\ staging' = [staging EXCEPT ![w].segments = Append(@, next)]
           /\ writer' = [writer EXCEPT ![w].next = @ + 1, ![w].staged = Append(@, next)]
  <2>1. /\ Append(staged, next) \in Seq(Nat)
        /\ Len(Append(staged, next)) = Len(staged) + 1
        /\ \A i \in 1..Len(staged) : Append(staged, next)[i] = staged[i]
        /\ Append(staged, next)[Len(staged) + 1] = next
    BY <1>2, AppendProperties
  <2>2. writer' = [writer EXCEPT ![w].next = next + 1, ![w].staged = Append(staged, next)]
    BY <1>6
  <2>3. /\ OthersStay(w) /\ writer'[w].pc = "stage"
        /\ writer'[w].result = writer[w].result /\ writer'[w].call = writer[w].call
        /\ writer'[w].next = next + 1 /\ writer'[w].staged = Append(staged, next)
    <3>1. next + 1 \in Nat
      BY <1>2
    <3> HIDE DEF next, staged
    <3> QED
      BY <1>1, <2>1, <2>2, <3>1, StageMoves DEF next
  <2>4. StagedInOrder(w)'
    <3>1. n + 1 < next + 1 /\ next + 1 <= writer[w].call.segments + 1
      BY <1>0, <1>1, <1>2, SegmentsAreCounted
    <3>2. ASSUME n + 2 = next + 1, NEW i \in 1..(n + 1)
          PROVE  Append(staged, next)[i] = i
      <4>1. next = n + 1 /\ (i \in 1..n \/ i = n + 1)
        BY <1>0, <1>2, <3>2, SMTT(30)
      <4>2. CASE i \in 1..n
        <5>1. staged[i] = i
          BY <1>0, <4>1, <4>2
        <5> QED
          BY <2>1, <4>2, <5>1
      <4>3. CASE i = n + 1
        BY <2>1, <4>1, <4>3
      <4> QED
        BY <4>1, <4>2, <4>3
    <3>3. n + 1 + 1 = next + 1 => \A i \in 1..(n + 1) : Append(staged, next)[i] = i
      BY <1>0, <1>2, <3>2
    <3> QED
      BY <2>1, <2>3, <3>1, <3>3 DEF StagedInOrder
  <2>5. /\ staging' \in [Writers -> Directories]
        /\ staging'[w].output = staging[w].output
        /\ \A v \in Writers \ {w} : staging'[v] = staging[v]
    <3>1. staging[w] \in Directories
      BY <1>1 DEF Types
    <3>2. Append(staging[w].segments, next) \in Seq(Nat)
      BY <1>2, <3>1, AppendProperties DEF Directories
    <3> QED
      BY <1>1, <1>6, <3>1, <3>2 DEF Types, Directories
  <2> QED
    BY <1>5, <2>3, <2>4, <2>5
<1>7. CASE writer' = [writer EXCEPT ![w].next = @ + 1] /\ UNCHANGED staging
  <2>1. writer' = [writer EXCEPT ![w].next = next + 1] /\ next + 1 \in Nat
    BY <1>2, <1>7
  <2>2. /\ OthersStay(w) /\ writer'[w].pc = "stage"
        /\ writer'[w].result = writer[w].result /\ writer'[w].call = writer[w].call
        /\ writer'[w].next = next + 1 /\ writer'[w].staged = staged
    BY <1>1, <2>1, SkipMoves
  <2>3. StagedInOrder(w)'
    <3>1. n < next + 1 /\ next + 1 <= writer[w].call.segments + 1
      BY <1>0, <1>1, <1>2, SegmentsAreCounted
    <3>2. n + 1 # next + 1
      BY <1>0, <1>2
    <3> QED
      BY <2>2, <3>1, <3>2 DEF StagedInOrder
  <2> QED
    BY <1>1, <1>5, <1>7, <2>2, <2>3 DEF Types
<1> QED
  BY <1>6, <1>7 DEF StageSegment

\* What ffmpeg can write is taken from what was staged.
LEMMA OutputsAreStaged ==
  ASSUME Types, NEW w \in Writers, NEW output \in Outputs(w)
  PROVE  output \in Files /\ output.state = "whole" /\ FromStaged(w, output.seconds)
<1> DEFINE staged == writer[w].staged
           readable == Readable(w)
           first == TrimStart(w) + 1
           last == Min({Len(readable), TrimStart(w) + ExportDuration(w)})
           composed == Composed(w)
<1>1. TrimStart(w) \in Nat /\ ExportDuration(w) \in Nat /\ staged \in Seq(Nat)
  BY Durations DEF Types, Process
<1>2. readable \in Seq(Nat) /\ (readable = staged \/ readable = <<>>)
  BY <1>1 DEF Readable
<1>3. /\ last \in Int /\ last <= Len(readable)
      /\ last <= TrimStart(w) + ExportDuration(w) /\ first \in Nat \ {0}
      /\ Len(readable) \in Nat
  <2> HIDE DEF readable
  <2> DEFINE sum == TrimStart(w) + ExportDuration(w)
  <2>1. Len(readable) \in Nat /\ sum \in Nat /\ first \in Nat \ {0}
    BY <1>1, <1>2
  <2> HIDE DEF sum, first
  <2>2. Min({Len(readable), sum}) = IF Len(readable) <= sum THEN Len(readable) ELSE sum
    BY <2>1, MinOfTwo
  <2>3. last = Min({Len(readable), sum})
    BY DEF sum
  <2> HIDE DEF last
  <2>4. last \in Int /\ last <= Len(readable) /\ last <= sum
    BY <2>1, <2>2, <2>3
  <2> QED
    BY <2>1, <2>4 DEF sum
<1>4. \A i \in first..last : readable[i] \in Nat
  <2> HIDE DEF readable, first, last
  <2> QED
    BY <1>2, <1>3
<1>5. composed = SubSeq(readable, first, last)
  BY DEF Composed
<1> HIDE DEF readable, first, last, composed
<1>6. /\ composed \in Seq(Nat)
      /\ Len(composed) = IF first <= last THEN last - first + 1 ELSE 0
      /\ \A i \in 1..(last - first + 1) : composed[i] = readable[first + i - 1]
  BY <1>3, <1>4, <1>5, SubSeqProperties
<1>7. PICK n \in 0..Len(composed), black \in {FALSE, writer[w].call.black} :
        output = File(SubSeq(composed, 1, n), black)
  <2> DEFINE blacks == {FALSE, writer[w].call.black}
  <2>1. Outputs(w) = {File(SubSeq(composed, 1, n), black) :
                        n \in 0..Len(composed), black \in blacks}
    BY DEF Outputs, composed
  <2> HIDE DEF blacks
  <2>2. \E n \in 0..Len(composed), black \in blacks :
          output = File(SubSeq(composed, 1, n), black)
    BY <2>1
  <2> QED
    BY <2>2, Zenon DEF blacks
<1> DEFINE seconds == SubSeq(composed, 1, n)
<1>8. /\ n \in Nat /\ n <= Len(composed) /\ seconds \in Seq(Nat) /\ Len(seconds) = n
      /\ \A i \in 1..n : seconds[i] = composed[i]
  <2>1. n \in Nat /\ n <= Len(composed) /\ \A i \in 1..n : composed[i] \in Nat
    BY <1>6
  <2>2. /\ seconds \in Seq(Nat) /\ Len(seconds) = IF 1 <= n THEN n - 1 + 1 ELSE 0
        /\ \A i \in 1..(n - 1 + 1) : seconds[i] = composed[1 + i - 1]
    BY <2>1, SubSeqProperties
  <2> HIDE DEF seconds
  <2> QED
    BY <2>1, <2>2
<1>9. output \in Files /\ output.state = "whole" /\ output.seconds = seconds
  <2>1. black \in BOOLEAN
    BY DEF Types, Process, AnyCall
  <2> HIDE DEF seconds
  <2>2. output = File(seconds, black)
    BY <1>7 DEF seconds
  <2> QED
    BY <1>8, <2>1, <2>2 DEF File, Files
<1> HIDE DEF seconds
<1>10. Len(seconds) <= ExportDuration(w)
  BY <1>1, <1>3, <1>6, <1>8 DEF first
<1>11. ASSUME NEW i \in 1..Len(seconds)
       PROVE  TrimStart(w) + i <= Len(staged) /\ seconds[i] = staged[TrimStart(w) + i]
  <2>1. i \in 1..n /\ first <= last /\ i \in 1..(last - first + 1)
    BY <1>3, <1>6, <1>8, <1>11
  <2>2. seconds[i] = readable[first + i - 1]
    BY <1>6, <1>8, <2>1
  <2>5. first + i - 1 <= last
    BY <1>3, <1>8, <2>1
  <2>3. first + i - 1 = TrimStart(w) + i
    BY <1>1, <1>8 DEF first
  <2>4. readable # <<>>
    BY <1>3, <2>1
  <2> QED
    BY <1>1, <1>2, <1>3, <2>2, <2>3, <2>4, <2>5, SMTT(30)
<1> QED
  BY <1>9, <1>10, <1>11 DEF FromStaged

\* FfmpegSucceeds
LEMMA FfmpegSucceedsStep ==
  ASSUME IInv, NEW w \in Writers, FfmpegSucceeds(w) PROVE IInv'
<1>1. /\ Types /\ UNCHANGED <<writer, clip>>
      /\ ffmpeg[w] = "running" /\ ffmpeg' = [ffmpeg EXCEPT ![w] = "ok"]
  BY DEF IInv, FfmpegSucceeds
<1>2. writer[w].pc \in {"wait", "terminate", "killed"} /\ Sound(w)
  BY <1>1, Unpublished DEF IInv
<1>3. /\ ffmpeg' \in [Writers -> {"none", "running", "ok", "error"}]
      /\ \A v \in Writers \ {w} : ffmpeg'[v] = ffmpeg[v]
  BY <1>1 DEF Types
<1>4. OthersStay(w) /\ SameCall(w)
  BY <1>1 DEF OthersStay, SameCall, Types
<1>5. Published(w) => writer[w].pc = "killed"
  BY <1>2, Unpublished
<1>6. CASE UNCHANGED staging
  BY <1>1, <1>2, <1>3, <1>4, <1>5, <1>6, OnlyMoves DEF Published
<1>7. CASE \E output \in Outputs(w) : staging' = [staging EXCEPT ![w].output = output]
  <2>1. PICK output \in Outputs(w) : staging' = [staging EXCEPT ![w].output = output]
    BY <1>7
  <2>2. output \in Files /\ output.state = "whole" /\ FromStaged(w, output.seconds)
    BY <1>1, OutputsAreStaged
  <2>3. /\ staging' \in [Writers -> Directories] /\ staging'[w].output = output
        /\ \A v \in Writers \ {w} : staging'[v] = staging[v]
    BY <1>1, <2>1, <2>2, OutputMoves
  <2>4. StepOf(w)
    BY <1>1, <1>3, <1>4, <2>3 DEF StepOf, Untouched, Types
  <2>5. /\ ExportDuration(w)' = ExportDuration(w) /\ TrimStart(w)' = TrimStart(w)
        /\ Tolerance(w)' = Tolerance(w)
    BY <1>4, SameDurations DEF SameCall
  <2>6. OutputFromStaged(w)'
    BY <1>1, <1>2, <2>2, <2>3, <2>5 DEF OutputFromStaged, FromStaged, At
  <2>7. Tidy(w)' /\ StagedInOrder(w)'
    BY <1>1, <1>2 DEF Sound, Tidy, StagedInOrder, At
  <2>8. Delivered(w) => Delivered(w)'
    BY <1>1, <2>5 DEF Delivered, FromStaged
  <2>9. Deliverable(w)'
    BY <1>1, <1>2, <2>8 DEF Sound, Deliverable, At, Published
  <2> QED
    BY <2>4, <2>6, <2>7, <2>9, StepSound DEF Sound
<1> QED
  BY <1>6, <1>7 DEF FfmpegSucceeds

\* A valid output is what was asked for.
LEMMA ValidIsDelivered ==
  ASSUME IInv, NEW w \in Writers, writer[w].pc = "publish",
         staging[w].output.state = "whole", SameCall(w),
         clip'[w].seconds = staging[w].output.seconds,
         clip'[w].black = staging[w].output.black
  PROVE  Delivered(w)'
<1>1. Types /\ OutputIsValid(w) /\ FromStaged(w, staging[w].output.seconds)
  BY DEF IInv, Sound, Deliverable, OutputFromStaged, At
<1>2. /\ ExportDuration(w)' = ExportDuration(w) /\ TrimStart(w)' = TrimStart(w)
      /\ Tolerance(w)' = Tolerance(w)
  BY SameDurations DEF SameCall
<1>3. writer[w].call.black => ~staging[w].output.black
  BY <1>1 DEF OutputIsValid, BlackFramesPass
<1>4. Len(staging[w].output.seconds) + Tolerance(w) >= ExportDuration(w)
  BY <1>1 DEF OutputIsValid, FinalClipPassesValidation, IsUsableFinalClip
<1>5. FromStaged(w, clip[w].seconds)'
  BY <1>1, <1>2 DEF FromStaged, SameCall
<1> QED
  BY <1>2, <1>3, <1>4, <1>5 DEF Delivered, SameCall

\* Rename
LEMMA RenameStep ==
  ASSUME IInv, NEW w \in Writers, Rename(w) PROVE IInv'
<1>1. /\ Types /\ writer[w].pc = "publish" /\ staging[w].output.state = "whole"
      /\ clip' = [clip EXCEPT ![w] = staging[w].output]
      /\ staging' = [staging EXCEPT ![w].output = NoFile]
      /\ UNCHANGED ffmpeg
  BY DEF IInv, Rename, RemoveOutput, At
<1>2. /\ OthersStay(w) /\ SameCall(w)
      /\ writer'[w].pc = "cleanup" /\ writer'[w].result = "published"
  BY <1>1, LeaveMoves DEF SameCall, Places, Leave, Rename
<1>3. /\ staging' \in [Writers -> Directories] /\ staging'[w].output = NoFile
      /\ \A v \in Writers \ {w} : staging'[v] = staging[v]
  BY <1>1, OutputMoves, Nothing
<1>4. staging[w].output \in Files
  BY <1>1 DEF Types, Directories
<1>5. /\ clip' \in [Writers -> Files] /\ clip'[w] = staging[w].output
      /\ \A v \in Writers \ {w} : clip'[v] = clip[v]
  BY <1>1, <1>4 DEF Types
<1>6. StepOf(w)
  BY <1>1, <1>2, <1>3, <1>5 DEF StepOf, Untouched, Types
<1>7. Delivered(w)'
  BY <1>1, <1>2, <1>5, ValidIsDelivered
<1>8. ffmpeg[w] = "none" /\ Sound(w)
  BY <1>1, Unpublished DEF IInv
<1>9. Sound(w)'
  BY <1>1, <1>2, <1>3, <1>5, <1>7, <1>8
     DEF Sound, Tidy, StagedInOrder, OutputFromStaged, Deliverable, At, Published,
         SameCall, NoFile
<1> QED
  BY <1>6, <1>9, StepSound

\* RenameFails
LEMMA RenameFailsStep ==
  ASSUME IInv, NEW w \in Writers, RenameFails(w) PROVE IInv'
<1>1. Types /\ writer[w].pc = "publish" /\ UNCHANGED <<staging, ffmpeg>>
  BY DEF IInv, RenameFails, At
<1>2. CASE Leave(w, "failed") /\ UNCHANGED clip
  BY <1>1, <1>2, Leaves
<1>3. CASE /\ staging[w].output.state = "whole"
           /\ clip' = [clip EXCEPT ![w] = [staging[w].output EXCEPT !.state = "partial"]]
           /\ GoTo(w, "copying")
  <2>1. /\ OthersStay(w) /\ SameCall(w)
        /\ writer'[w].pc = "copying" /\ writer'[w].result = writer[w].result
    BY <1>1, <1>3, GoToMoves DEF SameCall, Places
  <2> DEFINE part == [staging[w].output EXCEPT !.state = "partial"]
  <2>2. staging[w].output \in Files
    BY <1>1 DEF Types, Directories
  <2>3. /\ part \in Files /\ part.seconds = staging[w].output.seconds
        /\ part.black = staging[w].output.black
    BY <2>2 DEF Files
  <2> HIDE DEF part
  <2>4. clip' = [clip EXCEPT ![w] = part]
    BY <1>3 DEF part
  <2>5. /\ clip' \in [Writers -> Files] /\ clip'[w] = part
        /\ \A v \in Writers \ {w} : clip'[v] = clip[v]
    BY <1>1, <2>3, <2>4 DEF Types
  <2>6. StepOf(w)
    BY <1>1, <2>1, <2>5 DEF StepOf, Untouched, Types
  <2>7. Delivered(w)'
    BY <1>1, <1>3, <2>1, <2>3, <2>5, ValidIsDelivered
  <2>8. ffmpeg[w] = "none" /\ ~Published(w) /\ Sound(w)
    BY <1>1, Unpublished DEF IInv
  <2>9. OutputFromStaged(w)'
    <3>1. /\ ExportDuration(w)' = ExportDuration(w) /\ TrimStart(w)' = TrimStart(w)
          /\ Tolerance(w)' = Tolerance(w)
      BY <2>1, SameDurations DEF SameCall
    <3> QED
      BY <1>1, <2>1, <2>8, <3>1 DEF Sound, OutputFromStaged, FromStaged, At, SameCall
  <2>10. Sound(w)'
    BY <1>1, <2>1, <2>7, <2>8, <2>9
       DEF Sound, Tidy, StagedInOrder, Deliverable, At, Published, SameCall
  <2> QED
    BY <2>6, <2>10, StepSound
<1> QED
  BY <1>2, <1>3 DEF RenameFails

\* CopyEnds
LEMMA CopyEndsStep ==
  ASSUME IInv, NEW w \in Writers, CopyEnds(w) PROVE IInv'
<1>1. Types /\ writer[w].pc = "copying" /\ UNCHANGED ffmpeg
  BY DEF IInv, CopyEnds, At
<1>2. CASE Leave(w, "failed") /\ UNCHANGED <<staging, clip>>
  BY <1>1, <1>2, Leaves
<1>3. CASE /\ clip' = [clip EXCEPT ![w].state = "whole"]
           /\ RemoveOutput(w)
           /\ Leave(w, "published")
  <2>1. /\ OthersStay(w) /\ SameCall(w)
        /\ writer'[w].pc = "cleanup" /\ writer'[w].result = "published"
    BY <1>1, <1>3, LeaveMoves DEF SameCall, Places, Leave
  <2>2. /\ staging' \in [Writers -> Directories] /\ staging'[w].output = NoFile
        /\ \A v \in Writers \ {w} : staging'[v] = staging[v]
    BY <1>1, <1>3, OutputMoves, Nothing DEF RemoveOutput
  <2>3. clip[w] \in Files
    BY <1>1 DEF Types
  <2>4. /\ clip' \in [Writers -> Files] /\ clip'[w].state = "whole"
        /\ clip'[w].seconds = clip[w].seconds /\ clip'[w].black = clip[w].black
        /\ \A v \in Writers \ {w} : clip'[v] = clip[v]
    BY <1>1, <1>3, <2>3 DEF Types, Files
  <2>5. StepOf(w)
    BY <1>1, <2>1, <2>2, <2>4 DEF StepOf, Untouched, Types
  <2>6. ffmpeg[w] = "none" /\ Sound(w) /\ Delivered(w)
    BY <1>1, Unpublished DEF IInv, Sound, Deliverable, At
  <2>7. Delivered(w)'
    <3>1. /\ ExportDuration(w)' = ExportDuration(w) /\ TrimStart(w)' = TrimStart(w)
          /\ Tolerance(w)' = Tolerance(w)
      BY <2>1, SameDurations DEF SameCall
    <3> QED
      BY <2>1, <2>4, <2>6, <3>1 DEF Delivered, FromStaged, SameCall
  <2>8. Sound(w)'
    BY <1>1, <2>1, <2>2, <2>4, <2>6, <2>7
       DEF Sound, Tidy, StagedInOrder, OutputFromStaged, Deliverable, At, Published,
           SameCall, NoFile
  <2> QED
    BY <2>5, <2>8, StepSound
<1> QED
  BY <1>2, <1>3 DEF CopyEnds

\* Cleanup
LEMMA CleanupStep ==
  ASSUME IInv, NEW w \in Writers, Cleanup(w) PROVE IInv'
<1>1. PICK left \in Removed(w) :
        /\ staging' = [staging EXCEPT ![w] = left]
        /\ GoTo(w, IF left.exists THEN "unremoved" ELSE "done")
  BY DEF Cleanup
<1> DEFINE p == IF left.exists THEN "unremoved" ELSE "done"
<1>2. Types /\ writer[w].pc = "cleanup" /\ UNCHANGED <<ffmpeg, clip>>
  BY DEF IInv, Cleanup, At
<1>3. p \in {"done", "unremoved"} /\ (p = "done" => ~left.exists) /\ GoTo(w, p)
  BY <1>1
<1> HIDE DEF p
<1>4. /\ OthersStay(w) /\ SameCall(w)
      /\ writer'[w].pc = p /\ writer'[w].result = writer[w].result
  BY <1>2, <1>3, GoToMoves DEF SameCall, Places
<1>5. left \in Directories /\ (left = staging[w] \/ left.output = NoFile)
  BY <1>2, RemovedIsLess
<1>6. /\ staging' \in [Writers -> Directories] /\ staging'[w] = left
      /\ \A v \in Writers \ {w} : staging'[v] = staging[v]
  BY <1>1, <1>2, <1>5 DEF Types
<1>7. staging'[w].output = staging[w].output \/ staging'[w].output.state = "none"
  BY <1>5, <1>6 DEF NoFile
<1>8. ffmpeg[w] = "none"
  BY <1>2, Unpublished
<1>9. Tidy(w)'
  BY <1>2, <1>3, <1>4, <1>6, <1>8 DEF Tidy, At
<1>10. Sound(w)'
  BY <1>2, <1>3, <1>4, <1>7, <1>9, QuietSound DEF Published
<1>11. StepOf(w)
  BY <1>2, <1>4, <1>6 DEF StepOf, Untouched, Types
<1> QED
  BY <1>10, <1>11, StepSound

-----------------------------------------------------------------------------
(* The invariant and what follows from it *)

\* Every process begins sound.
LEMMA MuxerInit == Init => IInv
<1> SUFFICES ASSUME Init PROVE IInv
  OBVIOUS
<1>1. PICK calls \in [Writers -> UNION {Calls[w] : w \in Writers}] :
        /\ \A w \in Writers : calls[w] \in Calls[w]
        /\ writer = [w \in Writers |-> Idle(calls[w])]
  BY DEF Init
<1>2. ASSUME NEW w \in Writers
      PROVE  /\ writer[w] \in Process /\ writer[w].pc = "begin"
             /\ writer[w].next = 1 /\ Len(writer[w].staged) = 0
             /\ writer[w].result = "none" /\ writer[w].call.segments \in Nat
  <2>1. calls[w] \in AnyCall /\ calls[w].segments \in Nat
    BY <1>1, ClipMuxerAssumption DEF AnyCall
  <2>2. writer[w] = Idle(calls[w]) /\ <<>> \in Seq(Nat) /\ Len(<<>>) = 0
    BY <1>1
  <2> QED
    BY <2>1, <2>2 DEF Idle, Process, Places
<1>3. Types
  <2>1. writer \in [Writers -> Process]
    BY <1>1, <1>2
  <2> QED
    BY <2>1, Nothing DEF Init, Types
<1>4. ASSUME NEW w \in Writers PROVE Sound(w)
  <2>1. /\ staging[w].output.state = "none" /\ staging[w].exists = FALSE
        /\ ffmpeg[w] = "none"
    BY DEF Init, NoDirectory, NoFile
  <2> QED
    BY <1>2, <2>1
       DEF Sound, Tidy, StagedInOrder, OutputFromStaged, Deliverable, At, Published
<1> QED
  BY <1>3, <1>4 DEF IInv

\* Every step keeps every process sound.
LEMMA MuxerStep == IInv /\ [Next]_vars => IInv'
<1> SUFFICES ASSUME IInv, [Next]_vars PROVE IInv'
  OBVIOUS
<1>1. CASE UNCHANGED vars
  <2>1. Types'
    BY <1>1 DEF vars, IInv, Types
  <2>2. \A w \in Writers : Sound(w)'
    BY <1>1, OtherSound DEF vars, Untouched
  <2> QED
    BY <2>1, <2>2 DEF IInv
<1>2. ASSUME NEW w \in Writers, Writes(w) PROVE IInv'
  BY <1>2, DirectoryFailsStep, StagingDirectoryFailsStep, BeginStep, StageSegmentStep,
     StagedStep, RunCommandStep,
     ReapStep, MovesOn, CopyRejectedStep, ValidateStep, RenameStep, RenameFailsStep,
     CopyEndsStep, CleanupStep DEF Writes
<1>3. ASSUME NEW w \in Writers, FfmpegSucceeds(w) \/ FfmpegFails(w) \/ Killed(w)
      PROVE  IInv'
  BY <1>3, FfmpegSucceedsStep, FfmpegFailsStep, MovesOn
<1> QED
  BY <1>1, <1>2, <1>3 DEF Next

\* IInv
THEOREM MuxerInvariant == Spec => []IInv
BY MuxerInit, MuxerStep, PTL DEF Spec

\* NothingLeftBehind (ScopedDirectoryCleanup, RunCommand): for any number of
\* processes, calls and kills, and with a remove_all that may fail everywhere.
THEOREM NothingLeftBehindHolds == Spec => []NothingLeftBehind
<1>1. IInv => NothingLeftBehind
  BY DEF IInv, Sound, Tidy, NothingLeftBehind, Returned, At
<1> QED
  BY <1>1, MuxerInvariant, PTL

\* With every segment staged, what was taken from them is what was asked for.
LEMMA StagedIsRequested ==
  ASSUME IInv, NEW w \in Writers, NEW s \in Seq(Nat), FromStaged(w, s),
         Len(writer[w].staged) = writer[w].call.segments
  PROVE  IsPrefix(s, Requested(w))
<1>1. /\ Types /\ StagedInOrder(w) /\ writer[w].staged \in Seq(Nat)
      /\ writer[w].next \in Nat /\ writer[w].call.segments \in Nat
  BY DEF IInv, Sound, Types, Process, AnyCall
<1>2. TrimStart(w) \in Nat /\ ExportDuration(w) \in Nat
  BY <1>1, Durations
<1>3. Len(writer[w].staged) \in Nat /\ Len(s) \in Nat
  BY <1>1
<1>4. Len(writer[w].staged) + 1 = writer[w].next
  BY <1>1, <1>3 DEF StagedInOrder
<1>5. \A i \in 1..Len(writer[w].staged) : writer[w].staged[i] = i
  BY <1>1, <1>4 DEF StagedInOrder
<1>6. \A i \in 1..Len(s) : s[i] = TrimStart(w) + i
  <2> TAKE i \in 1..Len(s)
  <2>1. /\ TrimStart(w) + i <= Len(writer[w].staged)
        /\ s[i] = writer[w].staged[TrimStart(w) + i]
    BY DEF FromStaged
  <2>2. TrimStart(w) + i \in 1..Len(writer[w].staged)
    BY <1>2, <1>3, <2>1
  <2> QED
    BY <1>5, <2>1, <2>2
<1> DEFINE r == Requested(w)
<1>7. /\ r \in Seq(Nat) /\ Len(r) = ExportDuration(w)
      /\ \A i \in 1..ExportDuration(w) : r[i] = TrimStart(w) + i
  BY <1>2 DEF Requested
<1> HIDE DEF r
<1>8. Len(s) <= Len(r)
  BY <1>7 DEF FromStaged
<1>9. /\ SubSeq(s, 1, Len(s)) \in Seq(Nat) /\ SubSeq(r, 1, Len(s)) \in Seq(Nat)
      /\ Len(SubSeq(s, 1, Len(s))) = Len(s) /\ Len(SubSeq(r, 1, Len(s))) = Len(s)
      /\ \A i \in 1..Len(s) : SubSeq(s, 1, Len(s))[i] = SubSeq(r, 1, Len(s))[i]
  <2>1. \A i \in 1..Len(s) : s[i] \in Nat /\ r[i] \in Nat /\ s[i] = r[i]
    BY <1>3, <1>6, <1>7, <1>8
  <2>2. /\ SubSeq(s, 1, Len(s)) \in Seq(Nat)
        /\ Len(SubSeq(s, 1, Len(s))) = IF 1 <= Len(s) THEN Len(s) - 1 + 1 ELSE 0
        /\ \A i \in 1..(Len(s) - 1 + 1) : SubSeq(s, 1, Len(s))[i] = s[1 + i - 1]
    BY <1>3, <2>1, SubSeqProperties
  <2>3. /\ SubSeq(r, 1, Len(s)) \in Seq(Nat)
        /\ Len(SubSeq(r, 1, Len(s))) = IF 1 <= Len(s) THEN Len(s) - 1 + 1 ELSE 0
        /\ \A i \in 1..(Len(s) - 1 + 1) : SubSeq(r, 1, Len(s))[i] = r[1 + i - 1]
    BY <1>3, <2>1, SubSeqProperties
  <2> QED
    BY <1>3, <2>1, <2>2, <2>3
<1>10. SubSeq(s, 1, Len(s)) = SubSeq(r, 1, Len(s))
  BY <1>9, SeqEqual
<1> QED
  BY <1>8, <1>10 DEF IsPrefix, r

\* PublishedIsRequested (WriteClipFromSegments): for any number of processes,
\* calls and kills, any segments, trimming and length.
THEOREM PublishedIsRequestedHolds == Spec => []PublishedIsRequested
<1>1. ASSUME IInv PROVE PublishedIsRequested
  <2> SUFFICES ASSUME NEW w \in Writers, Published(w)
               PROVE  /\ clip[w].state = "whole"
                      /\ writer[w].call.black => ~clip[w].black
                      /\ Len(clip[w].seconds) + Tolerance(w) >= ExportDuration(w)
                      /\ Len(writer[w].staged) = writer[w].call.segments
                           => IsPrefix(clip[w].seconds, Requested(w))
    BY DEF PublishedIsRequested
  <2>1. clip[w].state = "whole" /\ Delivered(w)
    BY <1>1 DEF IInv, Sound, Deliverable
  <2>2. clip[w].seconds \in Seq(Nat)
    BY <1>1 DEF IInv, Types, Files
  <2>3. Len(writer[w].staged) = writer[w].call.segments
          => IsPrefix(clip[w].seconds, Requested(w))
    BY <1>1, <2>1, <2>2, StagedIsRequested DEF Delivered
  <2> QED
    BY <2>1, <2>3 DEF Delivered
<1> QED
  BY <1>1, MuxerInvariant, PTL

-----------------------------------------------------------------------------
(* TypeOK: what is left in a staging directory                              *)

\* s is what t ends with.
EndsWith(s, t) ==
  Len(s) <= Len(t) /\ \A i \in 1..Len(s) : s[i] = t[Len(t) - Len(s) + i]

\* IsSuffix, without reversing anything.
LEMMA SuffixIsEnd ==
  ASSUME NEW s \in Seq(Nat), NEW t \in Seq(Nat), EndsWith(s, t)
  PROVE  IsSuffix(s, t)
<1> DEFINE m == Len(s)
           n == Len(t)
           r == Reverse(s)
           q == Reverse(t)
<1>1. m \in Nat /\ n \in Nat /\ m <= n /\ DOMAIN s = 1..m /\ DOMAIN t = 1..n
  BY LenProperties DEF EndsWith
<1>2. \A i \in 1..m : s[i] \in Nat /\ s[i] = t[n - m + i]
  BY <1>1 DEF EndsWith
<1>3. \A i \in 1..n : t[i] \in Nat
  BY <1>1
<1>4. /\ r \in Seq(Nat) /\ Len(r) = m
      /\ \A i \in 1..m : r[i] = s[m - i + 1]
  <2>1. r = [i \in 1..m |-> s[m - i + 1]]
    BY DEF Reverse
  <2>2. \A i \in 1..m : s[m - i + 1] \in Nat
    <3>1. \A i \in 1..m : m - i + 1 \in 1..m
      BY <1>1
    <3> QED
      BY <1>2, <3>1
  <2> HIDE DEF r, m
  <2> QED
    BY <1>1, <2>1, <2>2
<1>5. /\ q \in Seq(Nat) /\ Len(q) = n
      /\ \A i \in 1..n : q[i] = t[n - i + 1]
  <2>1. q = [i \in 1..n |-> t[n - i + 1]]
    BY DEF Reverse
  <2>2. \A i \in 1..n : t[n - i + 1] \in Nat
    <3>1. \A i \in 1..n : n - i + 1 \in 1..n
      BY <1>1
    <3> QED
      BY <1>3, <3>1
  <2> HIDE DEF q, n
  <2> QED
    BY <1>1, <2>1, <2>2
<1>6. ASSUME NEW i \in 1..m PROVE r[i] = q[i]
  <2>1. i \in 1..n /\ m - i + 1 \in 1..m /\ n - m + (m - i + 1) = n - i + 1
    BY <1>1
  <2> HIDE DEF r, q, m, n
  <2>2. r[i] = s[m - i + 1] /\ q[i] = t[n - i + 1]
    BY <1>4, <1>5, <2>1
  <2>3. s[m - i + 1] = t[n - m + (m - i + 1)]
    BY <1>2, <2>1
  <2> QED
    BY <2>1, <2>2, <2>3
<1> HIDE DEF r, q, m, n
<1>7. SubSeq(r, 1, m) = SubSeq(q, 1, m)
  <2>1. \A i \in 1..m : r[i] \in Nat /\ q[i] \in Nat
    <3>1. \A i \in 1..m : r[i] \in Nat
      BY <1>4, ElementOfSeq
    <3> QED
      BY <1>6, <3>1
  <2>2. /\ SubSeq(r, 1, m) \in Seq(Nat) /\ SubSeq(q, 1, m) \in Seq(Nat)
        /\ Len(SubSeq(r, 1, m)) = m /\ Len(SubSeq(q, 1, m)) = m
        /\ \A i \in 1..m : SubSeq(r, 1, m)[i] = r[i] /\ SubSeq(q, 1, m)[i] = q[i]
    BY <1>1, <2>1, SubSeqProperties
  <2> QED
    BY <1>6, <2>2, SeqEqual
<1> QED
  BY <1>1, <1>4, <1>5, <1>7 DEF IsSuffix, IsPrefix, r, q, m, n

\* What is put at the end of both stays the end of the other.
LEMMA AppendToBoth ==
  ASSUME NEW s \in Seq(Nat), NEW t \in Seq(Nat), NEW x \in Nat, EndsWith(s, t)
  PROVE  EndsWith(Append(s, x), Append(t, x))
<1> DEFINE m == Len(s)
           n == Len(t)
<1>1. m \in Nat /\ n \in Nat /\ m <= n /\ \A i \in 1..m : s[i] = t[n - m + i]
  BY LenProperties DEF EndsWith
<1>2. /\ Len(Append(s, x)) = m + 1 /\ Append(s, x)[m + 1] = x
      /\ \A i \in 1..m : Append(s, x)[i] = s[i]
      /\ Len(Append(t, x)) = n + 1 /\ Append(t, x)[n + 1] = x
      /\ \A i \in 1..n : Append(t, x)[i] = t[i]
  BY AppendProperties
<1> HIDE DEF m, n
<1>3. ASSUME NEW i \in 1..(m + 1)
      PROVE  Append(s, x)[i] = Append(t, x)[(n + 1) - (m + 1) + i]
  <2>1. CASE i = m + 1
    <3>1. (n + 1) - (m + 1) + i = n + 1
      BY <1>1, <2>1
    <3> QED
      BY <1>2, <2>1, <3>1
  <2>2. CASE i # m + 1
    <3>1. i \in 1..m /\ n - m + i \in 1..n /\ (n + 1) - (m + 1) + i = n - m + i
      BY <1>1, <2>2
    <3> QED
      BY <1>1, <1>2, <3>1
  <2> QED
    BY <2>1, <2>2
<1>4. Len(Append(s, x)) <= Len(Append(t, x))
  BY <1>1, <1>2
<1> QED
  BY <1>2, <1>3, <1>4 DEF EndsWith

\* Before ffmpeg has run, a call cannot have found that it ended well.
Composing == {"begin", "stage", "run", "wait", "terminate"}

\* The call is one of the process's own, and its directory holds the end of what
\* it has staged.
Own(w) ==
  /\ writer[w].call \in Calls[w]
  /\ writer[w].ok => ffmpeg[w] = "none" /\ writer[w].pc \notin Composing
  /\ EndsWith(staging[w].segments, writer[w].staged)

\* What a directory holds is what it held, or nothing any more.
HoldsOrLost(w) == staging'[w].segments \in {staging[w].segments, <<>>}

\* A process that did not move still has its own.
LEMMA OwnStays ==
  ASSUME Types, NEW w \in Writers, Own(w), writer'[w].call = writer[w].call,
         writer'[w].staged = writer[w].staged, HoldsOrLost(w),
         writer'[w].ok => ffmpeg'[w] = "none" /\ writer'[w].pc \notin Composing
  PROVE  Own(w)'
<1>1. writer[w].staged \in Seq(Nat) /\ Len(writer[w].staged) \in Nat
  BY LenProperties DEF Types, Process
<1>2. EndsWith(<<>>, writer[w].staged)
  BY <1>1 DEF EndsWith
<1> QED
  BY <1>2 DEF Own, HoldsOrLost

\* The processes that do not move keep what is their own.
LEMMA OthersOwn ==
  ASSUME IInv, \A v \in Writers : Own(v), NEW w \in Writers, OthersStay(w),
         \A v \in Writers \ {w} : ffmpeg'[v] = ffmpeg[v] /\ HoldsOrLost(v),
         Own(w)'
  PROVE  \A v \in Writers : Own(v)'
<1>1. ASSUME NEW v \in Writers \ {w} PROVE Own(v)'
  <2>1. /\ writer'[v] = writer[v] /\ HoldsOrLost(v) /\ ffmpeg'[v] = ffmpeg[v]
        /\ Own(v) /\ Types
    BY DEF OthersStay, IInv
  <2>2. writer'[v].ok => ffmpeg'[v] = "none" /\ writer'[v].pc \notin Composing
    BY <2>1 DEF Own
  <2> QED
    BY <2>1, <2>2, OwnStays
<1> QED
  BY <1>1

\* A call that leaves all directories alone, and the children of the others.
LEMMA OwnKept ==
  ASSUME IInv, \A v \in Writers : Own(v), NEW w \in Writers, OthersStay(w),
         writer'[w].call = writer[w].call, writer'[w].staged = writer[w].staged,
         \A v \in Writers \ {w} : ffmpeg'[v] = ffmpeg[v],
         \A v \in Writers : HoldsOrLost(v),
         writer'[w].ok => ffmpeg'[w] = "none" /\ writer'[w].pc \notin Composing
  PROVE  \A v \in Writers : Own(v)'
<1>1. Own(w)'
  BY OwnStays DEF IInv
<1> QED
  BY <1>1, OthersOwn

\* Steps of the call that touch no directory and no child.
LEMMA MovesOwn ==
  ASSUME IInv, \A v \in Writers : Own(v), NEW w \in Writers,
         \/ DirectoryFails(w) \/ Staged(w) \/ WaitTimesOut(w) \/ CopyAccepted(w)
         \/ ComposeFailed(w) \/ RenameFails(w) \/ Killed(w)
  PROVE  \A v \in Writers : Own(v)'
<1>1. UNCHANGED <<staging, ffmpeg>>
  BY DEF DirectoryFails, Refuse, Staged, WaitTimesOut, CopyAccepted, ComposeFailed,
         RenameFails, Killed
<1>2. \A v \in Writers : HoldsOrLost(v) /\ ffmpeg'[v] = ffmpeg[v]
  BY <1>1 DEF HoldsOrLost
<1>3. \/ \E p \in Places : GoTo(w, p) /\ (writer[w].ok => p \notin Composing)
      \/ \E p \in {"done", "cleanup"} :
           writer' = [writer EXCEPT ![w].pc = p, ![w].result = "failed"]
  <2>1. At(w, "stage") \/ At(w, "wait") => ~writer[w].ok
    BY DEF Own, At, Composing
  <2> QED
    BY <2>1 DEF DirectoryFails, Refuse, Staged, WaitTimesOut, CopyAccepted, ComposeFailed,
                RenameFails, Killed, Leave, Places, Composing
<1>4. /\ OthersStay(w) /\ writer'[w].call = writer[w].call
      /\ writer'[w].staged = writer[w].staged
      /\ writer'[w].ok => writer[w].ok /\ writer'[w].pc \notin Composing
  <2>1. ASSUME NEW p \in Places, GoTo(w, p), writer[w].ok => p \notin Composing
        PROVE  /\ OthersStay(w) /\ writer'[w].call = writer[w].call
               /\ writer'[w].staged = writer[w].staged
               /\ writer'[w].ok => writer[w].ok /\ writer'[w].pc \notin Composing
    BY <2>1, GoToMoves DEF IInv
  <2>2. ASSUME NEW p \in {"done", "cleanup"},
               writer' = [writer EXCEPT ![w].pc = p, ![w].result = "failed"]
        PROVE  /\ OthersStay(w) /\ writer'[w].call = writer[w].call
               /\ writer'[w].staged = writer[w].staged
               /\ writer'[w].ok => writer[w].ok /\ writer'[w].pc \notin Composing
    <3>1. p \in Places /\ "failed" \in {"failed", "published"} /\ p \notin Composing
      BY <2>2 DEF Places, Composing
    <3> QED
      BY <2>2, <3>1, LeaveMoves DEF IInv
  <2> QED
    BY <1>3, <2>1, <2>2
<1>5. writer'[w].ok => ffmpeg'[w] = "none" /\ writer'[w].pc \notin Composing
  BY <1>2, <1>4 DEF Own
<1> QED
  BY <1>2, <1>4, <1>5, OwnKept

\* A new output leaves the segments in the directory.
LEMMA OutputHolds ==
  ASSUME Types, NEW w \in Writers, NEW o, staging' = [staging EXCEPT ![w].output = o]
  PROVE  \A v \in Writers : HoldsOrLost(v)
<1>1. \A v \in Writers : staging[v] \in Directories /\ DOMAIN staging = Writers
  BY DEF Types
<1>2. \A v \in Writers \ {w} : staging'[v] = staging[v]
  BY <1>1
<1>3. staging'[w].segments = staging[w].segments
  BY <1>1 DEF Directories
<1> QED
  BY <1>2, <1>3 DEF HoldsOrLost

\* Steps that change the output in the call's directory.
LEMMA DirectoryOwn ==
  ASSUME IInv, \A v \in Writers : Own(v), NEW w \in Writers,
         CopyRejected(w) \/ Validate(w) \/ Rename(w) \/ CopyEnds(w)
  PROVE  \A v \in Writers : Own(v)'
<1>1. \A v \in Writers : ffmpeg'[v] = ffmpeg[v]
  BY DEF CopyRejected, Validate, Rename, CopyEnds
<1>2. \A v \in Writers : HoldsOrLost(v)
  <2>1. \/ staging' = staging
        \/ staging' = [staging EXCEPT ![w].output = NoFile]
    BY DEF CopyRejected, Validate, Rename, CopyEnds, RemoveOutput
  <2>2. CASE staging' = staging
    BY <2>2 DEF HoldsOrLost
  <2>3. CASE staging' = [staging EXCEPT ![w].output = NoFile]
    BY <2>3, OutputHolds DEF IInv
  <2> QED
    BY <2>1, <2>2, <2>3
<1>3. /\ OthersStay(w) /\ writer'[w].call = writer[w].call
      /\ writer'[w].staged = writer[w].staged
      /\ writer'[w].ok => writer[w].ok /\ writer'[w].pc \notin Composing
  <2>1. CASE CopyRejected(w)
    BY <2>1, RetryMoves DEF CopyRejected, IInv
  <2>2. ASSUME GoTo(w, "publish")
        PROVE  /\ OthersStay(w) /\ writer'[w].call = writer[w].call
               /\ writer'[w].staged = writer[w].staged
               /\ writer'[w].ok => writer[w].ok /\ writer'[w].pc \notin Composing
    <3>1. "publish" \in Places /\ "publish" \notin Composing
      BY DEF Places, Composing
    <3> QED
      BY <2>2, <3>1, GoToMoves DEF IInv
  <2>3. ASSUME NEW r \in {"failed", "published"}, Leave(w, r)
        PROVE  /\ OthersStay(w) /\ writer'[w].call = writer[w].call
               /\ writer'[w].staged = writer[w].staged
               /\ writer'[w].ok => writer[w].ok /\ writer'[w].pc \notin Composing
    <3>1. "cleanup" \in Places /\ "cleanup" \notin Composing
      BY DEF Places, Composing
    <3> QED
      BY <2>3, <3>1, LeaveMoves DEF IInv, Leave
  <2> QED
    BY <2>1, <2>2, <2>3 DEF Validate, Rename, CopyEnds
<1>4. writer'[w].ok => ffmpeg'[w] = "none" /\ writer'[w].pc \notin Composing
  BY <1>1, <1>3 DEF Own
<1> QED
  BY <1>1, <1>2, <1>3, <1>4, OwnKept

\* A child that is reaped leaves its exit code, and none is running.
LEMMA RunOwn ==
  ASSUME IInv, \A v \in Writers : Own(v), NEW w \in Writers,
         \/ RunCommand(w) \/ FfmpegReaped(w) \/ FfmpegTerminated(w) \/ FfmpegKilled(w)
  PROVE  \A v \in Writers : Own(v)'
<1>1. \A v \in Writers : HoldsOrLost(v)
  BY DEF RunCommand, FfmpegReaped, FfmpegTerminated, FfmpegKilled, Reap, HoldsOrLost
<1>2. \A v \in Writers \ {w} : ffmpeg'[v] = ffmpeg[v]
  BY DEF RunCommand, FfmpegReaped, FfmpegTerminated, FfmpegKilled, Reap, IInv, Types
<1>3. ASSUME NEW b \in BOOLEAN, Ran(w, b)
      PROVE  /\ OthersStay(w) /\ writer'[w].call = writer[w].call
             /\ writer'[w].staged = writer[w].staged
             /\ writer'[w].ok = b /\ writer'[w].pc \notin Composing
  <2> DEFINE p == IF writer[w].copying THEN "copied" ELSE "encoded"
  <2>1. p \in Places /\ p \notin Composing
    BY DEF Places, Composing
  <2>2. writer' = [writer EXCEPT ![w].pc = p, ![w].ok = b]
    BY <1>3 DEF Ran
  <2> HIDE DEF p
  <2> QED
    BY <2>1, <2>2, RanMoves DEF IInv
<1>4. CASE \E b \in BOOLEAN : Ran(w, b) /\ (b => ffmpeg'[w] = "none")
  BY <1>1, <1>2, <1>3, <1>4, OwnKept
<1>5. CASE GoTo(w, "wait") /\ ~writer[w].ok
  <2>1. "wait" \in Places
    BY DEF Places
  <2>2. /\ OthersStay(w) /\ writer'[w].call = writer[w].call
        /\ writer'[w].staged = writer[w].staged /\ ~writer'[w].ok
    BY <1>5, <2>1, GoToMoves DEF IInv
  <2> QED
    BY <1>1, <1>2, <2>2, OwnKept
<1>6. CASE RunCommand(w)
  <2>1. ~writer[w].ok
    BY <1>6 DEF RunCommand, At, Own, Composing
  <2> QED
    BY <1>4, <1>5, <1>6, <2>1 DEF RunCommand
<1>7. CASE FfmpegReaped(w) \/ FfmpegTerminated(w) \/ FfmpegKilled(w)
  <2>1. ffmpeg'[w] = "none"
    BY <1>7 DEF FfmpegReaped, FfmpegTerminated, FfmpegKilled, Reap, IInv, Types
  <2>2. \E b \in BOOLEAN : Ran(w, b)
    BY <1>7 DEF FfmpegReaped, FfmpegTerminated, FfmpegKilled, Reap
  <2> QED
    BY <1>4, <2>1, <2>2
<1> QED
  BY <1>6, <1>7

\* A child that ends changes its output and nothing else.
LEMMA ChildOwn ==
  ASSUME IInv, \A v \in Writers : Own(v), NEW w \in Writers,
         FfmpegSucceeds(w) \/ FfmpegFails(w)
  PROVE  \A v \in Writers : Own(v)'
<1>1. OthersStay(w) /\ UNCHANGED writer
  BY DEF FfmpegSucceeds, FfmpegFails, OthersStay, IInv, Types
<1>2. \A v \in Writers \ {w} : ffmpeg'[v] = ffmpeg[v]
  BY DEF FfmpegSucceeds, FfmpegFails, IInv, Types
<1>3. \A v \in Writers : HoldsOrLost(v)
  <2>1. CASE staging' = staging
    BY <2>1 DEF HoldsOrLost
  <2>2. CASE \E o \in Outputs(w) : staging' = [staging EXCEPT ![w].output = o]
    BY <2>2, OutputHolds DEF IInv
  <2> QED
    BY <2>1, <2>2 DEF FfmpegSucceeds, FfmpegFails
<1>4. ~writer[w].ok
  BY DEF Own, FfmpegSucceeds, FfmpegFails
<1> QED
  BY <1>1, <1>2, <1>3, <1>4, OwnKept

\* A call that returns leaves of its directory what remove_all leaves.
LEMMA CleanupOwn ==
  ASSUME IInv, \A v \in Writers : Own(v), NEW w \in Writers, Cleanup(w)
  PROVE  \A v \in Writers : Own(v)'
<1>1. PICK left \in Removed(w) :
        /\ staging' = [staging EXCEPT ![w] = left]
        /\ GoTo(w, IF left.exists THEN "unremoved" ELSE "done")
  BY DEF Cleanup
<1> DEFINE p == IF left.exists THEN "unremoved" ELSE "done"
<1>2. p \in Places /\ p \notin Composing /\ GoTo(w, p)
  BY <1>1 DEF Places, Composing
<1> HIDE DEF p
<1>3. Types /\ \A v \in Writers : ffmpeg'[v] = ffmpeg[v]
  BY DEF IInv, Cleanup
<1>4. /\ OthersStay(w) /\ writer'[w].call = writer[w].call
      /\ writer'[w].staged = writer[w].staged /\ writer'[w].ok = writer[w].ok
      /\ writer'[w].pc = p
  BY <1>2, <1>3, GoToMoves
<1>5. left.segments \in {staging[w].segments, <<>>}
  BY <1>3, RemovedIsLess
<1>6. \A v \in Writers : HoldsOrLost(v)
  BY <1>1, <1>3, <1>5 DEF Types, HoldsOrLost
<1>7. writer'[w].ok => ffmpeg'[w] = "none" /\ writer'[w].pc \notin Composing
  BY <1>2, <1>3, <1>4 DEF Own
<1> QED
  BY <1>3, <1>4, <1>6, <1>7, OwnKept

\* A call that begins empties the directories it takes for stale, and its own.
LEMMA BeginOwn ==
  ASSUME IInv, \A v \in Writers : Own(v), NEW w \in Writers,
         Begin(w) \/ StagingDirectoryFails(w)
  PROVE  \A v \in Writers : Own(v)'
<1> DEFINE new == [NoDirectory EXCEPT !.exists = TRUE]
<1>1. /\ NoDirectory \in Directories /\ new \in Directories
      /\ NoDirectory.segments = <<>> /\ new.segments = <<>>
  BY Nothing DEF Directories, NoDirectory
<1>2. Types /\ UNCHANGED <<ffmpeg, clip>> /\ ~writer[w].ok
  BY DEF IInv, Begin, StagingDirectoryFails, At, Own, Composing
<1>3. CleanStaleStagingDirectories(w, NoDirectory) \/ CleanStaleStagingDirectories(w, new)
  BY DEF Begin, StagingDirectoryFails
<1> HIDE DEF new
<1>4. \A v \in Writers : HoldsOrLost(v) /\ ffmpeg'[v] = ffmpeg[v]
  BY <1>1, <1>2, <1>3, CleansOthers DEF HoldsOrLost
<1>5. \/ GoTo(w, "stage")
      \/ writer' = [writer EXCEPT ![w].pc = "done", ![w].result = "failed"]
  BY DEF Begin, StagingDirectoryFails
<1>6. "stage" \in Places /\ "done" \in Places
  BY DEF Places
<1>7. /\ OthersStay(w) /\ writer'[w].call = writer[w].call
      /\ writer'[w].staged = writer[w].staged /\ writer'[w].ok = writer[w].ok
  BY <1>2, <1>5, <1>6, GoToMoves, LeaveMoves
<1> QED
  BY <1>2, <1>4, <1>7, OwnKept

\* What is staged goes into the directory, as the last of both.
LEMMA StageOwn ==
  ASSUME IInv, \A v \in Writers : Own(v), NEW w \in Writers, StageSegment(w)
  PROVE  \A v \in Writers : Own(v)'
<1>1. /\ writer[w].next \in Nat /\ writer[w].staged \in Seq(Nat) /\ ~writer[w].ok
      /\ staging[w].segments \in Seq(Nat) /\ Types
  BY DEF IInv, Types, Process, Directories, StageSegment, At, Own, Composing
<1>2. \A v \in Writers : ffmpeg'[v] = ffmpeg[v]
  BY DEF StageSegment
<1>3. CASE /\ staging' = [staging EXCEPT ![w].segments = Append(@, writer[w].next)]
           /\ writer' = [writer EXCEPT ![w].next = @ + 1,
                                       ![w].staged = Append(@, writer[w].next)]
  <2> DEFINE n == writer[w].next + 1
             t == Append(writer[w].staged, writer[w].next)
  <2>1. n \in Nat /\ t \in Seq(Nat)
    BY <1>1, AppendProperties
  <2>2. writer' = [writer EXCEPT ![w].next = n, ![w].staged = t]
    BY <1>3
  <2> HIDE DEF n, t
  <2>3. /\ OthersStay(w) /\ writer'[w].call = writer[w].call
        /\ writer'[w].staged = t /\ writer'[w].ok = writer[w].ok
    <3>1. Types
      BY <1>1
    <3> QED
      BY <2>1, <2>2, <3>1, StageMoves, ZenonT(30)
  <2>4. /\ staging'[w].segments = Append(staging[w].segments, writer[w].next)
        /\ \A v \in Writers \ {w} : staging'[v] = staging[v]
    BY <1>1, <1>3 DEF Types, Directories
  <2>5. EndsWith(staging'[w].segments, writer'[w].staged)
    BY <1>1, <2>3, <2>4, AppendToBoth DEF Own, t
  <2>6. Own(w)'
    BY <1>1, <2>3, <2>5 DEF Own
  <2> QED
    BY <1>2, <2>3, <2>4, <2>6, OthersOwn DEF HoldsOrLost
<1>4. CASE writer' = [writer EXCEPT ![w].next = @ + 1] /\ UNCHANGED staging
  <2> DEFINE n == writer[w].next + 1
  <2>1. n \in Nat
    BY <1>1
  <2>2. writer' = [writer EXCEPT ![w].next = n]
    BY <1>4
  <2> HIDE DEF n
  <2>3. /\ OthersStay(w) /\ writer'[w].call = writer[w].call
        /\ writer'[w].staged = writer[w].staged /\ ~writer'[w].ok
    BY <1>1, <2>1, <2>2, SkipMoves
  <2>4. \A v \in Writers : HoldsOrLost(v)
    BY <1>4 DEF HoldsOrLost
  <2> QED
    BY <1>2, <2>3, <2>4, OwnKept
<1> QED
  BY <1>3, <1>4 DEF StageSegment

\* Every call begins with one of its own and nothing staged.
LEMMA OwnInit == Init => \A w \in Writers : Own(w)
<1> SUFFICES ASSUME Init, NEW w \in Writers PROVE Own(w)
  OBVIOUS
<1>1. PICK call \in Calls[w] : writer[w] = Idle(call)
  BY DEF Init
<1>2. writer[w].call = call /\ ~writer[w].ok /\ writer[w].staged = <<>>
  BY <1>1 DEF Idle
<1>3. staging[w].segments = <<>>
  BY DEF Init, NoDirectory
<1>4. EndsWith(<<>>, <<>>)
  BY DEF EndsWith
<1> QED
  BY <1>2, <1>3, <1>4 DEF Own

\* Every step leaves every process its own.
LEMMA OwnStep ==
  IInv /\ (\A v \in Writers : Own(v)) /\ [Next]_vars => (\A v \in Writers : Own(v))'
<1> SUFFICES ASSUME IInv, \A v \in Writers : Own(v), [Next]_vars
             PROVE  \A v \in Writers : Own(v)'
  OBVIOUS
<1>1. CASE UNCHANGED vars
  BY <1>1 DEF vars, Own
<1>2. ASSUME NEW w \in Writers,
             Writes(w) \/ FfmpegSucceeds(w) \/ FfmpegFails(w) \/ Killed(w)
      PROVE  \A v \in Writers : Own(v)'
  BY <1>2, MovesOwn, DirectoryOwn, RunOwn, ChildOwn, BeginOwn, StageOwn, CleanupOwn
     DEF Writes
<1> QED
  BY <1>1, <1>2 DEF Next

\* TypeOK (WriteClipFromSegments): also that the staging directory of a call holds
\* the last of what the call has staged, however often another empties it.
THEOREM TypeCorrect == Spec => []TypeOK
<1>1. ASSUME IInv, \A w \in Writers : Own(w) PROVE TypeOK
  <2>1. ASSUME NEW w \in Writers
        PROVE  /\ writer[w].call \in Calls[w]
               /\ writer[w].next \in 1..(writer[w].call.segments + 1)
               /\ writer[w].ok => ffmpeg[w] = "none"
               /\ writer[w].result \in {"none", "failed", "published"}
               /\ IsSuffix(staging[w].segments, writer[w].staged)
               /\ clip[w].state \in {"none", "partial", "whole"}
    <3>1. /\ writer[w] \in Process /\ staging[w] \in Directories /\ clip[w] \in Files
          /\ StagedInOrder(w) /\ Own(w)
      BY <1>1 DEF IInv, Types, Sound
    <3>2. writer[w].next \in 1..(writer[w].call.segments + 1)
      <4>1. /\ writer[w].next \in Nat /\ writer[w].call.segments \in Nat
            /\ Len(writer[w].staged) \in Nat
        BY <3>1, LenProperties DEF Process, AnyCall
      <4>2. /\ Len(writer[w].staged) < writer[w].next
            /\ writer[w].next <= writer[w].call.segments + 1
        BY <3>1 DEF StagedInOrder
      <4> QED
        BY <4>1, <4>2
    <3>3. IsSuffix(staging[w].segments, writer[w].staged)
      BY <3>1, SuffixIsEnd DEF Own, Directories, Process
    <3> QED
      BY <3>1, <3>2, <3>3 DEF Own, Process, Files
  <2> QED
    BY <1>1, <2>1 DEF TypeOK, IInv, Types
<1>2. Init => IInv /\ \A w \in Writers : Own(w)
  BY MuxerInit, OwnInit
<1>3. /\ IInv /\ (\A w \in Writers : Own(w)) /\ [Next]_vars
      => IInv' /\ (\A w \in Writers : Own(w))'
  BY MuxerStep, OwnStep
<1> QED
  BY <1>1, <1>2, <1>3, PTL DEF Spec
=============================================================================
