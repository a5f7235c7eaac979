---------------------------- MODULE KeyListener ----------------------------
(***************************************************************************)
(* DaemonListener: one thread that opens the keyboards under /dev/input,   *)
(* polls them, merges the keys they report into one set and reports a      *)
(* keybind when its keys come together.  Devices come and go, a node may   *)
(* appear before the user may read it, the kernel may drop the events of a *)
(* slow reader, and the debounce and the rescan are measured in ticks.     *)
(***************************************************************************)
EXTENDS Integers, Sequences, SequencesExt, FiniteSetsExt

CONSTANTS
  Devices,        \* paths event* in input_directory
  Keys,           \* key codes
  Exposes,        \* the keys each device has (EVIOCGBIT)
  Keybinds,       \* the actions: save, stop
  Configs,        \* what ParseKeybindRequirements may make of the settings
  Debounce,       \* keybind_debounce, in ticks
  RetryInterval,  \* kDeviceRetryInterval, in ticks
  MaxKeyEvents,   \* bound: keys pressed and released
  MaxPlugs        \* bound: devices plugged in

ASSUME KeyListenerAssumption ==
  /\ IsFiniteSet(Devices)
  /\ Exposes \in [Devices -> SUBSET Keys]
  /\ Configs \subseteq [Keybinds -> SUBSET (SUBSET Keys)]
  /\ Debounce \in Nat
  /\ RetryInterval \in Nat
  /\ MaxKeyEvents \in Nat
  /\ MaxPlugs \in Nat

VARIABLES
  \* the machine
  node,          \* per path: "absent", "denied" or "readable"
  held,          \* the keys a hand holds down on each device
  used,          \* how many key events and plugs there were (bounds the model)
  \* the listener
  requirements,  \* config_: per keybind a set of alternatives, {} when unsupported
  running,       \* running_ and the stop token
  pc,
  handles,       \* input_devices_: path, unread events, whether the device is there
  revents,       \* what poll returned for each handle
  cursor,        \* the handle the loop is at
  broken,        \* broken_indices
  pressed,       \* pressed_key_codes_
  wasDown,       \* KeybindActionState::was_down
  since,         \* ticks since last_detected_at, at most Debounce
  retryIn,       \* ticks until next_device_retry
  \* history
  heard,         \* per path, the keys whose last event read from it was a press
  seenUp         \* keybinds whose keys were apart since they were last reported

machine == <<node, held, used>>
polling == <<handles, revents, cursor, broken>>
chords  == <<pressed, wasDown, heard, seenUp>>
vars == <<machine, requirements, running, pc, polling, chords, since, retryIn>>

Handle == [path : Devices, live : BOOLEAN,
           events : Seq([kind : {"press", "release", "repeat", "syn"},
                         key : Keys])]

OpenPaths == {handles[i].path : i \in DOMAIN handles}

Init ==
  /\ node \in [Devices -> {"absent", "readable"}]
  /\ held = [d \in Devices |-> {}]
  /\ used = [keys |-> 0, plugs |-> 0]
  /\ requirements \in Configs
  /\ running = TRUE
  /\ pc = "loop"
  /\ handles = <<>>
  /\ revents = <<>>
  /\ cursor = 0
  /\ broken = <<>>
  /\ pressed = {}
  /\ wasDown = [b \in Keybinds |-> FALSE]
  /\ since = [b \in Keybinds |-> Debounce]
  /\ retryIn = 0
  /\ heard = [d \in Devices |-> {}]
  /\ seenUp = Keybinds

-----------------------------------------------------------------------------
(* Hands and cables (the environment) *)

\* The kernel queues an event for whoever has the device open.
Queued(d, event) ==
  [i \in DOMAIN handles |->
     IF handles[i].path = d /\ handles[i].live
       THEN [handles[i] EXCEPT !.events = Append(@, event)]
       ELSE handles[i]]

KeyEvent(d, k, kind) ==
  /\ node[d] # "absent"
  /\ k \in Exposes[d]
  /\ used.keys < MaxKeyEvents
  /\ used' = [used EXCEPT !.keys = @ + 1]
  /\ handles' = Queued(d, [kind |-> kind, key |-> k])
  /\ UNCHANGED <<node, requirements, running, pc, revents, cursor, broken,
                 chords, since, retryIn>>

KeyGoesDown(d, k) ==
  /\ k \notin held[d]
  /\ KeyEvent(d, k, "press")
  /\ held' = [held EXCEPT ![d] = @ \union {k}]

KeyGoesUp(d, k) ==
  /\ k \in held[d]
  /\ KeyEvent(d, k, "release")
  /\ held' = [held EXCEPT ![d] = @ \ {k}]

KeyRepeats(d, k) ==
  /\ k \in held[d]
  /\ KeyEvent(d, k, "repeat")
  /\ UNCHANGED held

\* The kernel's buffer overflows: what was in it is replaced by SYN_DROPPED.
EventsDropped(i) ==
  /\ Len(handles[i].events) > 1
  /\ handles' = [handles EXCEPT ![i].events =
                   <<[kind |-> "syn", key |-> Head(@).key]>>]
  /\ UNCHANGED <<machine, requirements, running, pc, revents, cursor, broken,
                 chords, since, retryIn>>

\* What is unread of a device that is gone cannot be read any more (ENODEV).
Unplug(d) ==
  /\ node[d] # "absent"
  /\ node' = [node EXCEPT ![d] = "absent"]
  /\ held' = [held EXCEPT ![d] = {}]
  /\ handles' = [i \in DOMAIN handles |->
                   IF handles[i].path = d
                     THEN [handles[i] EXCEPT !.live = FALSE, !.events = <<>>]
                     ELSE handles[i]]
  /\ UNCHANGED <<used, requirements, running, pc, revents, cursor, broken,
                 chords, since, retryIn>>

\* The node appears before udev has given the user access to it.
Plug(d) ==
  /\ node[d] = "absent"
  /\ used.plugs < MaxPlugs
  /\ used' = [used EXCEPT !.plugs = @ + 1]
  /\ node' = [node EXCEPT ![d] = "denied"]
  /\ UNCHANGED <<held, requirements, running, pc, polling, chords, since, retryIn>>

Grant(d) ==
  /\ node[d] = "denied"
  /\ node' = [node EXCEPT ![d] = "readable"]
  /\ UNCHANGED <<held, used, requirements, running, pc, polling, chords, since,
                 retryIn>>

Tick ==
  /\ \/ retryIn > 0
     \/ \E b \in Keybinds : since[b] < Debounce
  /\ retryIn' = IF retryIn > 0 THEN retryIn - 1 ELSE 0
  /\ since' = [b \in Keybinds |-> IF since[b] < Debounce THEN since[b] + 1
                                  ELSE Debounce]
  /\ UNCHANGED <<machine, requirements, running, pc, polling, chords>>

\* DaemonListener::Stop, called by the main thread.
RequestStop ==
  /\ running
  /\ running' = FALSE
  /\ UNCHANGED <<machine, requirements, pc, polling, chords, since, retryIn>>

-----------------------------------------------------------------------------
(* ListenLoop *)

LoopEnds ==
  /\ pc = "loop"
  /\ ~running
  /\ pc' = "done"
  /\ UNCHANGED <<machine, requirements, running, polling, chords, since, retryIn>>

\* A keyboard must be able to press every keybind on its own.
ExposesKeybinds(d) ==
  \A b \in Keybinds : \A alternatives \in requirements[b] :
    alternatives \intersect Exposes[d] # {}

(* Mutant: new devices are looked for only when none is open. *)
UsableWhenNoneOpen ==
  {d \in Devices : handles = <<>> /\ node[d] = "readable" /\ ExposesKeybinds(d)}

Usable == {d \in Devices \ OpenPaths : node[d] = "readable" /\ ExposesKeybinds(d)}

Opened(order) ==
  [i \in DOMAIN order |-> [path |-> order[i], live |-> TRUE, events |-> <<>>]]

\* The directory lists its entries in any order.
Rescan ==
  /\ pc = "loop"
  /\ running
  /\ retryIn = 0
  /\ IF \A b \in Keybinds : requirements[b] # {}
       THEN \E order \in SetToSeqs(Usable) :
              /\ handles' = handles \o Opened(order)
              /\ heard' = [d \in Devices |-> IF d \in Usable THEN {} ELSE heard[d]]
       ELSE UNCHANGED <<handles, heard>>
  /\ retryIn' = RetryInterval
  /\ pc' = "poll"
  /\ UNCHANGED <<machine, requirements, running, revents, cursor, broken, pressed,
                 wasDown, seenUp, since>>

NextReady(i) ==
  LET ready == {j \in (i + 1)..Len(revents) : revents[j] # "none"}
  IN IF ready = {} THEN Len(revents) + 1 ELSE Min(ready)

Revent(h) == IF ~h.live THEN "broken" ELSE IF h.events # <<>> THEN "in" ELSE "none"

\* The rescan is done, or not due.
AtPoll ==
  \/ pc = "poll"
  \/ pc = "loop" /\ running /\ retryIn > 0

\* No device, or none ready within kPollTimeout.
NothingReady ==
  /\ AtPoll
  /\ \A i \in DOMAIN handles : Revent(handles[i]) = "none"
  /\ pc' = "loop"
  /\ UNCHANGED <<machine, requirements, running, polling, chords, since, retryIn>>

Poll ==
  /\ AtPoll
  /\ revents' = [i \in DOMAIN handles |-> Revent(handles[i])]
  /\ \E i \in DOMAIN handles : revents'[i] # "none"
  /\ cursor' = NextReady(0)'
  /\ broken' = <<>>
  /\ pc' = "devices"
  /\ UNCHANGED <<machine, requirements, running, handles, chords, since, retryIn>>

\* The loop passes over the devices poll had nothing to say about.
AtDevice(revent) ==
  /\ pc = "devices"
  /\ cursor <= Len(revents)
  /\ revents[cursor] = revent
  /\ cursor' = NextReady(cursor)

(* Mutant: a broken device is erased at once, while the loop goes over them. *)
DeviceBrokenErased ==
  /\ AtDevice("broken")
  /\ broken' = Append(broken, cursor)
  /\ handles' = RemoveAt(handles, cursor)
  /\ UNCHANGED <<machine, requirements, running, pc, revents, chords, since,
                 retryIn>>

\* POLLERR or POLLHUP, or a read that fails because the device went since poll.
DeviceBroken ==
  /\ \/ AtDevice("broken")
     \/ AtDevice("in") /\ ~handles[cursor].live
  /\ broken' = Append(broken, cursor)
  /\ UNCHANGED <<machine, requirements, running, pc, handles, revents, chords,
                 since, retryIn>>

KeybindIsPressed(b, down) ==
  /\ requirements[b] # {}
  /\ \A alternatives \in requirements[b] : alternatives \intersect down # {}

KeybindDebouncePassed(b) == since[b] >= Debounce

(* Mutant: the state of the keybind before the event is not looked at. *)
ReportedWhileDown(down) ==
  {b \in Keybinds : KeybindIsPressed(b, down) /\ KeybindDebouncePassed(b)}

\* keybind_callback_ runs for every keybind reported.
Reported(down) ==
  {b \in Keybinds : KeybindIsPressed(b, down) /\ ~wasDown[b]
                    /\ KeybindDebouncePassed(b)}

KeysAfter(keys, event) ==
  CASE event.kind = "press"   -> keys \union {event.key}
    [] event.kind = "release" -> keys \ {event.key}

\* What HandleInputEvent does to the keybinds once the keys have changed.
UpdateKeybinds(down) ==
  /\ since' = [b \in Keybinds |-> IF b \in Reported(down) THEN 0 ELSE since[b]]
  /\ wasDown' = [b \in Keybinds |-> KeybindIsPressed(b, down)]
  /\ seenUp' = (seenUp \ Reported(down))
                 \union {b \in Keybinds : ~KeybindIsPressed(b, down)}

HandleInputEvent ==
  /\ AtDevice("in")
  /\ handles[cursor].live
  /\ LET event == Head(handles[cursor].events) IN
       IF event.kind \in {"press", "release"}
         THEN /\ pressed' = KeysAfter(pressed, event)
              /\ heard' = [heard EXCEPT ![handles[cursor].path] =
                             KeysAfter(@, event)]
              /\ UpdateKeybinds(pressed')
         ELSE UNCHANGED <<chords, since>>
  /\ handles' = [handles EXCEPT ![cursor].events = Tail(@)]
  /\ UNCHANGED <<machine, requirements, running, pc, revents, broken, retryIn>>

RoundEnds ==
  /\ pc = "devices"
  /\ cursor > Len(revents)
  /\ pc' = "loop"
  /\ revents' = <<>>
  /\ cursor' = 0
  /\ broken' = <<>>

NoneBroken ==
  /\ RoundEnds
  /\ broken = <<>>
  /\ UNCHANGED <<machine, requirements, running, handles, chords, since, retryIn>>

RemoveIfThere(list, i) == IF i \in DOMAIN list THEN RemoveAt(list, i) ELSE list

(* Mutant: the indices are erased in ascending order. *)
KeptAscending == FoldLeft(RemoveIfThere, handles, broken)

\* Erasing from the highest index down leaves the lower ones where they were.
Kept == FoldLeft(RemoveIfThere, handles, Reverse(broken))

(* Mutant: the keys of the device that went stay pressed. *)
ForgetKeybinds ==
  /\ wasDown' = [b \in Keybinds |-> FALSE]
  /\ UNCHANGED <<pressed, seenUp>>

ResetKeyState ==
  /\ pressed' = {}
  /\ wasDown' = [b \in Keybinds |-> FALSE]
  /\ seenUp' = Keybinds

RemoveBrokenDevices ==
  /\ RoundEnds
  /\ broken # <<>>
  /\ handles' = Kept
  /\ ResetKeyState
  /\ UNCHANGED <<machine, requirements, running, heard, since, retryIn>>

-----------------------------------------------------------------------------
Environment ==
  \/ \E d \in Devices, k \in Keys :
       KeyGoesDown(d, k) \/ KeyGoesUp(d, k) \/ KeyRepeats(d, k)
  \/ \E i \in DOMAIN handles : EventsDropped(i)
  \/ \E d \in Devices : Unplug(d) \/ Plug(d) \/ Grant(d)
  \/ RequestStop

ListenLoop ==
  \/ LoopEnds \/ Rescan \/ NothingReady \/ Poll
  \/ DeviceBroken \/ HandleInputEvent \/ NoneBroken \/ RemoveBrokenDevices

Next == Environment \/ Tick \/ ListenLoop

Spec == Init /\ [][Next]_vars

\* The thread keeps running and time passes; hands and cables owe nothing.
FairSpec == Spec /\ WF_vars(ListenLoop) /\ WF_vars(Tick)

-----------------------------------------------------------------------------
\* Types of the listener's state; the indices a poll round works on are those
\* of the handles it polled.
TypeOK ==
  /\ node \in [Devices -> {"absent", "denied", "readable"}]
  /\ held \in [Devices -> SUBSET Keys]
  /\ used \in [keys : 0..MaxKeyEvents, plugs : 0..MaxPlugs]
  /\ requirements \in Configs
  /\ running \in BOOLEAN
  /\ pc \in {"loop", "poll", "devices", "done"}
  /\ handles \in Seq(Handle)
  /\ pressed \subseteq Keys
  /\ wasDown \in [Keybinds -> BOOLEAN]
  /\ since \in [Keybinds -> 0..Debounce]
  /\ retryIn \in 0..RetryInterval
  /\ pc = "devices" =>
       /\ DOMAIN revents = DOMAIN handles
       /\ cursor \in 1..(Len(handles) + 1)
       /\ \A i \in DOMAIN broken : broken[i] \in 1..(cursor - 1)

\* A key counts as pressed only while a device that is still open has reported
\* it down and not up: one that went away leaves no key behind (ResetKeyState).
NoPhantomKeys == pressed \subseteq UNION {heard[d] : d \in OpenPaths}

\* RemoveBrokenDevices takes out every device that broke in the round, and
\* nothing ever takes out a device that is still there.
ExactlyBrokenRemoved ==
  [][LET paths == {handles'[j].path : j \in DOMAIN handles'} IN
       \A i \in DOMAIN handles :
         /\ handles[i].live => handles[i].path \in paths
         /\ pc = "devices" /\ pc' = "loop" /\ i \in Range(broken)
              => handles[i].path \notin paths
    ]_vars

\* Holding a keybind reports it once: between two reports its keys were apart,
\* whatever other keys were pressed and however long the debounce has passed.
ReportedOncePerPress ==
  [][\A b \in Keybinds : since[b] >= Debounce /\ since'[b] < since[b]
                         => b \in seenUp]_vars

\* A keyboard that stays plugged in and readable is opened, also one that was
\* unplugged and came back under the same path before the listener noticed.
AttachedIsOpened ==
  \A d \in Devices :
    <>[](running /\ node[d] = "readable" /\ ExposesKeybinds(d)
         /\ \A b \in Keybinds : requirements[b] # {})
      => <>[](\E i \in DOMAIN handles : handles[i].path = d /\ handles[i].live)
=============================================================================
