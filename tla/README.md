# Verification of ClipDeck

ClipDeck keeps the last seconds of a screen capture on disk and turns them into
a clip when the user presses a key or runs `clipdeck save`. This directory holds
TLA+ models of the parts of it where threads, signals, timeouts and files meet,
the TLC configurations that check them on small instances, and proofs checked by
TLAPS. Paths below are relative to the repository's `src/` directory.

## The system

| component | code | state | operations | hard part |
|---|---|---|---|---|
| save request controller | `save_request_controller.cpp` | `requests_`, `saving_`, `stopped_`, `last_keybind_request_at_`, a worker thread | `RequestSave`, `WorkerLoop`, `Stop`, `Status` | callers, worker and stopper interleave; callbacks run outside the lock |
| native recorder | `recorder/gstreamer_recorder.cpp`, `recorder/segment_file.cpp` | `fragments_`, `open_fragments_`, `request_cutoffs_`, `running_`, `healthy_`, the segment directory, a bus thread | `Start`, `Stop`, `MarkClipBoundary`, `SaveClip`, `MonitorBus`, `PruneFragmentsLocked` | pruning races with saving; segments finalize late; unsigned arithmetic |
| daemon main loop | `core.cpp` `RunListener` | three signal flags, the pointer `recorder`, the controller, the listener | start, poll, reselect the capture, shut down | signal flags, replacing an object other threads use, shutdown order |
| command line lifecycle | `core.cpp` `Start`/`Stop`/`Restart`/`Status`, `utils/process.cpp` | pid file, status files | fork, SIGTERM, SIGKILL, remove files | two commands at once, stale pid files |
| save command | `core.cpp` `Save` | none of its own; reads the status file and the clip directory | signal the daemon and wait, or save from retained segments | answers of other requests taken for its own |
| keybind listener | `listener/daemon_listener.cpp` | open devices, pressed keys, per-keybind edge and debounce state | scan, poll, handle event, drop device | keys over several devices, devices that vanish |
| clip muxer | `recorder/clip_muxer.cpp` | staging directories, clip directory | stage, compose, validate, publish | partial failure at every step, non-atomic publication |
| encoded ring buffer | `recorder/encoded_ring_buffer.cpp` | packets, byte count | `Push`, `SelectLast` | eviction limits |
| settings store | `settings/settings_store.cpp` | settings file | `Load`, `Save` | truncating write, lost update |
| portal session | `recorder/gstreamer_recorder.cpp` 230-548 | D-Bus session | create, select, start, close | timeouts, leaked session |
| others | media probe, setup, backend budgets, commands, notifier, terminal, utilities | little or none | | pure I/O or formulas |

How they interact: the listener thread calls the keybind callback, which calls
`RequestSave(Keybind)`; a `SIGUSR1` sets a flag the main loop turns into
`RequestSave(Manual)`. `RequestSave` queues the request, then runs the accept
callback, `MarkClipBoundary`, on the calling thread. The controller's worker
calls the save callback, `SaveClip`, which selects segment files under
`fragment_mutex_` and hands them to the muxer after it has released it. The
recorder's bus thread adds and prunes segments all the while. `SIGUSR2` makes
the main loop stop and replace the recorder.

What makes each correct, in short: the controller is a bounded first-in
first-out queue that loses nothing and stops cleanly; the recorder keeps exactly
the footage that outstanding requests and the live window need; the daemon never
lets a thread use a recorder that is gone; a command learns the answer to its own
request.

## Modules

* **SaveQueueSpec** - what the controller promises, without threads: accept,
  begin, finish, discard, close.
* **SaveQueue** - `SaveRequestController`. Every critical section of `mutex_` is
  one action and everything the code does outside the lock (reading the clock,
  the accept callback, `notify_one`, the save callback, `request_stop`,
  `notify_all`, `join`) is an action of its own. `workerPc = "asleep"` is the
  wait of the condition variable; only `NotifyOne`, `NotifyAll`, `RequestStop`
  and a spurious wakeup end it. `accepted`, `served` and `dropped` are history.
* **Recorder** - `GStreamerRecorder` between a `Start` that succeeded and `Stop`.
  The splitmux sink is external: it may split at any tick (the code also asks it
  to, in `SplitAtRunningTime` and `SplitCurrentSegment`), finalizes in order but
  any time later, and may fail. The bus thread (`BusOpened`, `BusClosed` with
  its pruning, `BusFailed`), `MarkClipBoundary` (`ReadRunningTime` or
  `NoRunningTime`, then `RecordCutoff`) and `SaveClip` (`BeginHealthy` ...
  `MuxClip`) interleave at their critical sections. A fragment's path is its
  number; `Export` is the muxer's arithmetic on durations. `Word` stands for
  2^64: the one subtraction of the code that can wrap is taken modulo it.
* **SavePath** - SaveQueue and Recorder joined by the two lambdas of
  `RunListener`. A step of it is a step of one of them, or of both where a
  callback begins or returns.
* **Daemon** - `RunListener`: the main thread, the listener thread and the worker
  around one recorder pointer. The controller is SaveQueueSpec; the recorder is
  its generation and whether it captures. `uses` says which generation a thread
  is inside a call of; `Saving` is what `Status().saving` says, true while a request
  waits or is served. `chosenAt` and `unanswered` are history.
* **KeyListener** - `DaemonListener`: `ListenLoop` as `LoopEnds`, `Rescan`
  (`OpenInputDevices`), `Poll` or `NothingReady`, then for each ready device of the
  round `HandleInputEvent`, once per event, or `DeviceBroken`, and at its end
  `RoundEnds` with `RemoveBrokenDevices`. `handles` is
  `input_devices_` with the unread events of each; the hands on the keyboards,
  the plugs and the kernel (`node`, `held`) are the environment. `heard` and
  `seenUp` are history.
* **ClipMuxer** - `WriteClipFromSegments` in several processes: staging with the
  removal of what it takes for stale, the two compositions by ffmpeg under a deadline,
  validation, publication by rename or copy, and the clean-up of every return. A
  process may be killed anywhere, and every `remove_all` may fail. The arithmetic on
  seconds is that of the code; a segment is one second of footage.
* **Lifecycle** - the commands `start`, `stop`, `restart`, `save`,
  `choose-capture` and `status`, each a process, with the daemons they fork, the
  pid file, the status file and the search of `/proc`. `PidFileNotWritten` is each
  way `WritePidFile` fails, with the daemon already forked. A daemon here is a few
  states (starting, running, hung in its shutdown, doomed by a SIGKILL that has not
  ended it yet, dead) and whether a save is due; what it does inside is Daemon.
* **SettingsStore** - the settings commands as processes that load, change,
  truncate and write the file, with the migration of old files. Settings that
  are stored alike share a key.
* **PortalSession** - `Start` and `Stop` of the recorder around the calls to the
  portal, with what the process holds outside itself: connection, session,
  descriptor, pipeline.
* **Startup** - SettingsStore and PortalSession side by side: the daemon loads
  the settings when it constructs its recorder, whatever commands are writing.
* **SaveQueueProofs**, **RecorderProofs**, **SavePathProofs**, **DaemonProofs**,
  **ClipMuxerProofs**, **LifecycleProofs**, **KeyListenerProofs**, **StartupProofs** -
  the theorems; StartupProofs also has those of SettingsStore and PortalSession.
* **MC...** - the instances TLC checks.

What each module abstracts, beyond data:
- ClipMuxer: a `remove_all` takes a directory, empties it or leaves it, in one step.
  A clip's name is a timestamp in milliseconds (`BuildClipPath`; only the staging
  directory's name has the process id): two processes that publish in the same
  millisecond share it, which is left out. An output that is too large or has not the
  sound it should have fails like one that is too short. A caller that trusts its
  segments says how much they hold, as both callers do. A probe for black frames is
  made only when it was asked for.
- Lifecycle: a command forks at most one daemon, pids are not reused, the scan of
  `/proc` is one step, a status file met while it is rewritten is not found.
- SettingsStore: the write becomes visible at once, when the stream is closed.
- KeyListener: time passes in ticks, and `EVIOCGBIT` tells the truth.

## Runs

| run | checks | bounds |
|---|---|---|
| SaveQueue | safety of the controller, its liveness, `ImplementsQueue` | 2 callers, 3 calls, capacity 2, 2 clock readings, debounce 1 |
| Recorder | selected files stay, the clip is the requested window, cutoffs and files are released, retention is bounded | 2 requests, clip 2 s, safety 1 s, slack 0, 5 ticks, segments up to 2 ticks |
| SavePath | answers in order, stop waits, every accepted request is answered | 1 caller, 2 calls, 2 clock readings |
| Daemon | shutdown order and completion, a reselection comes after the saves before it, signals, window end | 2 save signals, 1 reselection, 1 key press, capacity 2 |
| KeyListener | no key stays pressed without a device that said so, exactly the broken devices go, one report per press, an attached keyboard is opened | 2 devices of 2 keys sharing one, 2 keybinds, 3 settings, 3 key events, 1 plug, debounce and rescan 1 tick |
| ClipMuxer | a reported clip is the requested footage, nothing is left behind but what `remove_all` failed on, every call returns | 2 processes, up to 2 segments each, trusted and probed calls, 1 kill |
| Lifecycle | a running daemon is the pid file's, a stop is thorough, commands return | 3 commands of all kinds, overlapping, 1 crash, any pid file not written |
| Startup | settings add up, the portal's resources are released | 2 settings commands, 2 captures tried |
| RecorderBoundary, RecorderShortCapture, SavePathBuffer, DaemonReselect | one disagreement each | see below |

Why the bounds suffice: with capacity 2 a third request meets a full queue made of
one waiting and one active save; two callers already reach the lock in either
order, with clock readings out of order; a clip of two seconds against segments of
one or two seconds makes windows that start and end inside a segment; five ticks
let a fragment expire and be pruned while a save is outstanding. The slack of the
live window is a constant, 3 seconds in the code; 0 makes pruning reachable
earlier, and the properties name the constant. In `Recorder` `MaxTime` stops the
clock, `MaxPending` and `MaxBus` limit what the sink and the bus hold back,
and `Deadline` cuts waits at `MaxTime`.

Three key events press a keybind of two keys and release one of them, or hold one
key on both devices and unplug one; one plug is a device that comes back under
its old path. In ClipMuxer two processes are what it takes for one to remove the
other's staging directory at every point of its call, and two segments for one of
them to be missing. In Lifecycle three commands are a start, a second command
that meets its daemon in any state, and a third that meets what both left; the
crash leaves stale files. In Startup two commands may lose each other's
update, and the second capture meets what the first left open.

Two runs exclude what the code is known not to handle by history variables that
name it, so that the property says nothing else goes wrong. `overlapped`
(Lifecycle): two commands ran at once; two starts that both find no daemon fork
two, and the one that exits removes the other's pid file. `unwritten` (Lifecycle):
a pid was not written although its daemon runs, and there have been daemons ever
since. `Start` forks first and writes afterwards, so from then on every command says
that nothing runs, the next start forks a second daemon, and either may remove the
other's pid file: the pid file and the daemons are not in step then, and
`DaemonIsReachable` does not say they are. `StopIsThorough` does not exclude it: the
search for siblings finds a daemon that no pid file names. `disturbed`
(SettingsStore): a command loaded the file while another was about to write it,
or was cut off between truncation and write (a crash, a full disk).

`CHECK_DEADLOCK FALSE` is set where the model really stops: the clock bound of
Recorder and SavePath, the daemon's exit, a listener that was stopped, and
processes that have returned (ClipMuxer, Lifecycle, Startup). That nothing is stuck before that
is what `AcceptedIsAnswered`, `ShutdownCompletes`, `AttachedIsOpened`,
`WriterReturns` and `CommandsReturn` say. In SaveQueue the
stopper may stop again, as the destructor does.

Every property of a passing run has a mutant of the code (next to the definition
it changes, marked *Mutant*) that violates it.

### What the violated properties show

1. **RecorderBoundary** - the test `TrimsFootageAfterRequestBoundary`
   (`tests/clip_muxer_test.cpp`) stands for a promise: a clip does not show what
   happened after its request. On the fallback path of `SaveClip` the newest
   finalized files are taken by count with `end_trim_seconds` 0, so it does.
2. **RecorderShortCapture** - the test `ExportsShorterRealCaptureWithoutPadding`
   exports what there is. If the wait for the boundary times out and the selected
   fragments end before the cutoff, `last_end - cutoff` wraps around and the
   muxer refuses a good capture.
3. **SavePathBuffer** - `RequestSave` queues before the accept callback runs. If
   the worker finishes first, the cutoff is recorded after its release and pruning
   is held back for the rest of the recording.
4. **DaemonReselect** - the log says the reselection waits for the active save.
   `Status().saving` covers every request that waits or is being saved when it is
   read (`EarlierSavesAreServed`), but the lock is released then: a request that the
   listener thread gets accepted afterwards is taken by the worker while the main
   thread stops and replaces the recorder, and is inside the one that is destroyed.

### Fairness

SaveQueue: each thread inside the controller is scheduled (`WF` of its next
step); no request, stop, tick or spurious wakeup has to happen. That a save
callback returns is part of the worker's fairness, because every wait inside
`SaveClip` has a timeout; SavePath replaces this assumption by the steps of
`SaveClip`, with `WF` of the clock and of the sink's split, without which the
model's clock may not pass the longest segment. The sink may stall its
finalizations, the bus thread may never run and the muxer may fail.
Daemon: the three threads run and the calls into the recorder return. `SF` of
`WriteStatus` says that the once-a-second status write comes due again and again
while the loop polls four times a second.
KeyListener: the listener's thread runs and time passes; hands, plugs and the
kernel owe nothing. ClipMuxer: each process runs until it is killed. The ffmpeg
that composes owes nothing (it may hang and ignore SIGTERM, the deadline is the
code's); the probes are assumed to come back, because the code gives them no
deadline. Lifecycle: a command that runs goes on and its deadlines pass; a daemon
owes nothing. Startup states no fairness: it checks safety only.

## Proofs

`SaveQueueProofs` proves, for every set of callers, capacity, debounce and bound:
`TypeCorrect`; `Inductive`, the invariant `IInv`; from it `WithinCapacity`,
`ServedInOrder`, `NoRequestLost`, `NoSaveAfterStop`, `KeybindsSpaced` and
`DebouncedByAccepted`; and `ImplementsSafeQueue`, that every step of the controller
is a step of SaveQueueSpec or a stutter (the safety part of `ImplementsQueue`).
None of them is inductive alone: capacity needs that `saving_` and the worker's place agree
(`WorkerConsistent`), order and no-loss need that the queue holds the consecutive
ids after those served and that only a worker on its way out drops any
(`QueueConsistent`), the debounce needs that `last_keybind_request_at_` is the time
of an accepted press and no accepted press is later (`KeybindConsistent`). A press
that meets a full queue of two and is followed by another takes four calls, one more
than the run has: there `DebouncedByAccepted` rests on its proof.

`DaemonProofs` proves `TypeCorrect`, `ShutdownProgress` and `ShutdownOrder` for
every capacity and number of signals: the main thread's place in its shutdown
bounds where the other two threads can be, and a thread is inside the recorder
only at the places that call it.
Its `ImplementsSafeQueue` shows that its threads use the controller only as SaveQueueSpec
promises it, so that the bound and the order of that queue, proved of SaveQueueSpec
alone, hold in the daemon (`RequestsWaitInOrder`). `EarlierSavesAreServedHolds` is the
part of the log line of a reselection that is true: from its begin until the new
recorder has started, only requests accepted since its begin wait or are inside
`SaveClip`. It rests on two facts: a request is in service exactly while the worker is
in its callback (`WorkerServes`), and ids are given in order, so that what is accepted
during the reselection is later than `chosenAt` (`LaterOnly`). DaemonReselect shows
such a later request inside the recorder that goes.

`StartupProofs` proves of PortalSession `PortalReleasedHolds`, for any number of
captures tried. The invariant `PortalInv` is `Sessions /\ Holding`: where the main
thread is determines which members of the recorder and which locals are set, how
much is held, and whether exactly the session of the current attempt is open or
none; a handle is only given for an attempt that was made. `PortalReleased` alone
says nothing of the middle of a start, where a failure begins. Of SettingsStore it
proves `SettingsSurviveHolds`, for any number of commands. `SettingsInv` says of
every state the types and what each command was asked for; unless `disturbed`, it
adds that at most one command is between its load and its write, that this one's
settings are what was wanted before it plus its own change, and that the file
gives back what was wanted.

Every step of Startup is a step of SettingsStore or leaves its variables alone, and
likewise for PortalSession (`SettingsRefined`, `PortalRefined`), so that both
theorems hold of the composition.

`ClipMuxerProofs` proves `NothingLeftBehindHolds` and `PublishedIsRequestedHolds` for
any number of processes, segments and kills. The invariant says of each process: there
is an ffmpeg only inside the call, and a directory after it only when its `remove_all`
failed (`Tidy`); as long as no segment was
skipped they are staged in order (`StagedInOrder`); an output starts where the trimmed
footage does and is a stretch of what was staged (`OutputFromStaged`); what has passed
validation deserves it, on its way to the clip directory too (`Deliverable`). Another
process can only empty a directory or take it away, which all four survive: that is
the step the proof turns on. What a failed `remove_all` leaves has nothing new in it
(`RemovedIsLess`), so a call leaves its directory behind only when its own failed.
`TypeCorrect` adds `Own`: the call is one of the process's own, and its directory
holds what its staged list ends with (`EndsWith`, the suffix of `TypeOK` without
reversing a sequence), since staging appends to both and a loss empties the directory.

`LifecycleProofs` proves `DaemonIsReachableHolds` and `StopIsThoroughHolds` for any
number of commands, daemons and crashes. The invariant has a part that holds however
commands overlap and one for commands given one after the other. Always: a daemon
exists only once its command has come to write the pid file, which names only such
daemons (`OneFork`); what a stop has found and not ended is still among its targets
(`StopKeepsTargets`), which is why what a stop that ends has found is gone or was sent
SIGKILL; a command is in the branch of its operation (`RightOp`). While no two
commands overlapped (`OneByOne`): one is active, and a stop that has searched has
every daemon among its targets (`StopKnowsAll`), also one whose pid was not written.
While, besides, every pid was written (`InStep`): a daemon that has not let go of the
pid file is named by it or its command is about to write it, and a command that found
no daemon there is alone with the one it forks. Neither property is inductive: that
there is never a second daemon rests on what a start has read before it forks, and
that a stop is thorough on what its search has found. An action that is more than one
assignment has a lemma that states its effect (`GoToDoes`, `SendTermDoes`, ...), and
the invariant's steps use the effect.

`KeyListenerProofs` proves `TypeCorrect`, `NoPhantomKeysHolds`,
`ReportedOncePerPressHolds` and `ExactlyBrokenRemovedHolds` for any finite set of
devices and any keys, keybinds, debounce and bounds. The invariant adds to `TypeOK`
and `NoPhantomKeys` that a path is open at most once (`DistinctPaths`: without it a
removed device would still be open elsewhere, and its keys with it), that what
`poll` found ready has something to read when the loop comes to it, unless it has
gone since (`StillReady`: it keeps `Head` of an empty queue out), that what a round
calls broken is gone and its indices ascend (`BrokenAreGone`: removing from the back
then hits these devices and no other), and that a keybind that is up has been seen
up (`UpWasSeen`). `RemoveBrokenDevices` is a fold, and a fact about a fold needs
induction; the library's theorems of induction take an operator. `SetInduction`
states it of a set of numbers instead, from the well-foundedness of `<`; with it
`FoldExists` and `FoldLeftSteps` show what each step of the fold does and
`KeptRemains` that exactly the unbroken handles are left, in their order.

Both of these invariants were checked by TLC on the instance of their run before
they were proved.

`RecorderProofs` proves the safety of Recorder, all six of its properties, for
every set of requests, clip length, retention, wait and bound. The invariant has
two parts. `Disk` says what the list is: fragments in the order of time, the
unpruned end of the segments the bus thread has handled, while the bus holds the
messages of the rest in order, and only what had left the live window was pruned
(`PrunedIsOld`). `Saves` says where each request stands: its cutoff is there from
the mark to the answer (`CutoffsAreOutstanding`); a cutoff recorded within the
slack keeps every fragment of its window (`Kept`); what SaveClip has selected lies
in that window (`Selected`); and once the boundary is reached, the window is an
unbroken stretch of fragments (`Reached`). None of the six is inductive alone.
The central step is `BusClosed`, which appends a fragment and prunes in one
handler: it removes only fragments older than the live window of every
outstanding cutoff, hence none of those a save has selected. Of `Word` and
`MaxTime` the proof needs what `RecorderAssumption` says: a difference of two times,
negative ones included, stays unique modulo `Word`.

`SavePathProofs` shows that every step of SavePath is a step of SaveQueue or leaves
its variables alone (`QueueRefined`), so that all of `SaveQueueProofs` holds of the
controller with the recorder behind its callbacks (`ImplementsSaveQueue`), and
proves `AnsweredInOrder` and `StopWaitsForSave`. `PathInv` adds to the controller's
invariant what the two halves owe each other: a save runs only inside the worker's
callback and for its request (`SaveInCallback`); of the requests served all but the
one in that callback are answered, and none of the others is (`AnsweredSoFar`);
and an id belongs to a call that was begun, so that it has an outcome
(`IdsAreCalls`). SavePath does not implement Recorder as a specification of its
own: there a request is marked before its save begins, while the worker may take a
request whose accept callback has not run yet. That is what the run SavePathBuffer
finds, and why the theorems of RecorderProofs are not carried over.

The only assumptions are those of the constants (`SaveQueueAssumption`,
`RecorderAssumption`, `SavePathAssumption`, `DaemonAssumption`,
`ClipMuxerAssumption`, `KeyListenerAssumption`, `LifecycleAssumption`), which TLC
evaluates in the runs. They give types, bounds and the `Word` of the recorder;
`KeyListenerAssumption` says that the paths of `/dev/input` are finitely many.

Only model-checked: liveness and what it needs. `CommandsReturn`, `WriterReturns`,
`AttachedIsOpened` and the other promises that something happens rest on fairness,
which the prover does not handle; so does the fairness that `ImplementsQueue`
promises. Every invariant and every other action property of a passing run is
stated by a theorem.

## Not modelled

* The encoded ring buffer: nothing but its own test uses it.
* The notifier (a child process per message, its result ignored), keybind capture
  and the terminal (a dialogue with the user), logging, the string, number and
  descriptor helpers, the selection of backend budgets (formulas without state).
* Contents of media files and the parsing of mp4 boxes; how ffprobe is run, which
  has no deadline; the text of the pipeline and of the portal's messages.
* A session the portal opens after `CreateSession` timed out stays open until the
  connection is closed: `abandoned` records it, no property speaks of it, because
  the program never learns its handle.
* The checks of `setup`, which print. `Status` functions only read.
  `last_request_source_` and the message strings decide nothing that is modelled.

## Plan

Done: the save path (SaveQueue, Recorder, SavePath, Daemon), the keybind listener,
the muxer, the command line, settings and portal, and the proofs above. Left, in
this order:

1. Lifecycle over Daemon: its daemon as a refinement of `RunListener`.
