----------------------------- MODULE Lifecycle -----------------------------
(***************************************************************************)
(* The command line: start, stop, restart, save, choose and status, each a *)
(* process of its own, and the daemons they fork.  They know each other by *)
(* the pid file, the status file and /proc only.  Commands may overlap; a  *)
(* daemon may stop by itself, hang in its shutdown or die anywhere.        *)
(*                                                                         *)
(* A command forks at most one daemon, which has the command's name here.  *)
(***************************************************************************)
EXTENDS Naturals

CONSTANTS
  Commands,  \* the commands that will be given, and the daemons they may fork
  Ops,       \* what each command may be
  None,      \* no pid
  MaxCrashes \* bound: daemons that die by themselves

ASSUME LifecycleAssumption ==
  /\ Ops \in [Commands -> SUBSET {"start", "stop", "restart", "save", "choose",
                                  "status"}]
  /\ None \notin Commands
  /\ MaxCrashes \in Nat

VARIABLES
  command,    \* per command: where it is, its locals
  daemon,     \* per command: the daemon it forked
  pidFile,    \* PidFilePath(): a daemon, or None when absent or just truncated
  statusFile, \* RecorderStatusPath(): what the save command reads of it
  crashes,    \* how many daemons died by themselves
  overlapped, \* history: two commands were running at once
  unwritten   \* history: a pid file was not written, and daemons were there ever since

files == <<pidFile, statusFile>>
history == <<overlapped, unwritten>>
vars == <<command, daemon, files, crashes, history>>

NotGiven == [op |-> "none", pc |-> "idle", pid |-> None, target |-> None,
             targets |-> {}, found |-> {}, seesClip |-> FALSE,
             seesStatus |-> FALSE]

\* save: no request, SIGUSR1 came, SaveClip runs; failed: last_save_failure_.
NoDaemon == [state |-> "none", save |-> "no", failed |-> FALSE]

Init ==
  /\ command = [c \in Commands |-> NotGiven]
  /\ daemon = [c \in Commands |-> NoDaemon]
  /\ pidFile = None
  /\ statusFile = "none"
  /\ crashes = 0
  /\ overlapped = FALSE
  /\ unwritten = FALSE

At(c, pc) == command[c].pc = pc

Active(c) == command[c].pc \notin {"idle", "done", "killed"}

\* IsProcessRunning, for a pid that is a daemon's or none.
Alive(d) == d # None /\ daemon[d].state \notin {"none", "dead"}

\* It is gone, or SIGKILL has been sent and the kernel does not let go of it yet.
Stopped(d) == daemon[d].state \in {"none", "doomed", "dead"}

GoTo(c, pc) == command' = [command EXCEPT ![c].pc = pc]

\* A process that ends forgets its locals.
Ended(pc) == [NotGiven EXCEPT !.pc = pc]

Finish(c) == command' = [command EXCEPT ![c] = Ended("done")]

\* A daemon that died, or was killed, saves nothing any more.
Becomes(d, state) == [daemon EXCEPT ![d] = [NoDaemon EXCEPT !.state = state]]

-----------------------------------------------------------------------------
(* The daemons *)

DaemonStep(d, from, to) ==
  /\ daemon[d].state = from
  /\ daemon' = [daemon EXCEPT ![d].state = to]
  /\ UNCHANGED <<command, crashes, history>>

\* Until RunListener installs its handlers every signal kills the child.
InstallHandlers(d) ==
  /\ DaemonStep(d, "child", "running")
  /\ statusFile' = "unhealthy"
  /\ UNCHANGED pidFile

\* SIGTERM has come, the stop keybind, or the captured window has gone.
ShutsDown(d) ==
  /\ \/ DaemonStep(d, "terminated", "stopping")
     \/ DaemonStep(d, "running", "stopping")
  /\ UNCHANGED files

\* The main loop takes the request; SaveClip clears the last failure.
SaveBegins(d) ==
  /\ daemon[d].state = "running"
  /\ daemon[d].save = "asked"
  /\ daemon' = [daemon EXCEPT ![d].save = "saving", ![d].failed = FALSE]
  /\ UNCHANGED <<command, files, crashes, history>>

\* What every waiting save command will find when it looks.
Seen(clip) ==
  [c \in Commands |->
     IF At(c, "poll") THEN [command[c] EXCEPT !.seesClip = @ \/ clip,
                                              !.seesStatus = TRUE]
     ELSE command[c]]

SaveEnds(d) ==
  /\ daemon[d].state \in {"running", "terminated", "stopping"}
  /\ daemon[d].save = "saving"
  /\ \E saved \in BOOLEAN :
       /\ daemon' = [daemon EXCEPT ![d].save = "no", ![d].failed = ~saved]
       /\ statusFile' = IF saved THEN "healthy" ELSE "failed"
       /\ command' = Seen(saved)
  /\ UNCHANGED <<pidFile, crashes, history>>

\* The main loop, once a second.
WriteStatus(d) ==
  /\ daemon[d].state = "running"
  /\ \/ statusFile' = IF daemon[d].failed THEN "failed" ELSE "healthy"
     \/ statusFile' = "unhealthy"
  /\ command' = Seen(FALSE)
  /\ UNCHANGED <<daemon, pidFile, crashes, history>>

\* The threads are joined: after the save in progress.
DaemonStops(d) ==
  /\ daemon[d].save # "saving"
  /\ DaemonStep(d, "stopping", "exiting")
  /\ statusFile' = "unhealthy"
  /\ UNCHANGED pidFile

\* By name, whatever the file says by now.
RemovesPidFile(d) ==
  /\ DaemonStep(d, "exiting", "exit")
  /\ pidFile' = None
  /\ UNCHANGED statusFile

Exits(d) ==
  /\ daemon[d].state = "exit"
  /\ daemon' = Becomes(d, "dead")
  /\ UNCHANGED <<command, files, crashes, history>>

\* The kernel lets go of a process that was killed; it runs no code of its own.
Vanishes(d) ==
  /\ DaemonStep(d, "doomed", "dead")
  /\ UNCHANGED files

Crashes(d) ==
  /\ ~Stopped(d)
  /\ crashes < MaxCrashes
  /\ crashes' = crashes + 1
  /\ daemon' = Becomes(d, "dead")
  /\ UNCHANGED <<command, files, history>>

-----------------------------------------------------------------------------
(* Every command begins with the pid file *)

Give(c) ==
  /\ At(c, "idle")
  /\ \E op \in Ops[c] :
       command' = [command EXCEPT ![c].op = op,
                                  ![c].pc = IF op \in {"stop", "restart"} THEN "stop"
                                            ELSE op]
  /\ overlapped' = (overlapped \/ \E b \in Commands : Active(b))
  /\ UNCHANGED <<daemon, files, crashes, unwritten>>

Reads(c, op, pc) ==
  /\ At(c, op)
  /\ command' = [command EXCEPT ![c].pid = pidFile, ![c].pc = pc]
  /\ UNCHANGED <<daemon, files, crashes, history>>

-----------------------------------------------------------------------------
(* start *)

AlreadyRunning(c) ==
  /\ At(c, "start")
  /\ Alive(pidFile)
  /\ Finish(c)
  /\ UNCHANGED <<daemon, files, crashes, history>>

(* Mutant: the pid file is not looked at. *)
NotRunningUnchecked(c) == Reads(c, "start", "fork")

NotRunning(c) ==
  /\ ~Alive(pidFile)
  /\ Reads(c, "start", "fork")

\* The clip directory cannot be created, or fork fails.
ForkFails(c) ==
  /\ At(c, "fork")
  /\ Finish(c)
  /\ UNCHANGED <<daemon, files, crashes, history>>

Fork(c) ==
  /\ At(c, "fork")
  /\ daemon' = [daemon EXCEPT ![c].state = "child"]
  /\ GoTo(c, "truncate")
  /\ unwritten' = (unwritten /\ \E d \in Commands : Alive(d))
  /\ UNCHANGED <<files, crashes, overlapped>>

\* WritePidFile opens with trunc, and writes when it closes.
TruncatePidFile(c) ==
  /\ At(c, "truncate")
  /\ pidFile' = None
  /\ GoTo(c, "write")
  /\ UNCHANGED <<daemon, statusFile, crashes, history>>

WritePidFile(c) ==
  /\ At(c, "write")
  /\ pidFile' = c
  /\ Finish(c)
  /\ UNCHANGED <<daemon, statusFile, crashes, history>>

\* The directory or the file cannot be created, and the file stays as it is, or
\* what is written does not get into the file.  The daemon runs all the same.
PidFileNotWritten(c) ==
  /\ At(c, "truncate") \/ At(c, "write")
  /\ unwritten' = TRUE
  /\ Finish(c)
  /\ UNCHANGED <<daemon, files, crashes, overlapped>>

-----------------------------------------------------------------------------
(* stop *)

\* The daemon of the pid file first, then every other process of the program.
StopReads(c) ==
  /\ At(c, "stop")
  /\ command' = [command EXCEPT
       ![c].pid = pidFile,
       ![c].targets = IF Alive(pidFile) THEN {pidFile} ELSE {},
       ![c].found = @ \union (IF Alive(pidFile) THEN {pidFile} ELSE {}),
       ![c].pc = "stopPid"]
  /\ UNCHANGED <<daemon, files, crashes, history>>

(* Mutant: with a pid file that names a process nothing else is looked for. *)
SiblingsWithoutPid(c) == IF command[c].found # {} THEN {}
                         ELSE {d \in Commands : Alive(d)}

\* FindSiblingProcessesByExecutable: daemons, and commands that are running.
Siblings(c) == {d \in Commands \ {command[c].pid} : Alive(d)}

FindSiblings(c) ==
  /\ At(c, "stopPid")
  /\ command[c].targets = {}
  /\ command' =
       [b \in Commands |->
          CASE b = c -> [command[c] EXCEPT !.targets = Siblings(c),
                                           !.found = @ \union Siblings(c),
                                           !.pc = "stopAll"]
            [] b # c /\ Active(b) -> Ended("killed")
            [] OTHER -> command[b]]
  /\ UNCHANGED <<daemon, files, crashes, history>>

Stopping(c) == At(c, "stopPid") \/ At(c, "stopAll")

\* The process is gone: before the signal, within five seconds, or by SIGKILL.
TargetGone(c, t) ==
  /\ Stopping(c)
  /\ t \in command[c].targets
  /\ ~Alive(t)
  /\ command' = [command EXCEPT ![c].targets = @ \ {t}, ![c].target = None]
  /\ UNCHANGED <<daemon, files, crashes, history>>

\* RequestProcessGroupStop: before the handlers are installed SIGTERM kills.
SendTerm(c, t) ==
  /\ Stopping(c)
  /\ command[c].target = None
  /\ t \in command[c].targets
  /\ Alive(t)
  /\ command' = [command EXCEPT ![c].target = t]
  /\ daemon' = CASE daemon[t].state = "child" -> Becomes(t, "dead")
                 [] daemon[t].state = "running" ->
                      [daemon EXCEPT ![t].state = "terminated"]
                 [] OTHER -> daemon
  /\ UNCHANGED <<files, crashes, history>>

(* Mutant: the stop waits for as long as the daemon needs. *)
SendKillNever(c) == FALSE /\ UNCHANGED vars

\* Five seconds have passed: a save in progress may take longer.
SendKill(c) ==
  /\ Stopping(c)
  /\ command[c].target # None
  /\ ~Stopped(command[c].target)
  /\ daemon' = Becomes(command[c].target, "doomed")
  /\ UNCHANGED <<command, files, crashes, history>>

\* Two more seconds after SIGKILL: the stop goes on without this one.
GivesUp(c, t) ==
  /\ Stopping(c)
  /\ command[c].target = t
  /\ daemon[t].state = "doomed"
  /\ command' = [command EXCEPT ![c].targets = @ \ {t}, ![c].target = None]
  /\ UNCHANGED <<daemon, files, crashes, history>>

RemoveFiles(c) ==
  /\ At(c, "stopAll")
  /\ command[c].targets = {}
  /\ pidFile' = None
  /\ statusFile' = "none"
  /\ IF command[c].op = "restart" THEN GoTo(c, "start") ELSE Finish(c)
  /\ UNCHANGED <<daemon, crashes, history>>

-----------------------------------------------------------------------------
(* save, choose and status *)

\* The daemon of the pid file is dead: the files are removed, by name.
StaleFiles(c) ==
  \E op \in {"save", "choose", "status"} :
    /\ ~Alive(pidFile)
    /\ Reads(c, op, "stale")

RemoveStaleFiles(c) ==
  /\ At(c, "stale")
  /\ IF command[c].pid # None
       THEN pidFile' = None /\ statusFile' = "none"
       ELSE UNCHANGED files
  /\ CASE command[c].op = "save"   -> GoTo(c, "export")
       [] command[c].op = "choose" -> GoTo(c, "start")
       [] command[c].op = "status" -> Finish(c)
  /\ UNCHANGED <<daemon, crashes, history>>

\* The save command composes a clip of the retained segments itself.
ExportRetained(c) ==
  /\ At(c, "export")
  /\ Finish(c)
  /\ UNCHANGED <<daemon, files, crashes, history>>

DaemonFound(c) ==
  \E op \in {"save", "choose", "status"} :
    /\ Alive(pidFile)
    /\ Reads(c, op, "found")

StatusPrinted(c) ==
  /\ At(c, "found")
  /\ command[c].op = "status"
  /\ Finish(c)
  /\ UNCHANGED <<daemon, files, crashes, history>>

\* A reader that comes while the file is rewritten finds nothing in it.
RecorderUnhealthy(c) ==
  /\ At(c, "found")
  /\ command[c].op = "save"
  /\ statusFile = "unhealthy"
  /\ Finish(c)
  /\ UNCHANGED <<daemon, files, crashes, history>>

\* kill: the process may be gone, and a child without handlers dies of it.
SignalFails(c) ==
  /\ At(c, "found")
  /\ command[c].op \in {"save", "choose"}
  /\ ~Alive(command[c].pid)
  /\ Finish(c)
  /\ UNCHANGED <<daemon, files, crashes, history>>

Signalled(d, save) ==
  CASE daemon[d].state = "child" -> Becomes(d, "dead")
    [] daemon[d].state \notin {"child", "doomed"} /\ save /\ daemon[d].save = "no" ->
         [daemon EXCEPT ![d].save = "asked"]
    [] OTHER -> daemon

\* The threshold lies a second back: a clip or a status from before may count.
RequestSave(c) ==
  /\ At(c, "found")
  /\ command[c].op = "save"
  /\ Alive(command[c].pid)
  /\ daemon' = Signalled(command[c].pid, TRUE)
  /\ \E clip, status \in BOOLEAN :
       command' = [command EXCEPT ![c].pc = "poll", ![c].seesClip = clip,
                                  ![c].seesStatus = status]
  /\ UNCHANGED <<files, crashes, history>>

RequestChoice(c) ==
  /\ At(c, "found")
  /\ command[c].op = "choose"
  /\ Alive(command[c].pid)
  /\ daemon' = Signalled(command[c].pid, FALSE)
  /\ Finish(c)
  /\ UNCHANGED <<files, crashes, history>>

ClipFound(c) ==
  /\ At(c, "poll")
  /\ command[c].seesClip
  /\ Finish(c)
  /\ UNCHANGED <<daemon, files, crashes, history>>

\* The file may tell of an earlier save: it is as new as the threshold, no more.
FailureFound(c) ==
  /\ At(c, "poll")
  /\ ~command[c].seesClip
  /\ command[c].seesStatus
  /\ statusFile \in {"unhealthy", "failed"}
  /\ Finish(c)
  /\ UNCHANGED <<daemon, files, crashes, history>>

SaveTimesOut(c) ==
  /\ At(c, "poll")
  /\ Finish(c)
  /\ UNCHANGED <<daemon, files, crashes, history>>

-----------------------------------------------------------------------------
StartStep(c) ==
  AlreadyRunning(c) \/ NotRunning(c) \/ ForkFails(c) \/ Fork(c)
    \/ TruncatePidFile(c) \/ WritePidFile(c) \/ PidFileNotWritten(c)

StopStep(c) ==
  \/ StopReads(c) \/ FindSiblings(c) \/ SendKill(c) \/ RemoveFiles(c)
  \/ \E t \in Commands : TargetGone(c, t) \/ SendTerm(c, t) \/ GivesUp(c, t)

OtherStep(c) ==
  \/ StaleFiles(c) \/ RemoveStaleFiles(c) \/ ExportRetained(c)
  \/ DaemonFound(c) \/ StatusPrinted(c) \/ RecorderUnhealthy(c)
  \/ SignalFails(c) \/ RequestSave(c) \/ RequestChoice(c)
  \/ ClipFound(c) \/ FailureFound(c) \/ SaveTimesOut(c)

CommandStep(c) == StartStep(c) \/ StopStep(c) \/ OtherStep(c)

DaemonSteps(d) ==
  \/ InstallHandlers(d) \/ ShutsDown(d) \/ SaveBegins(d) \/ SaveEnds(d)
  \/ WriteStatus(d) \/ DaemonStops(d) \/ RemovesPidFile(d) \/ Exits(d)
  \/ Vanishes(d)

Next ==
  \E c \in Commands : Give(c) \/ CommandStep(c) \/ DaemonSteps(c) \/ Crashes(c)

Spec == Init /\ [][Next]_vars

\* Commands run and their deadlines pass; the daemon owes them nothing.
FairSpec == Spec /\ \A c \in Commands : WF_vars(CommandStep(c))

-----------------------------------------------------------------------------
\* A stop ends what it found: the daemon of the pid file, also one that hangs,
\* and every daemon nobody knew of, as one whose pid was not written.  When no other
\* command ran beside it, none is left at all: each is gone or SIGKILL was sent.
StopIsThorough ==
  [][\A c \in Commands : command[c].op = "stop" /\ At(c, "stopAll")
                         /\ command'[c].pc = "done" =>
       /\ \A d \in command[c].found : Stopped(d)
       /\ ~overlapped => \A d \in Commands : Stopped(d) /\ pidFile' = None]_vars

PidFileNames(d) == pidFile = d \/ At(d, "truncate") \/ At(d, "write")

\* While commands are given one after the other and each pid is written, a daemon
\* that runs is the one the pid file names: crashes, restarts, daemons that exit on
\* their own or that SIGKILL does not end at once, and stale files do not make it
\* unreachable, and there is never a second one.  One pid that was not written ends
\* this, for as long as there are daemons: the next start forks a second one, and
\* either may remove the other's pid file.
DaemonIsReachable ==
  overlapped \/ unwritten
    \/ \A d \in Commands : daemon[d].state = "running" => PidFileNames(d)

\* The commands that run all return, unless a stop kills them: a daemon that hangs in its
\* shutdown holds up neither a stop nor a restart, and a save does not wait for
\* ever for its clip.
CommandsReturn ==
  (\E c \in Commands : Active(c)) ~> (\A c \in Commands : ~Active(c))
=============================================================================
