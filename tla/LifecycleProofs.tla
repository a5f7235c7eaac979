-------------------------- MODULE LifecycleProofs --------------------------
(***************************************************************************)
(* The safety properties of Lifecycle for any number of commands, daemons  *)
(* and crashes.                                                            *)
(***************************************************************************)
EXTENDS Lifecycle, TLAPS

Places == {"idle", "start", "stop", "save", "choose", "status", "fork", "truncate",
           "write", "stopPid", "stopAll", "stale", "export", "found", "poll", "done",
           "killed"}

Pids == Commands \union {None}

Command == [op : {"none", "start", "stop", "restart", "save", "choose", "status"},
            pc : Places, pid : Pids, target : Pids, targets : SUBSET Commands,
            found : SUBSET Commands, seesClip : BOOLEAN, seesStatus : BOOLEAN]

DaemonState == {"none", "child", "running", "terminated", "stopping", "exiting", "exit",
                "doomed", "dead"}

\* Every variable keeps the type of what it stands for.
TypeOK ==
  /\ command \in [Commands -> Command]
  /\ daemon \in [Commands -> [state : DaemonState, save : {"no", "asked", "saving"},
                              failed : BOOLEAN]]
  /\ pidFile \in Pids
  /\ statusFile \in {"none", "healthy", "unhealthy", "failed"}
  /\ crashes \in 0..MaxCrashes
  /\ overlapped \in BOOLEAN
  /\ unwritten \in BOOLEAN

\* A command comes to the branches of its operation with that operation.
RightOp ==
  \A c \in Commands :
    /\ command[c].pc \in {"save", "choose", "status"} => command[c].op = command[c].pc
    /\ At(c, "stale") => command[c].op \in {"save", "choose", "status"}

Forked(d) == daemon[d].state # "none"

\* A daemon is there only once its command has forked it, and that is the last
\* thing but the pid file a command does; the file only names such daemons.
OneFork ==
  /\ \A c \in Commands :
       /\ Forked(c) => command[c].pc \in {"truncate", "write", "done", "killed"}
       /\ command[c].pc \in {"truncate", "write"} => Forked(c)
  /\ pidFile # None => Forked(pidFile)

\* What a stop has found and not ended is still among its targets.
KeptBy(c) ==
  /\ command[c].pc \in {"idle", "stop"} => command[c].found = {}
  /\ \A d \in command[c].found : Forked(d)
  /\ Stopping(c) =>
       /\ \A d \in command[c].found : ~Stopped(d) => d \in command[c].targets
       /\ command[c].pid # None => Forked(command[c].pid)
       /\ command[c].pid # None /\ ~Stopped(command[c].pid) =>
            At(c, "stopPid") /\ command[c].pid \in command[c].targets

StopKeepsTargets == \A c \in Commands : KeptBy(c)

\* A daemon that has not let go of the pid file yet.
Holds(d) == ~Stopped(d) /\ daemon[d].state # "exit"

\* A command that has seen no daemon behind the pid file is past that.
PastPidFile(c) == command[c].pc \in {"stale", "export", "fork", "truncate", "write"}

\* While commands come one after the other: one is running, ...
OneActive == \A b, c \in Commands : Active(b) /\ Active(c) => b = c

\* ... a stop has every daemon among its targets, ...
StopKnowsAll ==
  \A c \in Commands : At(c, "stopAll") =>
    \A d \in Commands : ~Stopped(d) => d \in command[c].targets

\* ... and, as long as every pid was written, a daemon that holds the pid file is
\* the one in it, or its command is about to write it, ...
HoldersAreNamed == \A d \in Commands : Holds(d) => PidFileNames(d)

\* ... and a command that found no daemon there is alone with what it forks.
PastAlone ==
  \A c \in Commands : PastPidFile(c) => \A d \in Commands \ {c} : ~Holds(d)

InStep == HoldersAreNamed /\ PastAlone

OneByOne == OneActive /\ StopKnowsAll /\ (unwritten \/ InStep)

IInv == TypeOK /\ RightOp /\ OneFork /\ StopKeepsTargets /\ (overlapped \/ OneByOne)

-----------------------------------------------------------------------------
\* What the waiting saves see changes nothing else of them.
LEMMA SeenKeeps ==
  ASSUME TypeOK, NEW clip \in BOOLEAN, command' = Seen(clip)
  PROVE  /\ command' \in [Commands -> Command]
         /\ \A c \in Commands :
              /\ command'[c].op = command[c].op /\ command'[c].pc = command[c].pc
              /\ command'[c].pid = command[c].pid
              /\ command'[c].target = command[c].target
              /\ command'[c].targets = command[c].targets
              /\ command'[c].found = command[c].found
<1>1. ASSUME NEW c \in Commands
      PROVE  /\ command'[c] \in Command
             /\ command'[c].op = command[c].op /\ command'[c].pc = command[c].pc
             /\ command'[c].pid = command[c].pid /\ command'[c].target = command[c].target
             /\ command'[c].targets = command[c].targets
             /\ command'[c].found = command[c].found
  <2>1. command[c] \in Command
    BY DEF TypeOK
  <2>2. CASE At(c, "poll")
    <3> DEFINE clips == command[c].seesClip \/ clip
    <3>1. clips \in BOOLEAN
      OBVIOUS
    <3>2. command'[c] = [command[c] EXCEPT !.seesClip = clips, !.seesStatus = TRUE]
      BY <2>2 DEF Seen
    <3> HIDE DEF clips
    <3> QED
      BY <2>1, <3>1, <3>2 DEF Command
  <2>3. CASE ~At(c, "poll")
    BY <2>1, <2>3 DEF Seen
  <2> QED
    BY <2>2, <2>3
<1>2. command' = [c \in Commands |-> command'[c]]
  BY DEF Seen
<1> QED
  BY <1>1, <1>2

\* A daemon that ends, or is killed, leaves the others as they are.
DeathEffect(d, state) ==
  /\ daemon' \in [Commands -> [state : DaemonState,
                               save : {"no", "asked", "saving"}, failed : BOOLEAN]]
  /\ \A b \in Commands \ {d} : daemon'[b].state = daemon[b].state
  /\ daemon'[d].state = state

\* A crash, SIGKILL and an exit each end exactly one daemon.
LEMMA DeathDoes ==
  ASSUME TypeOK, NEW d \in Commands, NEW state \in DaemonState,
         daemon' = Becomes(d, state)
  PROVE  DeathEffect(d, state)
<1>1. [NoDaemon EXCEPT !.state = state]
        \in [state : DaemonState, save : {"no", "asked", "saving"}, failed : BOOLEAN]
  BY DEF NoDaemon
<1>2. [NoDaemon EXCEPT !.state = state].state = state
  BY DEF NoDaemon
<1> QED
  BY <1>1, <1>2 DEF DeathEffect, Becomes, TypeOK

-----------------------------------------------------------------------------
(* What the actions do, where a step is more than one assignment           *)

\* Only c's process moves.
Alone(c) == /\ command' \in [Commands -> Command]
            /\ \A b \in Commands \ {c} : command'[b] = command[b]

\* The command c keeps what its stop has found.
SameLocals(c) == /\ command'[c].pid = command[c].pid
                 /\ command'[c].targets = command[c].targets
                 /\ command'[c].found = command[c].found

\* A command's record that goes on in one place.
LEMMA AloneIf ==
  ASSUME TypeOK, NEW c \in Commands, NEW r \in Command,
         command' = [command EXCEPT ![c] = r]
  PROVE  Alone(c) /\ command'[c] = r
BY DEF TypeOK, Alone

\* GoTo moves the place and nothing else.
GoToEffect(c, pc) ==
  /\ Alone(c) /\ SameLocals(c)
  /\ command'[c].pc = pc /\ command'[c].op = command[c].op

\* A command that goes on keeps what it has read and found.
LEMMA GoToDoes ==
  ASSUME TypeOK, NEW c \in Commands, NEW pc \in Places, GoTo(c, pc)
  PROVE  GoToEffect(c, pc)
<1> DEFINE r == [command[c] EXCEPT !.pc = pc]
<1>1. command[c] \in Command
  BY DEF TypeOK
<1>2. /\ r \in Command /\ r.pc = pc /\ r.op = command[c].op /\ r.pid = command[c].pid
      /\ r.targets = command[c].targets /\ r.found = command[c].found
  BY <1>1 DEF Command
<1>3. command' = [command EXCEPT ![c] = r]
  BY DEF GoTo
<1> HIDE DEF r
<1>4. Alone(c) /\ command'[c] = r
  BY <1>2, <1>3, AloneIf
<1> QED
  BY <1>2, <1>4 DEF GoToEffect, SameLocals

\* A command that reads the pid file goes on from there.
LEMMA ReadsDoes ==
  ASSUME TypeOK, NEW c \in Commands, NEW op, NEW pc \in Places, Reads(c, op, pc)
  PROVE  command' \in [Commands -> Command]
<1> DEFINE r == [command[c] EXCEPT !.pid = pidFile, !.pc = pc]
<1>1. command[c] \in Command /\ pidFile \in Pids
  BY DEF TypeOK
<1>2. r \in Command
  BY <1>1 DEF Command
<1>3. command' = [command EXCEPT ![c] = r]
  BY DEF Reads
<1> HIDE DEF r
<1> QED
  BY <1>2, <1>3 DEF TypeOK

\* Finish ends the command with nothing found.
FinishEffect(c) ==
  Alone(c) /\ command'[c] = Ended("done")

\* A command that ends forgets what it has read and found.
LEMMA FinishDoes ==
  ASSUME TypeOK, NEW c \in Commands, Finish(c)
  PROVE  FinishEffect(c)
<1>1. Ended("done") \in Command
  BY DEF Ended, NotGiven, Command, Places, Pids
<1>2. command' = [command EXCEPT ![c] = Ended("done")]
  BY DEF Finish
<1> QED
  BY <1>1, <1>2, AloneIf DEF FinishEffect

\* A command that is given begins at the branch of its operation.
GiveEffect(c) ==
  /\ Alone(c) /\ SameLocals(c)
  /\ command'[c].pc \in {"start", "stop", "save", "choose", "status"}
  /\ command'[c].pc \in {"save", "choose", "status"} =>
       command'[c].op = command'[c].pc

\* Giving a command starts its operation; stop and restart both begin with the stop.
LEMMA GiveDoes ==
  ASSUME TypeOK, NEW c \in Commands, Give(c)
  PROVE  GiveEffect(c)
<1>1. PICK op \in Ops[c] :
        command' = [command EXCEPT ![c].op = op,
                                   ![c].pc = IF op \in {"stop", "restart"} THEN "stop"
                                             ELSE op]
  BY DEF Give
<1> DEFINE pc == IF op \in {"stop", "restart"} THEN "stop" ELSE op
           r == [command[c] EXCEPT !.op = op, !.pc = pc]
<1>2. op \in {"start", "stop", "restart", "save", "choose", "status"}
  BY LifecycleAssumption
<1>3. /\ pc \in {"start", "stop", "save", "choose", "status"}
      /\ pc \in {"save", "choose", "status"} => op = pc
  BY <1>2
<1>4. command[c] \in Command
  BY DEF TypeOK
<1>5. command' = [command EXCEPT ![c] = r]
  BY <1>1
<1> HIDE DEF pc
<1>6. /\ r.op = op /\ r.pc = pc /\ r.pid = command[c].pid
      /\ r.targets = command[c].targets /\ r.found = command[c].found
  BY <1>4
<1>7. r \in Command
  BY <1>2, <1>3, <1>4 DEF Command, Places
<1> HIDE DEF r
<1>8. Alone(c) /\ command'[c] = r
  BY <1>5, <1>7, AloneIf
<1> QED
  BY <1>3, <1>6, <1>8 DEF GiveEffect, SameLocals

\* A target that is gone leaves the targets.
TargetGoneEffect(c, t) ==
  /\ Alone(c)
  /\ command'[c].pc = command[c].pc /\ command'[c].op = command[c].op
  /\ command'[c].pid = command[c].pid /\ command'[c].found = command[c].found
  /\ command'[c].targets = command[c].targets \ {t}

\* A stop drops a target that is gone and nothing else of what it knows.
LEMMA TargetGoneDoes ==
  ASSUME TypeOK, NEW c \in Commands, NEW t \in Commands, TargetGone(c, t)
  PROVE  TargetGoneEffect(c, t)
<1> DEFINE r == [command[c] EXCEPT !.targets = @ \ {t}, !.target = None]
<1>1. command[c] \in Command
  BY DEF TypeOK
<1>2. command' = [command EXCEPT ![c] = r]
  BY DEF TargetGone
<1>3. /\ r.pc = command[c].pc /\ r.op = command[c].op /\ r.pid = command[c].pid
      /\ r.found = command[c].found /\ r.targets = command[c].targets \ {t}
  BY <1>1
<1>4. r \in Command
  BY <1>1 DEF Command, Pids
<1> HIDE DEF r
<1> QED
  BY <1>2, <1>3, <1>4, AloneIf DEF TargetGoneEffect

\* A stop that gives up on a target knows the rest as before.
LEMMA GivesUpDoes ==
  ASSUME TypeOK, NEW c \in Commands, NEW t \in Commands, GivesUp(c, t)
  PROVE  TargetGoneEffect(c, t)
<1> DEFINE r == [command[c] EXCEPT !.targets = @ \ {t}, !.target = None]
<1>1. command[c] \in Command
  BY DEF TypeOK
<1>2. command' = [command EXCEPT ![c] = r]
  BY DEF GivesUp
<1>3. /\ r.pc = command[c].pc /\ r.op = command[c].op /\ r.pid = command[c].pid
      /\ r.found = command[c].found /\ r.targets = command[c].targets \ {t}
  BY <1>1
<1>4. r \in Command
  BY <1>1 DEF Command, Pids
<1> HIDE DEF r
<1> QED
  BY <1>2, <1>3, <1>4, AloneIf DEF TargetGoneEffect

\* A stop that has seen to its targets removes the files and ends or goes on.
RemoveFilesEffect(c) ==
  /\ Alone(c)
  /\ \/ command[c].op = "restart" /\ command'[c].pc = "start" /\ SameLocals(c)
     \/ command[c].op # "restart" /\ command'[c] = Ended("done")

\* After the files a restart goes on to start and a stop ends.
LEMMA RemoveFilesDoes ==
  ASSUME TypeOK, NEW c \in Commands, RemoveFiles(c)
  PROVE  RemoveFilesEffect(c)
BY GoToDoes, FinishDoes DEF RemoveFiles, Places, GoToEffect, FinishEffect,
   RemoveFilesEffect

\* A command that saw a stale pid file goes on by its operation.
RemoveStaleFilesEffect(c) ==
  /\ Alone(c)
  /\ \/ command'[c].pc \in {"export", "start"} /\ SameLocals(c)
     \/ command'[c] = Ended("done")
  /\ pidFile' \in {pidFile, None}

\* After the stale files a save exports or ends, choose starts, and status ends.
LEMMA RemoveStaleFilesDoes ==
  ASSUME TypeOK, RightOp, NEW c \in Commands, RemoveStaleFiles(c)
  PROVE  RemoveStaleFilesEffect(c)
<1>1. command[c].op \in {"save", "choose", "status"}
  BY DEF RightOp, RemoveStaleFiles
<1>2. \/ GoTo(c, "export")
      \/ GoTo(c, "start")
      \/ Finish(c)
  BY <1>1 DEF RemoveStaleFiles
<1>3. pidFile' \in {pidFile, None}
  BY DEF RemoveStaleFiles, files, history
<1> QED
  BY <1>2, <1>3, GoToDoes, FinishDoes DEF Places, GoToEffect, FinishEffect,
     RemoveStaleFilesEffect

\* A save that has asked waits with what it may see at once.
RequestSaveEffect(c) ==
  Alone(c) /\ SameLocals(c) /\ command'[c].pc = "poll"

\* A save that has signalled the daemon goes to wait for its clip.
LEMMA RequestSaveDoes ==
  ASSUME TypeOK, NEW c \in Commands, RequestSave(c)
  PROVE  RequestSaveEffect(c)
<1>1. PICK clip \in BOOLEAN, status \in BOOLEAN :
        command' = [command EXCEPT ![c].pc = "poll", ![c].seesClip = clip,
                                   ![c].seesStatus = status]
  BY DEF RequestSave
<1> DEFINE r == [command[c] EXCEPT !.pc = "poll", !.seesClip = clip,
                                   !.seesStatus = status]
<1>2. command[c] \in Command
  BY DEF TypeOK
<1>3. command' = [command EXCEPT ![c] = r]
  BY <1>1
<1>4. /\ r.pc = "poll" /\ r.pid = command[c].pid
      /\ r.found = command[c].found /\ r.targets = command[c].targets
  BY <1>2
<1>5. r \in Command
  BY <1>2 DEF Command, Places
<1> HIDE DEF r
<1> QED
  BY <1>3, <1>4, <1>5, AloneIf DEF RequestSaveEffect, SameLocals

\* The end of a save and the status written once a second show only in what the
\* daemon and the waiting saves remember.
SavesEffect(d) ==
  /\ command' \in [Commands -> Command]
  /\ \A c \in Commands :
       /\ command'[c].op = command[c].op /\ command'[c].pc = command[c].pc
       /\ command'[c].pid = command[c].pid
       /\ command'[c].targets = command[c].targets
       /\ command'[c].found = command[c].found
  /\ daemon' \in [Commands -> [state : DaemonState,
                               save : {"no", "asked", "saving"}, failed : BOOLEAN]]
  /\ \A b \in Commands : daemon'[b].state = daemon[b].state
  /\ statusFile' \in {"healthy", "unhealthy", "failed"}
  /\ UNCHANGED <<pidFile, crashes, history>>

\* The end of a save and the status file move no command and no daemon.
LEMMA SavesSee ==
  ASSUME TypeOK, NEW d \in Commands, SaveEnds(d) \/ WriteStatus(d)
  PROVE  SavesEffect(d)
<1>1. CASE SaveEnds(d)
  <2>1. PICK saved \in BOOLEAN :
          /\ daemon' = [daemon EXCEPT ![d].save = "no", ![d].failed = ~saved]
          /\ statusFile' = IF saved THEN "healthy" ELSE "failed"
          /\ command' = Seen(saved)
    BY <1>1 DEF SaveEnds
  <2>2. UNCHANGED <<pidFile, crashes, history>>
    BY <1>1 DEF SaveEnds
  <2>3. /\ daemon' \in [Commands -> [state : DaemonState,
                                     save : {"no", "asked", "saving"}, failed : BOOLEAN]]
        /\ \A b \in Commands : daemon'[b].state = daemon[b].state
    BY <2>1 DEF TypeOK
  <2> QED
    BY <2>1, <2>2, <2>3, SeenKeeps DEF SavesEffect
<1>2. CASE WriteStatus(d)
  <2>1. command' = Seen(FALSE)
    BY <1>2 DEF WriteStatus
  <2>2. /\ UNCHANGED <<daemon, pidFile, crashes, history>>
        /\ statusFile' \in {"healthy", "unhealthy", "failed"}
    BY <1>2 DEF WriteStatus
  <2> QED
    BY <2>1, <2>2, SeenKeeps DEF TypeOK, SavesEffect
<1> QED
  BY <1>1, <1>2

\* A daemon shuts down from running or from the signal.
ShutsDownEffect(d) ==
  /\ daemon' \in [Commands -> [state : DaemonState,
                               save : {"no", "asked", "saving"}, failed : BOOLEAN]]
  /\ \A b \in Commands \ {d} : daemon'[b].state = daemon[b].state
  /\ daemon[d].state \in {"running", "terminated"} /\ daemon'[d].state = "stopping"
  /\ UNCHANGED <<command, files, crashes, history>>

\* A daemon shuts down by itself or after SIGTERM, and no other does.
LEMMA ShutsDownDoes ==
  ASSUME TypeOK, NEW d \in Commands, ShutsDown(d)
  PROVE  ShutsDownEffect(d)
<1>1. CASE DaemonStep(d, "running", "stopping")
  BY <1>1 DEF DaemonStep, ShutsDown, ShutsDownEffect, TypeOK, DaemonState
<1>2. CASE DaemonStep(d, "terminated", "stopping")
  BY <1>2 DEF DaemonStep, ShutsDown, ShutsDownEffect, TypeOK, DaemonState
<1> QED
  BY <1>1, <1>2 DEF ShutsDown

\* A signal kills a child and changes nothing of what the other daemons are.
SignalledEffect(d) ==
  /\ daemon' \in [Commands -> [state : DaemonState,
                               save : {"no", "asked", "saving"}, failed : BOOLEAN]]
  /\ \A b \in Commands \ {d} : daemon'[b].state = daemon[b].state
  /\ daemon'[d].state = IF daemon[d].state = "child" THEN "dead" ELSE daemon[d].state

\* SIGUSR1 and SIGUSR2 kill a child that has no handler yet and nobody else.
LEMMA SignalledDoes ==
  ASSUME TypeOK, NEW d \in Commands, NEW save, daemon' = Signalled(d, save)
  PROVE  SignalledEffect(d)
<1>1. CASE daemon[d].state = "child"
  BY <1>1, DeathDoes DEF Signalled, SignalledEffect, DeathEffect, DaemonState
<1>2. CASE daemon[d].state # "child"
  BY <1>2 DEF Signalled, SignalledEffect, TypeOK
<1> QED
  BY <1>1, <1>2

\* A stop's signal stops the daemon or kills it, and touches no other.
SendTermEffect(c, t) ==
  /\ Alone(c) /\ SameLocals(c)
  /\ command'[c].pc = command[c].pc /\ command'[c].op = command[c].op
  /\ daemon' \in [Commands -> [state : DaemonState,
                               save : {"no", "asked", "saving"}, failed : BOOLEAN]]
  /\ \A b \in Commands \ {t} : daemon'[b].state = daemon[b].state
  /\ daemon'[t].state = CASE daemon[t].state = "child"   -> "dead"
                          [] daemon[t].state = "running" -> "terminated"
                          [] OTHER -> daemon[t].state

\* SIGTERM kills a child, stops a running daemon and touches no other.
LEMMA SendTermDoes ==
  ASSUME TypeOK, NEW c \in Commands, NEW t \in Commands, SendTerm(c, t)
  PROVE  SendTermEffect(c, t)
<1> DEFINE r == [command[c] EXCEPT !.target = t]
<1>1. command[c] \in Command
  BY DEF TypeOK
<1>2. command' = [command EXCEPT ![c] = r]
  BY DEF SendTerm
<1>3. /\ r.pc = command[c].pc /\ r.op = command[c].op /\ r.pid = command[c].pid
      /\ r.found = command[c].found /\ r.targets = command[c].targets
  BY <1>1
<1>4. r \in Command
  BY <1>1 DEF Command, Pids
<1> HIDE DEF r
<1>5. /\ Alone(c) /\ SameLocals(c)
      /\ command'[c].pc = command[c].pc /\ command'[c].op = command[c].op
  BY <1>2, <1>3, <1>4, AloneIf DEF SameLocals
<1>6. CASE daemon[t].state = "child"
  BY <1>5, <1>6, DeathDoes DEF SendTerm, SendTermEffect, DeathEffect, DaemonState
<1>7. CASE daemon[t].state # "child"
  BY <1>5, <1>7 DEF SendTerm, SendTermEffect, TypeOK, DaemonState
<1> QED
  BY <1>6, <1>7

\* FindSiblings ends the other commands and makes targets of every daemon.
FindSiblingsEffect(c) ==
  /\ command' \in [Commands -> Command]
  /\ command'[c].pc = "stopAll" /\ command'[c].op = command[c].op
  /\ command'[c].pid = command[c].pid
  /\ command'[c].targets = Siblings(c)
  /\ command'[c].found = command[c].found \union Siblings(c)
  /\ \A b \in Commands \ {c} :
       IF Active(b) THEN command'[b] = Ended("killed") ELSE command'[b] = command[b]

\* pkill ends the other commands and gives the stop every daemon left.
LEMMA FindSiblingsDoes ==
  ASSUME TypeOK, NEW c \in Commands, FindSiblings(c)
  PROVE  FindSiblingsEffect(c)
<1>1. /\ command'[c] = [command[c] EXCEPT !.targets = Siblings(c),
                                          !.found = @ \union Siblings(c),
                                          !.pc = "stopAll"]
      /\ command[c] \in Command /\ Siblings(c) \in SUBSET Commands
  BY DEF FindSiblings, TypeOK, Siblings
<1>2. ASSUME NEW b \in Commands \ {c}
      PROVE  IF Active(b) THEN command'[b] = Ended("killed") ELSE command'[b] = command[b]
  BY DEF FindSiblings
<1>3. /\ command'[c].pc = "stopAll" /\ command'[c].op = command[c].op
      /\ command'[c].pid = command[c].pid
      /\ command'[c].targets = Siblings(c)
      /\ command'[c].found = command[c].found \union Siblings(c)
  BY <1>1
<1>7. command'[c] \in Command
  BY <1>1 DEF Command, Places
<1>4. Ended("killed") \in Command
  BY DEF Ended, NotGiven, Command, Places, Pids
<1>5. \A b \in Commands : command'[b] \in Command
  BY <1>2, <1>7, <1>4 DEF TypeOK
<1>6. command' = [b \in Commands |-> command'[b]]
  BY DEF FindSiblings
<1> QED
  BY <1>2, <1>3, <1>5, <1>6 DEF FindSiblingsEffect

-----------------------------------------------------------------------------
(* What keeps the other parts                                              *)

\* A daemon that is gone never comes back: a command forks once, with a daemon
\* of its own.
NoneRises ==
  \A d \in Commands : Forked(d) => Forked(d)' /\ (~Stopped(d)' => ~Stopped(d))

\* What c's stop has found stays with it, or c is not stopping.
KeepsTargets(c) ==
  \/ /\ command'[c].pc = command[c].pc /\ command'[c].pid = command[c].pid
     /\ command'[c].found = command[c].found
     /\ \A d \in command[c].targets : ~Stopped(d)' => d \in command'[c].targets
  \/ /\ command'[c].pc \notin {"idle", "stopPid", "stopAll"}
     /\ command'[c].found = command[c].found
     /\ command'[c].pc = "stop" => command[c].pc = "idle"
  \/ /\ command'[c].pc \in {"done", "killed"}
     /\ command'[c].found = {}

\* Found daemons stay accounted for while none comes back.
LEMMA TargetsKept ==
  ASSUME TypeOK, NoneRises, NEW c \in Commands, KeptBy(c), KeepsTargets(c)
  PROVE  KeptBy(c)'
<1>1. command[c].found \subseteq Commands /\ command[c].pid \in Pids
  BY DEF TypeOK, Command
<1>2. CASE /\ command'[c].pc = command[c].pc /\ command'[c].pid = command[c].pid
           /\ command'[c].found = command[c].found
           /\ \A d \in command[c].targets : ~Stopped(d)' => d \in command'[c].targets
  BY <1>1, <1>2 DEF KeptBy, NoneRises, Stopping, At, Forked, Alive, Stopped, Pids
<1>3. CASE /\ command'[c].pc \notin {"idle", "stopPid", "stopAll"}
           /\ command'[c].found = command[c].found
           /\ command'[c].pc = "stop" => command[c].pc = "idle"
  BY <1>1, <1>3 DEF KeptBy, NoneRises, Stopping, At, Forked
<1>4. CASE command'[c].pc \in {"done", "killed"} /\ command'[c].found = {}
  BY <1>4 DEF KeptBy, Stopping, At
<1> QED
  BY <1>2, <1>3, <1>4 DEF KeepsTargets

\* A command that keeps its place towards the pid file and the daemons.
KeepsPlace(c) ==
  /\ Active(c)' => Active(c)
  /\ PastPidFile(c)' => PastPidFile(c)
  /\ At(c, "truncate") \/ At(c, "write") => (At(c, "truncate") \/ At(c, "write"))'
  /\ At(c, "stopAll")' =>
       /\ At(c, "stopAll")
       /\ \A d \in command[c].targets : ~Stopped(d)' => d \in command'[c].targets

\* Daemons only leave.
OnlyLeave ==
  \A d \in Commands : (~Stopped(d)' => ~Stopped(d)) /\ (Holds(d)' => Holds(d))

\* Commands one by one stay so.
LEMMA OneByOneKept ==
  ASSUME OneByOne, OnlyLeave, UNCHANGED <<pidFile, unwritten>>,
         \A c \in Commands : KeepsPlace(c)
  PROVE  OneByOne'
<1>1. OneActive'
  BY DEF OneByOne, OneActive, KeepsPlace
<1>2. HoldersAreNamed => HoldersAreNamed'
  BY DEF HoldersAreNamed, PidFileNames, KeepsPlace, OnlyLeave
<1>3. PastAlone => PastAlone'
  BY DEF PastAlone, KeepsPlace, OnlyLeave
<1>4. StopKnowsAll'
  BY DEF OneByOne, StopKnowsAll, KeepsPlace, OnlyLeave
<1> QED
  BY <1>1, <1>2, <1>3, <1>4 DEF OneByOne, InStep

\* Every action keeps the types.
LEMMA TypeStep ==
  ASSUME TypeOK, RightOp
  PROVE  [Next]_vars => TypeOK'
<1>1. ASSUME NEW c \in Commands, Give(c) PROVE TypeOK'
  <2>1. GiveEffect(c)
    BY <1>1, GiveDoes
  <2> QED
    BY <1>1, <2>1 DEF GiveEffect, Give, Alone, TypeOK, files, history
<1>2. ASSUME NEW c \in Commands, AlreadyRunning(c) PROVE TypeOK'
  <2>1. FinishEffect(c)
    BY <1>2, FinishDoes DEF AlreadyRunning
  <2> QED
    BY <1>2, <2>1 DEF FinishEffect, AlreadyRunning, Alone, TypeOK, files, history
<1>3. ASSUME NEW c \in Commands, NotRunning(c) PROVE TypeOK'
  <2>1. command' \in [Commands -> Command]
    BY <1>3, ReadsDoes DEF NotRunning, Places
  <2> QED
    BY <1>3, <2>1 DEF NotRunning, Reads, TypeOK, files, history
<1>4. ASSUME NEW c \in Commands, ForkFails(c) PROVE TypeOK'
  <2>1. FinishEffect(c)
    BY <1>4, FinishDoes DEF ForkFails
  <2> QED
    BY <1>4, <2>1 DEF FinishEffect, ForkFails, Alone, TypeOK, files, history
<1>5. ASSUME NEW c \in Commands, Fork(c) PROVE TypeOK'
  <2>1. GoToEffect(c, "truncate")
    BY <1>5, GoToDoes DEF Fork, Places
  <2>2. daemon' \in [Commands -> [state : DaemonState, save : {"no", "asked", "saving"},
                                  failed : BOOLEAN]]
    BY <1>5 DEF Fork, TypeOK, DaemonState
  <2> QED
    BY <1>5, <2>1, <2>2 DEF GoToEffect, Fork, Alone, TypeOK, files, history
<1>6. ASSUME NEW c \in Commands, TruncatePidFile(c) PROVE TypeOK'
  <2>1. GoToEffect(c, "write")
    BY <1>6, GoToDoes DEF TruncatePidFile, Places
  <2> QED
    BY <1>6, <2>1, LifecycleAssumption DEF GoToEffect, TruncatePidFile, Alone, TypeOK,
       history, Pids, DaemonState
<1>7. ASSUME NEW c \in Commands, WritePidFile(c) PROVE TypeOK'
  <2>1. FinishEffect(c)
    BY <1>7, FinishDoes DEF WritePidFile
  <2> QED
    BY <1>7, <2>1 DEF FinishEffect, WritePidFile, Alone, TypeOK, Pids, history
<1>8. ASSUME NEW c \in Commands, StopReads(c) PROVE TypeOK'
  BY <1>8, LifecycleAssumption DEF StopReads, At, Alive, Stopped, files, history,
     TypeOK, Command
<1>9. ASSUME NEW c \in Commands, FindSiblings(c) PROVE TypeOK'
  <2>1. FindSiblingsEffect(c)
    BY <1>9, FindSiblingsDoes
  <2> QED
    BY <1>9, <2>1 DEF FindSiblingsEffect, FindSiblings, Siblings, TypeOK, files, history
<1>10. ASSUME NEW c \in Commands, NEW t \in Commands, TargetGone(c, t) PROVE TypeOK'
  <2>1. TargetGoneEffect(c, t)
    BY <1>10, TargetGoneDoes
  <2> QED
    BY <1>10, <2>1 DEF TargetGoneEffect, TargetGone, Alone, TypeOK, files, history
<1>11. ASSUME NEW c \in Commands, NEW t \in Commands, SendTerm(c, t) PROVE TypeOK'
  <2>1. SendTermEffect(c, t)
    BY <1>11, SendTermDoes
  <2> QED
    BY <1>11, <2>1 DEF SendTermEffect, SendTerm, Alone, TypeOK, files, history
<1>12. ASSUME NEW c \in Commands, SendKill(c) PROVE TypeOK'
  <2>1. command[c].target \in Commands
    BY <1>12 DEF SendKill, Alive, Stopped, TypeOK, Command, Pids
  <2>2. DeathEffect(command[c].target, "doomed")
    BY <1>12, <2>1, DeathDoes DEF SendKill, DaemonState
  <2> QED
    BY <1>12, <2>1, <2>2 DEF DeathEffect, SendKill, TypeOK, files, history
<1>13. ASSUME NEW c \in Commands, RemoveFiles(c) PROVE TypeOK'
  <2>1. RemoveFilesEffect(c)
    BY <1>13, RemoveFilesDoes
  <2> QED
    BY <1>13, <2>1 DEF RemoveFilesEffect, RemoveFiles, Alone, TypeOK, Pids, files,
       history
<1>14. ASSUME NEW c \in Commands, StaleFiles(c) PROVE TypeOK'
  <2>1. command' \in [Commands -> Command]
    BY <1>14, ReadsDoes DEF StaleFiles, Places
  <2> QED
    BY <1>14, <2>1 DEF StaleFiles, Reads, TypeOK, files, history
<1>15. ASSUME NEW c \in Commands, RemoveStaleFiles(c) PROVE TypeOK'
  <2>1. RemoveStaleFilesEffect(c)
    BY <1>15, RemoveStaleFilesDoes
  <2> QED
    BY <1>15, <2>1 DEF RemoveStaleFilesEffect, RemoveStaleFiles, Alone, TypeOK, Pids,
       files, history
<1>16. ASSUME NEW c \in Commands, ExportRetained(c) PROVE TypeOK'
  <2>1. FinishEffect(c)
    BY <1>16, FinishDoes DEF ExportRetained
  <2> QED
    BY <1>16, <2>1 DEF FinishEffect, ExportRetained, Alone, TypeOK, files, history
<1>17. ASSUME NEW c \in Commands, DaemonFound(c) PROVE TypeOK'
  <2>1. command' \in [Commands -> Command]
    BY <1>17, ReadsDoes DEF DaemonFound, Places
  <2> QED
    BY <1>17, <2>1 DEF DaemonFound, Reads, TypeOK, files, history
<1>18. ASSUME NEW c \in Commands, StatusPrinted(c) PROVE TypeOK'
  <2>1. FinishEffect(c)
    BY <1>18, FinishDoes DEF StatusPrinted
  <2> QED
    BY <1>18, <2>1 DEF FinishEffect, StatusPrinted, Alone, TypeOK, files, history
<1>19. ASSUME NEW c \in Commands, RecorderUnhealthy(c) PROVE TypeOK'
  <2>1. FinishEffect(c)
    BY <1>19, FinishDoes DEF RecorderUnhealthy
  <2> QED
    BY <1>19, <2>1 DEF FinishEffect, RecorderUnhealthy, Alone, TypeOK, files, history
<1>20. ASSUME NEW c \in Commands, SignalFails(c) PROVE TypeOK'
  <2>1. FinishEffect(c)
    BY <1>20, FinishDoes DEF SignalFails
  <2> QED
    BY <1>20, <2>1 DEF FinishEffect, SignalFails, Alone, TypeOK, files, history
<1>21. ASSUME NEW c \in Commands, RequestSave(c) PROVE TypeOK'
  <2>1. RequestSaveEffect(c)
    BY <1>21, RequestSaveDoes
  <2>2. command[c].pid \in Commands
    BY <1>21 DEF RequestSave, Alive, Stopped, TypeOK, Command, Pids
  <2>3. SignalledEffect(command[c].pid)
    BY <1>21, <2>2, SignalledDoes DEF RequestSave
  <2> QED
    BY <1>21, <2>1, <2>2, <2>3 DEF RequestSaveEffect, SignalledEffect, RequestSave,
       Alone, TypeOK, files, history
<1>22. ASSUME NEW c \in Commands, RequestChoice(c) PROVE TypeOK'
  <2>1. FinishEffect(c)
    BY <1>22, FinishDoes DEF RequestChoice
  <2>2. command[c].pid \in Commands
    BY <1>22 DEF RequestChoice, Alive, Stopped, TypeOK, Command, Pids
  <2>3. SignalledEffect(command[c].pid)
    BY <1>22, <2>2, SignalledDoes DEF RequestChoice
  <2> QED
    BY <1>22, <2>1, <2>2, <2>3 DEF FinishEffect, SignalledEffect, RequestChoice, Alone,
       TypeOK, files, history
<1>23. ASSUME NEW c \in Commands, ClipFound(c) PROVE TypeOK'
  <2>1. FinishEffect(c)
    BY <1>23, FinishDoes DEF ClipFound
  <2> QED
    BY <1>23, <2>1 DEF FinishEffect, ClipFound, Alone, TypeOK, files, history
<1>24. ASSUME NEW c \in Commands, FailureFound(c) PROVE TypeOK'
  <2>1. FinishEffect(c)
    BY <1>24, FinishDoes DEF FailureFound
  <2> QED
    BY <1>24, <2>1 DEF FinishEffect, FailureFound, Alone, TypeOK, files, history
<1>25. ASSUME NEW c \in Commands, SaveTimesOut(c) PROVE TypeOK'
  <2>1. FinishEffect(c)
    BY <1>25, FinishDoes DEF SaveTimesOut
  <2> QED
    BY <1>25, <2>1 DEF FinishEffect, SaveTimesOut, Alone, TypeOK, files, history
<1>26. ASSUME NEW c \in Commands, InstallHandlers(c) PROVE TypeOK'
  BY <1>26, LifecycleAssumption DEF InstallHandlers, DaemonStep, history, TypeOK,
     DaemonState
<1>27. ASSUME NEW c \in Commands, ShutsDown(c) PROVE TypeOK'
  <2>1. ShutsDownEffect(c)
    BY <1>27, ShutsDownDoes
  <2> QED
    BY <1>27, <2>1 DEF ShutsDownEffect, TypeOK, files, history
<1>28. ASSUME NEW c \in Commands, SaveBegins(c) PROVE TypeOK'
  <2>1. daemon' = [daemon EXCEPT ![c] = [daemon[c] EXCEPT !.save = "saving",
                                                          !.failed = FALSE]]
    BY <1>28 DEF SaveBegins
  <2>2. daemon' \in [Commands -> [state : DaemonState, save : {"no", "asked", "saving"},
                                  failed : BOOLEAN]]
    BY <2>1 DEF TypeOK
  <2> QED
    BY <1>28, <2>2 DEF SaveBegins, TypeOK, files, history
<1>29. ASSUME NEW c \in Commands, SaveEnds(c) PROVE TypeOK'
  <2>1. SavesEffect(c)
    BY <1>29, SavesSee
  <2> QED
    BY <1>29, <2>1 DEF SavesEffect, TypeOK, files, history
<1>30. ASSUME NEW c \in Commands, WriteStatus(c) PROVE TypeOK'
  <2>1. SavesEffect(c)
    BY <1>30, SavesSee
  <2> QED
    BY <1>30, <2>1 DEF SavesEffect, TypeOK, files, history
<1>31. ASSUME NEW c \in Commands, DaemonStops(c) PROVE TypeOK'
  BY <1>31, LifecycleAssumption DEF DaemonStops, DaemonStep, history, TypeOK,
     DaemonState
<1>32. ASSUME NEW c \in Commands, RemovesPidFile(c) PROVE TypeOK'
  BY <1>32, LifecycleAssumption DEF RemovesPidFile, DaemonStep, history, TypeOK, Pids,
     DaemonState
<1>33. ASSUME NEW c \in Commands, Exits(c) PROVE TypeOK'
  <2>1. DeathEffect(c, "dead")
    BY <1>33, DeathDoes DEF Exits, DaemonState
  <2> QED
    BY <1>33, <2>1 DEF DeathEffect, Exits, TypeOK, files, history
<1>34. ASSUME NEW c \in Commands, Crashes(c) PROVE TypeOK'
  <2>1. DeathEffect(c, "dead")
    BY <1>34, DeathDoes DEF Crashes, DaemonState
  <2>2. crashes' \in 0..MaxCrashes
    BY <1>34, LifecycleAssumption DEF Crashes, TypeOK
  <2> QED
    BY <1>34, <2>1, <2>2 DEF DeathEffect, Crashes, TypeOK, files, history
<1>35. CASE UNCHANGED vars
  BY <1>35 DEF vars, files, history, TypeOK, Alive, Stopped, At, Active, Stopping
<1>36. ASSUME NEW c \in Commands, PidFileNotWritten(c) PROVE TypeOK'
  <2>1. FinishEffect(c)
    BY <1>36, FinishDoes DEF PidFileNotWritten
  <2> QED
    BY <1>36, <2>1 DEF FinishEffect, PidFileNotWritten, Alone, TypeOK, files
<1>37. ASSUME NEW c \in Commands, NEW t \in Commands, GivesUp(c, t) PROVE TypeOK'
  <2>1. TargetGoneEffect(c, t)
    BY <1>37, GivesUpDoes
  <2> QED
    BY <1>37, <2>1 DEF TargetGoneEffect, GivesUp, Alone, TypeOK, files, history
<1>38. ASSUME NEW c \in Commands, Vanishes(c) PROVE TypeOK'
  BY <1>38 DEF Vanishes, DaemonStep, files, history, TypeOK, DaemonState
<1> QED
  BY <1>1, <1>2, <1>3, <1>4, <1>5, <1>6, <1>7, <1>8, <1>9, <1>10, <1>11, <1>12, <1>13,
     <1>14, <1>15, <1>16, <1>17, <1>18, <1>19, <1>20, <1>21, <1>22, <1>23, <1>24, <1>25,
     <1>26, <1>27, <1>28, <1>29, <1>30, <1>31, <1>32, <1>33, <1>34,
     <1>35, <1>36, <1>37, <1>38 DEF Next,
     CommandStep, StartStep, StopStep, OtherStep, DaemonSteps

\* Every action keeps a command's branch and its operation together.
LEMMA RightOpStep ==
  ASSUME TypeOK, RightOp
  PROVE  [Next]_vars => RightOp'
<1>1. ASSUME NEW c \in Commands, Give(c) PROVE RightOp'
  <2>1. GiveEffect(c)
    BY <1>1, GiveDoes
  <2> QED
    BY <1>1, <2>1 DEF GiveEffect, Alone, RightOp, At, files, history
<1>2. ASSUME NEW c \in Commands, AlreadyRunning(c) PROVE RightOp'
  BY <1>2, LifecycleAssumption DEF AlreadyRunning, At, Finish, Ended, files, history,
     RightOp, Alive, Stopped, Active, Stopping
<1>3. ASSUME NEW c \in Commands, NotRunning(c) PROVE RightOp'
  BY <1>3, LifecycleAssumption DEF NotRunning, Reads, At, files, history, Alive,
     Stopped, RightOp, Active, Stopping, TypeOK
<1>4. ASSUME NEW c \in Commands, ForkFails(c) PROVE RightOp'
  BY <1>4, LifecycleAssumption DEF ForkFails, At, Finish, Ended, files, history,
     RightOp, Alive, Stopped, Active, Stopping
<1>5. ASSUME NEW c \in Commands, Fork(c) PROVE RightOp'
  <2>1. GoToEffect(c, "truncate")
    BY <1>5, GoToDoes DEF Fork, Places
  <2> QED
    BY <1>5, <2>1 DEF GoToEffect, Fork, Alone, RightOp, At, files, history
<1>6. ASSUME NEW c \in Commands, TruncatePidFile(c) PROVE RightOp'
  BY <1>6, LifecycleAssumption DEF TruncatePidFile, At, GoTo, RightOp, Alive, Stopped,
     Active, Stopping
<1>7. ASSUME NEW c \in Commands, WritePidFile(c) PROVE RightOp'
  BY <1>7, LifecycleAssumption DEF WritePidFile, At, Finish, Ended, RightOp, Alive,
     Stopped, Active, Stopping
<1>8. ASSUME NEW c \in Commands, StopReads(c) PROVE RightOp'
  BY <1>8, LifecycleAssumption DEF StopReads, At, Alive, Stopped, files, history,
     RightOp, Active, Stopping, TypeOK
<1>9. ASSUME NEW c \in Commands, FindSiblings(c) PROVE RightOp'
  <2>1. FindSiblingsEffect(c)
    BY <1>9, FindSiblingsDoes
  <2> QED
    BY <1>9, <2>1 DEF FindSiblingsEffect, FindSiblings, Ended, NotGiven, Siblings,
       RightOp, At, files, history
<1>10. ASSUME NEW c \in Commands, NEW t \in Commands, TargetGone(c, t) PROVE RightOp'
  <2>1. TargetGoneEffect(c, t)
    BY <1>10, TargetGoneDoes
  <2> QED
    BY <1>10, <2>1 DEF TargetGoneEffect, Alone, RightOp, At, files, history
<1>11. ASSUME NEW c \in Commands, NEW t \in Commands, SendTerm(c, t) PROVE RightOp'
  BY <1>11, LifecycleAssumption DEF SendTerm, Stopping, At, Alive, Stopped, files,
     history, RightOp, Active
<1>12. ASSUME NEW c \in Commands, SendKill(c) PROVE RightOp'
  BY <1>12, LifecycleAssumption DEF SendKill, Stopping, At, Alive, Stopped, files,
     history, RightOp, Active
<1>13. ASSUME NEW c \in Commands, RemoveFiles(c) PROVE RightOp'
  <2>1. RemoveFilesEffect(c)
    BY <1>13, RemoveFilesDoes
  <2> QED
    BY <1>13, <2>1 DEF RemoveFilesEffect, Alone, Ended, NotGiven, RightOp, At, files,
       history
<1>14. ASSUME NEW c \in Commands, StaleFiles(c) PROVE RightOp'
  BY <1>14, LifecycleAssumption DEF StaleFiles, Reads, At, Alive, Stopped, files,
     history, RightOp, Active, Stopping, TypeOK
<1>15. ASSUME NEW c \in Commands, RemoveStaleFiles(c) PROVE RightOp'
  <2>1. RemoveStaleFilesEffect(c)
    BY <1>15, RemoveStaleFilesDoes
  <2> QED
    BY <1>15, <2>1 DEF RemoveStaleFilesEffect, RemoveStaleFiles, Alone, Ended, NotGiven,
       RightOp, At, files, history
<1>16. ASSUME NEW c \in Commands, ExportRetained(c) PROVE RightOp'
  BY <1>16, LifecycleAssumption DEF ExportRetained, At, Finish, Ended, files, history,
     RightOp, Alive, Stopped, Active, Stopping
<1>17. ASSUME NEW c \in Commands, DaemonFound(c) PROVE RightOp'
  BY <1>17, LifecycleAssumption DEF DaemonFound, Reads, At, Alive, Stopped, files,
     history, RightOp, Active, Stopping, TypeOK
<1>18. ASSUME NEW c \in Commands, StatusPrinted(c) PROVE RightOp'
  BY <1>18, LifecycleAssumption DEF StatusPrinted, At, Finish, Ended, files, history,
     RightOp, Alive, Stopped, Active, Stopping
<1>19. ASSUME NEW c \in Commands, RecorderUnhealthy(c) PROVE RightOp'
  BY <1>19, LifecycleAssumption DEF RecorderUnhealthy, At, Finish, Ended, files,
     history, RightOp, Alive, Stopped, Active, Stopping
<1>20. ASSUME NEW c \in Commands, SignalFails(c) PROVE RightOp'
  BY <1>20, LifecycleAssumption DEF SignalFails, At, Finish, Ended, files, history,
     Alive, Stopped, RightOp, Active, Stopping
<1>21. ASSUME NEW c \in Commands, RequestSave(c) PROVE RightOp'
  <2>1. RequestSaveEffect(c)
    BY <1>21, RequestSaveDoes
  <2>2. command[c].pid \in Commands
    BY <1>21 DEF RequestSave, Alive, Stopped, TypeOK, Command, Pids
  <2>3. SignalledEffect(command[c].pid)
    BY <1>21, <2>2, SignalledDoes DEF RequestSave
  <2> QED
    BY <1>21, <2>1, <2>2, <2>3 DEF RequestSaveEffect, SignalledEffect, RequestSave,
       Alone, RightOp, At, files, history
<1>22. ASSUME NEW c \in Commands, RequestChoice(c) PROVE RightOp'
  BY <1>22, LifecycleAssumption DEF RequestChoice, At, Alive, Stopped, Signalled,
     Finish, Ended, files, history, RightOp, Active, Stopping
<1>23. ASSUME NEW c \in Commands, ClipFound(c) PROVE RightOp'
  BY <1>23, LifecycleAssumption DEF ClipFound, At, Finish, Ended, files, history,
     RightOp, Alive, Stopped, Active, Stopping
<1>24. ASSUME NEW c \in Commands, FailureFound(c) PROVE RightOp'
  BY <1>24, LifecycleAssumption DEF FailureFound, At, Finish, Ended, files, history,
     RightOp, Alive, Stopped, Active, Stopping
<1>25. ASSUME NEW c \in Commands, SaveTimesOut(c) PROVE RightOp'
  BY <1>25, LifecycleAssumption DEF SaveTimesOut, At, Finish, Ended, files, history,
     RightOp, Alive, Stopped, Active, Stopping
<1>26. ASSUME NEW c \in Commands, InstallHandlers(c) PROVE RightOp'
  BY <1>26, LifecycleAssumption DEF InstallHandlers, DaemonStep, RightOp, At, Alive,
     Stopped, Active, Stopping
<1>27. ASSUME NEW c \in Commands, ShutsDown(c) PROVE RightOp'
  <2>1. ShutsDownEffect(c)
    BY <1>27, ShutsDownDoes
  <2> QED
    BY <1>27, <2>1 DEF ShutsDownEffect, RightOp, At, files, history
<1>28. ASSUME NEW c \in Commands, SaveBegins(c) PROVE RightOp'
  BY <1>28, LifecycleAssumption DEF SaveBegins, files, history, RightOp, At, Alive,
     Stopped, Active, Stopping
<1>29. ASSUME NEW c \in Commands, SaveEnds(c) PROVE RightOp'
  <2>1. SavesEffect(c)
    BY <1>29, SavesSee
  <2> QED
    BY <1>29, <2>1 DEF SavesEffect, RightOp, At, files, history
<1>30. ASSUME NEW c \in Commands, WriteStatus(c) PROVE RightOp'
  <2>1. SavesEffect(c)
    BY <1>30, SavesSee
  <2> QED
    BY <1>30, <2>1 DEF SavesEffect, RightOp, At, files, history
<1>31. ASSUME NEW c \in Commands, DaemonStops(c) PROVE RightOp'
  BY <1>31, LifecycleAssumption DEF DaemonStops, DaemonStep, RightOp, At, Alive,
     Stopped, Active, Stopping
<1>32. ASSUME NEW c \in Commands, RemovesPidFile(c) PROVE RightOp'
  BY <1>32, LifecycleAssumption DEF RemovesPidFile, DaemonStep, RightOp, At, Alive,
     Stopped, Active, Stopping
<1>33. ASSUME NEW c \in Commands, Exits(c) PROVE RightOp'
  BY <1>33, LifecycleAssumption DEF Exits, files, history, RightOp, At, Alive,
     Stopped, Active, Stopping
<1>34. ASSUME NEW c \in Commands, Crashes(c) PROVE RightOp'
  BY <1>34, LifecycleAssumption DEF Crashes, Alive, Stopped, files, history, RightOp,
     At, Active, Stopping
<1>35. CASE UNCHANGED vars
  BY <1>35 DEF vars, files, history, RightOp, At, Alive, Stopped, Active, Stopping
<1>36. ASSUME NEW c \in Commands, PidFileNotWritten(c) PROVE RightOp'
  BY <1>36 DEF PidFileNotWritten, At, Finish, Ended, NotGiven, RightOp
<1>37. ASSUME NEW c \in Commands, NEW t \in Commands, GivesUp(c, t) PROVE RightOp'
  <2>1. TargetGoneEffect(c, t)
    BY <1>37, GivesUpDoes
  <2> QED
    BY <1>37, <2>1 DEF TargetGoneEffect, Alone, RightOp, At
<1>38. ASSUME NEW c \in Commands, Vanishes(c) PROVE RightOp'
  BY <1>38 DEF Vanishes, DaemonStep, RightOp, At
<1> QED
  BY <1>1, <1>2, <1>3, <1>4, <1>5, <1>6, <1>7, <1>8, <1>9, <1>10, <1>11, <1>12, <1>13,
     <1>14, <1>15, <1>16, <1>17, <1>18, <1>19, <1>20, <1>21, <1>22, <1>23, <1>24, <1>25,
     <1>26, <1>27, <1>28, <1>29, <1>30, <1>31, <1>32, <1>33, <1>34,
     <1>35, <1>36, <1>37, <1>38 DEF Next,
     CommandStep, StartStep, StopStep, OtherStep, DaemonSteps

\* Only Fork makes a daemon, and only WritePidFile names one.
LEMMA OneForkStep ==
  ASSUME TypeOK, RightOp, OneFork
  PROVE  [Next]_vars => OneFork'
<1>1. ASSUME NEW c \in Commands, Give(c) PROVE OneFork'
  <2>1. GiveEffect(c)
    BY <1>1, GiveDoes
  <2> QED
    BY <1>1, <2>1 DEF GiveEffect, Give, Alone, OneFork, Forked, Alive, Stopped, At,
       files, history
<1>2. ASSUME NEW c \in Commands, AlreadyRunning(c) PROVE OneFork'
  BY <1>2, LifecycleAssumption DEF AlreadyRunning, At, Finish, Ended, files, history,
     OneFork, Forked, Alive, Stopped, Active, Stopping
<1>3. ASSUME NEW c \in Commands, NotRunning(c) PROVE OneFork'
  BY <1>3, LifecycleAssumption DEF NotRunning, Reads, At, files, history, Alive,
     Stopped, OneFork, Forked, Active, Stopping, TypeOK
<1>4. ASSUME NEW c \in Commands, ForkFails(c) PROVE OneFork'
  BY <1>4, LifecycleAssumption DEF ForkFails, At, Finish, Ended, files, history,
     OneFork, Forked, Alive, Stopped, Active, Stopping
<1>5. ASSUME NEW c \in Commands, Fork(c) PROVE OneFork'
  <2>1. GoToEffect(c, "truncate")
    BY <1>5, GoToDoes DEF Fork, Places
  <2> QED
    BY <1>5, <2>1 DEF GoToEffect, Fork, Alone, OneFork, Forked, TypeOK, Alive,
       Stopped, At, files, history
<1>6. ASSUME NEW c \in Commands, TruncatePidFile(c) PROVE OneFork'
  BY <1>6, LifecycleAssumption DEF TruncatePidFile, At, GoTo, OneFork, Forked, Alive,
     Stopped, Active, Stopping
<1>7. ASSUME NEW c \in Commands, WritePidFile(c) PROVE OneFork'
  BY <1>7, LifecycleAssumption DEF WritePidFile, At, Finish, Ended, OneFork, Forked,
     Alive, Stopped, Active, Stopping
<1>8. ASSUME NEW c \in Commands, StopReads(c) PROVE OneFork'
  BY <1>8, LifecycleAssumption DEF StopReads, At, Alive, Stopped, files, history,
     OneFork, Forked, Active, Stopping, TypeOK
<1>9. ASSUME NEW c \in Commands, FindSiblings(c) PROVE OneFork'
  <2>1. FindSiblingsEffect(c)
    BY <1>9, FindSiblingsDoes
  <2>2. UNCHANGED <<daemon, pidFile>> /\ ~Forked(c)
    BY <1>9 DEF FindSiblings, OneFork, At, files, history
  <2>3. \A b \in Commands \ {c} : command'[b].pc \in {command[b].pc, "killed"}
        /\ (command[b].pc = "done" => command'[b].pc = "done")
        /\ (command'[b].pc \in {"truncate", "write"} => command'[b].pc = command[b].pc)
    BY <2>1 DEF FindSiblingsEffect, Ended, NotGiven, Active
  <2>4. command'[c].pc = "stopAll"
    BY <2>1 DEF FindSiblingsEffect
  <2> QED
    BY <2>2, <2>3, <2>4 DEF OneFork, Forked
<1>10. ASSUME NEW c \in Commands, NEW t \in Commands, TargetGone(c, t) PROVE OneFork'
  BY <1>10, LifecycleAssumption DEF TargetGone, Stopping, At, Alive, Stopped, files,
     history, OneFork, Forked, Active, TypeOK
<1>11. ASSUME NEW c \in Commands, NEW t \in Commands, SendTerm(c, t) PROVE OneFork'
  <2>1. SendTermEffect(c, t)
    BY <1>11, SendTermDoes
  <2>2. \A d \in Commands : Forked(d)' <=> Forked(d)
    <3>1. /\ Forked(t)
          /\ daemon'[t].state \in {"dead", "terminated", daemon[t].state}
      BY <1>11, <2>1 DEF SendTermEffect, SendTerm, Forked, Alive, Stopped
    <3>2. \A d \in Commands \ {t} : daemon'[d].state = daemon[d].state
      BY <2>1 DEF SendTermEffect
    <3> QED
      BY <3>1, <3>2 DEF Forked
  <2>3. /\ \A b \in Commands \ {c} : command'[b].pc = command[b].pc
        /\ command'[c].pc = command[c].pc
    BY <1>11, <2>1 DEF SendTermEffect, SendTerm, At, OneFork, Stopping
  <2>4. \A d \in Commands : command'[d].pc = command[d].pc
    BY <2>3
  <2>5. pidFile' = pidFile /\ (pidFile # None => pidFile \in Commands)
    BY <1>11 DEF SendTerm, TypeOK, Pids, files, history
  <2> QED
    BY <2>2, <2>4, <2>5 DEF OneFork
<1>12. ASSUME NEW c \in Commands, SendKill(c) PROVE OneFork'
  <2>1. command[c].target \in Commands /\ Forked(command[c].target)
    BY <1>12, LifecycleAssumption DEF SendKill, Stopped, Forked, TypeOK, Command, Pids
  <2>2. DeathEffect(command[c].target, "doomed")
    BY <1>12, <2>1, DeathDoes DEF SendKill, DaemonState
  <2>3. \A d \in Commands : Forked(d)' <=> Forked(d)
    BY <2>1, <2>2 DEF DeathEffect, Forked
  <2>4. UNCHANGED <<command, pidFile>> /\ (pidFile # None => pidFile \in Commands)
    BY <1>12 DEF SendKill, TypeOK, Pids, files
  <2> QED
    BY <2>3, <2>4 DEF OneFork
<1>13. ASSUME NEW c \in Commands, RemoveFiles(c) PROVE OneFork'
  <2>1. RemoveFilesEffect(c) /\ At(c, "stopAll") /\ UNCHANGED daemon /\ pidFile' = None
    BY <1>13, RemoveFilesDoes DEF RemoveFiles
  <2>2. /\ command'[c].pc \in {"start", "done"} /\ ~Forked(c)
        /\ \A b \in Commands \ {c} : command'[b] = command[b]
    BY <2>1 DEF RemoveFilesEffect, Alone, Ended, NotGiven, OneFork, At
  <2> QED
    BY <2>1, <2>2 DEF OneFork, Forked
<1>14. ASSUME NEW c \in Commands, StaleFiles(c) PROVE OneFork'
  BY <1>14, LifecycleAssumption DEF StaleFiles, Reads, At, Alive, Stopped, files,
     history, OneFork, Forked, Active, Stopping, TypeOK
<1>15. ASSUME NEW c \in Commands, RemoveStaleFiles(c) PROVE OneFork'
  <2>1. RemoveStaleFilesEffect(c)
    BY <1>15, RemoveStaleFilesDoes
  <2> QED
    BY <1>15, <2>1 DEF RemoveStaleFilesEffect, RemoveStaleFiles, Alone, Ended, NotGiven,
       OneFork, Forked, Alive, Stopped, At, files, history
<1>16. ASSUME NEW c \in Commands, ExportRetained(c) PROVE OneFork'
  BY <1>16, LifecycleAssumption DEF ExportRetained, At, Finish, Ended, files, history,
     OneFork, Forked, Alive, Stopped, Active, Stopping
<1>17. ASSUME NEW c \in Commands, DaemonFound(c) PROVE OneFork'
  BY <1>17, LifecycleAssumption DEF DaemonFound, Reads, At, Alive, Stopped, files,
     history, OneFork, Forked, Active, Stopping, TypeOK
<1>18. ASSUME NEW c \in Commands, StatusPrinted(c) PROVE OneFork'
  BY <1>18, LifecycleAssumption DEF StatusPrinted, At, Finish, Ended, files, history,
     OneFork, Forked, Alive, Stopped, Active, Stopping
<1>19. ASSUME NEW c \in Commands, RecorderUnhealthy(c) PROVE OneFork'
  BY <1>19, LifecycleAssumption DEF RecorderUnhealthy, At, Finish, Ended, files,
     history, OneFork, Forked, Alive, Stopped, Active, Stopping
<1>20. ASSUME NEW c \in Commands, SignalFails(c) PROVE OneFork'
  BY <1>20, LifecycleAssumption DEF SignalFails, At, Finish, Ended, files, history,
     Alive, Stopped, OneFork, Forked, Active, Stopping
<1>21. ASSUME NEW c \in Commands, RequestSave(c) PROVE OneFork'
  <2>1. RequestSaveEffect(c)
    BY <1>21, RequestSaveDoes
  <2>2. command[c].pid \in Commands
    BY <1>21 DEF RequestSave, Alive, Stopped, TypeOK, Command, Pids
  <2>3. SignalledEffect(command[c].pid)
    BY <1>21, <2>2, SignalledDoes DEF RequestSave
  <2>4. \A d \in Commands : Forked(d)' <=> Forked(d)
    BY <1>21, <2>1, <2>2, <2>3 DEF RequestSaveEffect, SignalledEffect, RequestSave,
       Forked, Alive, Stopped
  <2>5. /\ \A b \in Commands \ {c} : command'[b].pc = command[b].pc
        /\ command'[c].pc \notin {"truncate", "write"} /\ ~Forked(c)
    BY <1>21, <2>1, <2>2, <2>3 DEF RequestSaveEffect, SignalledEffect, RequestSave,
       Alone, At, OneFork, Stopping
  <2> QED
    BY <1>21, <2>4, <2>5 DEF OneFork, RequestSave, TypeOK, Pids, files, history
<1>22. ASSUME NEW c \in Commands, RequestChoice(c) PROVE OneFork'
  <2>1. FinishEffect(c)
    BY <1>22, FinishDoes DEF RequestChoice
  <2>2. command[c].pid \in Commands
    BY <1>22 DEF RequestChoice, Alive, Stopped, TypeOK, Command, Pids
  <2>3. SignalledEffect(command[c].pid)
    BY <1>22, <2>2, SignalledDoes DEF RequestChoice
  <2>4. \A d \in Commands : Forked(d)' <=> Forked(d)
    BY <1>22, <2>1, <2>2, <2>3 DEF SignalledEffect, RequestChoice, Forked, Alive,
       Stopped
  <2>5. /\ \A b \in Commands \ {c} : command'[b].pc = command[b].pc
        /\ command'[c].pc \notin {"truncate", "write"} /\ ~Forked(c)
    BY <1>22, <2>1, <2>2, <2>3 DEF FinishEffect, SignalledEffect, RequestChoice, Alone,
       At, OneFork, Stopping, Ended
  <2> QED
    BY <1>22, <2>4, <2>5 DEF OneFork, RequestChoice, TypeOK, Pids, files, history
<1>23. ASSUME NEW c \in Commands, ClipFound(c) PROVE OneFork'
  BY <1>23, LifecycleAssumption DEF ClipFound, At, Finish, Ended, files, history,
     OneFork, Forked, Alive, Stopped, Active, Stopping
<1>24. ASSUME NEW c \in Commands, FailureFound(c) PROVE OneFork'
  BY <1>24, LifecycleAssumption DEF FailureFound, At, Finish, Ended, files, history,
     OneFork, Forked, Alive, Stopped, Active, Stopping
<1>25. ASSUME NEW c \in Commands, SaveTimesOut(c) PROVE OneFork'
  BY <1>25, LifecycleAssumption DEF SaveTimesOut, At, Finish, Ended, files, history,
     OneFork, Forked, Alive, Stopped, Active, Stopping
<1>26. ASSUME NEW c \in Commands, InstallHandlers(c) PROVE OneFork'
  BY <1>26, LifecycleAssumption DEF InstallHandlers, DaemonStep, OneFork, Forked, At,
     Alive, Stopped, Active, Stopping
<1>27. ASSUME NEW c \in Commands, ShutsDown(c) PROVE OneFork'
  <2>1. ShutsDownEffect(c)
    BY <1>27, ShutsDownDoes
  <2> QED
    BY <1>27, <2>1 DEF ShutsDownEffect, OneFork, Forked, TypeOK, Pids, Alive, Stopped,
       At, files, history
<1>28. ASSUME NEW c \in Commands, SaveBegins(c) PROVE OneFork'
  BY <1>28, LifecycleAssumption DEF SaveBegins, files, history, OneFork, Forked, At,
     Alive, Stopped, Active, Stopping, TypeOK, Pids
<1>29. ASSUME NEW c \in Commands, SaveEnds(c) PROVE OneFork'
  <2>1. SavesEffect(c)
    BY <1>29, SavesSee
  <2> QED
    BY <1>29, <2>1 DEF SavesEffect, OneFork, Forked, TypeOK, Pids, Alive, Stopped, At,
       files, history
<1>30. ASSUME NEW c \in Commands, WriteStatus(c) PROVE OneFork'
  <2>1. SavesEffect(c)
    BY <1>30, SavesSee
  <2> QED
    BY <1>30, <2>1 DEF SavesEffect, OneFork, Forked, TypeOK, Pids, Alive, Stopped, At,
       files, history
<1>31. ASSUME NEW c \in Commands, DaemonStops(c) PROVE OneFork'
  BY <1>31, LifecycleAssumption DEF DaemonStops, DaemonStep, OneFork, Forked, At,
     Alive, Stopped, Active, Stopping
<1>32. ASSUME NEW c \in Commands, RemovesPidFile(c) PROVE OneFork'
  BY <1>32, LifecycleAssumption DEF RemovesPidFile, DaemonStep, OneFork, Forked, At,
     Alive, Stopped, Active, Stopping
<1>33. ASSUME NEW c \in Commands, Exits(c) PROVE OneFork'
  BY <1>33, LifecycleAssumption DEF Exits, Becomes, NoDaemon, files, history, OneFork,
     Forked, At, Alive, Stopped, Active, Stopping, TypeOK, Pids
<1>34. ASSUME NEW c \in Commands, Crashes(c) PROVE OneFork'
  BY <1>34, LifecycleAssumption DEF Crashes, Becomes, NoDaemon, Alive, Stopped, files,
     history, OneFork, Forked, At, Active, Stopping, TypeOK, Pids
<1>35. CASE UNCHANGED vars
  BY <1>35 DEF vars, files, history, OneFork, Forked, At, Alive, Stopped, Active,
     Stopping
<1>36. ASSUME NEW c \in Commands, PidFileNotWritten(c) PROVE OneFork'
  BY <1>36 DEF PidFileNotWritten, At, Finish, Ended, NotGiven, files, OneFork, Forked
<1>37. ASSUME NEW c \in Commands, NEW t \in Commands, GivesUp(c, t) PROVE OneFork'
  BY <1>37 DEF GivesUp, Stopping, At, files, OneFork, Forked, TypeOK
<1>38. ASSUME NEW c \in Commands, Vanishes(c) PROVE OneFork'
  BY <1>38 DEF Vanishes, DaemonStep, files, OneFork, Forked, At, TypeOK
<1> QED
  BY <1>1, <1>2, <1>3, <1>4, <1>5, <1>6, <1>7, <1>8, <1>9, <1>10, <1>11, <1>12, <1>13,
     <1>14, <1>15, <1>16, <1>17, <1>18, <1>19, <1>20, <1>21, <1>22, <1>23, <1>24, <1>25,
     <1>26, <1>27, <1>28, <1>29, <1>30, <1>31, <1>32, <1>33, <1>34,
     <1>35, <1>36, <1>37, <1>38 DEF Next,
     CommandStep, StartStep, StopStep, OtherStep, DaemonSteps

\* No action brings a daemon back.
LEMMA NoneRisesStep ==
  ASSUME TypeOK, OneFork
  PROVE  [Next]_vars => NoneRises
<1>1. ASSUME NEW c \in Commands, Give(c) PROVE NoneRises
  BY <1>1, LifecycleAssumption DEF Give, At, NoneRises, OneFork, Forked, Alive, Stopped
<1>2. ASSUME NEW c \in Commands, AlreadyRunning(c) PROVE NoneRises
  BY <1>2, LifecycleAssumption DEF AlreadyRunning, At, files, history, NoneRises,
     OneFork, Forked, Alive, Stopped
<1>3. ASSUME NEW c \in Commands, NotRunning(c) PROVE NoneRises
  BY <1>3, LifecycleAssumption DEF NotRunning, Reads, At, files, history, Alive,
     Stopped, NoneRises, OneFork, Forked
<1>4. ASSUME NEW c \in Commands, ForkFails(c) PROVE NoneRises
  BY <1>4, LifecycleAssumption DEF ForkFails, At, files, history, NoneRises, OneFork,
     Forked, Alive, Stopped
<1>5. ASSUME NEW c \in Commands, Fork(c) PROVE NoneRises
  BY <1>5, LifecycleAssumption DEF Fork, At, files, history, NoneRises, OneFork,
     Forked, Alive, Stopped
<1>6. ASSUME NEW c \in Commands, TruncatePidFile(c) PROVE NoneRises
  BY <1>6, LifecycleAssumption DEF TruncatePidFile, At, NoneRises, OneFork, Forked,
     Alive, Stopped
<1>7. ASSUME NEW c \in Commands, WritePidFile(c) PROVE NoneRises
  BY <1>7, LifecycleAssumption DEF WritePidFile, At, NoneRises, OneFork, Forked,
     Alive, Stopped
<1>8. ASSUME NEW c \in Commands, StopReads(c) PROVE NoneRises
  BY <1>8, LifecycleAssumption DEF StopReads, At, Alive, Stopped, files, history,
     NoneRises, OneFork, Forked
<1>9. ASSUME NEW c \in Commands, FindSiblings(c) PROVE NoneRises
  BY <1>9, LifecycleAssumption DEF FindSiblings, At, Siblings, Alive, Stopped, files,
     history, NoneRises, OneFork, Forked
<1>10. ASSUME NEW c \in Commands, NEW t \in Commands, TargetGone(c, t) PROVE NoneRises
  BY <1>10, LifecycleAssumption DEF TargetGone, At, Alive, Stopped, files, history,
     NoneRises, OneFork, Forked
<1>11. ASSUME NEW c \in Commands, NEW t \in Commands, SendTerm(c, t) PROVE NoneRises
  <2>1. SendTermEffect(c, t) /\ Alive(t)
    BY <1>11, SendTermDoes DEF SendTerm
  <2>2. Forked(t) => Forked(t)'
    BY <2>1 DEF SendTermEffect, Alive, Stopped, Forked
  <2>3. \A d \in Commands \ {t} : daemon'[d].state = daemon[d].state
    BY <2>1 DEF SendTermEffect
  <2>4. ~Stopped(t)' => ~Stopped(t)
    BY <2>1 DEF SendTermEffect, Stopped
  <2>5. \A d \in Commands \ {t} : (Forked(d) => Forked(d)')
                                  /\ (~Stopped(d)' => ~Stopped(d))
    BY <2>3 DEF Forked, Stopped
  <2> QED
    BY <2>2, <2>4, <2>5 DEF NoneRises
<1>12. ASSUME NEW c \in Commands, SendKill(c) PROVE NoneRises
  <2>1. command[c].target \in Commands
    BY <1>12 DEF SendKill, Alive, Stopped, TypeOK, Command, Pids
  <2>2. DeathEffect(command[c].target, "doomed")
    BY <1>12, <2>1, DeathDoes DEF SendKill, DaemonState
  <2> QED
    BY <1>12, <2>1, <2>2 DEF DeathEffect, SendKill, NoneRises, Forked, Alive, Stopped,
       OneFork, At, files, history
<1>13. ASSUME NEW c \in Commands, RemoveFiles(c) PROVE NoneRises
  BY <1>13, LifecycleAssumption DEF RemoveFiles, At, NoneRises, OneFork, Forked,
     Alive, Stopped
<1>14. ASSUME NEW c \in Commands, StaleFiles(c) PROVE NoneRises
  BY <1>14, LifecycleAssumption DEF StaleFiles, Reads, At, Alive, Stopped, files,
     history, NoneRises, OneFork, Forked
<1>15. ASSUME NEW c \in Commands, RemoveStaleFiles(c) PROVE NoneRises
  BY <1>15, LifecycleAssumption DEF RemoveStaleFiles, At, files, history, NoneRises,
     OneFork, Forked, Alive, Stopped
<1>16. ASSUME NEW c \in Commands, ExportRetained(c) PROVE NoneRises
  BY <1>16, LifecycleAssumption DEF ExportRetained, At, files, history, NoneRises,
     OneFork, Forked, Alive, Stopped
<1>17. ASSUME NEW c \in Commands, DaemonFound(c) PROVE NoneRises
  BY <1>17, LifecycleAssumption DEF DaemonFound, Reads, At, Alive, Stopped, files,
     history, NoneRises, OneFork, Forked
<1>18. ASSUME NEW c \in Commands, StatusPrinted(c) PROVE NoneRises
  BY <1>18, LifecycleAssumption DEF StatusPrinted, At, files, history, NoneRises,
     OneFork, Forked, Alive, Stopped
<1>19. ASSUME NEW c \in Commands, RecorderUnhealthy(c) PROVE NoneRises
  BY <1>19, LifecycleAssumption DEF RecorderUnhealthy, At, files, history, NoneRises,
     OneFork, Forked, Alive, Stopped
<1>20. ASSUME NEW c \in Commands, SignalFails(c) PROVE NoneRises
  BY <1>20, LifecycleAssumption DEF SignalFails, At, files, history, Alive, Stopped,
     NoneRises, OneFork, Forked
<1>21. ASSUME NEW c \in Commands, RequestSave(c) PROVE NoneRises
  <2>1. RequestSaveEffect(c)
    BY <1>21, RequestSaveDoes
  <2>2. command[c].pid \in Commands
    BY <1>21 DEF RequestSave, Alive, Stopped, TypeOK, Command, Pids
  <2>3. SignalledEffect(command[c].pid)
    BY <1>21, <2>2, SignalledDoes DEF RequestSave
  <2> QED
    BY <2>2, <2>3 DEF SignalledEffect, NoneRises, Forked, Alive, Stopped
<1>22. ASSUME NEW c \in Commands, RequestChoice(c) PROVE NoneRises
  <2>1. FinishEffect(c)
    BY <1>22, FinishDoes DEF RequestChoice
  <2>2. command[c].pid \in Commands
    BY <1>22 DEF RequestChoice, Alive, Stopped, TypeOK, Command, Pids
  <2>3. SignalledEffect(command[c].pid)
    BY <1>22, <2>2, SignalledDoes DEF RequestChoice
  <2> QED
    BY <1>22, <2>1, <2>2, <2>3 DEF SignalledEffect, RequestChoice, NoneRises, Forked,
       Alive, Stopped, OneFork, At, files, history
<1>23. ASSUME NEW c \in Commands, ClipFound(c) PROVE NoneRises
  BY <1>23, LifecycleAssumption DEF ClipFound, At, files, history, NoneRises, OneFork,
     Forked, Alive, Stopped
<1>24. ASSUME NEW c \in Commands, FailureFound(c) PROVE NoneRises
  BY <1>24, LifecycleAssumption DEF FailureFound, At, files, history, NoneRises,
     OneFork, Forked, Alive, Stopped
<1>25. ASSUME NEW c \in Commands, SaveTimesOut(c) PROVE NoneRises
  BY <1>25, LifecycleAssumption DEF SaveTimesOut, At, files, history, NoneRises,
     OneFork, Forked, Alive, Stopped
<1>26. ASSUME NEW c \in Commands, InstallHandlers(c) PROVE NoneRises
  BY <1>26, LifecycleAssumption DEF InstallHandlers, DaemonStep, NoneRises, OneFork,
     Forked, At, Alive, Stopped
<1>27. ASSUME NEW c \in Commands, ShutsDown(c) PROVE NoneRises
  <2>1. ShutsDownEffect(c)
    BY <1>27, ShutsDownDoes
  <2> QED
    BY <1>27, <2>1 DEF ShutsDownEffect, NoneRises, Forked, Alive, Stopped, OneFork,
       At, files, history
<1>28. ASSUME NEW c \in Commands, SaveBegins(c) PROVE NoneRises
  BY <1>28, LifecycleAssumption DEF SaveBegins, files, history, NoneRises, OneFork,
     Forked, At, Alive, Stopped, TypeOK
<1>29. ASSUME NEW c \in Commands, SaveEnds(c) PROVE NoneRises
  <2>1. SavesEffect(c)
    BY <1>29, SavesSee
  <2> QED
    BY <1>29, <2>1 DEF SavesEffect, NoneRises, Forked, Alive, Stopped, OneFork, At,
       files, history
<1>30. ASSUME NEW c \in Commands, WriteStatus(c) PROVE NoneRises
  <2>1. SavesEffect(c)
    BY <1>30, SavesSee
  <2> QED
    BY <1>30, <2>1 DEF SavesEffect, NoneRises, Forked, Alive, Stopped, OneFork, At,
       files, history
<1>31. ASSUME NEW c \in Commands, DaemonStops(c) PROVE NoneRises
  BY <1>31, LifecycleAssumption DEF DaemonStops, DaemonStep, NoneRises, OneFork, Forked,
     At, Alive, Stopped
<1>32. ASSUME NEW c \in Commands, RemovesPidFile(c) PROVE NoneRises
  BY <1>32, LifecycleAssumption DEF RemovesPidFile, DaemonStep, NoneRises, OneFork,
     Forked, At, Alive, Stopped
<1>33. ASSUME NEW c \in Commands, Exits(c) PROVE NoneRises
  <2>1. DeathEffect(c, "dead")
    BY <1>33, DeathDoes DEF Exits, DaemonState
  <2> QED
    BY <1>33, <2>1 DEF DeathEffect, Exits, NoneRises, Forked, Alive, Stopped, OneFork,
       At, files, history
<1>34. ASSUME NEW c \in Commands, Crashes(c) PROVE NoneRises
  <2>1. DeathEffect(c, "dead")
    BY <1>34, DeathDoes DEF Crashes, DaemonState
  <2> QED
    BY <1>34, <2>1, LifecycleAssumption DEF DeathEffect, Crashes, NoneRises, Forked,
       Alive, Stopped, OneFork, At, files, history
<1>35. CASE UNCHANGED vars
  BY <1>35 DEF vars, files, history, NoneRises, OneFork, Forked, At, Alive, Stopped,
     Active, Stopping
<1>36. ASSUME NEW c \in Commands, PidFileNotWritten(c) PROVE NoneRises
  BY <1>36 DEF PidFileNotWritten, NoneRises, Forked, Stopped
<1>37. ASSUME NEW c \in Commands, NEW t \in Commands, GivesUp(c, t) PROVE NoneRises
  BY <1>37 DEF GivesUp, NoneRises, Forked, Stopped
<1>38. ASSUME NEW c \in Commands, Vanishes(c) PROVE NoneRises
  BY <1>38 DEF Vanishes, DaemonStep, NoneRises, Forked, Stopped, TypeOK
<1> QED
  BY <1>1, <1>2, <1>3, <1>4, <1>5, <1>6, <1>7, <1>8, <1>9, <1>10, <1>11, <1>12, <1>13,
     <1>14, <1>15, <1>16, <1>17, <1>18, <1>19, <1>20, <1>21, <1>22, <1>23, <1>24, <1>25,
     <1>26, <1>27, <1>28, <1>29, <1>30, <1>31, <1>32, <1>33, <1>34,
     <1>35, <1>36, <1>37, <1>38 DEF Next,
     CommandStep, StartStep, StopStep, OtherStep, DaemonSteps

\* What a stop found stays a target until it is gone, and never comes back.
LEMMA TargetsStep ==
  ASSUME TypeOK, RightOp, OneFork, StopKeepsTargets, NoneRises
  PROVE  [Next]_vars => StopKeepsTargets'
<1>1. ASSUME NEW c \in Commands, Give(c) PROVE StopKeepsTargets'
  <2>1. GiveEffect(c)
    BY <1>1, GiveDoes
  <2>2. \A b \in Commands : KeepsTargets(b)
    BY <1>1, <2>1 DEF GiveEffect, Give, Alone, KeepsTargets, At, KeptBy
  <2> QED
    BY <2>2, TargetsKept DEF StopKeepsTargets
<1>2. ASSUME NEW c \in Commands, AlreadyRunning(c) PROVE StopKeepsTargets'
  BY <1>2, LifecycleAssumption DEF AlreadyRunning, At, Finish, Ended, NotGiven, files,
     history, StopKeepsTargets, KeptBy, NoneRises, OneFork, Forked, Stopping, Alive,
     Stopped, Active
<1>3. ASSUME NEW c \in Commands, NotRunning(c) PROVE StopKeepsTargets'
  BY <1>3, LifecycleAssumption DEF NotRunning, Reads, At, files, history, Alive,
     Stopped, StopKeepsTargets, KeptBy, NoneRises, OneFork, Forked, Stopping, Active,
     TypeOK
<1>4. ASSUME NEW c \in Commands, ForkFails(c) PROVE StopKeepsTargets'
  BY <1>4, LifecycleAssumption DEF ForkFails, At, Finish, Ended, NotGiven, files,
     history, StopKeepsTargets, KeptBy, NoneRises, OneFork, Forked, Stopping, Alive,
     Stopped, Active
<1>5. ASSUME NEW c \in Commands, Fork(c) PROVE StopKeepsTargets'
  <2>1. GoToEffect(c, "truncate")
    BY <1>5, GoToDoes DEF Fork, Places
  <2>2. \A b \in Commands : KeepsTargets(b)
    BY <1>5, <2>1 DEF GoToEffect, Fork, Alone, KeepsTargets, At, SameLocals
  <2> QED
    BY <2>2, TargetsKept DEF StopKeepsTargets
<1>6. ASSUME NEW c \in Commands, TruncatePidFile(c) PROVE StopKeepsTargets'
  BY <1>6, LifecycleAssumption DEF TruncatePidFile, At, GoTo, StopKeepsTargets, KeptBy,
     NoneRises, OneFork, Forked, Stopping, Alive, Stopped, Active
<1>7. ASSUME NEW c \in Commands, WritePidFile(c) PROVE StopKeepsTargets'
  BY <1>7, LifecycleAssumption DEF WritePidFile, At, Finish, Ended, NotGiven,
     StopKeepsTargets, KeptBy, NoneRises, OneFork, Forked, Stopping, Alive, Stopped,
     Active
<1>8. ASSUME NEW c \in Commands, StopReads(c) PROVE StopKeepsTargets'
  <2>1. \A b \in Commands \ {c} : KeepsTargets(b)
    BY <1>8 DEF StopReads, TypeOK, KeepsTargets
  <2> DEFINE read == IF Alive(pidFile) THEN {pidFile} ELSE {}
  <2>2. /\ command[c] \in Command /\ command[c].pc = "stop" /\ command[c].found = {}
        /\ read \subseteq Commands /\ \A d \in read : Forked(d)
    BY <1>8 DEF StopReads, TypeOK, At, StopKeepsTargets, KeptBy, OneFork, Alive,
       Stopped, Pids
  <2>3. /\ command'[c].pc = "stopPid" /\ command'[c].pid = pidFile
        /\ command'[c].targets = read /\ command'[c].found = read
    BY <1>8, <2>2 DEF StopReads, TypeOK
  <2>4. UNCHANGED daemon
    BY <1>8 DEF StopReads
  <2>5. KeptBy(c)'
    BY <2>2, <2>3, <2>4 DEF KeptBy, Stopping, At, Alive, Stopped, Forked, OneFork
  <2> QED
    BY <2>1, <2>5, TargetsKept DEF StopKeepsTargets
<1>9. ASSUME NEW c \in Commands, FindSiblings(c) PROVE StopKeepsTargets'
  <2>1. FindSiblingsEffect(c)
    BY <1>9, FindSiblingsDoes
  <2>2. \A b \in Commands \ {c} : KeepsTargets(b)
    BY <2>1 DEF FindSiblingsEffect, KeepsTargets, Ended, NotGiven, Active
  <2>3. /\ KeptBy(c) /\ At(c, "stopPid") /\ command[c].targets = {}
        /\ UNCHANGED daemon
    BY <1>9 DEF FindSiblings, StopKeepsTargets
  <2>4. /\ \A d \in command[c].found : Forked(d) /\ Stopped(d)
        /\ command[c].pid # None => Forked(command[c].pid) /\ Stopped(command[c].pid)
    BY <2>3 DEF KeptBy, Stopping
  <2>5. \A d \in Siblings(c) : Forked(d)
    BY DEF Siblings, Alive, Forked
  <2>6. /\ command'[c].pc = "stopAll" /\ command'[c].pid = command[c].pid
        /\ command'[c].targets = Siblings(c)
        /\ command'[c].found = command[c].found \union Siblings(c)
    BY <2>1 DEF FindSiblingsEffect
  <2>7. \A d \in Commands : (Forked(d)' <=> Forked(d)) /\ (Stopped(d)' <=> Stopped(d))
    BY <2>3 DEF Forked, Stopped
  <2>8. Siblings(c) \subseteq Commands /\ command[c].found \subseteq Commands
        /\ command[c].pid \in Pids
    BY DEF Siblings, TypeOK, Command
  <2>9. KeptBy(c)'
    BY <2>4, <2>5, <2>6, <2>7, <2>8 DEF KeptBy, Stopping, At, Pids
  <2> QED
    BY <2>2, <2>9, TargetsKept DEF StopKeepsTargets
<1>10. ASSUME NEW c \in Commands, NEW t \in Commands, TargetGone(c, t)
       PROVE  StopKeepsTargets'
  <2>1. TargetGoneEffect(c, t)
    BY <1>10, TargetGoneDoes
  <2>2. Stopped(t)'
    BY <1>10, LifecycleAssumption DEF TargetGone, Alive, Stopped
  <2>3. KeepsTargets(c)
    BY <2>1, <2>2 DEF TargetGoneEffect, KeepsTargets
  <2>4. \A b \in Commands \ {c} : KeepsTargets(b)
    BY <2>1 DEF TargetGoneEffect, Alone, KeepsTargets
  <2> QED
    BY <2>3, <2>4, TargetsKept DEF StopKeepsTargets
<1>11. ASSUME NEW c \in Commands, NEW t \in Commands, SendTerm(c, t)
       PROVE  StopKeepsTargets'
  <2>1. SendTermEffect(c, t)
    BY <1>11, SendTermDoes
  <2>2. \A b \in Commands : KeepsTargets(b)
    BY <1>11, <2>1 DEF SendTermEffect, SendTerm, KeepsTargets
  <2> QED
    BY <2>2, TargetsKept DEF StopKeepsTargets
<1>12. ASSUME NEW c \in Commands, SendKill(c) PROVE StopKeepsTargets'
  <2>1. \A b \in Commands : KeepsTargets(b)
    BY <1>12 DEF SendKill, KeepsTargets
  <2> QED
    BY <2>1, TargetsKept DEF StopKeepsTargets
<1>13. ASSUME NEW c \in Commands, RemoveFiles(c) PROVE StopKeepsTargets'
  <2>1. RemoveFilesEffect(c)
    BY <1>13, RemoveFilesDoes
  <2>2. \A b \in Commands : KeepsTargets(b)
    BY <1>13, <2>1 DEF RemoveFilesEffect, Alone, KeepsTargets, Ended, NotGiven,
       SameLocals
  <2> QED
    BY <2>2, TargetsKept DEF StopKeepsTargets
<1>14. ASSUME NEW c \in Commands, StaleFiles(c) PROVE StopKeepsTargets'
  BY <1>14, LifecycleAssumption DEF StaleFiles, Reads, At, Alive, Stopped, files,
     history, StopKeepsTargets, KeptBy, NoneRises, OneFork, Forked, Stopping, Active,
     TypeOK
<1>15. ASSUME NEW c \in Commands, RemoveStaleFiles(c) PROVE StopKeepsTargets'
  <2>1. RemoveStaleFilesEffect(c)
    BY <1>15, RemoveStaleFilesDoes
  <2>2. \A b \in Commands : KeepsTargets(b)
    BY <1>15, <2>1 DEF RemoveStaleFilesEffect, RemoveStaleFiles, Alone, KeepsTargets,
       Ended, NotGiven, SameLocals
  <2> QED
    BY <2>2, TargetsKept DEF StopKeepsTargets
<1>16. ASSUME NEW c \in Commands, ExportRetained(c) PROVE StopKeepsTargets'
  BY <1>16, LifecycleAssumption DEF ExportRetained, At, Finish, Ended, NotGiven,
     files, history, StopKeepsTargets, KeptBy, NoneRises, OneFork, Forked, Stopping,
     Alive, Stopped, Active
<1>17. ASSUME NEW c \in Commands, DaemonFound(c) PROVE StopKeepsTargets'
  BY <1>17, LifecycleAssumption DEF DaemonFound, Reads, At, Alive, Stopped, files,
     history, StopKeepsTargets, KeptBy, NoneRises, OneFork, Forked, Stopping, Active,
     TypeOK
<1>18. ASSUME NEW c \in Commands, StatusPrinted(c) PROVE StopKeepsTargets'
  BY <1>18, LifecycleAssumption DEF StatusPrinted, At, Finish, Ended, NotGiven, files,
     history, StopKeepsTargets, KeptBy, NoneRises, OneFork, Forked, Stopping, Alive,
     Stopped, Active
<1>19. ASSUME NEW c \in Commands, RecorderUnhealthy(c) PROVE StopKeepsTargets'
  BY <1>19, LifecycleAssumption DEF RecorderUnhealthy, At, Finish, Ended, NotGiven,
     files, history, StopKeepsTargets, KeptBy, NoneRises, OneFork, Forked, Stopping,
     Alive, Stopped, Active
<1>20. ASSUME NEW c \in Commands, SignalFails(c) PROVE StopKeepsTargets'
  BY <1>20, LifecycleAssumption DEF SignalFails, At, Finish, Ended, NotGiven, files,
     history, Alive, Stopped, StopKeepsTargets, KeptBy, NoneRises, OneFork, Forked,
     Stopping, Active
<1>21. ASSUME NEW c \in Commands, RequestSave(c) PROVE StopKeepsTargets'
  <2>1. RequestSaveEffect(c)
    BY <1>21, RequestSaveDoes
  <2>2. \A b \in Commands : KeepsTargets(b)
    BY <1>21, <2>1 DEF RequestSaveEffect, RequestSave, Alone, KeepsTargets
  <2> QED
    BY <2>2, TargetsKept DEF StopKeepsTargets
<1>22. ASSUME NEW c \in Commands, RequestChoice(c) PROVE StopKeepsTargets'
  <2>1. FinishEffect(c)
    BY <1>22, FinishDoes DEF RequestChoice
  <2>2. \A b \in Commands : KeepsTargets(b)
    BY <1>22, <2>1 DEF FinishEffect, RequestChoice, Alone, KeepsTargets, Ended, NotGiven
  <2> QED
    BY <2>2, TargetsKept DEF StopKeepsTargets
<1>23. ASSUME NEW c \in Commands, ClipFound(c) PROVE StopKeepsTargets'
  BY <1>23, LifecycleAssumption DEF ClipFound, At, Finish, Ended, NotGiven, files,
     history, StopKeepsTargets, KeptBy, NoneRises, OneFork, Forked, Stopping, Alive,
     Stopped, Active
<1>24. ASSUME NEW c \in Commands, FailureFound(c) PROVE StopKeepsTargets'
  BY <1>24, LifecycleAssumption DEF FailureFound, At, Finish, Ended, NotGiven, files,
     history, StopKeepsTargets, KeptBy, NoneRises, OneFork, Forked, Stopping, Alive,
     Stopped, Active
<1>25. ASSUME NEW c \in Commands, SaveTimesOut(c) PROVE StopKeepsTargets'
  BY <1>25, LifecycleAssumption DEF SaveTimesOut, At, Finish, Ended, NotGiven, files,
     history, StopKeepsTargets, KeptBy, NoneRises, OneFork, Forked, Stopping, Alive,
     Stopped, Active
<1>26. ASSUME NEW c \in Commands, InstallHandlers(c) PROVE StopKeepsTargets'
  BY <1>26, LifecycleAssumption DEF InstallHandlers, DaemonStep, StopKeepsTargets,
     KeptBy, NoneRises, OneFork, Forked, Stopping, Alive, Stopped, Active, At
<1>27. ASSUME NEW c \in Commands, ShutsDown(c) PROVE StopKeepsTargets'
  <2>1. ShutsDownEffect(c)
    BY <1>27, ShutsDownDoes
  <2>2. \A b \in Commands : KeepsTargets(b)
    BY <1>27, <2>1 DEF ShutsDownEffect, ShutsDown, KeepsTargets
  <2> QED
    BY <2>2, TargetsKept DEF StopKeepsTargets
<1>28. ASSUME NEW c \in Commands, SaveBegins(c) PROVE StopKeepsTargets'
  BY <1>28, LifecycleAssumption DEF SaveBegins, files, history, StopKeepsTargets,
     KeptBy, NoneRises, OneFork, Forked, Stopping, Alive, Stopped, Active, At, TypeOK,
     Pids, Command
<1>29. ASSUME NEW c \in Commands, SaveEnds(c) PROVE StopKeepsTargets'
  <2>1. SavesEffect(c)
    BY <1>29, SavesSee
  <2>2. \A b \in Commands : KeepsTargets(b)
    BY <1>29, <2>1 DEF SavesEffect, SaveEnds, KeepsTargets
  <2> QED
    BY <2>2, TargetsKept DEF StopKeepsTargets
<1>30. ASSUME NEW c \in Commands, WriteStatus(c) PROVE StopKeepsTargets'
  <2>1. SavesEffect(c)
    BY <1>30, SavesSee
  <2>2. \A b \in Commands : KeepsTargets(b)
    BY <1>30, <2>1 DEF SavesEffect, WriteStatus, KeepsTargets
  <2> QED
    BY <2>2, TargetsKept DEF StopKeepsTargets
<1>31. ASSUME NEW c \in Commands, DaemonStops(c) PROVE StopKeepsTargets'
  BY <1>31, LifecycleAssumption DEF DaemonStops, DaemonStep, StopKeepsTargets, KeptBy,
     NoneRises, OneFork, Forked, Stopping, Alive, Stopped, Active, At
<1>32. ASSUME NEW c \in Commands, RemovesPidFile(c) PROVE StopKeepsTargets'
  BY <1>32, LifecycleAssumption DEF RemovesPidFile, DaemonStep, StopKeepsTargets,
     KeptBy, NoneRises, OneFork, Forked, Stopping, Alive, Stopped, Active, At
<1>33. ASSUME NEW c \in Commands, Exits(c) PROVE StopKeepsTargets'
  BY <1>33, LifecycleAssumption DEF Exits, Becomes, NoDaemon, files, history,
     StopKeepsTargets, KeptBy, NoneRises, OneFork, Forked, Stopping, Alive, Stopped,
     Active, At, TypeOK, Pids, Command
<1>34. ASSUME NEW c \in Commands, Crashes(c) PROVE StopKeepsTargets'
  BY <1>34, LifecycleAssumption DEF Crashes, Becomes, NoDaemon, Alive, Stopped, files,
     history, StopKeepsTargets, KeptBy, NoneRises, OneFork, Forked, Stopping, Active,
     At, TypeOK, Pids, Command
<1>35. CASE UNCHANGED vars
  BY <1>35 DEF vars, files, history, StopKeepsTargets, KeptBy, NoneRises, OneFork,
     Forked, Stopping, Alive, Stopped, Active, At
<1>36. ASSUME NEW c \in Commands, PidFileNotWritten(c) PROVE StopKeepsTargets'
  <2>1. FinishEffect(c)
    BY <1>36, FinishDoes DEF PidFileNotWritten
  <2>2. \A b \in Commands : KeepsTargets(b)
    BY <1>36, <2>1 DEF FinishEffect, PidFileNotWritten, Alone, KeepsTargets, Ended,
       NotGiven, Stopped
  <2> QED
    BY <2>2, TargetsKept DEF StopKeepsTargets
<1>37. ASSUME NEW c \in Commands, NEW t \in Commands, GivesUp(c, t)
       PROVE  StopKeepsTargets'
  <2>1. TargetGoneEffect(c, t)
    BY <1>37, GivesUpDoes
  <2>2. \A b \in Commands : KeepsTargets(b)
    BY <1>37, <2>1 DEF TargetGoneEffect, GivesUp, Alone, KeepsTargets, Stopped
  <2> QED
    BY <2>2, TargetsKept DEF StopKeepsTargets
<1>38. ASSUME NEW c \in Commands, Vanishes(c) PROVE StopKeepsTargets'
  <2>1. \A b \in Commands : KeepsTargets(b)
    BY <1>38 DEF Vanishes, DaemonStep, KeepsTargets
  <2> QED
    BY <2>1, TargetsKept DEF StopKeepsTargets
<1> QED
  BY <1>1, <1>2, <1>3, <1>4, <1>5, <1>6, <1>7, <1>8, <1>9, <1>10, <1>11, <1>12, <1>13,
     <1>14, <1>15, <1>16, <1>17, <1>18, <1>19, <1>20, <1>21, <1>22, <1>23, <1>24, <1>25,
     <1>26, <1>27, <1>28, <1>29, <1>30, <1>31, <1>32, <1>33, <1>34,
     <1>35, <1>36, <1>37, <1>38 DEF Next,
     CommandStep, StartStep, StopStep, OtherStep, DaemonSteps

\* Without overlapping commands the pid file names the daemon that runs.
LEMMA OneByOneStep ==
  ASSUME TypeOK, RightOp, OneFork, StopKeepsTargets, NoneRises, overlapped \/ OneByOne
  PROVE  [Next]_vars => (overlapped \/ OneByOne)'
<1>1. ASSUME NEW c \in Commands, Give(c) PROVE (overlapped \/ OneByOne)'
  <2>1. GiveEffect(c)
    BY <1>1, GiveDoes
  <2>2. SUFFICES ASSUME ~overlapped' PROVE OneByOne'
    OBVIOUS
  <2>3. /\ \A b \in Commands : ~Active(b)
        /\ OneByOne /\ UNCHANGED <<daemon, pidFile, unwritten>>
    BY <1>1, <2>2 DEF Give, files, history
  <2>4. OneActive'
    BY <2>1, <2>3 DEF OneActive, GiveEffect, Alone, Active
  <2>5. HoldersAreNamed => HoldersAreNamed'
    BY <2>1, <2>3 DEF HoldersAreNamed, PidFileNames, Active, At, Holds, Stopped
  <2>6. PastAlone'
    BY <2>1, <2>3 DEF PastAlone, PastPidFile, GiveEffect, Alone, Active
  <2>7. StopKnowsAll'
    BY <2>1, <2>3 DEF StopKnowsAll, GiveEffect, Alone, Active, At
  <2> QED
    BY <2>3, <2>4, <2>5, <2>6, <2>7 DEF OneByOne, InStep
<1>2. ASSUME NEW c \in Commands, AlreadyRunning(c) PROVE (overlapped \/ OneByOne)'
  BY <1>2, LifecycleAssumption DEF AlreadyRunning, At, Finish, Ended, files, history,
     OneByOne, OneActive, HoldersAreNamed, PidFileNames, InStep, PastAlone,
     StopKnowsAll, Holds, PastPidFile, StopKeepsTargets, KeptBy, Stopping, Active,
     Alive, Stopped, OneFork, Forked
<1>3. ASSUME NEW c \in Commands, NotRunning(c) PROVE (overlapped \/ OneByOne)'
  BY <1>3, LifecycleAssumption DEF NotRunning, Reads, At, files, history, Alive,
     Stopped, OneByOne, OneActive, HoldersAreNamed, PidFileNames, InStep, PastAlone,
     StopKnowsAll, Holds, PastPidFile, StopKeepsTargets, KeptBy, Stopping, Active,
     OneFork, Forked, TypeOK, Command
<1>4. ASSUME NEW c \in Commands, ForkFails(c) PROVE (overlapped \/ OneByOne)'
  BY <1>4, LifecycleAssumption DEF ForkFails, At, Finish, Ended, files, history,
     OneByOne, OneActive, HoldersAreNamed, PidFileNames, InStep, PastAlone,
     StopKnowsAll, Holds, PastPidFile, StopKeepsTargets, KeptBy, Stopping, Active,
     Alive, Stopped, OneFork, Forked
<1>5. ASSUME NEW c \in Commands, Fork(c) PROVE (overlapped \/ OneByOne)'
  <2>1. GoToEffect(c, "truncate")
    BY <1>5, GoToDoes DEF Fork, Places
  <2>2. SUFFICES ASSUME ~overlapped' PROVE OneByOne'
    OBVIOUS
  <2>3. /\ OneByOne /\ UNCHANGED pidFile /\ PastPidFile(c) /\ Active(c)
    BY <1>5, <2>2 DEF Fork, files, history, PastPidFile, Active, At
  <2>4. \A b \in Commands \ {c} : ~Active(b)
    BY <2>3 DEF OneByOne, OneActive
  <2>5. \A b \in Commands \ {c} : command'[b] = command[b] /\ daemon'[b] = daemon[b]
    BY <1>5, <2>1 DEF GoToEffect, Alone, Fork
  <2>6. command'[c].pc = "truncate"
    BY <2>1 DEF GoToEffect
  <2>7. \A b \in Commands \ {c} : ~Active(b)'
    BY <2>4, <2>5 DEF Active
  <2>8. OneActive' /\ StopKnowsAll'
    BY <2>6, <2>7 DEF OneActive, StopKnowsAll, At, Active
  <2>9. ASSUME ~unwritten' PROVE InStep'
    <3>1. \A b \in Commands \ {c} : ~Holds(b)
      <4>1. CASE ~unwritten
        BY <2>3, <4>1 DEF OneByOne, InStep, PastAlone
      <4>2. CASE \A d \in Commands : ~Alive(d)
        BY <4>2, LifecycleAssumption DEF Holds, Alive, Stopped
      <4> QED
        BY <1>5, <2>9, <4>1, <4>2 DEF Fork
    <3>2. \A b \in Commands \ {c} : ~Holds(b)'
      BY <2>5, <3>1 DEF Holds, Stopped
    <3> QED
      BY <2>6, <2>7, <3>2 DEF InStep, HoldersAreNamed, PidFileNames, PastAlone,
         PastPidFile, At, Active
  <2> QED
    BY <2>8, <2>9 DEF OneByOne
<1>6. ASSUME NEW c \in Commands, TruncatePidFile(c) PROVE (overlapped \/ OneByOne)'
  <2>1. GoToEffect(c, "write")
    BY <1>6, GoToDoes DEF TruncatePidFile, Places
  <2>2. /\ command'[c].pc = "write" /\ At(c, "truncate")
        /\ \A b \in Commands \ {c} : command'[b] = command[b]
    BY <1>6, <2>1 DEF GoToEffect, Alone, TruncatePidFile
  <2>3. UNCHANGED <<daemon, overlapped, unwritten>>
    BY <1>6 DEF TruncatePidFile, history
  <2>4. OneActive => OneActive'
    BY <2>2 DEF OneActive, Active, At
  <2>5. StopKnowsAll => StopKnowsAll'
    BY <2>2, <2>3 DEF StopKnowsAll, At, Stopped
  <2>6. PastAlone => PastAlone'
    BY <2>2, <2>3 DEF PastAlone, PastPidFile, At, Holds, Stopped
  <2>7. PastAlone => HoldersAreNamed'
    BY <2>2, <2>3 DEF PastAlone, PastPidFile, HoldersAreNamed, PidFileNames, At, Holds,
       Stopped
  <2> QED
    BY <2>3, <2>4, <2>5, <2>6, <2>7 DEF OneByOne, InStep
<1>7. ASSUME NEW c \in Commands, WritePidFile(c) PROVE (overlapped \/ OneByOne)'
  <2>1. FinishEffect(c)
    BY <1>7, FinishDoes DEF WritePidFile
  <2>2. command'[c].pc = "done" /\ \A b \in Commands \ {c} : command'[b] = command[b]
    BY <2>1 DEF FinishEffect, Alone, Ended, NotGiven
  <2>3. /\ Active(c) /\ PastPidFile(c) /\ pidFile' = c
        /\ UNCHANGED <<daemon, overlapped, unwritten>>
    BY <1>7 DEF WritePidFile, At, Active, PastPidFile, history
  <2>4. \A b \in Commands : ~Active(b)' \/ (Active(b) /\ b # c)
    BY <2>2 DEF Active
  <2>5. ASSUME OneByOne
        PROVE  OneByOne'
    <3>1. \A b \in Commands : ~Active(b)'
      BY <2>3, <2>4, <2>5 DEF OneByOne, OneActive
    <3>2. OneActive' /\ PastAlone' /\ StopKnowsAll'
      BY <3>1 DEF OneActive, PastAlone, StopKnowsAll, Active, PastPidFile, At
    <3>3. PastAlone => HoldersAreNamed'
      BY <2>3 DEF PastAlone, HoldersAreNamed, PidFileNames, Holds, Stopped
    <3> QED
      BY <2>3, <2>5, <3>2, <3>3 DEF OneByOne, InStep
  <2> QED
    BY <2>3, <2>5
<1>8. ASSUME NEW c \in Commands, StopReads(c) PROVE (overlapped \/ OneByOne)'
  <2>1. \A b \in Commands : KeepsPlace(b)
    <3>1. command[c].pc = "stop" /\ command'[c].pc = "stopPid"
      BY <1>8 DEF StopReads, At, TypeOK, Command
    <3>2. /\ \A b \in Commands \ {c} : command'[b] = command[b]
          /\ daemon' = daemon
      BY <1>8 DEF StopReads, TypeOK
    <3>3. KeepsPlace(c)
      BY <3>1 DEF KeepsPlace, Active, PastPidFile, At
    <3>4. \A b \in Commands \ {c} : KeepsPlace(b)
      BY <3>2 DEF KeepsPlace, Active, PastPidFile, At
    <3> QED
      BY <3>3, <3>4
  <2>2. OnlyLeave
    BY <1>8 DEF StopReads, OnlyLeave, Holds, Alive, Stopped
  <2>3. UNCHANGED <<pidFile, history>>
    BY <1>8 DEF StopReads, files, history
  <2> QED
    BY <2>1, <2>2, <2>3, OneByOneKept DEF history
<1>9. ASSUME NEW c \in Commands, FindSiblings(c) PROVE (overlapped \/ OneByOne)'
  <2>1. FindSiblingsEffect(c)
    BY <1>9, FindSiblingsDoes
  <2>2. SUFFICES ASSUME ~overlapped' PROVE OneByOne'
    OBVIOUS
  <2>3. /\ OneByOne /\ UNCHANGED <<daemon, pidFile, unwritten>>
        /\ Active(c) /\ At(c, "stopPid")
        /\ command[c].targets = {} /\ KeptBy(c)
    BY <1>9, <2>2 DEF FindSiblings, files, history, Active, At, StopKeepsTargets
  <2>4. \A b \in Commands \ {c} : ~Active(b) /\ ~Active(b)'
    BY <2>1, <2>3 DEF OneByOne, OneActive, FindSiblingsEffect, Active
  <2>5. OneActive'
    BY <2>4 DEF OneActive
  <2>6. HoldersAreNamed => HoldersAreNamed'
    BY <2>3, <2>4 DEF HoldersAreNamed, PidFileNames, Holds, Stopped, At, Active
  <2>7. PastAlone'
    BY <2>1, <2>4 DEF PastAlone, PastPidFile, FindSiblingsEffect, Active
  <2>8. command[c].pid = None \/ Stopped(command[c].pid)
    BY <2>3 DEF KeptBy, Stopping
  <2>9. \A d \in Commands : ~Stopped(d)' => d \in command'[c].targets
    BY <2>1, <2>3, <2>8, LifecycleAssumption DEF FindSiblingsEffect, Siblings, Alive,
       Stopped
  <2>10. StopKnowsAll'
    BY <2>4, <2>9 DEF StopKnowsAll, At, Active
  <2> QED
    BY <2>3, <2>5, <2>6, <2>7, <2>10 DEF OneByOne, InStep
<1>10. ASSUME NEW c \in Commands, NEW t \in Commands, TargetGone(c, t)
       PROVE  (overlapped \/ OneByOne)'
  <2>1. TargetGoneEffect(c, t)
    BY <1>10, TargetGoneDoes
  <2>5. Stopped(t)'
    BY <1>10, LifecycleAssumption DEF TargetGone, Alive, Stopped
  <2>2. \A b \in Commands : KeepsPlace(b)
    BY <1>10, <2>1, <2>5 DEF TargetGoneEffect, Alone, KeepsPlace, Active,
       PastPidFile, At
  <2>3. OnlyLeave
    BY <1>10, <2>1 DEF TargetGone, OnlyLeave, Holds, Alive, Stopped
  <2>4. UNCHANGED <<pidFile, history>>
    BY <1>10, <2>1 DEF TargetGone, files, history
  <2> QED
    BY <2>2, <2>3, <2>4, OneByOneKept DEF history
<1>11. ASSUME NEW c \in Commands, NEW t \in Commands, SendTerm(c, t)
       PROVE  (overlapped \/ OneByOne)'
  <2>1. SendTermEffect(c, t)
    BY <1>11, SendTermDoes
  <2>2. \A b \in Commands : KeepsPlace(b)
    BY <1>11, <2>1 DEF SendTermEffect, SendTerm, KeepsPlace, Active, PastPidFile, At,
       Alive, Stopped
  <2>3. OnlyLeave
    BY <1>11, <2>1 DEF SendTermEffect, SendTerm, OnlyLeave, Holds, Alive, Stopped
  <2>4. UNCHANGED <<pidFile, history>>
    BY <1>11, <2>1 DEF SendTermEffect, SendTerm, files, history
  <2> QED
    BY <2>2, <2>3, <2>4, OneByOneKept DEF history
<1>12. ASSUME NEW c \in Commands, SendKill(c) PROVE (overlapped \/ OneByOne)'
  <2>1. command[c].target \in Commands
    BY <1>12 DEF SendKill, TypeOK, Command, Pids
  <2>2. DeathEffect(command[c].target, "doomed")
    BY <1>12, <2>1, DeathDoes DEF SendKill, DaemonState
  <2>3. \A b \in Commands : KeepsPlace(b)
    BY <1>12 DEF SendKill, KeepsPlace, Active, PastPidFile, At
  <2>4. OnlyLeave
    BY <2>2 DEF DeathEffect, OnlyLeave, Holds, Stopped
  <2>5. UNCHANGED <<pidFile, overlapped, unwritten>>
    BY <1>12 DEF SendKill, files, history
  <2> QED
    BY <2>3, <2>4, <2>5, OneByOneKept
<1>13. ASSUME NEW c \in Commands, RemoveFiles(c) PROVE (overlapped \/ OneByOne)'
  <2>1. /\ RemoveFilesEffect(c) /\ At(c, "stopAll") /\ command[c].targets = {}
        /\ UNCHANGED <<daemon, overlapped, unwritten>>
    BY <1>13, RemoveFilesDoes DEF RemoveFiles, history
  <2>2. /\ command'[c].pc \in {"start", "done"} /\ Active(c)
        /\ \A b \in Commands \ {c} : command'[b] = command[b]
    BY <2>1 DEF RemoveFilesEffect, Alone, Ended, NotGiven, At, Active
  <2>3. OneActive => OneActive'
    BY <2>2 DEF OneActive, Active
  <2>4. StopKnowsAll => \A d \in Commands : Stopped(d)'
    BY <2>1 DEF StopKnowsAll, Stopped
  <2>5. StopKnowsAll => StopKnowsAll' /\ InStep'
    BY <2>4 DEF StopKnowsAll, InStep, HoldersAreNamed, PastAlone, Holds
  <2> QED
    BY <2>1, <2>3, <2>5 DEF OneByOne
<1>14. ASSUME NEW c \in Commands, StaleFiles(c) PROVE (overlapped \/ OneByOne)'
  BY <1>14, LifecycleAssumption DEF StaleFiles, Reads, At, Alive, Stopped, files,
     history, OneByOne, OneActive, HoldersAreNamed, PidFileNames, InStep, PastAlone,
     StopKnowsAll, Holds, PastPidFile, StopKeepsTargets, KeptBy, Stopping, Active,
     OneFork, Forked, TypeOK, Command
<1>15. ASSUME NEW c \in Commands, RemoveStaleFiles(c) PROVE (overlapped \/ OneByOne)'
  <2>1. RemoveStaleFilesEffect(c)
    BY <1>15, RemoveStaleFilesDoes
  <2>2. SUFFICES ASSUME ~overlapped' PROVE OneByOne'
    OBVIOUS
  <2>3. /\ OneByOne /\ UNCHANGED <<daemon, unwritten>>
        /\ At(c, "stale") /\ Active(c) /\ PastPidFile(c)
    BY <1>15, <2>2 DEF RemoveStaleFiles, history, Active, PastPidFile, At
  <2>4. ~Forked(c)
    BY <2>3 DEF OneFork, At
  <2>5. PastAlone => \A d \in Commands : ~Holds(d)'
    BY <2>3, <2>4 DEF PastAlone, Holds, Stopped, Forked
  <2>6. \A b \in Commands \ {c} : ~Active(b)'
    BY <2>1, <2>3 DEF RemoveStaleFilesEffect, Alone, OneByOne, OneActive, Active
  <2>7. command'[c].pc # "stopAll"
    BY <2>1 DEF RemoveStaleFilesEffect, Ended, NotGiven
  <2>8. OneActive' /\ StopKnowsAll'
    BY <2>6, <2>7 DEF OneActive, StopKnowsAll, Active, At
  <2>9. PastAlone => InStep'
    BY <2>5 DEF InStep, HoldersAreNamed, PastAlone
  <2> QED
    BY <2>3, <2>8, <2>9 DEF OneByOne, InStep
<1>16. ASSUME NEW c \in Commands, ExportRetained(c) PROVE (overlapped \/ OneByOne)'
  BY <1>16, LifecycleAssumption DEF ExportRetained, At, Finish, Ended, files, history,
     OneByOne, OneActive, HoldersAreNamed, PidFileNames, InStep, PastAlone,
     StopKnowsAll, Holds, PastPidFile, StopKeepsTargets, KeptBy, Stopping, Active,
     Alive, Stopped, OneFork, Forked
<1>17. ASSUME NEW c \in Commands, DaemonFound(c) PROVE (overlapped \/ OneByOne)'
  BY <1>17, LifecycleAssumption DEF DaemonFound, Reads, At, Alive, Stopped, files,
     history, OneByOne, OneActive, HoldersAreNamed, PidFileNames, InStep, PastAlone,
     StopKnowsAll, Holds, PastPidFile, StopKeepsTargets, KeptBy, Stopping, Active,
     OneFork, Forked, TypeOK, Command
<1>18. ASSUME NEW c \in Commands, StatusPrinted(c) PROVE (overlapped \/ OneByOne)'
  BY <1>18, LifecycleAssumption DEF StatusPrinted, At, Finish, Ended, files, history,
     OneByOne, OneActive, HoldersAreNamed, PidFileNames, InStep, PastAlone,
     StopKnowsAll, Holds, PastPidFile, StopKeepsTargets, KeptBy, Stopping, Active,
     Alive, Stopped, OneFork, Forked
<1>19. ASSUME NEW c \in Commands, RecorderUnhealthy(c) PROVE (overlapped \/ OneByOne)'
  BY <1>19, LifecycleAssumption DEF RecorderUnhealthy, At, Finish, Ended, files,
     history, OneByOne, OneActive, HoldersAreNamed, PidFileNames, InStep, PastAlone,
     StopKnowsAll, Holds, PastPidFile, StopKeepsTargets, KeptBy, Stopping, Active,
     Alive, Stopped, OneFork, Forked
<1>20. ASSUME NEW c \in Commands, SignalFails(c) PROVE (overlapped \/ OneByOne)'
  BY <1>20, LifecycleAssumption DEF SignalFails, At, Finish, Ended, files, history,
     Alive, Stopped, OneByOne, OneActive, HoldersAreNamed, PidFileNames, InStep,
     PastAlone, StopKnowsAll, Holds, PastPidFile, StopKeepsTargets, KeptBy, Stopping,
     Active, OneFork, Forked
<1>21. ASSUME NEW c \in Commands, RequestSave(c) PROVE (overlapped \/ OneByOne)'
  <2>1. RequestSaveEffect(c)
    BY <1>21, RequestSaveDoes
  <2>2. command[c].pid \in Commands
    BY <1>21 DEF RequestSave, Alive, Stopped, TypeOK, Command, Pids
  <2>3. SignalledEffect(command[c].pid)
    BY <1>21, <2>2, SignalledDoes DEF RequestSave
  <2>4. \A b \in Commands : KeepsPlace(b)
    BY <1>21, <2>1, <2>2, <2>3 DEF RequestSaveEffect, SignalledEffect, RequestSave,
       Alone, KeepsPlace, Active, PastPidFile, At, Alive, Stopped
  <2>5. OnlyLeave
    BY <1>21, <2>1, <2>2, <2>3 DEF RequestSaveEffect, SignalledEffect, RequestSave,
       OnlyLeave, Holds, Alive, Stopped
  <2>6. UNCHANGED <<pidFile, history>>
    BY <1>21, <2>1, <2>2, <2>3 DEF RequestSaveEffect, SignalledEffect, RequestSave,
       files, history
  <2> QED
    BY <2>4, <2>5, <2>6, OneByOneKept DEF history
<1>22. ASSUME NEW c \in Commands, RequestChoice(c) PROVE (overlapped \/ OneByOne)'
  <2>1. FinishEffect(c)
    BY <1>22, FinishDoes DEF RequestChoice
  <2>2. command[c].pid \in Commands
    BY <1>22 DEF RequestChoice, Alive, Stopped, TypeOK, Command, Pids
  <2>3. SignalledEffect(command[c].pid)
    BY <1>22, <2>2, SignalledDoes DEF RequestChoice
  <2>4. \A b \in Commands : KeepsPlace(b)
    BY <1>22, <2>1, <2>2, <2>3 DEF FinishEffect, SignalledEffect, RequestChoice, Alone,
       KeepsPlace, Active, PastPidFile, At, Alive, Stopped, Ended, NotGiven
  <2>5. OnlyLeave
    BY <1>22, <2>1, <2>2, <2>3 DEF SignalledEffect, RequestChoice, OnlyLeave, Holds,
       Alive, Stopped
  <2>6. UNCHANGED <<pidFile, history>>
    BY <1>22, <2>1, <2>2, <2>3 DEF SignalledEffect, RequestChoice, files, history
  <2> QED
    BY <2>4, <2>5, <2>6, OneByOneKept DEF history
<1>23. ASSUME NEW c \in Commands, ClipFound(c) PROVE (overlapped \/ OneByOne)'
  BY <1>23, LifecycleAssumption DEF ClipFound, At, Finish, Ended, files, history,
     OneByOne, OneActive, HoldersAreNamed, PidFileNames, InStep, PastAlone,
     StopKnowsAll, Holds, PastPidFile, StopKeepsTargets, KeptBy, Stopping, Active,
     Alive, Stopped, OneFork, Forked
<1>24. ASSUME NEW c \in Commands, FailureFound(c) PROVE (overlapped \/ OneByOne)'
  BY <1>24, LifecycleAssumption DEF FailureFound, At, Finish, Ended, files, history,
     OneByOne, OneActive, HoldersAreNamed, PidFileNames, InStep, PastAlone,
     StopKnowsAll, Holds, PastPidFile, StopKeepsTargets, KeptBy, Stopping, Active,
     Alive, Stopped, OneFork, Forked
<1>25. ASSUME NEW c \in Commands, SaveTimesOut(c) PROVE (overlapped \/ OneByOne)'
  BY <1>25, LifecycleAssumption DEF SaveTimesOut, At, Finish, Ended, files, history,
     OneByOne, OneActive, HoldersAreNamed, PidFileNames, InStep, PastAlone,
     StopKnowsAll, Holds, PastPidFile, StopKeepsTargets, KeptBy, Stopping, Active,
     Alive, Stopped, OneFork, Forked
<1>26. ASSUME NEW c \in Commands, InstallHandlers(c) PROVE (overlapped \/ OneByOne)'
  <2>1. \A b \in Commands : KeepsPlace(b)
    BY <1>26 DEF InstallHandlers, DaemonStep, KeepsPlace, Active, PastPidFile, At
  <2>2. OnlyLeave
    BY <1>26 DEF InstallHandlers, DaemonStep, OnlyLeave, Holds, Stopped, TypeOK
  <2>3. UNCHANGED <<pidFile, overlapped, unwritten>>
    BY <1>26 DEF InstallHandlers, DaemonStep, history
  <2> QED
    BY <2>1, <2>2, <2>3, OneByOneKept
<1>27. ASSUME NEW c \in Commands, ShutsDown(c) PROVE (overlapped \/ OneByOne)'
  <2>1. ShutsDownEffect(c)
    BY <1>27, ShutsDownDoes
  <2>2. \A b \in Commands : KeepsPlace(b)
    BY <1>27, <2>1 DEF ShutsDownEffect, ShutsDown, KeepsPlace, Active, PastPidFile, At,
       Alive, Stopped
  <2>3. OnlyLeave
    BY <1>27, <2>1 DEF ShutsDownEffect, ShutsDown, OnlyLeave, Holds, Alive, Stopped
  <2>4. UNCHANGED <<pidFile, history>>
    BY <1>27, <2>1 DEF ShutsDownEffect, ShutsDown, files, history
  <2> QED
    BY <2>2, <2>3, <2>4, OneByOneKept DEF history
<1>28. ASSUME NEW c \in Commands, SaveBegins(c) PROVE (overlapped \/ OneByOne)'
  BY <1>28, LifecycleAssumption DEF SaveBegins, files, history, OneByOne, OneActive,
     HoldersAreNamed, PidFileNames, InStep, PastAlone, StopKnowsAll, Holds,
     PastPidFile, StopKeepsTargets, KeptBy, Stopping, Active, Alive, Stopped, At,
     OneFork, Forked, TypeOK
<1>29. ASSUME NEW c \in Commands, SaveEnds(c) PROVE (overlapped \/ OneByOne)'
  <2>1. SavesEffect(c)
    BY <1>29, SavesSee
  <2>2. \A b \in Commands : KeepsPlace(b)
    BY <1>29, <2>1 DEF SavesEffect, SaveEnds, KeepsPlace, Active, PastPidFile, At,
       Alive, Stopped
  <2>3. OnlyLeave
    BY <1>29, <2>1 DEF SavesEffect, SaveEnds, OnlyLeave, Holds, Alive, Stopped
  <2>4. UNCHANGED <<pidFile, history>>
    BY <1>29, <2>1 DEF SavesEffect, SaveEnds, files, history
  <2> QED
    BY <2>2, <2>3, <2>4, OneByOneKept DEF history
<1>30. ASSUME NEW c \in Commands, WriteStatus(c) PROVE (overlapped \/ OneByOne)'
  <2>1. SavesEffect(c)
    BY <1>30, SavesSee
  <2>2. \A b \in Commands : KeepsPlace(b)
    BY <1>30, <2>1 DEF SavesEffect, WriteStatus, KeepsPlace, Active, PastPidFile, At,
       Alive, Stopped
  <2>3. OnlyLeave
    BY <1>30, <2>1 DEF SavesEffect, WriteStatus, OnlyLeave, Holds, Alive, Stopped
  <2>4. UNCHANGED <<pidFile, history>>
    BY <1>30, <2>1 DEF SavesEffect, WriteStatus, files, history
  <2> QED
    BY <2>2, <2>3, <2>4, OneByOneKept DEF history
<1>31. ASSUME NEW c \in Commands, DaemonStops(c) PROVE (overlapped \/ OneByOne)'
  <2>1. \A b \in Commands : KeepsPlace(b)
    BY <1>31 DEF DaemonStops, DaemonStep, KeepsPlace, Active, PastPidFile, At
  <2>2. OnlyLeave
    BY <1>31 DEF DaemonStops, DaemonStep, OnlyLeave, Holds, Stopped, TypeOK
  <2>3. UNCHANGED <<pidFile, overlapped, unwritten>>
    BY <1>31 DEF DaemonStops, DaemonStep, history
  <2> QED
    BY <2>1, <2>2, <2>3, OneByOneKept
<1>32. ASSUME NEW c \in Commands, RemovesPidFile(c) PROVE (overlapped \/ OneByOne)'
  <2>1. UNCHANGED <<command, overlapped, unwritten>> /\ Holds(c)
    BY <1>32 DEF RemovesPidFile, DaemonStep, history, Holds, Stopped
  <2>2. /\ ~Holds(c)'
        /\ \A d \in Commands : (~Stopped(d)' => ~Stopped(d)) /\ (Holds(d)' => Holds(d))
    BY <1>32 DEF RemovesPidFile, DaemonStep, Holds, Stopped, TypeOK
  <2>3. OneActive => OneActive'
    BY <2>1 DEF OneActive, Active
  <2>4. StopKnowsAll => StopKnowsAll'
    BY <2>1, <2>2 DEF StopKnowsAll, At
  <2>5. PastAlone => PastAlone'
    BY <2>1, <2>2 DEF PastAlone, PastPidFile
  <2>6. ASSUME InStep, NEW d \in Commands, Holds(d)'
        PROVE  PidFileNames(d)'
    <3>1. d # c /\ Holds(d) /\ PidFileNames(d) /\ PidFileNames(c)
      BY <2>1, <2>2, <2>6 DEF InStep, HoldersAreNamed
    <3>2. ~PastPidFile(c)
      BY <2>6, <3>1 DEF InStep, PastAlone
    <3>3. pidFile = c
      BY <3>1, <3>2 DEF PidFileNames, PastPidFile, At
    <3> QED
      BY <2>1, <3>1, <3>3 DEF PidFileNames, At
  <2> QED
    BY <2>1, <2>3, <2>4, <2>5, <2>6 DEF OneByOne, InStep, HoldersAreNamed
<1>33. ASSUME NEW c \in Commands, Exits(c) PROVE (overlapped \/ OneByOne)'
  BY <1>33, LifecycleAssumption DEF Exits, Becomes, NoDaemon, files, history,
     OneByOne, OneActive, HoldersAreNamed, PidFileNames, InStep, PastAlone,
     StopKnowsAll, Holds, PastPidFile, StopKeepsTargets, KeptBy, Stopping, Active,
     Alive, Stopped, At, OneFork, Forked
<1>34. ASSUME NEW c \in Commands, Crashes(c) PROVE (overlapped \/ OneByOne)'
  BY <1>34, LifecycleAssumption DEF Crashes, Becomes, NoDaemon, Alive, Stopped, files,
     history, OneByOne, OneActive, HoldersAreNamed, PidFileNames, InStep, PastAlone,
     StopKnowsAll, Holds, PastPidFile, StopKeepsTargets, KeptBy, Stopping, Active, At,
     OneFork, Forked
<1>35. CASE UNCHANGED vars
  BY <1>35 DEF vars, files, history, OneByOne, OneActive, HoldersAreNamed,
     PidFileNames, InStep, PastAlone, StopKnowsAll, Holds, PastPidFile,
     StopKeepsTargets, KeptBy, Stopping, Active, Alive, Stopped, At, OneFork, Forked
<1>36. ASSUME NEW c \in Commands, PidFileNotWritten(c) PROVE (overlapped \/ OneByOne)'
  <2>1. FinishEffect(c)
    BY <1>36, FinishDoes DEF PidFileNotWritten
  <2>2. /\ command'[c].pc = "done" /\ \A b \in Commands \ {c} : command'[b] = command[b]
        /\ unwritten' /\ UNCHANGED <<daemon, overlapped>>
    BY <1>36, <2>1 DEF FinishEffect, PidFileNotWritten, Alone, Ended, NotGiven
  <2>3. OneActive => OneActive'
    BY <2>2 DEF OneActive, Active
  <2>4. StopKnowsAll => StopKnowsAll'
    BY <2>2 DEF StopKnowsAll, At, Stopped
  <2> QED
    BY <2>2, <2>3, <2>4 DEF OneByOne
<1>37. ASSUME NEW c \in Commands, NEW t \in Commands, GivesUp(c, t)
       PROVE  (overlapped \/ OneByOne)'
  <2>1. TargetGoneEffect(c, t)
    BY <1>37, GivesUpDoes
  <2>2. \A b \in Commands : KeepsPlace(b)
    BY <1>37, <2>1 DEF TargetGoneEffect, GivesUp, Alone, KeepsPlace, Active,
       PastPidFile, At, Stopped
  <2>3. OnlyLeave
    BY <1>37, <2>1 DEF GivesUp, OnlyLeave, Holds, Stopped
  <2>4. UNCHANGED <<pidFile, history>>
    BY <1>37, <2>1 DEF GivesUp, files
  <2> QED
    BY <2>2, <2>3, <2>4, OneByOneKept DEF history
<1>38. ASSUME NEW c \in Commands, Vanishes(c) PROVE (overlapped \/ OneByOne)'
  <2>1. \A b \in Commands : KeepsPlace(b)
    BY <1>38 DEF Vanishes, DaemonStep, KeepsPlace, Active, PastPidFile, At
  <2>2. OnlyLeave
    BY <1>38 DEF Vanishes, DaemonStep, OnlyLeave, Holds, Stopped, TypeOK
  <2>3. UNCHANGED <<pidFile, history>>
    BY <1>38 DEF Vanishes, DaemonStep, files
  <2> QED
    BY <2>1, <2>2, <2>3, OneByOneKept DEF history
<1> QED
  BY <1>1, <1>2, <1>3, <1>4, <1>5, <1>6, <1>7, <1>8, <1>9, <1>10, <1>11, <1>12, <1>13,
     <1>14, <1>15, <1>16, <1>17, <1>18, <1>19, <1>20, <1>21, <1>22, <1>23, <1>24, <1>25,
     <1>26, <1>27, <1>28, <1>29, <1>30, <1>31, <1>32, <1>33, <1>34,
     <1>35, <1>36, <1>37, <1>38 DEF Next,
     CommandStep, StartStep, StopStep, OtherStep, DaemonSteps

\* A stop at its last place ends by RemoveFiles only, whatever runs beside it.
LEMMA OnlyRemoveFilesEnds ==
  ASSUME TypeOK, RightOp, NEW b \in Commands, At(b, "stopAll")
  PROVE  [Next]_vars => (command'[b].pc = "done" => RemoveFiles(b))
<1>1. ASSUME NEW c \in Commands, Give(c)
       PROVE  (command'[b].pc = "done" => RemoveFiles(b))
  <2>1. GiveEffect(c)
    BY <1>1, GiveDoes
  <2> QED
    BY <1>1, <2>1 DEF GiveEffect, Alone, At
<1>2. ASSUME NEW c \in Commands, AlreadyRunning(c)
       PROVE  (command'[b].pc = "done" => RemoveFiles(b))
  BY <1>2 DEF AlreadyRunning, At, Finish, files, history
<1>3. ASSUME NEW c \in Commands, NotRunning(c)
       PROVE  (command'[b].pc = "done" => RemoveFiles(b))
  BY <1>3 DEF NotRunning, Reads, At, files, history, Alive, Stopped, TypeOK
<1>4. ASSUME NEW c \in Commands, ForkFails(c)
       PROVE  (command'[b].pc = "done" => RemoveFiles(b))
  BY <1>4 DEF ForkFails, At, Finish, files, history
<1>5. ASSUME NEW c \in Commands, Fork(c)
       PROVE  (command'[b].pc = "done" => RemoveFiles(b))
  <2>1. GoToEffect(c, "truncate")
    BY <1>5, GoToDoes DEF Fork, Places
  <2> QED
    BY <1>5, <2>1 DEF GoToEffect, Fork, Alone, At
<1>6. ASSUME NEW c \in Commands, TruncatePidFile(c)
       PROVE  (command'[b].pc = "done" => RemoveFiles(b))
  BY <1>6 DEF TruncatePidFile, At, GoTo
<1>7. ASSUME NEW c \in Commands, WritePidFile(c)
       PROVE  (command'[b].pc = "done" => RemoveFiles(b))
  BY <1>7 DEF WritePidFile, At, Finish
<1>8. ASSUME NEW c \in Commands, StopReads(c)
       PROVE  (command'[b].pc = "done" => RemoveFiles(b))
  BY <1>8 DEF StopReads, At, Alive, Stopped, files, history, TypeOK
<1>9. ASSUME NEW c \in Commands, FindSiblings(c)
       PROVE  (command'[b].pc = "done" => RemoveFiles(b))
  <2>1. FindSiblingsEffect(c)
    BY <1>9, FindSiblingsDoes
  <2> QED
    BY <1>9, <2>1 DEF FindSiblingsEffect, FindSiblings, At, Ended
<1>10. ASSUME NEW c \in Commands, NEW t \in Commands, TargetGone(c, t)
       PROVE  (command'[b].pc = "done" => RemoveFiles(b))
  <2>1. TargetGoneEffect(c, t)
    BY <1>10, TargetGoneDoes
  <2> QED
    BY <1>10, <2>1 DEF TargetGoneEffect, Alone, At
<1>11. ASSUME NEW c \in Commands, NEW t \in Commands, SendTerm(c, t)
       PROVE  (command'[b].pc = "done" => RemoveFiles(b))
  <2>1. SendTermEffect(c, t)
    BY <1>11, SendTermDoes
  <2> QED
    BY <1>11, <2>1 DEF SendTermEffect, SendTerm, At
<1>12. ASSUME NEW c \in Commands, SendKill(c)
       PROVE  (command'[b].pc = "done" => RemoveFiles(b))
  BY <1>12 DEF SendKill, Stopping, At, Alive, Stopped, files, history
<1>13. ASSUME NEW c \in Commands, RemoveFiles(c)
       PROVE  (command'[b].pc = "done" => RemoveFiles(b))
  <2>1. RemoveFilesEffect(c)
    BY <1>13, RemoveFilesDoes
  <2> QED
    BY <1>13, <2>1 DEF RemoveFilesEffect, Alone, At
<1>14. ASSUME NEW c \in Commands, StaleFiles(c)
       PROVE  (command'[b].pc = "done" => RemoveFiles(b))
  BY <1>14 DEF StaleFiles, Reads, At, Alive, Stopped, files, history, TypeOK
<1>15. ASSUME NEW c \in Commands, RemoveStaleFiles(c)
       PROVE  (command'[b].pc = "done" => RemoveFiles(b))
  <2>1. RemoveStaleFilesEffect(c)
    BY <1>15, RemoveStaleFilesDoes
  <2> QED
    BY <1>15, <2>1 DEF RemoveStaleFilesEffect, RemoveStaleFiles, Alone, At
<1>16. ASSUME NEW c \in Commands, ExportRetained(c)
       PROVE  (command'[b].pc = "done" => RemoveFiles(b))
  BY <1>16 DEF ExportRetained, At, Finish, files, history
<1>17. ASSUME NEW c \in Commands, DaemonFound(c)
       PROVE  (command'[b].pc = "done" => RemoveFiles(b))
  BY <1>17 DEF DaemonFound, Reads, At, Alive, Stopped, files, history, TypeOK
<1>18. ASSUME NEW c \in Commands, StatusPrinted(c)
       PROVE  (command'[b].pc = "done" => RemoveFiles(b))
  BY <1>18 DEF StatusPrinted, At, Finish, files, history
<1>19. ASSUME NEW c \in Commands, RecorderUnhealthy(c)
       PROVE  (command'[b].pc = "done" => RemoveFiles(b))
  BY <1>19 DEF RecorderUnhealthy, At, Finish, files, history
<1>20. ASSUME NEW c \in Commands, SignalFails(c)
       PROVE  (command'[b].pc = "done" => RemoveFiles(b))
  BY <1>20 DEF SignalFails, At, Finish, files, history, Alive, Stopped
<1>21. ASSUME NEW c \in Commands, RequestSave(c)
       PROVE  (command'[b].pc = "done" => RemoveFiles(b))
  <2>1. RequestSaveEffect(c)
    BY <1>21, RequestSaveDoes
  <2> QED
    BY <1>21, <2>1 DEF RequestSaveEffect, RequestSave, Alone, At
<1>22. ASSUME NEW c \in Commands, RequestChoice(c)
       PROVE  (command'[b].pc = "done" => RemoveFiles(b))
  <2>1. FinishEffect(c)
    BY <1>22, FinishDoes DEF RequestChoice
  <2> QED
    BY <1>22, <2>1 DEF FinishEffect, RequestChoice, Alone, At
<1>23. ASSUME NEW c \in Commands, ClipFound(c)
       PROVE  (command'[b].pc = "done" => RemoveFiles(b))
  BY <1>23 DEF ClipFound, At, Finish, files, history
<1>24. ASSUME NEW c \in Commands, FailureFound(c)
       PROVE  (command'[b].pc = "done" => RemoveFiles(b))
  BY <1>24 DEF FailureFound, At, Finish, files, history
<1>25. ASSUME NEW c \in Commands, SaveTimesOut(c)
       PROVE  (command'[b].pc = "done" => RemoveFiles(b))
  BY <1>25 DEF SaveTimesOut, At, Finish, files, history
<1>26. ASSUME NEW c \in Commands, InstallHandlers(c)
       PROVE  (command'[b].pc = "done" => RemoveFiles(b))
  BY <1>26 DEF InstallHandlers, DaemonStep, At
<1>27. ASSUME NEW c \in Commands, ShutsDown(c)
       PROVE  (command'[b].pc = "done" => RemoveFiles(b))
  <2>1. ShutsDownEffect(c)
    BY <1>27, ShutsDownDoes
  <2> QED
    BY <1>27, <2>1 DEF ShutsDownEffect, ShutsDown, At
<1>28. ASSUME NEW c \in Commands, SaveBegins(c)
       PROVE  (command'[b].pc = "done" => RemoveFiles(b))
  BY <1>28 DEF SaveBegins, files, history, At
<1>29. ASSUME NEW c \in Commands, SaveEnds(c)
       PROVE  (command'[b].pc = "done" => RemoveFiles(b))
  <2>1. SavesEffect(c)
    BY <1>29, SavesSee
  <2> QED
    BY <1>29, <2>1 DEF SavesEffect, SaveEnds, At
<1>30. ASSUME NEW c \in Commands, WriteStatus(c)
       PROVE  (command'[b].pc = "done" => RemoveFiles(b))
  <2>1. SavesEffect(c)
    BY <1>30, SavesSee
  <2> QED
    BY <1>30, <2>1 DEF SavesEffect, WriteStatus, At
<1>31. ASSUME NEW c \in Commands, DaemonStops(c)
       PROVE  (command'[b].pc = "done" => RemoveFiles(b))
  BY <1>31 DEF DaemonStops, DaemonStep, At
<1>32. ASSUME NEW c \in Commands, RemovesPidFile(c)
       PROVE  (command'[b].pc = "done" => RemoveFiles(b))
  BY <1>32 DEF RemovesPidFile, DaemonStep, At
<1>33. ASSUME NEW c \in Commands, Exits(c)
       PROVE  (command'[b].pc = "done" => RemoveFiles(b))
  BY <1>33 DEF Exits, files, history, At
<1>34. ASSUME NEW c \in Commands, Crashes(c)
       PROVE  (command'[b].pc = "done" => RemoveFiles(b))
  BY <1>34 DEF Crashes, Alive, Stopped, files, history, At
<1>35. CASE UNCHANGED vars
  BY <1>35 DEF vars, files, history, At, Alive, Stopped, Active, Stopping
<1>36. ASSUME NEW c \in Commands, PidFileNotWritten(c)
       PROVE  (command'[b].pc = "done" => RemoveFiles(b))
  BY <1>36 DEF PidFileNotWritten, At, Finish
<1>37. ASSUME NEW c \in Commands, NEW t \in Commands, GivesUp(c, t)
       PROVE  (command'[b].pc = "done" => RemoveFiles(b))
  <2>1. TargetGoneEffect(c, t)
    BY <1>37, GivesUpDoes
  <2> QED
    BY <1>37, <2>1 DEF TargetGoneEffect, Alone, At
<1>38. ASSUME NEW c \in Commands, Vanishes(c)
       PROVE  (command'[b].pc = "done" => RemoveFiles(b))
  BY <1>38 DEF Vanishes, DaemonStep, At
<1> QED
  BY <1>1, <1>2, <1>3, <1>4, <1>5, <1>6, <1>7, <1>8, <1>9, <1>10, <1>11, <1>12, <1>13,
     <1>14, <1>15, <1>16, <1>17, <1>18, <1>19, <1>20, <1>21, <1>22, <1>23, <1>24, <1>25,
     <1>26, <1>27, <1>28, <1>29, <1>30, <1>31, <1>32, <1>33, <1>34,
     <1>35, <1>36, <1>37, <1>38 DEF Next,
     CommandStep, StartStep, StopStep, OtherStep, DaemonSteps

-----------------------------------------------------------------------------
(* The theorems *)

\* The parts of the invariant together, kept by every step.
LEMMA IInvStep ==
  ASSUME IInv
  PROVE  [Next]_vars => IInv'
<1> SUFFICES ASSUME [Next]_vars PROVE IInv'
  OBVIOUS
<1>1. TypeOK' /\ RightOp' /\ OneFork' /\ NoneRises
  BY TypeStep, RightOpStep, OneForkStep, NoneRisesStep DEF IInv
<1>2. StopKeepsTargets' /\ (overlapped \/ OneByOne)'
  BY <1>1, TargetsStep, OneByOneStep DEF IInv
<1> QED
  BY <1>1, <1>2 DEF IInv

\* Nothing is given and nothing runs.
LEMMA IInvInit ==
  ASSUME Init
  PROVE  IInv
<1>1. TypeOK
  <2>1. NotGiven \in Command
    BY DEF NotGiven, Command, Places, Pids
  <2>2. NoDaemon \in [state : DaemonState, save : {"no", "asked", "saving"},
                     failed : BOOLEAN]
    BY DEF NoDaemon, DaemonState
  <2>3. 0 \in 0..MaxCrashes
    BY LifecycleAssumption
  <2> QED
    BY <2>1, <2>2, <2>3 DEF Init, TypeOK, Pids
<1>2. RightOp /\ OneFork /\ StopKeepsTargets
  BY DEF Init, RightOp, OneFork, Forked, StopKeepsTargets, KeptBy, Stopping, At,
     NotGiven, NoDaemon
<1>3. OneByOne
  BY DEF Init, OneByOne, OneActive, HoldersAreNamed, PidFileNames, InStep, PastAlone,
     StopKnowsAll, Active, Holds, Alive, Stopped, At, PastPidFile, NotGiven, NoDaemon
<1> QED
  BY <1>1, <1>2, <1>3 DEF IInv

\* The invariant of the command line and the daemons, with overlapping commands,
\* crashes, hanging daemons and pids that are not written (Start, Stop, WritePidFile):
\* what a stop has found it keeps until it is gone or SIGKILL was sent, and while
\* commands are given one after the other a stop knows every daemon.  The pid file
\* and the daemons stay in step only while, besides, every pid is written.
THEOREM LifecycleInvariant == Spec => []IInv
<1>1. Init => IInv
  BY IInvInit
<1>2. IInv /\ [Next]_vars => IInv'
  BY IInvStep
<1> QED
  BY <1>1, <1>2, PTL DEF Spec

\* DaemonIsReachable (Start, WritePidFile, RunListener's clean-up): while commands
\* are given one after the other and every pid is written, a daemon that runs is the
\* one the pid file names or the one whose pid is about to be written, for any number
\* of commands and crashes.  WritePidFile may fail: then nothing is claimed, until a
\* start that finds no daemon at all has written its pid.
THEOREM DaemonIsReachableHolds == Spec => []DaemonIsReachable
<1>1. IInv => DaemonIsReachable
  BY LifecycleAssumption DEF IInv, DaemonIsReachable, OneByOne, HoldersAreNamed,
     PidFileNames, InStep, Holds, Alive, Stopped
<1> QED
  BY <1>1, LifecycleInvariant, PTL

\* Each daemon that a stop found is gone, or SIGKILL was sent to it, when the stop
\* returns; when no command ran beside another, every daemon, and no pid file is left.
StopEnds ==
  \A c \in Commands : command[c].op = "stop" /\ At(c, "stopAll")
                      /\ command'[c].pc = "done" =>
    /\ \A d \in command[c].found : Stopped(d)
    /\ ~overlapped => \A d \in Commands : Stopped(d) /\ pidFile' = None

\* StopIsThorough (Stop, FindSiblingProcessesByExecutable): a stop kills what it
\* found, also a daemon that hangs, and, when no other command ran beside it, every
\* daemon there is, also one whose pid was not written: for any number of commands,
\* daemons and crashes.
THEOREM StopIsThoroughHolds == Spec => StopIsThorough
<1>1. IInv /\ [Next]_vars => [StopEnds]_vars
  <2> SUFFICES ASSUME IInv, [Next]_vars,
                      NEW c \in Commands, At(c, "stopAll"), command'[c].pc = "done"
               PROVE  /\ \A d \in command[c].found : Stopped(d)
                      /\ ~overlapped => \A d \in Commands : Stopped(d) /\ pidFile' = None
    BY DEF StopEnds
  <2>1. RemoveFiles(c)
    BY OnlyRemoveFilesEnds DEF IInv
  <2>2. command[c].targets = {} /\ pidFile' = None
    BY <2>1 DEF RemoveFiles
  <2>3. \A d \in command[c].found : Stopped(d)
    BY <2>2 DEF IInv, StopKeepsTargets, KeptBy, Stopping
  <2>4. ~overlapped => \A d \in Commands : Stopped(d)
    BY <2>2 DEF IInv, OneByOne, StopKnowsAll
  <2> QED
    BY <2>2, <2>3, <2>4
<1>2. StopIsThorough <=> [][StopEnds]_vars
  BY DEF StopIsThorough, StopEnds
<1> QED
  BY <1>1, <1>2, LifecycleInvariant, PTL DEF Spec
=============================================================================
