------------------------------ MODULE Lifecycle ------------------------------
(***************************************************************************)
(* The daemon as the command line sees it (core.cpp, process.cpp): the     *)
(* process table, the pid file and the recorder status file, used by the   *)
(* commands start, stop, restart, save, choose and status, each a process  *)
(* of its own, and by the daemons.                                         *)
(*                                                                         *)
(* A process id is never used again.  What a daemon does between its start *)
(* and its end is the module Daemon; here it is there or not.  A write of  *)
(* the pid file truncates it first, and an empty file reads as no pid.     *)
(* Writes, removals and signals may fail, and most results are not looked  *)
(* at: astray, spared and swept record where that leaves something behind. *)
(***************************************************************************)
EXTENDS Integers, FiniteSets

CONSTANTS
  Clis,          \* shells: each runs one command at a time
  Commands,      \* the commands they use
  MaxCommands,   \* bound: commands altogether
  MaxOverlaps,   \* bound: commands begun while another is under way
  MaxDaemons     \* bound: daemons altogether

Pids == 1..MaxDaemons
NoPid == 0
AllCommands == {"start", "stop", "restart", "save", "choose", "status"}

ASSUME LifecycleParameters ==
  /\ Commands \subseteq AllCommands /\ MaxCommands \in Nat /\ MaxDaemons \in Nat
  /\ MaxOverlaps \in Nat

VARIABLES
  daemon,     \* per pid: what has become of it
  pid_file,   \* NoPid also when the file is empty or not there
  status,     \* the pid whose recorder status the file holds, or NoPid
  cli,        \* per shell: the command it runs and its locals
  commands,   \* commands begun
  overlaps,   \* commands begun while another was under way
  old,        \* daemons whose executable was replaced after it was loaded
  shot,       \* history: daemons ended by the signal of a save or a choice
  astray      \* history: daemons whose pid file could not be written, that a
              \* stop could not end, or whose file one of these has removed

vars == <<daemon, pid_file, status, cli, commands, overlaps, old, shot, astray>>

\* young: the signal handlers are not installed yet; leaving: told to stop;
\* last: RunListener has returned, the pid file is about to be removed;
\* exiting: it is removed, _Exit is about to be called.
States == {"unborn", "young", "up", "leaving", "last", "exiting", "dead"}
Alive == {d \in Pids : daemon[d] \notin {"unborn", "dead"}}
Born == {d \in Pids : daemon[d] # "unborn"}
IsProcessRunning(p) == p \in Alive

\* The last four are histories of a stop: the daemons born before it began,
\* those it could not end, that it has come to its end, and that it has removed
\* the status file.
Idle == [pc |-> "idle", command |-> "none", pid |-> NoPid, target |-> NoPid,
         others |-> {}, clis |-> {}, then |-> "idle",
         before |-> {}, spared |-> {}, complete |-> FALSE, swept |-> FALSE]

PCs == {"idle", "read", "fork", "truncate", "write", "term", "wait", "kill",
        "scan", "next", "forget pid", "forget status", "signal"}

TypeOK ==
  /\ daemon \in [Pids -> States]
  /\ pid_file \in {NoPid} \cup Pids /\ status \in {NoPid} \cup Pids
  /\ \A c \in Clis :
       /\ cli[c].pc \in PCs
       /\ cli[c].command \in {"none"} \cup AllCommands
       /\ cli[c].pid \in {NoPid} \cup Pids /\ cli[c].target \in {NoPid} \cup Pids
       /\ cli[c].others \subseteq Pids /\ cli[c].clis \subseteq Clis
       /\ cli[c].spared \subseteq Pids
       /\ cli[c].then \in {"read", "idle"}
  /\ commands \in 0..MaxCommands /\ overlaps \in 0..MaxOverlaps
  /\ old \subseteq Pids /\ shot \subseteq Pids /\ astray \subseteq Pids

Init ==
  /\ daemon = [d \in Pids |-> "unborn"]
  /\ pid_file = NoPid /\ status = NoPid
  /\ cli = [c \in Clis |-> Idle]
  /\ commands = 0 /\ overlaps = 0
  /\ old = {} /\ shot = {} /\ astray = {}

At(c, pc) == cli[c].pc = pc
Goto(c, pc) == cli' = [cli EXCEPT ![c].pc = pc]
\* What a command leaves, its histories when it is one that stops daemons.
Ended(k) ==
  IF k.complete
  THEN [Idle EXCEPT !.before = k.before, !.spared = k.spared,
                    !.complete = TRUE, !.swept = k.swept]
  ELSE Idle
End(c) == cli' = [cli EXCEPT ![c] = Ended(@)]

\* A command is under way.
Busy(o) == cli[o].pc # "idle"

-----------------------------------------------------------------------------
(* A command reads the pid file and goes its way.                          *)

Begin(c) ==
  /\ At(c, "idle")
  /\ commands < MaxCommands
  /\ commands' = commands + 1
  /\ IF \E o \in Clis : Busy(o)
     THEN overlaps < MaxOverlaps /\ overlaps' = overlaps + 1
     ELSE UNCHANGED overlaps
  /\ \E command \in Commands :
       cli' = [cli EXCEPT ![c] =
         [Idle EXCEPT !.pc = "read", !.command = command,
            !.before = IF command \in {"stop", "restart"} THEN Born ELSE {}]]
  /\ UNCHANGED <<daemon, pid_file, status, old, shot, astray>>

\* Start, also the second half of a restart.
ReadToStart(c) ==
  /\ At(c, "read") /\ cli[c].command = "start"
  /\ IF IsProcessRunning(pid_file) THEN End(c) ELSE Goto(c, "fork")
  /\ UNCHANGED <<daemon, pid_file, status, commands, overlaps, old, shot,
                 astray>>

ReadToStop(c) ==
  /\ At(c, "read") /\ cli[c].command \in {"stop", "restart"}
  /\ cli' = [cli EXCEPT ![c].pid = pid_file, ![c].target = pid_file,
               ![c].pc = IF IsProcessRunning(pid_file) THEN "term" ELSE "scan"]
  /\ UNCHANGED <<daemon, pid_file, status, commands, overlaps, old, shot,
                 astray>>

\* Defect: the pid file is removed whether or not its process is gone.
ReadToForget(c) ==
  /\ At(c, "read") /\ cli[c].command \in {"save", "choose", "status"}
  /\ cli' = [cli EXCEPT ![c].pid = pid_file,
               ![c].pc = IF pid_file # NoPid THEN "forget pid" ELSE "idle"]
  /\ UNCHANGED <<daemon, pid_file, status, commands, overlaps, old, shot,
                 astray>>

\* Save, ChooseCapture and Status begin alike: a pid file of a process that is
\* gone is removed with the status files.  A save then uses the segments that
\* are left, a choice starts a daemon.
ReadToUse(c) ==
  /\ At(c, "read") /\ cli[c].command \in {"save", "choose", "status"}
  /\ LET running == IsProcessRunning(pid_file)
         choose == cli[c].command = "choose"
     IN  \/ running /\ cli[c].command = "status" /\ End(c)
         \/ /\ running /\ cli[c].command # "status"
            /\ cli' = [cli EXCEPT ![c].pid = pid_file, ![c].pc = "signal"]
         \/ /\ ~running /\ pid_file # NoPid
            /\ cli' = [cli EXCEPT ![c].pid = pid_file, ![c].pc = "forget pid",
                 ![c].then = IF choose THEN "read" ELSE "idle",
                 ![c].command = IF choose THEN "start" ELSE @]
         \/ /\ ~running /\ pid_file = NoPid /\ choose
            /\ cli' = [cli EXCEPT ![c].command = "start"]
         \/ ~running /\ pid_file = NoPid /\ ~choose /\ End(c)
  /\ UNCHANGED <<daemon, pid_file, status, commands, overlaps, old, shot,
                 astray>>

-----------------------------------------------------------------------------
(* Start.                                                                  *)

Fork(c) ==
  /\ At(c, "fork")
  /\ \E d \in Pids :
       /\ daemon[d] = "unborn" /\ \A e \in 1..(d - 1) : daemon[e] # "unborn"
       /\ daemon' = [daemon EXCEPT ![d] = "young"]
       /\ cli' = [cli EXCEPT ![c].pid = d, ![c].pc = "truncate"]
  /\ UNCHANGED <<pid_file, status, commands, overlaps, old, shot, astray>>

\* The clip directory cannot be created, or fork fails.
NoFork(c) ==
  /\ At(c, "fork")
  /\ End(c)
  /\ UNCHANGED <<daemon, pid_file, status, commands, overlaps, old, shot,
                 astray>>

TruncatePidFile(c) ==
  /\ At(c, "truncate")
  /\ pid_file' = NoPid
  /\ Goto(c, "write")
  /\ UNCHANGED <<daemon, status, commands, overlaps, old, shot, astray>>

WritePidFile(c) ==
  /\ At(c, "write")
  /\ pid_file' = cli[c].pid
  /\ End(c)
  /\ UNCHANGED <<daemon, status, commands, overlaps, old, shot, astray>>

\* The file cannot be opened, or not be written when it is empty already.  The
\* daemon runs on, Start does not look at the result.
PidFileNotWritten(c) ==
  /\ At(c, "truncate") \/ At(c, "write")
  /\ astray' = astray \cup {cli[c].pid}
  /\ End(c)
  /\ UNCHANGED <<daemon, pid_file, status, commands, overlaps, old, shot>>

-----------------------------------------------------------------------------
(* Stop: the process of the pid file first, then whatever runs the same    *)
(* executable, commands in other shells included.                          *)

\* SIGTERM ends a daemon that has no handlers yet; another one leaves.
Terminate(d) ==
  IF daemon[d] = "young" THEN [daemon EXCEPT ![d] = "dead"]
  ELSE IF daemon[d] = "up" THEN [daemon EXCEPT ![d] = "leaving"]
  ELSE daemon

AfterTarget(c) == IF cli[c].target = cli[c].pid THEN "scan" ELSE "next"

\* StopClipDeckProcess returns false and Stop goes on.
Spare(c) ==
  /\ cli' = [cli EXCEPT ![c].pc = AfterTarget(c),
                        ![c].spared = @ \cup {cli[c].target}]
  /\ UNCHANGED daemon

\* There is nothing to signal when the process has ended since it was looked at.
RequestStop(c) ==
  /\ At(c, "term")
  /\ \/ /\ IsProcessRunning(cli[c].target)
        /\ \/ daemon' = Terminate(cli[c].target) /\ Goto(c, "wait")
           \/ Spare(c)
     \/ /\ ~IsProcessRunning(cli[c].target)
        /\ Goto(c, AfterTarget(c)) /\ UNCHANGED daemon
  /\ UNCHANGED <<pid_file, status, commands, overlaps, old, shot, astray>>

WaitForProcessExit(c) ==
  /\ At(c, "wait") /\ ~IsProcessRunning(cli[c].target)
  /\ Goto(c, AfterTarget(c))
  /\ UNCHANGED <<daemon, pid_file, status, commands, overlaps, old, shot,
                 astray>>

FiveSecondsPass(c) ==
  /\ At(c, "wait") /\ IsProcessRunning(cli[c].target)
  /\ Goto(c, "kill")
  /\ UNCHANGED <<daemon, pid_file, status, commands, overlaps, old, shot,
                 astray>>

\* SIGKILL cannot be sent, or the process is there for two more seconds: it is
\* spared.
ForceStop(c) ==
  /\ At(c, "kill")
  /\ \/ /\ IsProcessRunning(cli[c].target)
        /\ \/ /\ daemon' = [daemon EXCEPT ![cli[c].target] = "dead"]
              /\ Goto(c, AfterTarget(c))
           \/ Spare(c)
     \/ /\ ~IsProcessRunning(cli[c].target)
        /\ Goto(c, AfterTarget(c)) /\ UNCHANGED daemon
  /\ UNCHANGED <<pid_file, status, commands, overlaps, old, shot, astray>>

\* Defect: only the process of the pid file is stopped.
ScanNothing(c) ==
  /\ At(c, "scan")
  /\ Goto(c, "next")
  /\ UNCHANGED <<daemon, pid_file, status, commands, overlaps, old, shot,
                 astray>>

\* The link of a process whose executable was replaced, by a rebuild or an
\* update, ends in "(deleted)" and is not that of the command.
FindSiblings(c) ==
  /\ At(c, "scan")
  /\ LET siblings == Alive \ {cli[c].pid}
     IN  cli' = [cli EXCEPT ![c].pc = "next", ![c].others = siblings \ old,
                   ![c].clis = {o \in Clis \ {c} : Busy(o)},
                   ![c].spared = @ \cup (siblings \cap old)]
  /\ UNCHANGED <<daemon, pid_file, status, commands, overlaps, old, shot,
                 astray>>

StopSibling(c) ==
  /\ At(c, "next")
  /\ \E d \in cli[c].others :
       cli' = [cli EXCEPT ![c].others = @ \ {d}, ![c].target = d,
                 ![c].pc = IF IsProcessRunning(d) THEN "term" ELSE "next"]
  /\ UNCHANGED <<daemon, pid_file, status, commands, overlaps, old, shot,
                 astray>>

\* SIGTERM ends a command wherever it is, if it can be sent.
StopCommand(c) ==
  /\ At(c, "next")
  /\ \E o \in cli[c].clis, ended \in BOOLEAN :
       cli' = [cli EXCEPT ![c].clis = @ \ {o},
                          ![o] = IF Busy(o) /\ ended THEN Idle ELSE @]
  /\ UNCHANGED <<daemon, pid_file, status, commands, overlaps, old, shot,
                 astray>>

SiblingsDone(c) ==
  /\ At(c, "next")
  /\ cli[c].others = {} /\ cli[c].clis = {}
  /\ Goto(c, "forget pid")
  /\ UNCHANGED <<daemon, pid_file, status, commands, overlaps, old, shot,
                 astray>>

Stopping(c) == cli[c].command \in {"stop", "restart"}

\* What Stop removes at its end, and the other commands when the process of
\* the pid file they read is gone, without looking at the file again nor at
\* the error.
ForgetPid(c) ==
  /\ At(c, "forget pid")
  /\ pid_file' \in {NoPid, pid_file}
  /\ astray' = astray \cup (IF Stopping(c) THEN cli[c].spared ELSE {})
  /\ Goto(c, "forget status")
  /\ UNCHANGED <<daemon, status, commands, overlaps, old, shot>>

\* A restart goes on with Start, which reads the pid file for itself.
ForgetStatus(c) ==
  /\ At(c, "forget status")
  /\ \E removed \in BOOLEAN :
       LET k == [cli[c] EXCEPT
             !.complete = Stopping(c), !.swept = Stopping(c) /\ removed,
             !.command = IF @ = "restart" THEN "start" ELSE @,
             !.pc = IF cli[c].command = "restart" THEN "read" ELSE cli[c].then]
       IN  /\ status' = IF removed THEN NoPid ELSE status
           /\ cli' = [cli EXCEPT ![c] = IF k.pc = "idle" THEN Ended(k) ELSE k]
  /\ UNCHANGED <<daemon, pid_file, commands, overlaps, old, shot, astray>>

-----------------------------------------------------------------------------
(* Save and choose with a daemon, and the daemon itself.                   *)

\* A save goes no further when the status says unhealthy; kill fails when the
\* process is gone.  The signal ends a daemon without handlers.
Signal(c) ==
  /\ At(c, "signal")
  /\ End(c)
  /\ IF daemon[cli[c].pid] = "young"
     THEN /\ daemon' = [daemon EXCEPT ![cli[c].pid] = "dead"]
          /\ shot' = shot \cup {cli[c].pid}
     ELSE UNCHANGED <<daemon, shot>>
  /\ UNCHANGED <<pid_file, status, commands, overlaps, old, astray>>

Unhealthy(c) ==
  /\ At(c, "signal") /\ cli[c].command = "save"
  /\ status # NoPid
  /\ End(c)
  /\ UNCHANGED <<daemon, pid_file, status, commands, overlaps, old, shot,
                 astray>>

InstallHandlers(d) ==
  /\ daemon[d] = "young"
  /\ daemon' = [daemon EXCEPT ![d] = "up"]
  /\ UNCHANGED <<pid_file, status, cli, commands, overlaps, old, shot, astray>>

WriteRecorderStatus(d) ==
  /\ daemon[d] \in {"up", "leaving"}
  /\ status' = d
  /\ UNCHANGED <<daemon, pid_file, cli, commands, overlaps, old, shot, astray>>

\* The stop keybind, or the end of a captured window.
Leave(d) ==
  /\ daemon[d] = "up"
  /\ daemon' = [daemon EXCEPT ![d] = "leaving"]
  /\ UNCHANGED <<pid_file, status, cli, commands, overlaps, old, shot, astray>>

\* The last status of the two files, then the return of RunListener.
RunListenerReturns(d) ==
  /\ daemon[d] = "leaving"
  /\ daemon' = [daemon EXCEPT ![d] = "last"]
  /\ status' = d
  /\ UNCHANGED <<pid_file, cli, commands, overlaps, old, shot, astray>>

\* Whoever the file names, and whether or not it can be removed.
RemovePidFile(d) ==
  /\ daemon[d] = "last"
  /\ pid_file' \in {NoPid, pid_file}
  /\ astray' = astray \cup (IF d \in astray THEN {pid_file} \ {NoPid} ELSE {})
  /\ daemon' = [daemon EXCEPT ![d] = "exiting"]
  /\ UNCHANGED <<status, cli, commands, overlaps, old, shot>>

Exit(d) ==
  /\ daemon[d] = "exiting"
  /\ daemon' = [daemon EXCEPT ![d] = "dead"]
  /\ UNCHANGED <<pid_file, status, cli, commands, overlaps, old, shot, astray>>

Crash(d) ==
  /\ IsProcessRunning(d)
  /\ daemon' = [daemon EXCEPT ![d] = "dead"]
  /\ UNCHANGED <<pid_file, status, cli, commands, overlaps, old, shot, astray>>

\* The executable is replaced on disk, while no command of the old one is under
\* way.
Replace ==
  /\ \A c \in Clis : ~Busy(c)
  /\ old' = Alive
  /\ UNCHANGED <<daemon, pid_file, status, cli, commands, overlaps, shot,
                 astray>>

Command(c) ==
  \/ ReadToStart(c) \/ ReadToStop(c) \/ ReadToUse(c)
  \/ Fork(c) \/ NoFork(c) \/ TruncatePidFile(c) \/ WritePidFile(c)
  \/ PidFileNotWritten(c) \/ RequestStop(c) \/ WaitForProcessExit(c)
  \/ FiveSecondsPass(c) \/ ForceStop(c) \/ FindSiblings(c)
  \/ StopSibling(c) \/ StopCommand(c) \/ SiblingsDone(c)
  \/ ForgetPid(c) \/ ForgetStatus(c) \/ Signal(c) \/ Unhealthy(c)

Process(d) ==
  \/ InstallHandlers(d) \/ WriteRecorderStatus(d) \/ Leave(d)
  \/ RunListenerReturns(d) \/ RemovePidFile(d) \/ Exit(d) \/ Crash(d)

Next ==
  \/ \E c \in Clis : Begin(c) \/ Command(c)
  \/ \E d \in Pids : Process(d)
  \/ Replace

Spec == Init /\ [][Next]_vars /\ \A c \in Clis : WF_vars(Command(c))

-----------------------------------------------------------------------------
(* Properties.                                                             *)

\* When commands come one at a time, a daemon that lives is the one the pid file
\* names, and so the one the next command signals or stops: neither a crash,
\* nor a start that failed, nor an exit that crosses a start loses it
\* (core.cpp:404, 425, 606, 636).  Only three things do: its file could not be
\* written, a stop could not end it and removed the file all the same, or a
\* daemon gone astray has ended and removed the file of its successor.
PidFileNamesDaemon ==
  overlaps = 0 /\ (\A c \in Clis : ~Busy(c)) =>
    \A d \in Alive : pid_file = d \/ daemon[d] = "exiting" \/ d \in astray

\* A stop that came to its end has ended every daemon there was when it began,
\* the one of the pid file and those nobody names (core.cpp:589-606), though
\* other commands start, stop and signal daemons meanwhile; but for those that
\* could not be signalled, outlived SIGKILL or had been loaded from another
\* executable.  The status it removes then does not come back from one of them.
StopStops ==
  \A c \in Clis : cli[c].complete =>
    /\ cli[c].before \cap Alive \subseteq cli[c].spared
    /\ cli[c].swept => status \notin cli[c].before \ cli[c].spared

\* A save or a choice that is requested reaches a daemon that can take it: the
\* signal never ends a daemon.
RequestsDoNotKill == shot = {}
=============================================================================
