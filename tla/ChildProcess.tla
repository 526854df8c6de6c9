----------------------------- MODULE ChildProcess -----------------------------
(***************************************************************************)
(* The child processes of one clipdeck process and the threads that wait   *)
(* for them.  Every call forks at most one child, so call i has child i    *)
(* and, when it reads the child's output, pipe i.                          *)
(*                                                                         *)
(*   probe    pipe, fork, read to the end, waitpid: RunFfprobe and         *)
(*            ReadGrayFrame (media_probe.cpp), RunFfprobeDuration          *)
(*            (segment_file.cpp)                                           *)
(*   capture  the same, but what the child has written is handed on        *)
(*            however the child ended: RunCommandCapture (clip_muxer.cpp)  *)
(*   compose  fork into a process group of its own and wait with a time    *)
(*            limit: RunCommand (clip_muxer.cpp)                           *)
(*   shell    fork and wait with a time limit: RunShellCommand             *)
(*            (command_runner.cpp)                                         *)
(*   player   a detached thread that forks a sound player and waits for it *)
(*            (feedback_notifier.cpp)                                      *)
(*                                                                         *)
(* The pipes are made without O_CLOEXEC: a child keeps every write end the *)
(* process had open at the fork until it ends.                             *)
(***************************************************************************)
EXTENDS Integers, FiniteSets

CONSTANTS
  Workers,   \* threads that run probes and commands
  Kinds,     \* the kinds of call they make
  Players,   \* slots for detached player threads
  Output,    \* chunks the child of a probe or a capture writes
  Capacity,  \* chunks a pipe holds
  MaxCalls   \* bound: calls altogether

Threads == Workers \cup Players
Ids == 1..MaxCalls

ASSUME ChildParameters ==
  /\ Kinds \subseteq {"probe", "capture", "compose", "shell"}
  /\ Workers \cap Players = {}
  /\ Output \in Nat /\ Capacity \in Nat \ {0} /\ MaxCalls \in Nat

VARIABLES
  thread,   \* per thread: where it is and which call it runs
  kind,     \* per call: its kind
  child,    \* per call: its child
  data,     \* per call: chunks in its pipe
  got,      \* per call: chunks read
  open,     \* pipes whose write end this process has open
  result,   \* per call: what it returned
  calls,    \* calls begun
  quiet,    \* the last sound is less than kFeedbackRateLimit ago
  stopped,  \* somebody has sent SIGTERM to the process group
  strayed   \* history: a signal was sent to a process id that was given back

vars == <<thread, kind, child, data, got, open, result, calls, quiet, stopped,
          strayed>>

NoChild == [state |-> "none", hung |-> FALSE, own |-> FALSE, left |-> 0,
            holds |-> {}, status |-> "none"]

Init ==
  /\ thread = [t \in Threads |-> [pc |-> "idle", id |-> 0]]
  /\ kind = [i \in Ids |-> "none"]
  /\ child = [i \in Ids |-> NoChild]
  /\ data = [i \in Ids |-> 0] /\ got = [i \in Ids |-> 0]
  /\ open = {}
  /\ result = [i \in Ids |-> "none"]
  /\ calls = 0
  /\ quiet = FALSE /\ stopped = FALSE /\ strayed = FALSE

PCs == {"idle", "pipe", "fork", "setpgid", "close", "read", "wait", "poll",
        "terminate", "grace", "reap"}
AllKinds == {"none", "probe", "capture", "compose", "shell", "player"}
\* The calls that read their child's output through a pipe.
Piped == {"probe", "capture"}
ChildRecord == [state : {"none", "running", "zombie", "reaped"},
                hung : BOOLEAN, own : BOOLEAN, left : Nat,
                holds : SUBSET Ids,
                status : {"none", "ok", "fail", "killed"}]

TypeOK ==
  /\ thread \in [Threads -> [pc : PCs, id : 0..MaxCalls]]
  /\ kind \in [Ids -> AllKinds]
  /\ child \in [Ids -> ChildRecord]
  /\ data \in [Ids -> Nat] /\ got \in [Ids -> Nat]
  /\ open \subseteq Ids
  /\ result \in [Ids -> {"none", "ok", "fail", "timeout"}]
  /\ calls \in 0..MaxCalls
  /\ quiet \in BOOLEAN /\ stopped \in BOOLEAN /\ strayed \in BOOLEAN

-----------------------------------------------------------------------------
(* What happens to children.                                               *)

Running(i) == child[i].state = "running"
\* What a child is when it has ended: its descriptors are closed, it hangs no
\* more, and its process group is gone with it.
Dead(c, status) == [c EXCEPT !.state = "zombie", !.status = status,
                             !.holds = {}, !.hung = FALSE, !.own = FALSE]
Killed(c) == IF c.state = "running" THEN Dead(c, "killed") ELSE c
\* SIGTERM ends a child unless it handles or ignores it, as ffmpeg may and as
\* a child that has not come to exec does: it still has the daemon's handler.
Terminated(c) == {c, Killed(c)}
Reaped(c) == [c EXCEPT !.state = "reaped", !.own = FALSE]

\* Somebody can still write into pipe i.
Writable(i) == i \in open \/ \E j \in Ids : i \in child[j].holds

\* A capture does not look at the status it has waited for.
StatusIgnored(i) == kind[i] = "capture"

ExitResult(i) ==
  IF StatusIgnored(i) \/ child[i].status = "ok" THEN "ok" ELSE "fail"

\* The child writes a chunk; it sleeps while the pipe is full.
WriteChunk(i) ==
  /\ kind[i] \in Piped /\ Running(i)
  /\ child[i].left > 0 /\ data[i] < Capacity
  /\ child' = [child EXCEPT ![i].left = @ - 1]
  /\ data' = [data EXCEPT ![i] = @ + 1]
  /\ UNCHANGED <<thread, kind, got, open, result, calls, quiet, stopped,
                 strayed>>

\* The child ends by itself; with success only when all is written.  Also the
\* _Exit(127) of a child whose exec failed.
Exit(i) ==
  /\ Running(i) /\ ~child[i].hung
  /\ \E status \in {"fail"} \cup (IF child[i].left = 0 THEN {"ok"} ELSE {}) :
       child' = [child EXCEPT ![i] = Dead(@, status)]
  /\ UNCHANGED <<thread, kind, data, got, open, result, calls, quiet, stopped,
                 strayed>>

\* `clipdeck stop` signals the daemon's process group: everything in it but a
\* child with a group of its own.
GroupTerminated ==
  /\ ~stopped
  /\ stopped' = TRUE
  /\ \E ended \in SUBSET {i \in Ids : Running(i) /\ ~child[i].own} :
       child' = [i \in Ids |-> IF i \in ended THEN Killed(child[i])
                                              ELSE child[i]]
  /\ UNCHANGED <<thread, kind, data, got, open, result, calls, quiet, strayed>>

-----------------------------------------------------------------------------
(* What threads do.                                                        *)

At(t, pc) == thread[t].pc = pc
Call(t) == thread[t].id
Goto(t, pc) == thread' = [thread EXCEPT ![t].pc = pc]
Return(t, value) ==
  /\ Goto(t, "idle")
  /\ result' = [result EXCEPT ![Call(t)] = value]

Begin(t, k) ==
  /\ At(t, "idle") /\ calls < MaxCalls
  /\ calls' = calls + 1
  /\ thread' = [thread EXCEPT ![t] =
       [pc |-> IF k \in Piped THEN "pipe" ELSE "fork", id |-> calls + 1]]
  /\ kind' = [kind EXCEPT ![calls + 1] = k]
  /\ UNCHANGED <<child, data, got, open, result, stopped, strayed>>

BeginCall(t) == t \in Workers /\ \E k \in Kinds : Begin(t, k) /\ UNCHANGED quiet

\* The rate limit is looked at and set in one critical section.
NotifyKeybindAccepted(t) ==
  /\ t \in Players
  /\ ~quiet /\ quiet' = TRUE
  /\ Begin(t, "player")

RateLimitPasses ==
  /\ quiet /\ quiet' = FALSE
  /\ UNCHANGED <<thread, kind, child, data, got, open, result, calls, stopped,
                 strayed>>

MakePipe(t) ==
  /\ At(t, "pipe")
  /\ \/ /\ open' = open \cup {Call(t)}
        /\ Goto(t, "fork") /\ UNCHANGED result
     \/ Return(t, "fail") /\ UNCHANGED open
  /\ UNCHANGED <<kind, child, data, got, calls, quiet, stopped, strayed>>

AfterFork == [probe |-> "close", capture |-> "close", compose |-> "setpgid",
              shell |-> "poll", player |-> "wait"]

\* The child gets every write end that is open, its own and those of others.
Fork(t) ==
  /\ At(t, "fork")
  /\ LET i == Call(t)
     IN  \/ /\ \E hung \in BOOLEAN :
                 child' = [child EXCEPT ![i] =
                   [state |-> "running", hung |-> hung, own |-> FALSE,
                    left |-> IF kind[i] \in Piped THEN Output ELSE 0,
                    holds |-> open, status |-> "none"]]
            /\ Goto(t, AfterFork[kind[i]])
            /\ UNCHANGED <<open, result>>
         \/ /\ Return(t, "fail")
            /\ open' = open \ {i}
            /\ UNCHANGED child
  /\ UNCHANGED <<kind, data, got, calls, quiet, stopped, strayed>>

\* Defect: the parent keeps its write end.
KeepWriteEnd(t) ==
  /\ At(t, "close")
  /\ Goto(t, "read")
  /\ UNCHANGED <<kind, child, data, got, open, result, calls, quiet, stopped,
                 strayed>>

CloseWriteEnd(t) ==
  /\ At(t, "close")
  /\ open' = open \ {Call(t)}
  /\ Goto(t, "read")
  /\ UNCHANGED <<kind, child, data, got, result, calls, quiet, stopped,
                 strayed>>

ReadOutput(t) ==
  /\ At(t, "read") /\ data[Call(t)] > 0
  /\ data' = [data EXCEPT ![Call(t)] = @ - 1]
  /\ got' = [got EXCEPT ![Call(t)] = @ + 1]
  /\ UNCHANGED <<thread, kind, child, open, result, calls, quiet, stopped,
                 strayed>>

\* Defect: one read is taken for the whole output.
ReadOnce(t) ==
  /\ At(t, "read") /\ data[Call(t)] = 0 /\ got[Call(t)] > 0
  /\ Goto(t, "wait")
  /\ UNCHANGED <<kind, child, data, got, open, result, calls, quiet, stopped,
                 strayed>>

\* read returns 0 only when nobody has the write end any more.
ReadEnd(t) ==
  /\ At(t, "read") /\ data[Call(t)] = 0 /\ ~Writable(Call(t))
  /\ Goto(t, "wait")
  /\ UNCHANGED <<kind, child, data, got, open, result, calls, quiet, stopped,
                 strayed>>

\* waitpid of the child, which has ended: the process id is given back.
Collect(t, from, value) ==
  /\ At(t, from) /\ child[Call(t)].state = "zombie"
  /\ child' = [child EXCEPT ![Call(t)] = Reaped(@)]
  /\ Return(t, value)
  /\ UNCHANGED <<kind, data, got, open, calls, quiet, stopped, strayed>>

WaitForChild(t) == Collect(t, "wait", ExitResult(Call(t)))

\* setpgid is called on both sides of the fork; whichever is first.
ParentSetsGroup(t) ==
  /\ At(t, "setpgid")
  /\ child' = [child EXCEPT ![Call(t)].own = TRUE]
  /\ Goto(t, "poll")
  /\ UNCHANGED <<kind, data, got, open, result, calls, quiet, stopped, strayed>>

ChildSetsGroup(i) ==
  /\ kind[i] = "compose" /\ Running(i) /\ ~child[i].own
  /\ child' = [child EXCEPT ![i].own = TRUE]
  /\ UNCHANGED <<thread, kind, data, got, open, result, calls, quiet, stopped,
                 strayed>>

\* waitpid(WNOHANG) until the time limit.
PollChild(t) == Collect(t, "poll", ExitResult(Call(t)))

\* kill(pid, ...) from a thread; after is what the child may be then.
SendSignal(t, after, to) ==
  /\ \E c \in after : child' = [child EXCEPT ![Call(t)] = c]
  /\ strayed' = (strayed \/ child[Call(t)].state \notin {"running", "zombie"})
  /\ Goto(t, to)
  /\ UNCHANGED <<kind, data, got, open, result, calls, quiet, stopped>>

\* The time limit, whatever the child has become since the last look at it.
TimeLimit(t) ==
  /\ At(t, "poll")
  /\ SendSignal(t, Terminated(child[Call(t)]),
                IF kind[Call(t)] = "compose" THEN "terminate" ELSE "grace")

\* ffmpeg has two seconds to end; its exit status no longer counts.
PollTerminated(t) == Collect(t, "terminate", "timeout")

\* Defect: the shell's process is collected during the 250 ms.
KillCollected(t) ==
  \/ /\ At(t, "terminate") \/ At(t, "grace")
     /\ SendSignal(t, {Killed(child[Call(t)])}, "reap")
  \/ /\ At(t, "grace") /\ child[Call(t)].state = "zombie"
     /\ child' = [child EXCEPT ![Call(t)] = Reaped(@)]
     /\ UNCHANGED <<thread, kind, data, got, open, result, calls, quiet,
                    stopped, strayed>>

\* Two seconds for ffmpeg, 250 ms without a look at it for the shell.
KillChild(t) ==
  /\ At(t, "terminate") \/ At(t, "grace")
  /\ SendSignal(t, {Killed(child[Call(t)])}, "reap")

\* Defect: the killed child is not waited for.
LeaveKilled(t) ==
  /\ At(t, "reap")
  /\ Return(t, "timeout")
  /\ UNCHANGED <<kind, child, data, got, open, calls, quiet, stopped, strayed>>

ReapKilled(t) == Collect(t, "reap", "timeout")

Step(t) ==
  \/ MakePipe(t) \/ Fork(t) \/ CloseWriteEnd(t) \/ ReadOutput(t) \/ ReadEnd(t)
  \/ WaitForChild(t) \/ ParentSetsGroup(t) \/ PollChild(t) \/ TimeLimit(t)
  \/ PollTerminated(t) \/ KillChild(t) \/ ReapKilled(t)

Next ==
  \/ \E t \in Threads : BeginCall(t) \/ NotifyKeybindAccepted(t) \/ Step(t)
  \/ \E i \in Ids : WriteChunk(i) \/ Exit(i) \/ ChildSetsGroup(i)
  \/ GroupTerminated \/ RateLimitPasses

\* Threads run, deadlines pass, and a child that is not hung gets on.
Fairness ==
  /\ \A t \in Threads : WF_vars(Step(t))
  /\ \A i \in Ids : WF_vars(WriteChunk(i)) /\ WF_vars(Exit(i))

Spec == Init /\ [][Next]_vars /\ Fairness

-----------------------------------------------------------------------------
(* Properties.                                                             *)

\* A signal never goes to a process id that was given back and may belong to
\* a stranger by now: no way through the time limits sends one after waitpid
\* has collected the child (clip_muxer.cpp:197-214, command_runner.cpp:43-46).
SignalsHitOwnChild == ~strayed

\* When a call returns, on any of its ways out, its child is gone and has been
\* collected: nothing goes on writing into the staging directory that is
\* removed next, and no zombie stays (clip_muxer.cpp:180-216).
NothingRunsAfterReturn ==
  \A i \in Ids : result[i] # "none" => child[i].state \in {"none", "reaped"}

\* Success is reported only for a child that ended by itself with success, and
\* a probe then has all its output, though the status is read after the
\* output and signals may end the child between (media_probe.cpp:99-123).  A
\* capture promises less: it hands on what its child wrote, to the last chunk,
\* but that child may have failed or been killed half way
\* (clip_muxer.cpp:307-309), and the list of encoders it asked for is then
\* short for as long as the process lives (clip_muxer.cpp:320-323).
SuccessIsComplete ==
  \A i \in Ids :
    result[i] = "ok" =>
      IF kind[i] = "capture" THEN got[i] = Output - child[i].left
      ELSE /\ child[i].status = "ok"
           /\ kind[i] = "probe" => got[i] = Output

\* A process that hangs and for which a call waits without a limit: the child
\* of a probe or a capture, or whoever has inherited the write end of the probe's pipe.
StuckOn(i) ==
  \E j \in Ids :
    /\ Running(j) /\ child[j].hung /\ kind[j] \in Piped \cup {"player"}
    /\ j = i \/ i \in child[j].holds

\* Every call returns, with a time limit whatever its child does, and without
\* one unless the child or a player that inherited its pipe hangs: full pipes,
\* inherited descriptors and ignored signals do not block it.
CallsReturn ==
  \A i \in Ids :
    (i <= calls /\ result[i] = "none") ~> (result[i] # "none" \/ StuckOn(i))
=============================================================================
