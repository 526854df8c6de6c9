------------------------------ MODULE SaveCommand ------------------------------
(***************************************************************************)
(* `clipdeck save` and the daemon that answers it (core.cpp).              *)
(*                                                                         *)
(* The command sends SIGUSR1 and learns the outcome only from what it can  *)
(* see: a clip in the clip directory or a failure in the recorder's status *)
(* file, either modified since a second before it asked.  Main thread and  *)
(* worker of the daemon write the status file, each from a snapshot of its *)
(* own; saves of the keybind run in between.  A reselection, which starts a*)
(* new recorder and rewrites its status (core.cpp:537-548), and a daemon   *)
(* that ends while the command waits are left out.                         *)
(*                                                                         *)
(* A tick is a second: the main loop writes the status in every tick and a *)
(* waiting command has polled in every tick before it ends.                *)
(***************************************************************************)
EXTENDS Integers

CONSTANTS
  Commands,  \* the calls of `clipdeck save`
  Timeout,   \* ticks a command waits: max(30, 3 * clip_length_seconds)
  MaxKeys,   \* bound: saves asked for by the keybind
  MaxTime    \* bound: ticks

ASSUME CommandParameters ==
  Timeout \in Nat \ {0} /\ MaxKeys \in Nat /\ MaxTime \in Nat

VARIABLES
  now,         \* the clock
  healthy,     \* healthy_ of the recorder
  lastFailure, \* last_save_failure_: the save it tells of, or 0
  requested,   \* save_requested
  state,       \* state_ of the save controller
  worker,      \* where the save callback is and what it has read
  main,        \* the same for the main loop
  written,     \* the main loop has written the status in this tick
  status,      \* the recorder's status file
  clips,       \* the clip directory
  saves,       \* calls of SaveClip; the last one has this number
  keys,        \* presses of the keybind
  command,     \* per call of `clipdeck save`: where it is and what it knows
  ended        \* history: the last save whose outcome is in the status file

daemonVars == <<healthy, lastFailure, requested, state, worker, main, written,
                status, clips, saves, keys, ended>>
vars == <<now, daemonVars, command>>

Content == [failure : Nat, healthy : BOOLEAN]
Nothing == [failure |-> 0, healthy |-> TRUE]
Clips == [save : Nat, at : Nat, whole : BOOLEAN]
WorkerPCs == {"idle", "check", "compose", "publish", "copy", "read", "write",
              "end"}
Answers == {"none", "saved", "failed", "not ready", "not sent", "timeout"}
CommandRecord ==
  [pc : {"idle", "health", "signal", "clip", "status", "answered"},
   began : Nat, threshold : Int, deadline : Nat, asked : Nat,
   alone : BOOLEAN, polled : BOOLEAN, answer : Answers, about : Nat]

TypeOK ==
  /\ now \in 0..MaxTime
  /\ healthy \in BOOLEAN /\ requested \in BOOLEAN /\ written \in BOOLEAN
  /\ lastFailure \in 0..saves /\ saves \in Nat /\ keys \in 0..MaxKeys
  /\ state \in {"Idle", "Saving", "Pending"}
  /\ worker \in [pc : WorkerPCs, view : Content, at : 0..MaxTime]
  /\ main \in [pc : {"loop", "write"}, view : Content]
  /\ status \in [content : Content, at : 0..MaxTime]
  /\ clips \subseteq Clips
  /\ command \in [Commands -> CommandRecord]
  /\ ended \in [save : Nat, failed : BOOLEAN, at : 0..MaxTime]

Resting == [pc |-> "idle", view |-> Nothing, at |-> 0]
Looping == [pc |-> "loop", view |-> Nothing]

\* The recorder records and its status has been written once.
Init ==
  /\ now = 0
  /\ healthy = TRUE /\ lastFailure = 0 /\ requested = FALSE /\ state = "Idle"
  /\ worker = Resting
  /\ main = Looping
  /\ written = FALSE
  /\ status = [content |-> Nothing, at |-> 0]
  /\ clips = {} /\ saves = 0 /\ keys = 0
  /\ command = [c \in Commands |->
       [pc |-> "idle", began |-> 0, threshold |-> 0, deadline |-> 0,
        asked |-> 0, alone |-> FALSE, polled |-> FALSE, answer |-> "none",
        about |-> 0]]
  /\ ended = [save |-> 0, failed |-> FALSE, at |-> 0]

Recorder == [failure |-> lastFailure, healthy |-> healthy]

-----------------------------------------------------------------------------
(* Requests.                                                               *)

\* RequestSave: one save runs, one waits, a third is refused.
RequestSave ==
  state' = CASE state = "Idle"    -> "Saving"
             [] state = "Saving"  -> "Pending"
             [] state = "Pending" -> "Pending"

SaveKeybind ==
  /\ keys < MaxKeys
  /\ keys' = keys + 1
  /\ RequestSave
  /\ UNCHANGED <<now, healthy, lastFailure, requested, worker, main, written,
                 status, clips, saves, command, ended>>

\* The main loop finds the flag of SIGUSR1.
TakeRequest ==
  /\ main.pc = "loop" /\ requested
  /\ requested' = FALSE
  /\ RequestSave
  /\ UNCHANGED <<now, healthy, lastFailure, worker, main, written, status,
                 clips, saves, keys, command, ended>>

\* The captured stream ends (MonitorBus).
StreamEnds ==
  /\ healthy
  /\ healthy' = FALSE
  /\ UNCHANGED <<now, lastFailure, requested, state, worker, main, written,
                 status, clips, saves, keys, command, ended>>

-----------------------------------------------------------------------------
(* The save callback of the worker.                                        *)

BeginSave ==
  /\ worker.pc = "idle" /\ state # "Idle"
  /\ saves' = saves + 1
  /\ lastFailure' = 0
  /\ worker' = [worker EXCEPT !.pc = "check"]
  /\ UNCHANGED <<now, healthy, requested, state, main, written, status, clips,
                 keys, command, ended>>

\* Defect: a way out of SaveClip leaves no reason.
FailUntold ==
  /\ UNCHANGED lastFailure
  /\ worker' = [worker EXCEPT !.pc = "read"]

FailSave ==
  /\ lastFailure' = saves
  /\ worker' = [worker EXCEPT !.pc = "read"]

CheckHealth ==
  /\ worker.pc = "check"
  /\ IF healthy THEN /\ worker' = [worker EXCEPT !.pc = "compose"]
                     /\ UNCHANGED lastFailure
                ELSE FailSave
  /\ UNCHANGED <<now, healthy, requested, state, main, written, status, clips,
                 saves, keys, command, ended>>

\* The composed file keeps the time it was finished at.
Compose ==
  /\ worker.pc = "compose"
  /\ \/ /\ worker' = [worker EXCEPT !.pc = "publish", !.at = now]
        /\ UNCHANGED lastFailure
     \/ FailSave
  /\ UNCHANGED <<now, healthy, requested, state, main, written, status, clips,
                 saves, keys, command, ended>>

Clip(at, whole) == [save |-> saves, at |-> at, whole |-> whole]
Succeed == /\ lastFailure' = 0
           /\ worker' = [worker EXCEPT !.pc = "read"]

\* Renamed, or copied when the directory is on another file system.
Publish ==
  /\ worker.pc = "publish"
  /\ \/ /\ clips' = clips \cup {Clip(worker.at, TRUE)}
        /\ Succeed
     \/ /\ clips' = clips \cup {Clip(now, FALSE)}
        /\ worker' = [worker EXCEPT !.pc = "copy", !.at = now]
        /\ UNCHANGED lastFailure
  /\ UNCHANGED <<now, healthy, requested, state, main, written, status, saves,
                 keys, command, ended>>

\* A copy that fails stays as it is.
Copy ==
  /\ worker.pc = "copy"
  /\ \/ /\ clips' = (clips \ {Clip(worker.at, FALSE)}) \cup {Clip(now, TRUE)}
        /\ Succeed
     \/ /\ UNCHANGED clips
        /\ FailSave
  /\ UNCHANGED <<now, healthy, requested, state, main, written, status, saves,
                 keys, command, ended>>

WorkerReads ==
  /\ worker.pc = "read"
  /\ worker' = [worker EXCEPT !.pc = "write", !.view = Recorder]
  /\ UNCHANGED <<now, healthy, lastFailure, requested, state, main, written,
                 status, clips, saves, keys, command, ended>>

WriteRecorderStatusFile(content) ==
  status' = [content |-> content, at |-> now]

WorkerWrites ==
  /\ worker.pc = "write"
  /\ WriteRecorderStatusFile(worker.view)
  /\ worker' = [Resting EXCEPT !.pc = "end"]
  /\ ended' = [save |-> saves, failed |-> lastFailure # 0, at |-> now]
  /\ UNCHANGED <<now, healthy, lastFailure, requested, state, main, written,
                 clips, saves, keys, command>>

EndSave ==
  /\ worker.pc = "end"
  /\ worker' = Resting
  /\ state' = IF state = "Pending" THEN "Saving" ELSE "Idle"
  /\ UNCHANGED <<now, healthy, lastFailure, requested, main, written, status,
                 clips, saves, keys, command, ended>>

SaveCallback == BeginSave \/ CheckHealth \/ Compose \/ Publish \/ Copy
                \/ WorkerReads \/ WorkerWrites \/ EndSave

-----------------------------------------------------------------------------
(* The periodic status of the main loop.                                   *)

MainReads ==
  /\ main.pc = "loop"
  /\ main' = [pc |-> "write", view |-> Recorder]
  /\ UNCHANGED <<now, healthy, lastFailure, requested, state, worker, written,
                 status, clips, saves, keys, command, ended>>

MainWrites ==
  /\ main.pc = "write"
  /\ WriteRecorderStatusFile(main.view)
  /\ main' = Looping
  /\ written' = TRUE
  /\ UNCHANGED <<now, healthy, lastFailure, requested, state, worker, clips,
                 saves, keys, command, ended>>

-----------------------------------------------------------------------------
(* The command.                                                            *)

\* A writer truncates the file first: a reader may find it empty, which tells
\* of no failure.
BeingWritten == worker.pc = "write" \/ main.pc = "write"
Readings == {status.content} \cup (IF BeingWritten THEN {Nothing} ELSE {})

At(c, pc) == command[c].pc = pc
Answer(c, answer, about) ==
  command' = [command EXCEPT ![c].pc = "answered", ![c].answer = answer,
                             ![c].about = about]

\* Defect: two seconds before it asked.
EarlyThreshold == now - 2

\* save_requested_at
Threshold == now - 1

\* Other saves, and time, may pass between the three steps of Save.
SampleThreshold(c) ==
  /\ At(c, "idle")
  /\ command' = [command EXCEPT ![c] =
       [@ EXCEPT !.pc = "health", !.began = now, !.threshold = Threshold]]
  /\ UNCHANGED <<now, daemonVars>>

\* CurrentRecorderUnhealthyReason
ReadHealth(c) ==
  /\ At(c, "health")
  /\ \E content \in Readings :
       IF content.healthy
       THEN command' = [command EXCEPT ![c].pc = "signal"]
       ELSE Answer(c, "not ready", 0)
  /\ UNCHANGED <<now, daemonVars>>

\* Nothing else is going on, and no clip is younger than a second before the
\* command began.
Alone(c) == /\ state = "Idle" /\ ~requested
            /\ \A clip \in clips : clip.at < command[c].began - 1

SendSignal(c) ==
  /\ At(c, "signal")
  /\ requested' = TRUE
  /\ command' = [command EXCEPT ![c] =
       [@ EXCEPT !.pc = "clip", !.deadline = now + Timeout, !.asked = saves,
                 !.alone = Alone(c)]]
  /\ UNCHANGED <<now, healthy, lastFailure, state, worker, main, written,
                 status, clips, saves, keys, ended>>

\* The process has ended since the command looked for it.
SignalFails(c) ==
  /\ At(c, "signal")
  /\ Answer(c, "not sent", 0)
  /\ UNCHANGED <<now, daemonVars>>

Save(c) == SampleThreshold(c) \/ ReadHealth(c) \/ SendSignal(c)
           \/ SignalFails(c)

Waiting(c) == At(c, "clip") \/ At(c, "status")

Young(c) == {clip \in clips : clip.at >= command[c].threshold}

\* NewestClipModifiedAfter; a file that has just been created is empty and
\* passed over.
PollClip(c) ==
  /\ At(c, "clip") /\ now < command[c].deadline
  /\ \/ \E clip \in Young(c) :
          /\ \A other \in Young(c) : other.whole => other.at <= clip.at
          /\ Answer(c, "saved", clip.save)
     \/ /\ \A clip \in Young(c) : ~clip.whole
        /\ command' = [command EXCEPT ![c].pc = "status"]
  /\ UNCHANGED <<now, daemonVars>>

\* CurrentSaveFailure, of a status as young; of the four readings of a tick
\* one finds the file whole.
PollStatus(c) ==
  /\ At(c, "status")
  /\ \E content \in Readings :
       IF status.at >= command[c].threshold
          /\ (~content.healthy \/ content.failure # 0)
       THEN IF content.healthy THEN Answer(c, "failed", content.failure)
                               ELSE Answer(c, "not ready", 0)
       ELSE command' = [command EXCEPT ![c].pc = "clip",
              ![c].polled = @ \/ content = status.content]
  /\ UNCHANGED <<now, daemonVars>>

TimesOut(c) ==
  /\ At(c, "clip") /\ now >= command[c].deadline
  /\ Answer(c, "timeout", 0)
  /\ UNCHANGED <<now, daemonVars>>

-----------------------------------------------------------------------------

Tick ==
  /\ now < MaxTime
  /\ written /\ main.pc = "loop"
  /\ \A c \in Commands :
       Waiting(c) => At(c, "clip") /\ command[c].polled
                     /\ now < command[c].deadline
  /\ now' = now + 1
  /\ written' = FALSE
  /\ command' = [c \in Commands |-> [command[c] EXCEPT !.polled = FALSE]]
  /\ UNCHANGED <<healthy, lastFailure, requested, state, worker, main, status,
                 clips, saves, keys, ended>>

Next == \/ SaveKeybind \/ TakeRequest \/ StreamEnds \/ SaveCallback
        \/ MainReads \/ MainWrites \/ Tick
        \/ \E c \in Commands :
             Save(c) \/ PollClip(c) \/ PollStatus(c) \/ TimesOut(c)

Spec == Init /\ [][Next]_vars

-----------------------------------------------------------------------------
(* Properties.                                                             *)

Answered(c, answer) == command[c].answer = answer

\* When nothing else is going on as it asks, the clip a command reports was made
\* by a save that began after it had asked, though it knows clips by their time
\* only, accepts them from a second before its first step and reads the health of
\* the recorder before it sends the signal (core.cpp:673-687, 231).
SuccessIsOwn ==
  \A c \in Commands :
    Answered(c, "saved") /\ command[c].alone =>
      command[c].about > command[c].asked

\* A command gives up only when no save was through in time: what a save that
\* began after the request had put into the status file three ticks before the
\* deadline, a clip or a failure, is seen, unless another save began since and
\* cleared it.  Late snapshots of the main loop do not hide it for long
\* (core.cpp:305-330, 479-480, 553-560).
TimeoutMeansSlow ==
  \A c \in Commands :
    Answered(c, "timeout") /\ ended.save > command[c].asked
      /\ ended.at + 3 <= command[c].deadline =>
        ended.failed /\ saves > ended.save

\* "Daemon failed to save clip" (core.cpp:705) tells a command that asked while
\* nothing else was going on of the save that was begun for it.
FailureIsOwn ==
  \A c \in Commands :
    Answered(c, "failed") /\ command[c].alone =>
      command[c].about > command[c].asked
=============================================================================
