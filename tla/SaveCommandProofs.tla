-------------------------- MODULE SaveCommandProofs --------------------------
(***************************************************************************)
(* For any number of commands, any time limit and any length of the run:   *)
(* the types; that a command which asked while nothing else was going on   *)
(* reports a clip of a save that began after it had asked; and that a      *)
(* command gives up only when no save was through in time.                 *)
(*                                                                         *)
(* The daemon tells nobody which request a clip belongs to.  What makes    *)
(* the time of a clip enough is that the worker touches the directory only *)
(* between the beginning of a save and its end (Own): as long as no save   *)
(* has begun since the request, the worker rests.                          *)
(*                                                                         *)
(* What makes the status file enough is that each of its two writers holds *)
(* a snapshot for less than a tick: one tick after a save has failed, no   *)
(* snapshot from before is left to be written (FailureWritten).            *)
(***************************************************************************)
EXTENDS SaveCommand, TLAPS

\* TypeOK in parts.
Switches == healthy \in BOOLEAN /\ requested \in BOOLEAN /\ written \in BOOLEAN
Counts == /\ now \in 0..MaxTime
          /\ lastFailure \in 0..saves /\ saves \in Nat /\ keys \in 0..MaxKeys
          /\ state \in {"Idle", "Saving", "Pending"}
WorkerType == worker \in [pc : WorkerPCs, view : Content, at : 0..MaxTime]
MainType == main \in [pc : {"loop", "write"}, view : Content]
StatusType == status \in [content : Content, at : 0..MaxTime]
ClipsType == clips \subseteq Clips
CommandType == command \in [Commands -> CommandRecord]
EndedType == ended \in [save : Nat, failed : BOOLEAN, at : 0..MaxTime]

Types == /\ Switches /\ Counts /\ WorkerType /\ MainType /\ StatusType
         /\ ClipsType /\ CommandType /\ EndedType

\* The controller is idle only when the worker rests, and a clip is that of
\* the last save or of an earlier one.
Quiet == /\ state = "Idle" => worker.pc = "idle"
         /\ \A clip \in clips : clip.save <= saves

\* What a command that asked alone can rely on.
OwnClip(c) ==
  /\ command[c].asked <= saves
  /\ saves = command[c].asked => worker.pc = "idle"
  /\ \A clip \in clips :
       clip.save <= command[c].asked => clip.at < command[c].threshold
  /\ command[c].answer = "saved" => command[c].about > command[c].asked

Own == \A c \in Commands : command[c].alone => OwnClip(c)

\* What a command knows before it waits, and while it does.
Asking ==
  \A c \in Commands :
    /\ command[c].pc # "answered" => command[c].answer = "none"
    /\ command[c].pc \in {"idle", "health", "signal"} => ~command[c].alone
    /\ command[c].pc \in {"health", "signal"} =>
         command[c].threshold = command[c].began - 1

IInv == Types /\ Quiet /\ Own /\ Asking

LEMMA Numbers == MaxTime \in Nat /\ MaxKeys \in Nat /\ Timeout \in Nat
  BY CommandParameters DEF CommandParameters

LEMMA RecorderType == Switches /\ Counts => Recorder \in Content
  <1> SUFFICES ASSUME Switches, Counts PROVE Recorder \in Content
    OBVIOUS
  <1>1. lastFailure \in Nat
    BY DEF Counts
  <1>2. healthy \in BOOLEAN
    BY DEF Switches
  <1> QED
    BY <1>1, <1>2 DEF Recorder, Content

LEMMA InitIInv == Init => IInv
  <1> SUFFICES ASSUME Init PROVE IInv
    OBVIOUS
  <1>1. Switches
    BY Zenon DEF Init, Switches
  <1>2. /\ now = 0 /\ lastFailure = 0 /\ saves = 0 /\ keys = 0
        /\ state = "Idle" /\ worker = Resting /\ main = Looping
        /\ status = [content |-> Nothing, at |-> 0] /\ clips = {}
    BY Zenon DEF Init
  <1>3. Nothing \in Content
    BY DEF Nothing, Content
  <1>4. /\ Counts /\ WorkerType /\ MainType /\ StatusType /\ ClipsType
        /\ Quiet
    BY <1>2, <1>3, Numbers
    DEF Counts, WorkerType, MainType, StatusType, ClipsType, Quiet, Resting,
        Looping, WorkerPCs
  <1>5. CommandType
    <2>1. command = [c \in Commands |->
            [pc |-> "idle", began |-> 0, threshold |-> 0, deadline |-> 0,
             asked |-> 0, alone |-> FALSE, polled |-> FALSE, answer |-> "none",
             about |-> 0]]
      BY Zenon DEF Init
    <2> QED
      BY <2>1 DEF CommandType, CommandRecord, Answers
  <1>6. EndedType
    <2>1. ended = [save |-> 0, failed |-> FALSE, at |-> 0]
      BY Zenon DEF Init
    <2> QED
      BY <2>1, Numbers DEF EndedType
  <1>7. Own /\ Asking
    <2>1. command = [c \in Commands |->
            [pc |-> "idle", began |-> 0, threshold |-> 0, deadline |-> 0,
             asked |-> 0, alone |-> FALSE, polled |-> FALSE, answer |-> "none",
             about |-> 0]]
      BY Zenon DEF Init
    <2> QED
      BY <2>1 DEF Own, Asking
  <1> QED
    BY <1>1, <1>4, <1>5, <1>6, <1>7 DEF IInv, Types

-----------------------------------------------------------------------------
(* What stays, because the variables it is about do.                       *)

LEMMA KeepsOwn ==
  ASSUME Own, UNCHANGED <<command, saves, clips>>,
         worker'.pc = "idle" \/ worker.pc # "idle"
  PROVE  Own'
  BY DEF Own, OwnClip

LEMMA AddsClip ==
  ASSUME Types, Quiet, Own, worker.pc # "idle", worker'.pc # "idle",
         UNCHANGED <<command, saves, state>>,
         NEW x, x.save = saves, clips' \subseteq clips \cup {x}
  PROVE  Own' /\ Quiet'
  <1>1. Quiet'
    BY DEF Quiet, Types, Counts
  <1>2. ASSUME NEW c \in Commands, command[c].alone PROVE OwnClip(c)'
    <2>1. OwnClip(c) /\ command[c].asked \in Nat
      BY <1>2 DEF Own, Types, CommandType, CommandRecord
    <2>2. x.save > command[c].asked
      BY <2>1 DEF OwnClip, Types, Counts
    <2> QED
      BY <2>1, <2>2 DEF OwnClip, Types, Counts
  <1> QED
    BY <1>1, <1>2 DEF Own

\* A step of command c; what it does to the fields that matter.
LEMMA Asks ==
  ASSUME IInv, NEW c \in Commands, NEW r \in CommandRecord,
         command' = [command EXCEPT ![c] = r],
         UNCHANGED <<saves, worker, clips, state>>,
         r.alone => /\ r.asked <= saves
                    /\ saves = r.asked => worker.pc = "idle"
                    /\ \A clip \in clips :
                         clip.save <= r.asked => clip.at < r.threshold
                    /\ r.answer = "saved" => r.about > r.asked,
         r.pc # "answered" => r.answer = "none",
         r.pc \in {"health", "signal"} =>
           ~r.alone /\ r.threshold = r.began - 1,
         r.pc # "idle"
  PROVE  CommandType' /\ Own' /\ Asking'
  <1>1. command \in [Commands -> CommandRecord]
    BY DEF IInv, Types, CommandType
  <1>2. CommandType'
    BY <1>1 DEF CommandType
  <1>3. command'[c] = r /\ \A d \in Commands \ {c} : command'[d] = command[d]
    BY <1>1
  <1>4. ASSUME NEW d \in Commands, command'[d].alone PROVE OwnClip(d)'
    <2>1. CASE d = c
      BY <1>3, <1>4, <2>1 DEF OwnClip
    <2>2. CASE d # c
      BY <1>3, <1>4, <2>2 DEF OwnClip, IInv, Own
    <2> QED
      BY <2>1, <2>2
  <1>5. Own'
    BY <1>4 DEF Own
  <1>6. Asking'
    BY <1>3 DEF IInv, Asking
  <1> QED
    BY <1>2, <1>5, <1>6

LEMMA RequestsStep ==
  ASSUME IInv, SaveKeybind \/ TakeRequest \/ StreamEnds
  PROVE  IInv'
  <1>1. CASE SaveKeybind
    <2>0. SaveKeybind
      BY <1>1
    <2>1. UNCHANGED <<now, healthy, lastFailure, requested, worker, main,
                      written, status, clips, saves, command, ended>>
      BY <2>0, Zenon DEF SaveKeybind
    <2>3. /\ Switches' /\ WorkerType' /\ MainType' /\ StatusType'
          /\ ClipsType' /\ CommandType' /\ EndedType'
      BY <2>1, Zenon DEF Switches, WorkerType, MainType, StatusType,
        ClipsType, CommandType, EndedType, Types, IInv
    <2>4. Own'
      BY <2>1, Zenon DEF Own, IInv, OwnClip
    <2>5. Asking'
      BY <2>1, Zenon DEF Asking, IInv
    <2>6. Counts'
      <3>1. keys < MaxKeys /\ keys' = keys + 1
        BY <2>0 DEF SaveKeybind
      <3>2. state' \in {"Saving", "Pending"}
        BY <2>0 DEF SaveKeybind, RequestSave, Counts, Types, IInv
      <3> QED
        BY <2>1, <3>1, <3>2, Numbers DEF Counts, Types, IInv
    <2>7. Quiet'
      <3>1. state' \in {"Saving", "Pending"}
        BY <2>0 DEF SaveKeybind, RequestSave, Counts, Types, IInv
      <3> QED
        BY <2>1, <3>1 DEF Quiet, IInv
    <2> QED
      BY <2>3, <2>4, <2>5, <2>6, <2>7 DEF IInv, Types
  <1>2. CASE TakeRequest
    <2>0. TakeRequest
      BY <1>2
    <2>1. UNCHANGED <<now, healthy, lastFailure, worker, main, written,
                      status, clips, saves, keys, command, ended>>
      BY <2>0, Zenon DEF TakeRequest
    <2>3. /\ WorkerType' /\ MainType' /\ StatusType' /\ ClipsType'
          /\ CommandType' /\ EndedType'
      BY <2>1, Zenon DEF WorkerType, MainType, StatusType, ClipsType,
        CommandType, EndedType, Types, IInv
    <2>4. Own'
      BY <2>1, Zenon DEF Own, IInv, OwnClip
    <2>5. Asking'
      BY <2>1, Zenon DEF Asking, IInv
    <2>6. Switches'
      BY <2>0, <2>1, Zenon DEF TakeRequest, Switches, Types, IInv
    <2>7. Counts'
      <3>1. state' \in {"Saving", "Pending"}
        BY <2>0 DEF TakeRequest, RequestSave, Counts, Types, IInv
      <3> QED
        BY <2>1, <3>1 DEF Counts, Types, IInv
    <2>8. Quiet'
      <3>1. state' \in {"Saving", "Pending"}
        BY <2>0 DEF TakeRequest, RequestSave, Counts, Types, IInv
      <3> QED
        BY <2>1, <3>1 DEF Quiet, IInv
    <2> QED
      BY <2>3, <2>4, <2>5, <2>6, <2>7, <2>8 DEF IInv, Types
  <1>3. CASE StreamEnds
    <2>0. StreamEnds
      BY <1>3
    <2>1. UNCHANGED <<now, lastFailure, requested, state, worker, main,
                      written, status, clips, saves, keys, command, ended>>
      BY <2>0, Zenon DEF StreamEnds
    <2>3. /\ Counts' /\ WorkerType' /\ MainType' /\ StatusType'
          /\ ClipsType' /\ CommandType' /\ EndedType'
      BY <2>1, Zenon DEF Counts, WorkerType, MainType, StatusType, ClipsType,
        CommandType, EndedType, Types, IInv
    <2>4. Own'
      BY <2>1, Zenon DEF Own, IInv, OwnClip
    <2>5. Quiet'
      BY <2>1, Zenon DEF Quiet, IInv
    <2>6. Asking'
      BY <2>1, Zenon DEF Asking, IInv
    <2>7. Switches'
      BY <2>0, <2>1, Zenon DEF StreamEnds, Switches, Types, IInv
    <2> QED
      BY <2>3, <2>4, <2>5, <2>6, <2>7 DEF IInv, Types
  <1> QED
    BY <1>1, <1>2, <1>3

LEMMA CallbackStep ==
  ASSUME IInv, SaveCallback
  PROVE  IInv'
  <1>1. CASE BeginSave
    <2>0. BeginSave
      BY <1>1
    <2>1. UNCHANGED <<now, healthy, requested, state, main, written, status,
                      clips, keys, command, ended>>
      BY <2>0, Zenon DEF BeginSave
    <2>2. /\ worker.pc = "idle" /\ state # "Idle" /\ saves' = saves + 1
          /\ lastFailure' = 0 /\ worker' = [worker EXCEPT !.pc = "check"]
      BY <2>0, Zenon DEF BeginSave
    <2>3. /\ Switches' /\ MainType' /\ StatusType' /\ ClipsType'
          /\ CommandType' /\ EndedType'
      BY <2>1, Zenon DEF Switches, MainType, StatusType, ClipsType,
        CommandType, EndedType, Types, IInv
    <2>4. Asking'
      BY <2>1, Zenon DEF Asking, IInv
    <2>5. Counts'
      BY <2>1, <2>2 DEF Counts, Types, IInv
    <2>6. WorkerType'
      BY <2>2 DEF WorkerType, WorkerPCs, Types, IInv
    <2>7. Quiet'
      BY <2>1, <2>2 DEF Quiet, Types, Counts, ClipsType, Clips, IInv
    <2>8. Own'
      <3>1. ASSUME NEW c \in Commands, command[c].alone PROVE OwnClip(c)'
        <4>1. OwnClip(c) /\ command[c].asked \in Nat /\ saves \in Nat
          BY <3>1 DEF Own, Types, Counts, CommandType, CommandRecord, IInv
        <4> QED
          BY <2>1, <2>2, <4>1 DEF OwnClip
      <3> QED
        BY <2>1, <3>1 DEF Own
    <2> QED
      BY <2>3, <2>4, <2>5, <2>6, <2>7, <2>8 DEF IInv, Types
  <1>2. CASE CheckHealth
    <2>0. CheckHealth
      BY <1>2
    <2>1. UNCHANGED <<now, healthy, requested, state, main, written, status,
                      clips, saves, keys, command, ended>>
      BY <2>0, Zenon DEF CheckHealth, FailSave
    <2>2. /\ worker.pc = "check" /\ lastFailure' \in {lastFailure, saves}
          /\ \E pc \in {"compose", "read"} :
               worker' = [worker EXCEPT !.pc = pc]
      BY <2>0, Zenon DEF CheckHealth, FailSave
    <2>3. /\ Switches' /\ MainType' /\ StatusType' /\ ClipsType'
          /\ CommandType' /\ EndedType'
      BY <2>1, Zenon DEF Switches, MainType, StatusType, ClipsType,
        CommandType, EndedType, Types, IInv
    <2>4. Asking'
      BY <2>1, Zenon DEF Asking, IInv
    <2>5. Counts'
      BY <2>1, <2>2 DEF Counts, Types, IInv
    <2>6. WorkerType'
      BY <2>2 DEF WorkerType, WorkerPCs, Types, IInv
    <2>7. Quiet'
      BY <2>1, <2>2 DEF Quiet, WorkerType, Types, IInv
    <2>8. Own'
      BY <2>1, <2>2, KeepsOwn DEF IInv
    <2> QED
      BY <2>3, <2>4, <2>5, <2>6, <2>7, <2>8 DEF IInv, Types
  <1>3. CASE Compose
    <2>0. Compose
      BY <1>3
    <2>1. UNCHANGED <<now, healthy, requested, state, main, written, status,
                      clips, saves, keys, command, ended>>
      BY <2>0, Zenon DEF Compose, FailSave
    <2>2. /\ worker.pc = "compose" /\ lastFailure' \in {lastFailure, saves}
          /\ \/ worker' = [worker EXCEPT !.pc = "publish", !.at = now]
             \/ worker' = [worker EXCEPT !.pc = "read"]
      BY <2>0, Zenon DEF Compose, FailSave
    <2>3. /\ Switches' /\ MainType' /\ StatusType' /\ ClipsType'
          /\ CommandType' /\ EndedType'
      BY <2>1, Zenon DEF Switches, MainType, StatusType, ClipsType,
        CommandType, EndedType, Types, IInv
    <2>4. Asking'
      BY <2>1, Zenon DEF Asking, IInv
    <2>5. Counts'
      BY <2>1, <2>2 DEF Counts, Types, IInv
    <2>6. WorkerType'
      BY <2>2 DEF WorkerType, WorkerPCs, Counts, Types, IInv
    <2>7. Quiet'
      BY <2>1, <2>2 DEF Quiet, WorkerType, Types, IInv
    <2>8. Own'
      BY <2>1, <2>2, KeepsOwn DEF IInv
    <2> QED
      BY <2>3, <2>4, <2>5, <2>6, <2>7, <2>8 DEF IInv, Types
  <1>4. CASE Publish
    <2>0. Publish
      BY <1>4
    <2>1. UNCHANGED <<now, healthy, requested, state, main, written, status,
                      saves, keys, command, ended>>
      BY <2>0, Zenon DEF Publish, Succeed
    <2>2. /\ worker.pc = "publish" /\ lastFailure' \in {lastFailure, 0}
          /\ \/ /\ worker' = [worker EXCEPT !.pc = "read"]
                /\ clips' = clips \cup {Clip(worker.at, TRUE)}
             \/ /\ worker' = [worker EXCEPT !.pc = "copy", !.at = now]
                /\ clips' = clips \cup {Clip(now, FALSE)}
      BY <2>0, Zenon DEF Publish, Succeed
    <2>3. /\ Switches' /\ MainType' /\ StatusType' /\ CommandType'
          /\ EndedType'
      BY <2>1, Zenon DEF Switches, MainType, StatusType, CommandType,
        EndedType, Types, IInv
    <2>4. Asking'
      BY <2>1, Zenon DEF Asking, IInv
    <2>5. Counts'
      BY <2>1, <2>2 DEF Counts, Types, IInv
    <2>6. WorkerType'
      BY <2>2 DEF WorkerType, WorkerPCs, Counts, Types, IInv
    <2>7. ClipsType'
      <3>1. saves \in Nat /\ now \in Nat /\ worker.at \in Nat
        BY Numbers DEF Counts, WorkerType, Types, IInv
      <3>2. Clip(worker.at, TRUE) \in Clips /\ Clip(now, FALSE) \in Clips
        BY <3>1 DEF Clip, Clips
      <3> QED
        BY <2>2, <3>2 DEF ClipsType, Types, IInv
    <2>8. Own' /\ Quiet'
      <3>1. worker'.pc # "idle"
        BY <2>2 DEF WorkerType, Types, IInv
      <3>2. \E at \in {worker.at, now}, whole \in BOOLEAN :
              clips' \subseteq clips \cup {Clip(at, whole)}
        BY <2>2
      <3>3. \A at, whole : Clip(at, whole).save = saves
        BY DEF Clip
      <3> QED
        BY <2>1, <2>2, <3>1, <3>2, <3>3, AddsClip DEF IInv
    <2> QED
      BY <2>3, <2>4, <2>5, <2>6, <2>7, <2>8 DEF IInv, Types
  <1>5. CASE Copy
    <2>0. Copy
      BY <1>5
    <2>1. UNCHANGED <<now, healthy, requested, state, main, written, status,
                      saves, keys, command, ended>>
      BY <2>0, Zenon DEF Copy, Succeed, FailSave
    <2>2. /\ worker.pc = "copy" /\ lastFailure' \in {saves, 0}
          /\ worker' = [worker EXCEPT !.pc = "read"]
          /\ \/ clips' = (clips \ {Clip(worker.at, FALSE)}) \cup {Clip(now, TRUE)}
             \/ clips' = clips
      BY <2>0, Zenon DEF Copy, Succeed, FailSave
    <2>3. /\ Switches' /\ MainType' /\ StatusType' /\ CommandType'
          /\ EndedType'
      BY <2>1, Zenon DEF Switches, MainType, StatusType, CommandType,
        EndedType, Types, IInv
    <2>4. Asking'
      BY <2>1, Zenon DEF Asking, IInv
    <2>5. Counts'
      BY <2>1, <2>2 DEF Counts, Types, IInv
    <2>6. WorkerType'
      BY <2>2 DEF WorkerType, WorkerPCs, Counts, Types, IInv
    <2>7. ClipsType'
      <3>1. saves \in Nat /\ now \in Nat
        BY Numbers DEF Counts, Types, IInv
      <3>2. Clip(now, TRUE) \in Clips
        BY <3>1 DEF Clip, Clips
      <3> QED
        BY <2>2, <3>2 DEF ClipsType, Types, IInv
    <2>8. Own' /\ Quiet'
      <3>1. worker'.pc # "idle"
        BY <2>2 DEF WorkerType, Types, IInv
      <3>2. clips' \subseteq clips \cup {Clip(now, TRUE)}
        BY <2>2
      <3>3. Clip(now, TRUE).save = saves
        BY DEF Clip
      <3> QED
        BY <2>1, <2>2, <3>1, <3>2, <3>3, AddsClip DEF IInv
    <2> QED
      BY <2>3, <2>4, <2>5, <2>6, <2>7, <2>8 DEF IInv, Types
  <1>6. CASE WorkerReads
    <2>0. WorkerReads
      BY <1>6
    <2>1. UNCHANGED <<now, healthy, lastFailure, requested, state, main,
                      written, status, clips, saves, keys, command, ended>>
      BY <2>0, Zenon DEF WorkerReads
    <2>2. /\ worker.pc = "read"
          /\ worker' = [worker EXCEPT !.pc = "write", !.view = Recorder]
      BY <2>0, Zenon DEF WorkerReads
    <2>3. /\ Switches' /\ Counts' /\ MainType' /\ StatusType'
          /\ ClipsType' /\ CommandType' /\ EndedType'
      BY <2>1, Zenon DEF Switches, Counts, MainType, StatusType, ClipsType,
        CommandType, EndedType, Types, IInv
    <2>4. Asking'
      BY <2>1, Zenon DEF Asking, IInv
    <2>5. WorkerType'
      BY <2>2, RecorderType DEF WorkerType, WorkerPCs, Types, IInv
    <2>6. Quiet'
      BY <2>1, <2>2 DEF Quiet, WorkerType, Types, IInv
    <2>7. Own'
      BY <2>1, <2>2, KeepsOwn DEF IInv
    <2> QED
      BY <2>3, <2>4, <2>5, <2>6, <2>7 DEF IInv, Types
  <1>7. CASE WorkerWrites
    <2>0. WorkerWrites
      BY <1>7
    <2>1. UNCHANGED <<now, healthy, lastFailure, requested, state, main,
                      written, clips, saves, keys, command>>
      BY <2>0, Zenon DEF WorkerWrites, WriteRecorderStatusFile, Resting
    <2>2. /\ worker.pc = "write"
          /\ worker' = [pc |-> "end", view |-> Nothing, at |-> 0]
          /\ status' = [content |-> worker.view, at |-> now]
          /\ ended' = [save |-> saves, failed |-> lastFailure # 0, at |-> now]
      BY <2>0, Zenon DEF WorkerWrites, WriteRecorderStatusFile, Resting
    <2>3. /\ Switches' /\ Counts' /\ MainType' /\ ClipsType' /\ CommandType'
      BY <2>1, Zenon DEF Switches, Counts, MainType, ClipsType, CommandType,
        Types, IInv
    <2>4. Asking'
      BY <2>1, Zenon DEF Asking, IInv
    <2>5. WorkerType'
      BY <2>2, Numbers DEF WorkerType, WorkerPCs, Nothing, Content
    <2>6. StatusType'
      BY <2>2 DEF StatusType, WorkerType, Counts, Types, IInv
    <2>7. EndedType'
      <3>1. (lastFailure # 0) \in BOOLEAN
        OBVIOUS
      <3>2. saves \in Nat /\ now \in 0..MaxTime
        BY DEF Counts, Types, IInv
      <3> QED
        BY <2>2, <3>1, <3>2 DEF EndedType
    <2>8. Quiet'
      BY <2>1, <2>2 DEF Quiet, WorkerType, Types, IInv
    <2>9. Own'
      BY <2>1, <2>2, KeepsOwn DEF IInv
    <2> QED
      BY <2>3, <2>4, <2>5, <2>6, <2>7, <2>8, <2>9 DEF IInv, Types
  <1>8. CASE EndSave
    <2>0. EndSave
      BY <1>8
    <2>1. UNCHANGED <<now, healthy, lastFailure, requested, main, written,
                      status, clips, saves, keys, command, ended>>
      BY <2>0, Zenon DEF EndSave
    <2>2. /\ worker.pc = "end" /\ worker' = Resting
          /\ state' \in {"Saving", "Idle"}
      BY <2>0, Zenon DEF EndSave
    <2>3. /\ Switches' /\ MainType' /\ StatusType' /\ ClipsType'
          /\ CommandType' /\ EndedType'
      BY <2>1, Zenon DEF Switches, MainType, StatusType, ClipsType,
        CommandType, EndedType, Types, IInv
    <2>4. Asking'
      BY <2>1, Zenon DEF Asking, IInv
    <2>5. Counts'
      BY <2>1, <2>2 DEF Counts, Types, IInv
    <2>6. WorkerType'
      BY <2>2, Numbers DEF WorkerType, WorkerPCs, Resting, Nothing, Content
    <2>7. Quiet'
      BY <2>1, <2>2 DEF Quiet, Resting, IInv
    <2>8. Own'
      BY <2>1, <2>2, KeepsOwn DEF Resting, IInv
    <2> QED
      BY <2>3, <2>4, <2>5, <2>6, <2>7, <2>8 DEF IInv, Types
  <1> QED
    BY <1>1, <1>2, <1>3, <1>4, <1>5, <1>6, <1>7, <1>8 DEF SaveCallback

LEMMA StatusStep ==
  ASSUME IInv, MainReads \/ MainWrites \/ Tick
  PROVE  IInv'
  <1>1. CASE MainReads
    <2>0. MainReads
      BY <1>1
    <2>1. UNCHANGED <<now, healthy, lastFailure, requested, state, worker,
                      written, status, clips, saves, keys, command, ended>>
      BY <2>0, Zenon DEF MainReads
    <2>3. /\ Switches' /\ Counts' /\ WorkerType' /\ StatusType'
          /\ ClipsType' /\ CommandType' /\ EndedType'
      BY <2>1, Zenon DEF Switches, Counts, WorkerType, StatusType, ClipsType,
        CommandType, EndedType, Types, IInv
    <2>4. Own'
      BY <2>1, Zenon DEF Own, IInv, OwnClip
    <2>5. Quiet'
      BY <2>1, Zenon DEF Quiet, IInv
    <2>6. Asking'
      BY <2>1, Zenon DEF Asking, IInv
    <2>7. MainType'
      BY <2>0, RecorderType DEF MainReads, MainType, Types, IInv
    <2> QED
      BY <2>3, <2>4, <2>5, <2>6, <2>7 DEF IInv, Types
  <1>2. CASE MainWrites
    <2>0. MainWrites
      BY <1>2
    <2>1. UNCHANGED <<now, healthy, lastFailure, requested, state, worker,
                      clips, saves, keys, command, ended>>
      BY <2>0, Zenon DEF MainWrites, WriteRecorderStatusFile
    <2>2. /\ main' = Looping /\ status' = [content |-> main.view, at |-> now]
      BY <2>0, Zenon DEF MainWrites, WriteRecorderStatusFile
    <2>3. /\ Counts' /\ WorkerType' /\ ClipsType' /\ CommandType'
          /\ EndedType'
      BY <2>1, Zenon DEF Counts, WorkerType, ClipsType, CommandType,
        EndedType, Types, IInv
    <2>4. Own'
      BY <2>1, Zenon DEF Own, IInv, OwnClip
    <2>5. Quiet'
      BY <2>1, Zenon DEF Quiet, IInv
    <2>6. Asking'
      BY <2>1, Zenon DEF Asking, IInv
    <2>7. Switches'
      BY <2>0, <2>1, Zenon DEF MainWrites, Switches, Types, IInv
    <2>8. MainType'
      BY <2>2 DEF MainType, Looping, Nothing, Content
    <2>9. StatusType'
      BY <2>2 DEF StatusType, MainType, Counts, Types, IInv
    <2> QED
      BY <2>3, <2>4, <2>5, <2>6, <2>7, <2>8, <2>9 DEF IInv, Types
  <1>3. CASE Tick
    <2>0. Tick
      BY <1>3
    <2>1. UNCHANGED <<healthy, lastFailure, requested, state, worker, main,
                      status, clips, saves, keys, ended>>
      BY <2>0, Zenon DEF Tick
    <2>2. /\ now < MaxTime /\ now' = now + 1
          /\ command' = [c \in Commands |-> [command[c] EXCEPT !.polled = FALSE]]
      BY <2>0, Zenon DEF Tick
    <2>3. /\ WorkerType' /\ MainType' /\ StatusType' /\ ClipsType'
          /\ EndedType'
      BY <2>1, Zenon DEF WorkerType, MainType, StatusType, ClipsType,
        EndedType, Types, IInv
    <2>4. Quiet'
      BY <2>1, Zenon DEF Quiet, IInv
    <2>5. Switches'
      BY <2>0, <2>1, Zenon DEF Tick, Switches, Types, IInv
    <2>6. Counts'
      BY <2>1, <2>2, Numbers DEF Counts, Types, IInv
    <2>7. CommandType' /\ Own' /\ Asking'
      <3>1. \A c \in Commands : command[c] \in CommandRecord
        BY DEF CommandType, Types, IInv
      <3>2. \A c \in Commands : command'[c] = [command[c] EXCEPT !.polled = FALSE]
        BY <2>2
      <3>3. CommandType'
        BY <2>2, <3>1 DEF CommandType, CommandRecord
      <3>4. \A c \in Commands :
              /\ command'[c].alone = command[c].alone
              /\ command'[c].asked = command[c].asked
              /\ command'[c].threshold = command[c].threshold
              /\ command'[c].answer = command[c].answer
              /\ command'[c].about = command[c].about
              /\ command'[c].began = command[c].began
              /\ command'[c].pc = command[c].pc
        BY <3>1, <3>2 DEF CommandRecord
      <3>5. Own'
        BY <2>1, <3>4 DEF IInv, Own, OwnClip
      <3>6. Asking'
        BY <3>4 DEF IInv, Asking
      <3> QED
        BY <3>3, <3>5, <3>6
    <2> QED
      BY <2>3, <2>4, <2>5, <2>6, <2>7 DEF IInv, Types
  <1> QED
    BY <1>1, <1>2, <1>3

\* The three steps of Save and the signal that fails.
LEMMA SaveStep ==
  ASSUME IInv, NEW c \in Commands, Save(c)
  PROVE  IInv'
  <1>1. /\ UNCHANGED <<now, healthy, lastFailure, state, worker, main, written,
                       status, clips, saves, keys, ended>>
        /\ requested' \in {requested, TRUE}
    BY Zenon DEF Save, SampleThreshold, ReadHealth, SendSignal, SignalFails,
      daemonVars
  <1>2. /\ Counts' /\ WorkerType' /\ MainType' /\ StatusType'
        /\ ClipsType' /\ EndedType'
    BY <1>1, Zenon DEF Counts, WorkerType, MainType, StatusType, ClipsType,
      EndedType, Types, IInv
  <1>3. Quiet'
    BY <1>1, Zenon DEF Quiet, IInv
  <1>4. Switches'
    BY <1>1, Zenon DEF Switches, Types, IInv
  <1>5. command[c] \in CommandRecord
    BY DEF CommandType, Types, IInv
  <1>6. now \in Nat /\ saves \in Nat
    BY Numbers DEF Counts, Types, IInv
  <1>7. CASE SampleThreshold(c)
    <2> DEFINE r == [command[c] EXCEPT !.pc = "health", !.began = now,
                       !.threshold = Threshold]
    <2>1. command' = [command EXCEPT ![c] = r]
      BY <1>7 DEF SampleThreshold
    <2>2. Threshold \in Int /\ Threshold = now - 1
      BY <1>6 DEF Threshold
    <2>3. r \in CommandRecord
      BY <1>5, <1>6, <2>2 DEF CommandRecord
    <2>4. command[c].answer = "none"
      BY <1>7 DEF SampleThreshold, At, IInv, Asking
    <2>5. /\ r.alone = command[c].alone /\ r.asked = command[c].asked
          /\ r.threshold = Threshold /\ r.began = now
          /\ r.answer = "none" /\ r.pc = "health"
      BY <1>5, <2>4 DEF CommandRecord
    <2>6. ~command[c].alone
      BY <1>7 DEF SampleThreshold, At, IInv, Asking
    <2> HIDE DEF r
    <2> QED
      BY <1>1, <1>2, <1>3, <1>4, <2>1, <2>2, <2>3, <2>5, <2>6, Asks
      DEF IInv, Types
  <1>8. CASE ReadHealth(c) /\ ~Answer(c, "not ready", 0)
    <2> DEFINE r == [command[c] EXCEPT !.pc = "signal"]
    <2>1. command' = [command EXCEPT ![c] = r]
      BY <1>8 DEF ReadHealth
    <2>2. command[c].pc = "health" /\ command[c].answer = "none"
      BY <1>8 DEF ReadHealth, At, IInv, Asking
    <2>3. r \in CommandRecord
      BY <1>5 DEF CommandRecord
    <2>4. /\ r.alone = command[c].alone /\ r.threshold = command[c].threshold
          /\ r.began = command[c].began /\ r.answer = "none"
          /\ r.pc = "signal"
      BY <1>5, <2>2 DEF CommandRecord
    <2>5. ~command[c].alone /\ command[c].threshold = command[c].began - 1
      BY <2>2 DEF IInv, Asking
    <2> HIDE DEF r
    <2> QED
      BY <1>1, <1>2, <1>3, <1>4, <2>1, <2>3, <2>4, <2>5, Asks DEF IInv, Types
  <1>9. CASE SendSignal(c)
    <2> DEFINE r == [command[c] EXCEPT !.pc = "clip",
                       !.deadline = now + Timeout, !.asked = saves,
                       !.alone = Alone(c)]
    <2>1. command' = [command EXCEPT ![c] = r]
      BY <1>9, Zenon DEF SendSignal
    <2>2. command[c].pc = "signal" /\ command[c].answer = "none"
      BY <1>9 DEF SendSignal, At, IInv, Asking
    <2>3. Alone(c) \in BOOLEAN
      BY DEF Alone
    <2>4. now + Timeout \in Nat
      BY <1>6, Numbers
    <2>5. r \in CommandRecord
      BY <1>5, <1>6, <2>3, <2>4 DEF CommandRecord
    <2>6. /\ r.alone = Alone(c) /\ r.asked = saves
          /\ r.threshold = command[c].threshold
          /\ r.answer = "none" /\ r.pc = "clip"
      BY <1>5, <2>2 DEF CommandRecord
    <2>7. command[c].threshold = command[c].began - 1
      BY <2>2 DEF IInv, Asking
    <2>8. Alone(c) => /\ worker.pc = "idle"
                      /\ \A clip \in clips : clip.at < command[c].threshold
      BY <2>7 DEF Alone, IInv, Quiet
    <2> HIDE DEF r
    <2>9. r.alone => /\ r.asked <= saves
                     /\ saves = r.asked => worker.pc = "idle"
                     /\ \A clip \in clips :
                          clip.save <= r.asked => clip.at < r.threshold
                     /\ r.answer = "saved" => r.about > r.asked
      BY <1>6, <2>6, <2>8
    <2> QED
      BY <1>1, <1>2, <1>3, <1>4, <2>1, <2>5, <2>6, <2>9, Asks DEF IInv, Types
  <1>10. CASE Answer(c, "not ready", 0) \/ Answer(c, "not sent", 0)
    <2>0. PICK w \in {"not ready", "not sent"} : Answer(c, w, 0)
      BY <1>10
    <2> DEFINE r == [command[c] EXCEPT !.pc = "answered",
                       !.answer = w, !.about = 0]
    <2>1. command' = [command EXCEPT ![c] = r]
      BY <2>0 DEF Answer
    <2>2. r \in CommandRecord
      BY <1>5, <2>0 DEF CommandRecord, Answers
    <2>3. /\ r.alone = command[c].alone /\ r.asked = command[c].asked
          /\ r.threshold = command[c].threshold
          /\ r.answer # "saved" /\ r.pc = "answered"
      BY <1>5, <2>0 DEF CommandRecord
    <2> HIDE DEF r
    <2>4. r.alone => OwnClip(c)
      BY <2>3 DEF IInv, Own
    <2> QED
      BY <1>1, <1>2, <1>3, <1>4, <2>1, <2>2, <2>3, <2>4, Asks
      DEF OwnClip, IInv, Types
  <1> QED
    BY <1>7, <1>8, <1>9, <1>10, Zenon DEF Save, SignalFails

LEMMA CommandStep ==
  ASSUME IInv, NEW c \in Commands,
         Save(c) \/ PollClip(c) \/ PollStatus(c) \/ TimesOut(c)
  PROVE  IInv'
  <1>1. CASE Save(c)
    BY <1>1, SaveStep
  <1>2. CASE PollClip(c)
    <2>0. PollClip(c)
      BY <1>2
    <2>1. UNCHANGED <<now, healthy, lastFailure, requested, state, worker,
                      main, written, status, clips, saves, keys, ended>>
      BY <2>0, Zenon DEF PollClip, daemonVars
    <2>3. /\ Switches' /\ Counts' /\ WorkerType' /\ MainType'
          /\ StatusType' /\ ClipsType' /\ EndedType'
      BY <2>1, Zenon DEF Switches, Counts, WorkerType, MainType, StatusType,
        ClipsType, EndedType, Types, IInv
    <2>4. Quiet'
      BY <2>1, Zenon DEF Quiet, IInv
    <2>5. CommandType' /\ Own' /\ Asking'
      <3>0. command[c] \in CommandRecord
        BY DEF CommandType, Types, IInv
      <3>1. command[c].pc = "clip" /\ command[c].answer = "none"
        BY <2>0 DEF PollClip, At, IInv, Asking
      <3>2. CASE command' = [command EXCEPT ![c].pc = "status"]
        <4> DEFINE r == [command[c] EXCEPT !.pc = "status"]
        <4>1. command' = [command EXCEPT ![c] = r]
          BY <3>2
        <4>2. r \in CommandRecord
          BY <3>0 DEF CommandRecord
        <4>3. /\ r.alone = command[c].alone /\ r.asked = command[c].asked
              /\ r.threshold = command[c].threshold
              /\ r.answer = "none" /\ r.pc = "status"
          BY <3>0, <3>1 DEF CommandRecord
        <4> HIDE DEF r
        <4>4. r.alone => OwnClip(c)
          BY <4>3 DEF IInv, Own
        <4> QED
          BY <2>1, <4>1, <4>2, <4>3, <4>4, Asks DEF OwnClip
      <3>3. CASE \E clip \in Young(c) : Answer(c, "saved", clip.save)
        <4>0. PICK clip \in Young(c) : Answer(c, "saved", clip.save)
          BY <3>3
        <4> DEFINE r == [command[c] EXCEPT !.pc = "answered",
                           !.answer = "saved", !.about = clip.save]
        <4>1. command' = [command EXCEPT ![c] = r]
          BY <4>0 DEF Answer
        <4>5. /\ clip \in clips /\ clip.save \in Nat /\ clip.at \in Nat
              /\ clip.at >= command[c].threshold
          BY DEF Young, ClipsType, Clips, Types, IInv
        <4>2. r \in CommandRecord
          BY <3>0, <4>5 DEF CommandRecord, Answers
        <4>3. /\ r.alone = command[c].alone /\ r.asked = command[c].asked
              /\ r.threshold = command[c].threshold
              /\ r.answer = "saved" /\ r.pc = "answered" /\ r.about = clip.save
          BY <3>0 DEF CommandRecord
        <4> HIDE DEF r
        <4>4. r.alone => OwnClip(c)
          BY <4>3 DEF IInv, Own
        <4>6. r.alone => clip.save > r.asked
          <5>1. command[c].asked \in Nat /\ command[c].threshold \in Int
            BY <3>0 DEF CommandRecord
          <5> QED
            BY <4>3, <4>4, <4>5, <5>1 DEF OwnClip
        <4> QED
          BY <2>1, <4>1, <4>2, <4>3, <4>4, <4>6, Asks DEF OwnClip
      <3> QED
        BY <2>0, <3>2, <3>3 DEF PollClip
    <2> QED
      BY <2>3, <2>4, <2>5 DEF IInv, Types
  <1>3. CASE PollStatus(c)
    <2>0. PollStatus(c)
      BY <1>3
    <2>1. UNCHANGED <<now, healthy, lastFailure, requested, state, worker,
                      main, written, status, clips, saves, keys, ended>>
      BY <2>0, Zenon DEF PollStatus, daemonVars
    <2>3. /\ Switches' /\ Counts' /\ WorkerType' /\ MainType'
          /\ StatusType' /\ ClipsType' /\ EndedType'
      BY <2>1, Zenon DEF Switches, Counts, WorkerType, MainType, StatusType,
        ClipsType, EndedType, Types, IInv
    <2>4. Quiet'
      BY <2>1, Zenon DEF Quiet, IInv
    <2>5. CommandType' /\ Own' /\ Asking'
      <3>0. command[c] \in CommandRecord
        BY DEF CommandType, Types, IInv
      <3>1. command[c].pc = "status" /\ command[c].answer = "none"
        BY <2>0 DEF PollStatus, At, IInv, Asking
      <3>2. PICK content \in Readings :
              IF status.at >= command[c].threshold
                 /\ (~content.healthy \/ content.failure # 0)
              THEN IF content.healthy
                   THEN Answer(c, "failed", content.failure)
                   ELSE Answer(c, "not ready", 0)
              ELSE command' = [command EXCEPT ![c].pc = "clip",
                     ![c].polled = @ \/ content = status.content]
        BY <2>0 DEF PollStatus
      <3>3. content.failure \in Nat
        BY DEF Readings, Nothing, StatusType, Content, Types, IInv
      <3>4. CASE \E w \in {"failed", "not ready"}, n \in Nat : Answer(c, w, n)
        <4>0. PICK w \in {"failed", "not ready"}, n \in Nat : Answer(c, w, n)
          BY <3>4
        <4> DEFINE r == [command[c] EXCEPT !.pc = "answered",
                           !.answer = w, !.about = n]
        <4>1. command' = [command EXCEPT ![c] = r]
          BY <4>0 DEF Answer
        <4>2. r \in CommandRecord
          BY <3>0, <4>0 DEF CommandRecord, Answers
        <4>3. /\ r.alone = command[c].alone /\ r.asked = command[c].asked
              /\ r.threshold = command[c].threshold
              /\ r.answer # "saved" /\ r.pc = "answered"
          BY <3>0, <4>0 DEF CommandRecord
        <4> HIDE DEF r
        <4>4. r.alone => OwnClip(c)
          BY <4>3 DEF IInv, Own
        <4> QED
          BY <2>1, <4>1, <4>2, <4>3, <4>4, Asks DEF OwnClip
      <3>5. CASE \E b \in BOOLEAN :
                   command' = [command EXCEPT ![c].pc = "clip", ![c].polled = b]
        <4>0. PICK b \in BOOLEAN :
                command' = [command EXCEPT ![c].pc = "clip", ![c].polled = b]
          BY <3>5
        <4> DEFINE r == [command[c] EXCEPT !.pc = "clip", !.polled = b]
        <4>1. command' = [command EXCEPT ![c] = r]
          BY <4>0, <3>0 DEF CommandType, Types, IInv
        <4>2. r \in CommandRecord
          BY <3>0 DEF CommandRecord
        <4>3. /\ r.alone = command[c].alone /\ r.asked = command[c].asked
              /\ r.threshold = command[c].threshold
              /\ r.answer = "none" /\ r.pc = "clip"
          BY <3>0, <3>1 DEF CommandRecord
        <4> HIDE DEF r
        <4>4. r.alone => OwnClip(c)
          BY <4>3 DEF IInv, Own
        <4> QED
          BY <2>1, <4>1, <4>2, <4>3, <4>4, Asks DEF OwnClip
      <3>6. (command[c].polled \/ content = status.content) \in BOOLEAN
        OBVIOUS
      <3> QED
        BY <3>2, <3>3, <3>4, <3>5, <3>6
    <2> QED
      BY <2>3, <2>4, <2>5 DEF IInv, Types
  <1>4. CASE TimesOut(c)
    <2>0. TimesOut(c)
      BY <1>4
    <2>1. UNCHANGED <<now, healthy, lastFailure, requested, state, worker,
                      main, written, status, clips, saves, keys, ended>>
      BY <2>0, Zenon DEF TimesOut, daemonVars
    <2>3. /\ Switches' /\ Counts' /\ WorkerType' /\ MainType'
          /\ StatusType' /\ ClipsType' /\ EndedType'
      BY <2>1, Zenon DEF Switches, Counts, WorkerType, MainType, StatusType,
        ClipsType, EndedType, Types, IInv
    <2>4. Quiet'
      BY <2>1, Zenon DEF Quiet, IInv
    <2>5. CommandType' /\ Own' /\ Asking'
      <3>0. command[c] \in CommandRecord
        BY DEF CommandType, Types, IInv
      <3>4. CASE \E w \in {"timeout"}, n \in Nat : Answer(c, w, n)
        <4>0. PICK w \in {"timeout"}, n \in Nat : Answer(c, w, n)
          BY <3>4
        <4> DEFINE r == [command[c] EXCEPT !.pc = "answered",
                           !.answer = w, !.about = n]
        <4>1. command' = [command EXCEPT ![c] = r]
          BY <4>0 DEF Answer
        <4>2. r \in CommandRecord
          BY <3>0, <4>0 DEF CommandRecord, Answers
        <4>3. /\ r.alone = command[c].alone /\ r.asked = command[c].asked
              /\ r.threshold = command[c].threshold
              /\ r.answer # "saved" /\ r.pc = "answered"
          BY <3>0, <4>0 DEF CommandRecord
        <4> HIDE DEF r
        <4>4. r.alone => OwnClip(c)
          BY <4>3 DEF IInv, Own
        <4> QED
          BY <2>1, <4>1, <4>2, <4>3, <4>4, Asks DEF OwnClip
      <3> QED
        BY <2>0, <3>4 DEF TimesOut
    <2> QED
      BY <2>3, <2>4, <2>5 DEF IInv, Types
  <1> QED
    BY <1>1, <1>2, <1>3, <1>4

-----------------------------------------------------------------------------

LEMMA Inductive == Spec => []IInv
  <1>1. IInv /\ [Next]_vars => IInv'
    <2> SUFFICES ASSUME IInv, [Next]_vars PROVE IInv'
      OBVIOUS
    <2>1. CASE Next
      BY <2>1, RequestsStep, CallbackStep, StatusStep, CommandStep DEF Next
    <2>2. CASE UNCHANGED vars
      <3>1. Types'
        BY <2>2, Zenon
        DEF vars, daemonVars, IInv, Types, Switches, Counts, WorkerType,
            MainType, StatusType, ClipsType, CommandType, EndedType
      <3>2. Quiet' /\ Own' /\ Asking'
        BY <2>2, Zenon
        DEF vars, daemonVars, IInv, Quiet, Own, OwnClip, Asking
      <3> QED
        BY <3>1, <3>2 DEF IInv
    <2> QED
      BY <2>1, <2>2
  <1> QED
    BY InitIInv, <1>1, PTL DEF Spec

\* Every variable keeps its type.
THEOREM TypeCorrect == Spec => []TypeOK
  <1>1. IInv => TypeOK
    BY Zenon
    DEF IInv, Types, Switches, Counts, WorkerType, MainType, StatusType,
        ClipsType, CommandType, EndedType, TypeOK
  <1> QED
    BY Inductive, <1>1, PTL

\* `clipdeck save` reports no clip of an earlier save, when it asked while
\* nothing else was going on (core.cpp:674-675, 231).
THEOREM ReportsItsOwn == Spec => []SuccessIsOwn
  <1>1. IInv => SuccessIsOwn
    BY DEF IInv, Own, OwnClip, SuccessIsOwn, Answered
  <1> QED
    BY Inductive, <1>1, PTL

-----------------------------------------------------------------------------
(* What a command that gives up has missed.                                *)

Working == {"check", "compose", "publish", "copy", "read", "write"}

\* At most one save has begun whose outcome is not in the status file.
SaveCounted ==
  /\ worker.pc \in Working => saves = ended.save + 1
  /\ worker.pc \notin Working => saves = ended.save
  /\ ended.at <= status.at /\ status.at <= now

\* The recorder keeps the failure of the last save until the next one begins.
FailureKept ==
  /\ worker.pc \in {"check", "compose", "publish", "copy"} => lastFailure = 0
  /\ worker.pc = "write" => worker.view.failure = lastFailure
  /\ worker.pc \notin Working => (ended.failed <=> lastFailure # 0)

YoungClip(c) ==
  \E clip \in clips : clip.whole /\ clip.at >= command[c].threshold

\* A save that begins after the request and succeeds leaves a clip the command
\* takes.
LeavesClip(c) ==
  /\ command[c].threshold <= now
  /\ Waiting(c) /\ saves > command[c].asked =>
       /\ worker.pc \in {"publish", "copy"} => worker.at >= command[c].threshold
       /\ worker.pc \in {"read", "write"} /\ lastFailure = 0 => YoungClip(c)
  /\ Waiting(c) /\ ended.save > command[c].asked =>
       /\ ended.at >= command[c].threshold
       /\ ~ended.failed => YoungClip(c)

\* The main loop may write once more what it read before the failure, in the
\* tick of the failure; in the next tick it writes the failure.
FailureWritten ==
  ended.failed /\ saves = ended.save =>
    /\ now > ended.at /\ main.pc = "write" => main.view.failure # 0
    /\ \/ now > ended.at + 1
       \/ now = ended.at + 1 /\ written
       => status.content.failure # 0

\* A command that waits sees the clip in the next tick, and the failure in the
\* one after that.
OutcomeSeen(c) ==
  Waiting(c) /\ ended.save > command[c].asked =>
    /\ ~ended.failed =>
         \/ now = ended.at
         \/ now = ended.at + 1 /\ At(c, "clip") /\ ~command[c].polled
    /\ ended.failed /\ saves = ended.save =>
         \/ now <= ended.at + 1
         \/ now = ended.at + 2 /\ ~command[c].polled

\* What is known of a command that gave up.
GaveUp(c) ==
  Answered(c, "timeout") =>
    /\ now >= command[c].deadline
    /\ ended.save > command[c].asked /\ ended.at + 3 <= command[c].deadline =>
         ended.failed /\ saves > ended.save

Told ==
  /\ SaveCounted /\ FailureKept /\ FailureWritten
  /\ \A c \in Commands : LeavesClip(c) /\ OutcomeSeen(c) /\ GaveUp(c)

\* One step of the save callback, field by field.
LEMMA WorkerMoves ==
  ASSUME Types, SaveCallback
  PROVE  /\ UNCHANGED <<now, main, written, command>>
         /\ UNCHANGED <<saves, ended, status>>
            \/ worker.pc = "idle" \/ worker.pc = "write"
         /\ \A clip \in clips : clip.whole => clip \in clips'
         /\ \/ /\ worker.pc = "idle" /\ worker'.pc = "check"
               /\ saves' = saves + 1 /\ lastFailure' = 0
               /\ UNCHANGED <<ended, status>>
            \/ /\ worker.pc \in {"check", "compose", "copy"}
               /\ worker'.pc = "read" /\ lastFailure' = saves
            \/ /\ worker.pc = "check" /\ worker'.pc = "compose"
               /\ lastFailure' = lastFailure
            \/ /\ worker.pc = "compose" /\ worker'.pc = "publish"
               /\ worker'.at = now /\ lastFailure' = lastFailure
            \/ /\ worker.pc = "publish" /\ worker'.pc = "copy"
               /\ worker'.at = now /\ lastFailure' = lastFailure
            \/ /\ worker.pc \in {"publish", "copy"} /\ worker'.pc = "read"
               /\ lastFailure' = 0
               /\ \E clip \in clips' : clip.whole /\ clip.at \in {worker.at, now}
                                       /\ (clip.at = now \/ worker.pc = "publish")
            \/ /\ worker.pc = "read" /\ worker'.pc = "write"
               /\ lastFailure' = lastFailure
               /\ worker'.view.failure = lastFailure
            \/ /\ worker.pc = "write" /\ worker'.pc = "end"
               /\ lastFailure' = lastFailure /\ saves' = saves
               /\ status'.content = worker.view /\ status'.at = now
               /\ ended'.save = saves /\ ended'.at = now
               /\ ended'.failed <=> lastFailure # 0
            \/ /\ worker.pc = "end" /\ worker'.pc = "idle"
               /\ lastFailure' = lastFailure
<1> USE DEF Types, WorkerType, WorkerPCs
<1>1. CASE BeginSave
  BY <1>1 DEF BeginSave
<1>2. CASE CheckHealth
  BY <1>2 DEF CheckHealth, FailSave
<1>3. CASE Compose
  BY <1>3 DEF Compose, FailSave
<1>4. CASE Publish
  <2>1. Clip(worker.at, TRUE).whole /\ Clip(worker.at, TRUE).at = worker.at
    BY DEF Clip
  <2> QED BY <1>4, <2>1 DEF Publish, Succeed
<1>5. CASE Copy
  <2>1. /\ Clip(now, TRUE).whole /\ Clip(now, TRUE).at = now
        /\ ~Clip(worker.at, FALSE).whole
    BY DEF Clip
  <2> QED BY <1>5, <2>1 DEF Copy, Succeed, FailSave
<1>6. CASE WorkerReads
  BY <1>6 DEF WorkerReads, Recorder
<1>7. CASE WorkerWrites
  <2>1. ended'.failed <=> lastFailure # 0
    BY <1>7 DEF WorkerWrites
  <2> QED BY <1>7, <2>1 DEF WorkerWrites, WriteRecorderStatusFile, Resting
<1>8. CASE EndSave
  BY <1>8 DEF EndSave, Resting
<1> QED BY <1>1, <1>2, <1>3, <1>4, <1>5, <1>6, <1>7, <1>8 DEF SaveCallback

\* The steps that leave the worker, its recorder and its clips alone.
LEMMA OthersMove ==
  ASSUME [Next]_vars, ~SaveCallback
  PROVE  /\ UNCHANGED <<worker, lastFailure, saves, clips, ended>>
         /\ UNCHANGED command \/ Tick \/ \E c \in Commands :
              Save(c) \/ PollClip(c) \/ PollStatus(c) \/ TimesOut(c)
<1>1. CASE SaveKeybind \/ TakeRequest \/ StreamEnds
  BY <1>1, Zenon DEF SaveKeybind, TakeRequest, StreamEnds
<1>2. CASE MainReads \/ MainWrites
  BY <1>2, Zenon DEF MainReads, MainWrites
<1>3. CASE Tick
  BY <1>3, Zenon DEF Tick
<1>4. ASSUME NEW c \in Commands,
             Save(c) \/ PollClip(c) \/ PollStatus(c) \/ TimesOut(c)
      PROVE  UNCHANGED <<worker, lastFailure, saves, clips, ended>>
  BY <1>4, Zenon DEF Save, SampleThreshold, ReadHealth, SendSignal,
     SignalFails, PollClip, PollStatus, TimesOut, daemonVars
<1>5. CASE UNCHANGED vars
  BY <1>5, Zenon DEF vars, daemonVars
<1> QED BY <1>1, <1>2, <1>3, <1>4, <1>5 DEF Next

\* Who writes the status file, and when time passes.
LEMMA StatusMoves ==
  ASSUME [Next]_vars, ~SaveCallback
  PROVE  \/ UNCHANGED <<now, status, main, written>>
         \/ MainReads \/ MainWrites \/ Tick
<1>1. CASE SaveKeybind \/ TakeRequest \/ StreamEnds
  BY <1>1, Zenon DEF SaveKeybind, TakeRequest, StreamEnds
<1>2. ASSUME NEW c \in Commands,
             Save(c) \/ PollClip(c) \/ PollStatus(c) \/ TimesOut(c)
      PROVE  UNCHANGED <<now, status, main, written>>
  BY <1>2, Zenon DEF Save, SampleThreshold, ReadHealth, SendSignal,
     SignalFails, PollClip, PollStatus, TimesOut, daemonVars
<1>3. CASE UNCHANGED vars
  BY <1>3, Zenon DEF vars, daemonVars
<1> QED BY <1>1, <1>2, <1>3 DEF Next

\* Time goes on.
LEMMA TimePasses ==
  ASSUME Types, [Next]_vars
  PROVE  /\ now \in Nat /\ now' \in Nat /\ now <= now'
         /\ now' = now \/ Tick
<1>1. now \in Nat
  BY Numbers DEF Types, Counts
<1>2. CASE SaveCallback
  BY <1>1, <1>2, WorkerMoves
<1>3. CASE ~SaveCallback
  <2>1. now' = now \/ Tick
    BY <1>3, StatusMoves DEF MainReads, MainWrites
  <2> QED BY <1>1, <2>1 DEF Tick
<1> QED BY <1>2, <1>3

LEMMA CountedStep ==
  ASSUME Types, SaveCounted, [Next]_vars
  PROVE  SaveCounted'
<1>1. /\ saves \in Nat /\ ended.save \in Nat
      /\ ended.at \in Int /\ status.at \in Int
  BY DEF Types, Counts, EndedType, StatusType
<1>2. CASE SaveCallback
  BY <1>1, <1>2, WorkerMoves, TimePasses DEF SaveCounted, Working
<1>3. CASE ~SaveCallback
  <2>1. UNCHANGED <<worker, saves, ended>>
    BY <1>3, OthersMove
  <2>2. status' = status \/ status'.at = now
    <3>1. ASSUME MainReads \/ Tick
          PROVE  status' = status
      BY <3>1, Zenon DEF MainReads, Tick
    <3>2. ASSUME MainWrites
          PROVE  status'.at = now
      BY <3>2 DEF MainWrites, WriteRecorderStatusFile
    <3> QED BY <1>3, <3>1, <3>2, StatusMoves
  <2> QED BY <1>1, <2>1, <2>2, TimePasses DEF SaveCounted
<1> QED BY <1>2, <1>3

LEMMA KeptStep ==
  ASSUME Types, SaveCounted, FailureKept, [Next]_vars
  PROVE  FailureKept'
<1>1. CASE SaveCallback
  BY <1>1, WorkerMoves DEF FailureKept, Working
<1>2. CASE ~SaveCallback
  BY <1>2, OthersMove DEF FailureKept
<1> QED BY <1>1, <1>2

LEMMA WrittenStep ==
  ASSUME Types, SaveCounted, FailureKept, FailureWritten, [Next]_vars
  PROVE  FailureWritten'
<1>1. ended.at \in Int /\ ended.save \in Nat /\ saves \in Nat
  BY DEF Types, EndedType, Counts
<1>2. CASE SaveCallback
  BY <1>1, <1>2, WorkerMoves, TimePasses DEF FailureWritten, SaveCounted, Working
<1>3. CASE ~SaveCallback
  <2>1. UNCHANGED <<saves, ended>>
    BY <1>3, OthersMove
  <2>2. ended.failed /\ saves = ended.save => lastFailure # 0
    BY <1>1 DEF SaveCounted, FailureKept
  <2>3. CASE UNCHANGED <<now, status, main, written>>
    BY <2>1, <2>3 DEF FailureWritten
  <2>4. CASE MainReads
    <3>1. main'.view.failure = lastFailure /\ UNCHANGED <<now, status, written>>
      BY <2>4 DEF MainReads, Recorder
    <3> QED BY <2>1, <2>2, <3>1 DEF FailureWritten
  <2>5. CASE MainWrites
    <3>1. /\ main.pc = "write" /\ main'.pc = "loop" /\ now' = now
          /\ status'.content = main.view
      BY <2>5 DEF MainWrites, Looping, WriteRecorderStatusFile
    <3> QED BY <1>1, <2>1, <3>1, TimePasses DEF FailureWritten
  <2>6. CASE Tick
    <3>1. /\ main.pc = "loop" /\ now' = now + 1 /\ written /\ ~written'
          /\ UNCHANGED <<main, status>>
      BY <2>6 DEF Tick
    <3>2. now >= ended.at
      BY <1>1, TimePasses DEF SaveCounted, Types, StatusType
    <3> QED BY <1>1, <2>1, <3>1, <3>2, TimePasses DEF FailureWritten
  <2> QED BY <1>3, <2>3, <2>4, <2>5, <2>6, StatusMoves
<1> QED BY <1>2, <1>3

\* What a command's step does to it, field by field.
CommandMove(c) ==
  /\ UNCHANGED <<now, worker, lastFailure, saves, clips, ended>>
  /\ \A d \in Commands \ {c} : command'[d] = command[d]
  /\ \/ /\ At(c, "idle") \/ At(c, "health")
        /\ command'[c].pc \in {"health", "signal"}
        /\ command'[c].threshold \in {command[c].threshold, now - 1}
        /\ command'[c].answer = command[c].answer
     \/ /\ At(c, "signal") /\ command'[c].pc = "clip"
        /\ command'[c].threshold = command[c].threshold
        /\ command'[c].asked = saves
        /\ command'[c].answer = command[c].answer
     \/ /\ command'[c].threshold = command[c].threshold
        /\ command'[c].asked = command[c].asked
        /\ command'[c].deadline = command[c].deadline
        /\ \/ /\ command'[c].pc = "answered"
              /\ command'[c].answer # "timeout"
           \/ /\ At(c, "clip") /\ command'[c].pc = "answered"
              /\ now >= command[c].deadline
           \/ /\ At(c, "clip") /\ command'[c].pc = "status"
              /\ ~YoungClip(c) /\ command'[c].polled = command[c].polled
              /\ command'[c].answer = command[c].answer
           \/ /\ At(c, "status") /\ command'[c].pc = "clip"
              /\ command'[c].answer = command[c].answer
              /\ \/ status.at < command[c].threshold
                 \/ status.content.failure = 0
                 \/ command'[c].polled = command[c].polled

LEMMA CommandMoves ==
  ASSUME Types, NEW c \in Commands,
         Save(c) \/ PollClip(c) \/ PollStatus(c) \/ TimesOut(c)
  PROVE  CommandMove(c)
<1>1. command \in [Commands -> CommandRecord] /\ command[c] \in CommandRecord
  BY DEF Types, CommandType
<1>2. UNCHANGED <<now, worker, lastFailure, saves, clips, ended>>
  BY Zenon DEF Save, SampleThreshold, ReadHealth, SendSignal, SignalFails,
     PollClip, PollStatus, TimesOut, daemonVars
<1>3. ASSUME NEW w, NEW n, Answer(c, w, n)
      PROVE  /\ \A d \in Commands \ {c} : command'[d] = command[d]
             /\ command'[c].threshold = command[c].threshold
             /\ command'[c].asked = command[c].asked
             /\ command'[c].deadline = command[c].deadline
             /\ command'[c].pc = "answered" /\ command'[c].answer = w
  BY <1>1, <1>3 DEF Answer, CommandRecord
<1> DEFINE Untimely ==
      \E w \in {"saved", "failed", "not ready", "not sent"}, n \in Nat :
        Answer(c, w, n)
<1>4. ASSUME Untimely
      PROVE  /\ \A d \in Commands \ {c} : command'[d] = command[d]
             /\ command'[c].threshold = command[c].threshold
             /\ command'[c].asked = command[c].asked
             /\ command'[c].deadline = command[c].deadline
             /\ command'[c].pc = "answered" /\ command'[c].answer # "timeout"
  <2>1. PICK w \in {"saved", "failed", "not ready", "not sent"}, n \in Nat :
          Answer(c, w, n)
    BY <1>4
  <2> QED BY <1>3, <2>1
<1>5. ASSUME Untimely
      PROVE  CommandMove(c)
  BY <1>2, <1>4, <1>5 DEF CommandMove
<1> HIDE DEF Untimely
<1>6. CASE Save(c)
  <2>1. CASE Answer(c, "not ready", 0) \/ Answer(c, "not sent", 0)
    BY <1>5, <2>1 DEF Untimely
  <2>2. CASE SampleThreshold(c)
    <3>1. /\ command'[c].pc = "health" /\ command'[c].threshold = now - 1
          /\ command'[c].answer = command[c].answer
          /\ \A d \in Commands \ {c} : command'[d] = command[d]
      BY <1>1, <2>2 DEF SampleThreshold, Threshold, CommandRecord
    <3> QED BY <1>2, <2>2, <3>1 DEF SampleThreshold, CommandMove
  <2>3. CASE ReadHealth(c) /\ ~Answer(c, "not ready", 0)
    <3>1. command' = [command EXCEPT ![c].pc = "signal"]
      BY <2>3 DEF ReadHealth
    <3>2. /\ command'[c].pc = "signal"
          /\ command'[c].threshold = command[c].threshold
          /\ command'[c].answer = command[c].answer
          /\ \A d \in Commands \ {c} : command'[d] = command[d]
      BY <1>1, <3>1 DEF CommandRecord
    <3> QED BY <1>2, <2>3, <3>2 DEF ReadHealth, CommandMove
  <2>4. CASE SendSignal(c)
    <3>1. /\ command'[c].pc = "clip" /\ command'[c].asked = saves
          /\ command'[c].threshold = command[c].threshold
          /\ command'[c].answer = command[c].answer
          /\ \A d \in Commands \ {c} : command'[d] = command[d]
      BY <1>1, <2>4 DEF SendSignal, CommandRecord
    <3> QED BY <1>2, <2>4, <3>1 DEF SendSignal, CommandMove
  <2> QED BY <1>6, <2>1, <2>2, <2>3, <2>4, Zenon DEF Save, SignalFails
<1>7. CASE PollClip(c)
  <2>1. CASE \E clip \in Young(c) : Answer(c, "saved", clip.save)
    <3>1. \A clip \in clips : clip.save \in Nat
      BY DEF Types, ClipsType, Clips
    <3> QED BY <1>5, <2>1, <3>1 DEF Young, Untimely
  <2>2. CASE /\ \A clip \in Young(c) : ~clip.whole
             /\ command' = [command EXCEPT ![c].pc = "status"]
    <3>1. ~YoungClip(c)
      BY <2>2 DEF YoungClip, Young
    <3>2. /\ command'[c].pc = "status"
          /\ command'[c].threshold = command[c].threshold
          /\ command'[c].asked = command[c].asked
          /\ command'[c].deadline = command[c].deadline
          /\ command'[c].answer = command[c].answer
          /\ command'[c].polled = command[c].polled
          /\ \A d \in Commands \ {c} : command'[d] = command[d]
      BY <1>1, <2>2 DEF CommandRecord
    <3> QED BY <1>2, <1>7, <3>1, <3>2 DEF PollClip, CommandMove
  <2> QED BY <1>7, <2>1, <2>2 DEF PollClip
<1>8. CASE PollStatus(c)
  <2>1. PICK content \in Readings :
          IF status.at >= command[c].threshold
             /\ (~content.healthy \/ content.failure # 0)
          THEN IF content.healthy
               THEN Answer(c, "failed", content.failure)
               ELSE Answer(c, "not ready", 0)
          ELSE command' = [command EXCEPT ![c].pc = "clip",
                 ![c].polled = @ \/ content = status.content]
    BY <1>8 DEF PollStatus
  <2>2. CASE status.at >= command[c].threshold
             /\ (~content.healthy \/ content.failure # 0)
    <3>1. content.failure \in Nat
      BY DEF Readings, Nothing, StatusType, Content, Types
    <3> QED BY <1>5, <2>1, <2>2, <3>1 DEF Untimely
  <2>3. CASE ~(status.at >= command[c].threshold
               /\ (~content.healthy \/ content.failure # 0))
    <3> DEFINE found == command[c].polled \/ content = status.content
    <3>3. found \in BOOLEAN
      OBVIOUS
    <3>4. command' = [command EXCEPT ![c].pc = "clip", ![c].polled = found]
      BY <2>1, <2>3
    <3>5. content # status.content => found = command[c].polled
      BY <1>1 DEF CommandRecord
    <3> HIDE DEF found
    <3>1. /\ \A d \in Commands \ {c} : command'[d] = command[d]
          /\ command'[c].threshold = command[c].threshold
          /\ command'[c].asked = command[c].asked
          /\ command'[c].deadline = command[c].deadline
          /\ command'[c].answer = command[c].answer
          /\ command'[c].pc = "clip"
          /\ command'[c].polled = found
      BY <1>1, <3>3, <3>4 DEF CommandRecord
    <3>2. \/ status.at < command[c].threshold
          \/ status.content.failure = 0
          \/ command'[c].polled = command[c].polled
      <4>1. status.at \in Int /\ command[c].threshold \in Int
        BY <1>1 DEF Types, StatusType, CommandRecord
      <4>3. CASE content = status.content
        BY <2>3, <4>1, <4>3
      <4>4. CASE content # status.content
        BY <3>1, <3>5, <4>4
      <4> QED BY <4>3, <4>4
    <3> QED BY <1>2, <1>8, <3>1, <3>2 DEF PollStatus, CommandMove
  <2> QED BY <2>2, <2>3
<1>9. CASE TimesOut(c)
  <2>1. command'[c].pc = "answered" /\ command'[c].deadline = command[c].deadline
    BY <1>3, <1>9 DEF TimesOut
  <2> QED BY <1>2, <1>3, <1>9 DEF TimesOut, CommandMove
<1> QED BY <1>6, <1>7, <1>8, <1>9

LEMMA LeavesStep ==
  ASSUME Types, SaveCounted, NEW c \in Commands, LeavesClip(c), [Next]_vars
  PROVE  LeavesClip(c)'
<1>1. /\ saves \in Nat /\ ended.save \in Nat /\ ended.at \in Int
      /\ command[c].asked \in Nat /\ command[c].threshold \in Int
      /\ worker.at \in Int /\ command \in [Commands -> CommandRecord]
      /\ \A clip \in clips : clip.at \in Int
  BY DEF Types, Counts, EndedType, WorkerType, CommandType, CommandRecord,
         ClipsType, Clips
<1>2. CASE SaveCallback
  <2>1. YoungClip(c) => YoungClip(c)'
    BY <1>2, WorkerMoves DEF YoungClip
  <2>2. UNCHANGED <<now, command>>
    BY <1>2, WorkerMoves
  <2>0. Waiting(c)' => Waiting(c)
    BY <2>2 DEF Waiting, At
  <2>3. (Waiting(c) /\ saves > command[c].asked)' =>
          /\ worker'.pc \in {"publish", "copy"} =>
               worker'.at >= command[c].threshold
          /\ worker'.pc \in {"read", "write"} /\ lastFailure' = 0 =>
               YoungClip(c)'
    BY <1>1, <1>2, <2>0, <2>1, <2>2, WorkerMoves, TimePasses
       DEF LeavesClip, YoungClip, SaveCounted, Working
  <2>4. (Waiting(c) /\ ended.save > command[c].asked)' =>
          /\ ended'.at >= command[c].threshold
          /\ ~ended'.failed => YoungClip(c)'
    BY <1>1, <1>2, <2>0, <2>1, <2>2, WorkerMoves, TimePasses DEF LeavesClip
  <2> QED BY <2>2, <2>3, <2>4 DEF LeavesClip
<1>3. CASE ~SaveCallback
  <2>1. UNCHANGED <<worker, lastFailure, saves, clips, ended>>
    BY <1>3, OthersMove
  <2>2. CASE /\ command'[c].threshold = command[c].threshold
             /\ command'[c].asked = command[c].asked
             /\ Waiting(c)' => Waiting(c)
    BY <1>1, <2>1, <2>2, TimePasses DEF LeavesClip, YoungClip
  <2>3. CASE /\ command'[c].threshold \in {command[c].threshold, now - 1}
             /\ command'[c].asked = saves \/ ~Waiting(c)'
    BY <1>1, <2>1, <2>3, TimePasses DEF LeavesClip, SaveCounted
  <2>4. CASE UNCHANGED command
    BY <2>2, <2>4 DEF Waiting, At
  <2>5. CASE Tick
    <3>1. /\ command'[c].threshold = command[c].threshold
          /\ command'[c].asked = command[c].asked
          /\ command'[c].pc = command[c].pc
      BY <1>1, <2>5 DEF Tick, CommandRecord
    <3> QED BY <2>2, <3>1 DEF Waiting, At
  <2>6. ASSUME NEW d \in Commands,
               Save(d) \/ PollClip(d) \/ PollStatus(d) \/ TimesOut(d)
        PROVE  LeavesClip(c)'
    <3>1. CommandMove(d)
      BY <2>6, CommandMoves
    <3>2. CASE c # d
      BY <2>2, <3>1, <3>2 DEF CommandMove, Waiting, At
    <3>3. CASE c = d
      BY <2>2, <2>3, <3>1, <3>3 DEF CommandMove, Waiting, At
    <3> QED BY <3>2, <3>3
  <2> QED BY <1>3, <2>4, <2>5, <2>6, OthersMove
<1> QED BY <1>2, <1>3

\* OutcomeSeen needs what the save left behind (LeavesClip, FailureWritten): the
\* command that polls once more can then do nothing but answer.
LEMMA SeenStep ==
  ASSUME Types, SaveCounted, FailureWritten, NEW c \in Commands,
         LeavesClip(c), OutcomeSeen(c), [Next]_vars
  PROVE  OutcomeSeen(c)'
<1>1. /\ saves \in Nat /\ ended.save \in Nat /\ ended.at \in Int
      /\ status.at \in Int /\ now \in Nat
      /\ command[c].asked \in Nat /\ command[c].threshold \in Int
      /\ command \in [Commands -> CommandRecord]
      /\ ended.at <= status.at /\ ended.at <= now
  BY TimePasses
     DEF Types, Counts, EndedType, StatusType, CommandType, CommandRecord,
         SaveCounted
<1>2. CASE SaveCallback
  <2>1. UNCHANGED <<now, command>>
    BY <1>2, WorkerMoves
  <2>2. \/ UNCHANGED ended /\ saves <= saves' /\ saves' \in Nat
        \/ ended'.at = now
    BY <1>1, <1>2, WorkerMoves
  <2>3. ended.save <= saves
    BY <1>1 DEF SaveCounted
  <2> QED BY <1>1, <2>1, <2>2, <2>3 DEF OutcomeSeen, Waiting, At
<1>3. CASE ~SaveCallback
  <2>1. UNCHANGED <<saves, ended>>
    BY <1>3, OthersMove
  <2>2. ASSUME NEW d \in Commands,
               Save(d) \/ PollClip(d) \/ PollStatus(d) \/ TimesOut(d)
        PROVE  OutcomeSeen(c)'
    <3>1. now' = now
      BY <2>2, CommandMoves DEF CommandMove
    <3>2. CASE c # d
      <4>1. command'[c] = command[c]
        BY <2>2, <3>2, CommandMoves DEF CommandMove
      <4> QED BY <2>1, <3>1, <4>1 DEF OutcomeSeen, Waiting, At
    <3>3. CASE c = d
      <4>1. CommandMove(c)
        BY <2>2, <3>3, CommandMoves
      <4>2. CASE command'[c].asked = saves
        BY <1>1, <2>1, <4>2 DEF OutcomeSeen, SaveCounted
      <4>3. CASE command'[c].pc \in {"health", "signal", "answered"}
        BY <4>3 DEF OutcomeSeen, Waiting, At
      <4>4. CASE /\ At(c, "clip") /\ command'[c].asked = command[c].asked
                 /\ command'[c].pc = "status"
                 /\ ~YoungClip(c) /\ command'[c].polled = command[c].polled
        BY <2>1, <3>1, <4>4 DEF OutcomeSeen, Waiting, At, LeavesClip
      <4>5. CASE /\ At(c, "status") /\ command'[c].pc = "clip"
                 /\ command'[c].asked = command[c].asked
                 /\ \/ status.at < command[c].threshold
                    \/ status.content.failure = 0
                    \/ command'[c].polled = command[c].polled
        <5> SUFFICES ASSUME ended.save > command[c].asked
                     PROVE  OutcomeSeen(c)'
          BY <2>1, <4>5 DEF OutcomeSeen
        <5>1. Waiting(c) /\ ~At(c, "clip")
          BY <4>5 DEF Waiting, At
        <5>2. ~ended.failed => now = ended.at
          BY <5>1 DEF OutcomeSeen
        <5>3. ended.failed /\ saves = ended.save =>
                \/ now <= ended.at + 1
                \/ now = ended.at + 2 /\ ~command'[c].polled
          <6>1. status.at >= command[c].threshold
            BY <1>1, <5>1 DEF LeavesClip
          <6>2. ended.failed /\ saves = ended.save /\ now > ended.at + 1 =>
                  status.content.failure # 0
            BY DEF FailureWritten
          <6> QED BY <1>1, <4>5, <5>1, <6>1, <6>2 DEF OutcomeSeen
        <5> QED BY <2>1, <3>1, <5>2, <5>3 DEF OutcomeSeen
      <4> QED BY <4>1, <4>2, <4>3, <4>4, <4>5 DEF CommandMove
    <3> QED BY <3>2, <3>3
  <2>3. CASE Tick
    <3>1. /\ now' = now + 1
          /\ Waiting(c) => At(c, "clip") /\ command[c].polled
      BY <2>3 DEF Tick
    <3>2. /\ command'[c].pc = command[c].pc /\ ~command'[c].polled
          /\ command'[c].asked = command[c].asked
      <4>1. command'[c] = [command[c] EXCEPT !.polled = FALSE]
        BY <2>3 DEF Tick
      <4> QED BY <1>1, <4>1 DEF CommandRecord
    <3> QED BY <1>1, <2>1, <3>1, <3>2 DEF OutcomeSeen, Waiting, At
  <2>4. CASE UNCHANGED <<command, now>>
    BY <2>1, <2>4 DEF OutcomeSeen, Waiting, At
  <2> QED BY <1>3, <2>2, <2>3, <2>4, OthersMove, TimePasses
<1> QED BY <1>2, <1>3

\* Once a command has given up, every save that ends does so after its deadline.
LEMMA GaveUpStep ==
  ASSUME Types, SaveCounted, NEW c \in Commands,
         OutcomeSeen(c), GaveUp(c), Asking, [Next]_vars
  PROVE  GaveUp(c)'
<1>1. /\ saves \in Nat /\ ended.save \in Nat /\ ended.at \in Int
      /\ now \in Nat /\ now' \in Nat /\ now <= now'
      /\ command[c].asked \in Nat /\ command[c].deadline \in Nat
      /\ command \in [Commands -> CommandRecord]
      /\ ended.save <= saves
  BY TimePasses
     DEF Types, Counts, EndedType, CommandType, CommandRecord, SaveCounted
<1>2. CASE SaveCallback
  <2>1. UNCHANGED <<now, command>>
    BY <1>2, WorkerMoves
  <2>2. \/ UNCHANGED ended /\ saves <= saves' /\ saves' \in Nat
        \/ ended'.at = now
    BY <1>1, <1>2, WorkerMoves
  <2> QED BY <1>1, <2>1, <2>2 DEF GaveUp, Answered
<1>3. CASE ~SaveCallback
  <2>1. UNCHANGED <<saves, ended>>
    BY <1>3, OthersMove
  <2>2. CASE /\ command'[c].answer = command[c].answer
             /\ command'[c].deadline = command[c].deadline
             /\ command'[c].asked = command[c].asked
    BY <1>1, <2>1, <2>2 DEF GaveUp, Answered
  <2>3. ASSUME NEW d \in Commands,
               Save(d) \/ PollClip(d) \/ PollStatus(d) \/ TimesOut(d)
        PROVE  GaveUp(c)'
    <3>1. now' = now
      BY <2>3, CommandMoves DEF CommandMove
    <3>2. CASE c # d
      BY <2>2, <2>3, <3>2, CommandMoves DEF CommandMove
    <3>3. CASE c = d
      <4>1. CommandMove(c)
        BY <2>3, <3>3, CommandMoves
      <4>2. CASE command'[c].answer # "timeout"
        BY <4>2 DEF GaveUp, Answered
      <4>3. CASE /\ At(c, "clip") /\ command'[c].pc = "answered"
                 /\ now >= command[c].deadline
                 /\ command'[c].asked = command[c].asked
                 /\ command'[c].deadline = command[c].deadline
        <5>1. Waiting(c)
          BY <4>3 DEF Waiting
        <5> QED BY <1>1, <2>1, <3>1, <4>3, <5>1 DEF GaveUp, OutcomeSeen
      <4>4. CASE /\ command[c].pc # "answered"
                 /\ command'[c].answer = command[c].answer
        BY <4>2, <4>4 DEF Asking
      <4> QED BY <4>1, <4>2, <4>3, <4>4 DEF CommandMove, At
    <3> QED BY <3>2, <3>3
  <2>4. CASE Tick
    <3>1. command'[c] = [command[c] EXCEPT !.polled = FALSE]
      BY <2>4 DEF Tick
    <3> QED BY <1>1, <2>2, <3>1 DEF CommandRecord
  <2>5. CASE UNCHANGED command
    BY <2>2, <2>5
  <2> QED BY <1>3, <2>3, <2>4, <2>5, OthersMove
<1> QED BY <1>2, <1>3

LEMMA InitTold == Init => Told
<1> SUFFICES ASSUME Init PROVE Told
  OBVIOUS
<1>1. /\ now = 0 /\ lastFailure = 0 /\ saves = 0 /\ clips = {}
      /\ worker = Resting /\ main = Looping
      /\ status = [content |-> Nothing, at |-> 0]
      /\ ended = [save |-> 0, failed |-> FALSE, at |-> 0]
  BY Zenon DEF Init
<1>2. \A c \in Commands :
        /\ command[c].pc = "idle" /\ command[c].threshold = 0
        /\ command[c].asked = 0 /\ command[c].answer = "none"
  BY DEF Init
<1>3. worker.pc = "idle" /\ ended.save = 0 /\ ended.at = 0 /\ status.at = 0
  BY <1>1 DEF Resting
<1>4. ~ended.failed
  BY <1>1
<1>5. SaveCounted
  BY <1>1, <1>3 DEF SaveCounted, Working
<1>6. FailureKept /\ FailureWritten
  BY <1>1, <1>3, <1>4 DEF FailureKept, FailureWritten
<1>7. ASSUME NEW c \in Commands
      PROVE  LeavesClip(c) /\ OutcomeSeen(c) /\ GaveUp(c)
  BY <1>1, <1>2, <1>3
     DEF LeavesClip, OutcomeSeen, GaveUp, Waiting, At, Answered
<1> QED BY <1>5, <1>6, <1>7 DEF Told

\* `clipdeck save` gives up only when no save that began after its request was
\* through three ticks before its deadline, or when that one failed and another
\* save has taken its failure back (core.cpp:305-330, 479-480, 553-560).
THEOREM GivesUpOnSlow == Spec => []TimeoutMeansSlow
  <1>1. Types /\ Asking /\ Told /\ [Next]_vars => Told'
    <2> SUFFICES ASSUME Types, Asking, Told, [Next]_vars PROVE Told'
      OBVIOUS
    <2>1. SaveCounted' /\ FailureKept' /\ FailureWritten'
      BY CountedStep, KeptStep, WrittenStep DEF Told
    <2>2. ASSUME NEW c \in Commands
          PROVE  LeavesClip(c)' /\ OutcomeSeen(c)' /\ GaveUp(c)'
      BY LeavesStep, SeenStep, GaveUpStep DEF Told
    <2> QED
      BY <2>1, <2>2 DEF Told
  <1>2. IInv => Types /\ Asking
    BY DEF IInv
  <1>3. Told => TimeoutMeansSlow
    BY DEF Told, GaveUp, TimeoutMeansSlow
  <1> QED
    BY InitTold, Inductive, <1>1, <1>2, <1>3, PTL DEF Spec
=============================================================================
