----------------------------- MODULE DaemonProofs -----------------------------
(***************************************************************************)
(* Theorems about the daemon process: the runtime (RunListener and its     *)
(* threads), for any number of signals, reselections and key presses; and  *)
(* its keybind listener, for any devices, keys, keybinds and bounds.       *)
(*                                                                         *)
(* What is proved of the save controller in SaveControllerProofs is cited  *)
(* through the instance SC: the same substitution as Daemon's Controller.  *)
(***************************************************************************)
EXTENDS Daemon, DaemonListener, FiniteSetTheorems, TLAPS

SC == INSTANCE SaveControllerProofs
        WITH Callers <- {"main", "listener"},
             KeybindDebounce <- 0,
             MaxTime <- 0,
             MaxRequests <- MaxSignals + MaxKeys + 1

-----------------------------------------------------------------------------
(* The daemon uses the controller only as SaveController says.             *)

\* A step of the daemon is a step of its controller or leaves it alone.
LEMMA ControllerStep ==
  ASSUME [Next]_vars
  PROVE  [Controller!Next]_(Controller!vars)
<1> DEFINE Alone == UNCHANGED controllerVars
<1>1. ASSUME Alone
      PROVE  UNCHANGED Controller!vars
  BY <1>1 DEF controllerVars, Controller!vars, Controller!callVars,
              Controller!queueVars, Controller!requestVars,
              Controller!stopVars, Controller!history
<1>2. CASE UNCHANGED vars
  BY <1>1, <1>2 DEF vars
<1>3. CASE ShutdownSignal \/ SaveSignal \/ ChooseCaptureSignal \/ StreamEnds
             \/ StopKey
  BY <1>1, <1>3 DEF ShutdownSignal, SaveSignal, ChooseCaptureSignal,
                    StreamEnds, StopKey
<1>4. CASE SaveKey
  <2>1. Controller!SampleTime("listener", "keybind")
    BY <1>4 DEF SaveKey
  <2> QED BY <2>1 DEF Controller!Next, Controller!Sources
<1>5. CASE SaveKeyRequest
  <2>1. Controller!RequestSave("listener")
    BY <1>5 DEF SaveKeyRequest
  <2> QED BY <2>1 DEF Controller!Next
<1>6. CASE WorkerLoop
  BY <1>6 DEF WorkerLoop, Controller!Next, Controller!Worker
<1>7. CASE WorkerTakes
  BY <1>7 DEF WorkerTakes, Controller!Next, Controller!Worker
<1>8. CASE SaveRefused \/ SaveBegins \/ SaveEnds \/ SaveOnDestroyed \/ Crash
             \/ SaveReadsStatus
  BY <1>1, <1>8 DEF SaveRefused, SaveBegins, SaveEnds, SaveOnDestroyed, Crash,
                    SaveReadsStatus
<1>9. CASE SaveWritesStatus
  BY <1>9 DEF SaveWritesStatus, Controller!Next, Controller!Worker
<1>10. CASE \/ Boot \/ Serve \/ LoopTest \/ NoManualSave \/ KeepCapture
            \/ ChooseCapture \/ RestartStops \/ RestartReplaces
            \/ RestartStarts \/ RestartReadsStatus \/ RestartWritesStatus
            \/ NotDue \/ PeriodicReadsStatus \/ PeriodicWritesStatus
            \/ StopListener \/ StopRecorder \/ FinalStatus
  BY <1>1, <1>10
     DEF Boot, Serve, LoopTest, NoManualSave, KeepCapture, ChooseCapture,
         RestartStops, RestartReplaces, RestartStarts, RestartReadsStatus,
         RestartWritesStatus, NotDue, PeriodicReadsStatus,
         PeriodicWritesStatus, StopListener, StopRecorder, FinalStatus
<1>11. CASE ManualSave
  <2>1. Controller!SampleTime("main", "manual")
    BY <1>11 DEF ManualSave
  <2> QED BY <2>1 DEF Controller!Next, Controller!Sources
<1>12. CASE ManualRequest
  <2>1. Controller!RequestSave("main")
    BY <1>12 DEF ManualRequest
  <2> QED BY <2>1 DEF Controller!Next
<1>13. CASE StopController
  BY <1>13 DEF StopController, Controller!Next
<1> QED
  BY <1>2, <1>3, <1>4, <1>5, <1>6, <1>7, <1>8, <1>9, <1>10, <1>11, <1>12,
     <1>13 DEF Next, Environment, Worker, Main

\* RunListener and its threads use the save controller as its module allows:
\* whatever holds of SaveController holds of the one in the daemon.
THEOREM UsesController == SafeSpec => Controller!SafeSpec
<1>1. Init => Controller!Init
  BY DEF Init
<1> QED BY <1>1, ControllerStep, PTL DEF SafeSpec, Controller!SafeSpec

\* The two instances are the same module under the same substitution.
LEMMA SameStep ==
  [Controller!Next]_(Controller!vars) <=> [SC!Next]_(SC!vars)
  BY DEF Controller!Tick, SC!Tick, Controller!SampleTime, SC!SampleTime,
         Controller!RequestSave, SC!RequestSave, Controller!RefuseRequest,
         SC!RefuseRequest, Controller!EnqueueRequest, SC!EnqueueRequest,
         Controller!Refused, SC!Refused, Controller!KeybindDebouncePassed,
         SC!KeybindDebouncePassed, Controller!Returns, SC!Returns,
         Controller!Remember, SC!Remember, Controller!Woken, SC!Woken,
         Controller!Worker, SC!Worker, Controller!LoopTest, SC!LoopTest,
         Controller!Sleep, SC!Sleep, Controller!LeaveWait, SC!LeaveWait,
         Controller!TakeRequest, SC!TakeRequest, Controller!CallbackReturns,
         SC!CallbackReturns, Controller!ExitAfterSave, SC!ExitAfterSave,
         Controller!FinishSave, SC!FinishSave, Controller!PromotePending,
         SC!PromotePending, Controller!BecomeIdle, SC!BecomeIdle,
         Controller!Outstanding, SC!Outstanding, Controller!Saving,
         SC!Saving, Controller!Stop, SC!Stop, Controller!MarkStopped,
         SC!MarkStopped, Controller!RequestStop, SC!RequestStop,
         Controller!Join, SC!Join, Controller!Sources, SC!Sources,
         Controller!Next, SC!Next, Controller!vars, SC!vars,
         Controller!callVars, SC!callVars, Controller!queueVars,
         SC!queueVars, Controller!requestVars, SC!requestVars,
         Controller!stopVars, SC!stopVars, Controller!history, SC!history,
         Controller!Record, SC!Record

\* They have the same states.
LEMMA SameState ==
  /\ Controller!Init <=> SC!Init
  /\ Controller!TypeOK <=> SC!TypeOK
  /\ Controller!TypeOK' <=> SC!TypeOK'
  BY DEF Controller!Init, SC!Init, Controller!TypeOK, SC!TypeOK,
         Controller!States, SC!States, Controller!Sources, SC!Sources,
         Controller!Calls, SC!Calls, Controller!WorkerPCs, SC!WorkerPCs,
         Controller!StopPCs, SC!StopPCs

USE DaemonBounds, DaemonNone

\* The invariant of the controller holds in the daemon: it is not proved again.
LEMMA ControllerInit == Init => SC!IInv
BY SC!InitIInv, SameState DEF Init, SC!Sources

LEMMA ControllerInv ==
  ASSUME SC!IInv, [Next]_vars
  PROVE  SC!IInv'
<1>1. [SC!Next]_(SC!vars)
  BY ControllerStep, SameStep
<1> QED
  BY <1>1, SC!TypeStep, SC!ConsistencyStep, SC!AccountStep
     DEF SC!Sources, SC!IInv

-----------------------------------------------------------------------------
(* The inductive invariant.                                                *)

\* No more recorders are made than reselections were asked for.
RecorderCounted ==
  recorder.id + (IF choose_capture_requested THEN 1 ELSE 0)
    + (IF main \in {"restart", "replace"} THEN 1 ELSE 0) <= reselects

\* The save callback runs on the worker; it holds a recorder while it saves.
CallbackConsistent ==
  /\ callback # "enter" => worker = "callback"
  /\ callback = "saving" => saving_on # None
  /\ saving_on # None => callback \in {"saving", "crashed"}
  /\ callback = "crashed" => main = "crashed"

\* What RunListener has behind it when it stops its parts one by one.
ShutdownConsistent ==
  /\ main \in {"stop_controller", "stop_recorder", "final", "returned"} =>
       listener = "stopped"
  /\ main \in {"stop_recorder", "final", "returned"} => stopper = "joined"
  /\ main \in {"final", "returned"} => ~recorder.running
  /\ main = "returned" => file = StatusLine(recorder)

\* From the check for an active save to the end of the old recorder the main
\* thread makes no request, and the listener thread makes keybind requests
\* only.
RestartGuarded ==
  /\ call["listener"] # None => call["listener"].source = "keybind"
  /\ main \in {"restart", "replace"} =>
       "manual" \notin {active_source, pending_source, source}

IInv ==
  /\ SC!IInv
  /\ TypeOK /\ RecorderCounted
  /\ CallbackConsistent
  /\ ShutdownConsistent
  /\ RestartGuarded

\* The daemon starts in a state of the invariant.
LEMMA InitIInv == Init => IInv
<1> SUFFICES ASSUME Init PROVE IInv
  OBVIOUS
<1>1. SC!IInv
  BY ControllerInit
<1>2. NewRecorder(0) \in Recorders
  BY DEF NewRecorder, Recorders, Results
<1>3. TypeOK
  <2>1. Controller!TypeOK
    BY <1>1, SameState DEF SC!IInv
  <2>2. RecordersOK
    BY <1>2 DEF Init, RecordersOK, NoStatus, NoLine, StatusLine, Lines, Recorders
  <2>3. ThreadsOK
    BY DEF Init, ThreadsOK, MainPCs
  <2>4. FlagsOK
    BY DEF Init, FlagsOK
  <2> QED BY <2>1, <2>2, <2>3, <2>4 DEF TypeOK
<1>4. RecorderCounted /\ CallbackConsistent /\ ShutdownConsistent
  BY DEF Init, RecorderCounted, CallbackConsistent, ShutdownConsistent,
         NewRecorder
<1>5. RestartGuarded
  BY DEF Init, Controller!Init, RestartGuarded
<1> QED BY <1>1, <1>3, <1>4, <1>5 DEF IInv

\* An empty local is a status like any other.
LEMMA NoStatusType == NoStatus \in Recorders
BY DEF NoStatus, NewRecorder, Recorders, Results

\* The recorders that the daemon's steps make of a recorder.
LEMMA RecorderUpdates ==
  ASSUME NEW r \in Recorders
  PROVE  /\ [r EXCEPT !.running = FALSE] \in Recorders
         /\ [r EXCEPT !.running = FALSE, !.window = FALSE] \in Recorders
         /\ \A res \in Results : [r EXCEPT !.last = res] \in Recorders
         /\ \A s \in Started(r) : s \in Recorders /\ s.id = r.id
<1>1. [r EXCEPT !.running = FALSE] \in Recorders
  BY DEF Recorders
<1>2. [r EXCEPT !.running = FALSE, !.window = FALSE] \in Recorders
  BY DEF Recorders
<1>3. ASSUME NEW res \in Results
      PROVE  [r EXCEPT !.last = res] \in Recorders
  BY DEF Recorders
<1>4. ASSUME NEW s \in Started(r)
      PROVE  s \in Recorders /\ s.id = r.id
  BY <1>4 DEF Recorders, Started
<1> QED BY <1>1, <1>2, <1>3, <1>4

\* The flags that the signal handlers and threads set and clear.
LEMMA FlagsStep ==
  ASSUME FlagsOK, [Next]_vars
  PROVE  FlagsOK'
<1> USE DEF FlagsOK, flags, owed
<1>1. CASE UNCHANGED vars
  BY <1>1 DEF vars
<1>2. CASE Environment \/ SaveKeyRequest
  BY <1>2
     DEF Environment, ShutdownSignal, SaveSignal, ChooseCaptureSignal,
         StreamEnds, SaveKey, StopKey, SaveKeyRequest
<1>3. CASE Worker
  BY <1>3
     DEF Worker, WorkerLoop, WorkerTakes, SaveRefused, SaveBegins, SaveEnds,
         SaveOnDestroyed, Crash, SaveReadsStatus, SaveWritesStatus
<1>4. CASE Main
  BY <1>4
     DEF Main, Boot, Serve, LoopTest, NoManualSave, ManualSave, ManualRequest,
         KeepCapture, ChooseCapture, RestartStops, RestartReplaces,
         RestartStarts, RestartReadsStatus, RestartWritesStatus, NotDue,
         PeriodicReadsStatus, PeriodicWritesStatus, StopListener,
         StopController, StopRecorder, FinalStatus
<1> QED BY <1>1, <1>2, <1>3, <1>4 DEF Next

\* Where the three threads are.
LEMMA ThreadsStep ==
  ASSUME ThreadsOK, [Next]_vars
  PROVE  ThreadsOK'
<1> USE DEF ThreadsOK, MainPCs, budget
<1>1. CASE UNCHANGED vars
  BY <1>1 DEF vars
<1>2. CASE Environment \/ SaveKeyRequest
  BY <1>2
     DEF Environment, ShutdownSignal, SaveSignal, ChooseCaptureSignal,
         StreamEnds, SaveKey, StopKey, SaveKeyRequest
<1>3. CASE Worker
  BY <1>3
     DEF Worker, WorkerLoop, WorkerTakes, SaveRefused, SaveBegins, SaveEnds,
         SaveOnDestroyed, Crash, SaveReadsStatus, SaveWritesStatus
<1>4. CASE Main
  BY <1>4
     DEF Main, Boot, Serve, LoopTest, NoManualSave, ManualSave, ManualRequest,
         KeepCapture, ChooseCapture, RestartStops, RestartReplaces,
         RestartStarts, RestartReadsStatus, RestartWritesStatus, NotDue,
         PeriodicReadsStatus, PeriodicWritesStatus, StopListener,
         StopController, StopRecorder, FinalStatus
<1> QED BY <1>1, <1>2, <1>3, <1>4 DEF Next

\* There is room for the recorder that a reselection makes.
LEMMA NextId ==
  ASSUME TypeOK, RecorderCounted, main = "replace"
  PROVE  recorder.id + 1 \in 0..MaxReselects
<1>1. recorder.id \in Nat
  BY DEF TypeOK, RecordersOK, Recorders
<1>2. reselects \in 0..MaxReselects
  BY DEF TypeOK, ThreadsOK
<1>3. recorder.id + 1 <= reselects
  BY <1>1, <1>2 DEF RecorderCounted
<1> QED BY <1>1, <1>2, <1>3

\* What the status file tells of a recorder is a line of that file.
LEMMA StatusLineType ==
  /\ \A r \in Recorders : StatusLine(r) \in Lines
  /\ NoLine \in Lines
BY NoStatusType DEF StatusLine, NoLine, Lines, Recorders

\* The recorder and the statuses read from one.
LEMMA RecordersStep ==
  ASSUME TypeOK, RecorderCounted, [Next]_vars
  PROVE  RecordersOK'
<1> USE RecorderUpdates, StatusLineType DEF TypeOK, RecordersOK, views
<1>1. CASE UNCHANGED vars
  BY <1>1 DEF vars
<1>2. CASE Environment \/ SaveKeyRequest
  BY <1>2
     DEF Environment, ShutdownSignal, SaveSignal, ChooseCaptureSignal,
         StreamEnds, SaveKey, StopKey, SaveKeyRequest
<1>0. NoStatus \in Recorders
  BY NoStatusType
<1>3. CASE Worker
  <2>1. CASE SaveRefused
    <3>1. "failed" \in Results
      BY DEF Results
    <3> QED BY <2>1, <3>1 DEF SaveRefused
  <2>2. CASE SaveBegins
    <3>1. recorder.id \in 0..MaxReselects /\ recorder.last \in Results
      BY DEF Recorders
    <3>2. "none" \in Results
      BY DEF Results
    <3>3. recorder' \in Recorders
      BY <2>2, <3>1, <3>2 DEF SaveBegins
    <3> QED BY <2>2, <3>1, <3>3 DEF SaveBegins
  <2>3. CASE SaveEnds
    <3>1. PICK r \in Results : recorder' = [recorder EXCEPT !.last = r]
      BY <2>3 DEF SaveEnds, Results
    <3> QED BY <2>3, <3>1 DEF SaveEnds
  <2>4. CASE WorkerLoop \/ WorkerTakes \/ SaveOnDestroyed \/ Crash
               \/ SaveReadsStatus \/ SaveWritesStatus
    BY <1>0, <2>4 DEF WorkerLoop, WorkerTakes, SaveOnDestroyed, Crash,
                SaveReadsStatus, SaveWritesStatus
  <2> QED BY <1>3, <2>1, <2>2, <2>3, <2>4 DEF Worker
<1>4. CASE RestartReplaces
  <2>1. recorder.id + 1 \in 0..MaxReselects
    BY <1>4, NextId DEF RestartReplaces
  <2>2. recorder' \in Recorders
    BY <2>1, <1>4 DEF RestartReplaces, NewRecorder, Recorders, Results
  <2> QED BY <1>4, <2>2 DEF RestartReplaces
<1>5. CASE Main /\ ~RestartReplaces
  BY <1>0, <1>5
     DEF Main, Boot, Serve, LoopTest, NoManualSave, ManualSave, ManualRequest,
         KeepCapture, ChooseCapture, RestartStops,
         RestartStarts, RestartReadsStatus, RestartWritesStatus, NotDue,
         PeriodicReadsStatus, PeriodicWritesStatus, StopListener,
         StopController, StopRecorder, FinalStatus
<1> QED BY <1>1, <1>2, <1>3, <1>4, <1>5 DEF Next

\* Only a reselection signal lets the main thread make one more recorder.
LEMMA CountStep ==
  ASSUME TypeOK, RecorderCounted, [Next]_vars
  PROVE  RecorderCounted'
<1> DEFINE Due == IF choose_capture_requested THEN 1 ELSE 0
           Making == IF main \in {"restart", "replace"} THEN 1 ELSE 0
<1>1. /\ recorder.id \in Nat /\ reselects \in Nat
      /\ recorder.id + Due + Making <= reselects
  BY DEF TypeOK, RecordersOK, ThreadsOK, Recorders, RecorderCounted
<1> SUFFICES recorder'.id + Due' + Making' <= reselects'
  BY DEF RecorderCounted
<1>2. Due \in 0..1 /\ Making \in 0..1 /\ Due' \in 0..1 /\ Making' \in 0..1
  OBVIOUS
<1> HIDE DEF Due, Making
<1>3. ASSUME UNCHANGED <<recorder, main, choose_capture_requested, reselects>>
      PROVE  recorder'.id + Due' + Making' <= reselects'
  BY <1>1, <1>3 DEF Due, Making
<1>4. CASE UNCHANGED vars
  BY <1>3, <1>4 DEF vars, flags, budget
<1>5. CASE ShutdownSignal \/ SaveSignal \/ SaveKey \/ StopKey \/ SaveKeyRequest
             \/ WorkerLoop \/ WorkerTakes \/ SaveOnDestroyed
             \/ SaveReadsStatus \/ SaveWritesStatus
  BY <1>3, <1>5
     DEF ShutdownSignal, SaveSignal, SaveKey, StopKey, SaveKeyRequest,
         WorkerLoop, WorkerTakes, SaveBegins, SaveOnDestroyed,
         SaveReadsStatus, SaveWritesStatus, flags, budget
<1>6. CASE ChooseCaptureSignal
  <2>1. reselects' = reselects + 1 /\ recorder' = recorder /\ Making' = Making
    BY <1>6 DEF ChooseCaptureSignal, Making
  <2> QED BY <1>1, <1>2, <2>1
<1>7. CASE StreamEnds \/ SaveRefused \/ SaveBegins \/ SaveEnds
  <2>1. recorder'.id = recorder.id /\ UNCHANGED <<main, flags, budget>>
    BY <1>7 DEF StreamEnds, SaveRefused, SaveBegins, SaveEnds, TypeOK, RecordersOK,
                Recorders
  <2> QED BY <1>1, <2>1 DEF Due, Making, flags, budget
<1>8. CASE Crash
  <2>1. Making' = 0 /\ Due' = Due /\ UNCHANGED <<recorder, reselects>>
    BY <1>8 DEF Crash, Making, Due, flags, budget
  <2> QED BY <1>1, <1>2, <2>1
<1>9. CASE Boot \/ RestartStarts
  <2>1. recorder'.id = recorder.id
    BY <1>9, RecorderUpdates DEF Boot, RestartStarts, TypeOK, RecordersOK
  <2>2. Making' = 0 /\ Due' = Due /\ UNCHANGED reselects
    BY <1>9 DEF Boot, RestartStarts, Making, Due, flags, budget
  <2> QED BY <1>1, <1>2, <2>1, <2>2
<1>10. CASE RestartStops \/ StopRecorder
  <2>1. recorder'.id = recorder.id /\ Making' = Making
    BY <1>10 DEF RestartStops, StopRecorder, TypeOK, RecordersOK, Recorders,
                 Making
  <2>2. Due' = Due /\ UNCHANGED reselects
    BY <1>10 DEF RestartStops, StopRecorder, Due, flags, budget
  <2> QED BY <1>1, <2>1, <2>2
<1>11. CASE ChooseCapture
  <2>1. Due = 1 /\ Due' = 0 /\ UNCHANGED <<recorder, reselects>>
    BY <1>11 DEF ChooseCapture, Due, budget
  <2>2. Making = 0
    BY <1>11 DEF ChooseCapture, Making
  <2> QED BY <1>1, <1>2, <2>1, <2>2
<1>12. CASE RestartReplaces
  <2>1. recorder'.id = recorder.id + 1
    BY <1>12 DEF RestartReplaces, NewRecorder
  <2>2. Making = 1 /\ Making' = 0
    BY <1>12 DEF RestartReplaces, Making
  <2>3. Due' = Due /\ UNCHANGED reselects
    BY <1>12 DEF RestartReplaces, Due, flags, budget
  <2> QED BY <1>1, <1>2, <2>1, <2>2, <2>3
<1>13. CASE \/ Serve \/ LoopTest \/ NoManualSave \/ ManualSave \/ ManualRequest
            \/ KeepCapture \/ RestartReadsStatus \/ RestartWritesStatus
            \/ NotDue \/ PeriodicReadsStatus \/ PeriodicWritesStatus
            \/ StopListener \/ StopController \/ FinalStatus
  <2>1. /\ main' \notin {"restart", "replace"}
        /\ UNCHANGED <<recorder, choose_capture_requested, reselects>>
    BY <1>13
       DEF Serve, LoopTest, NoManualSave, ManualSave, ManualRequest,
           KeepCapture, RestartReadsStatus, RestartWritesStatus, NotDue,
           PeriodicReadsStatus, PeriodicWritesStatus, StopListener,
           StopController, FinalStatus, flags, budget
  <2>2. Making' = 0 /\ Due' = Due
    BY <2>1 DEF Making, Due
  <2> QED BY <1>1, <1>2, <2>1, <2>2
<1> QED
  BY <1>4, <1>5, <1>6, <1>7, <1>8, <1>9, <1>10, <1>11, <1>12, <1>13
     DEF Next, Environment, Worker, Main

\* A request or a stop wakes the worker and does nothing else to it.
LEMMA WorkerKept ==
  ASSUME worker = "callback",
         \/ \E c \in {"main", "listener"} : Controller!RequestSave(c)
         \/ \E c \in {"main", "listener"}, s \in Controller!Sources :
              Controller!SampleTime(c, s)
         \/ Controller!Stop
  PROVE  worker' = "callback"
BY DEF Controller!RequestSave, Controller!RefuseRequest,
       Controller!EnqueueRequest, Controller!SampleTime, Controller!Stop,
       Controller!MarkStopped, Controller!RequestStop, Controller!Join,
       Controller!Woken

\* A save runs on a recorder while the worker is in its callback, and not
\* otherwise.
LEMMA CallbackStep ==
  ASSUME TypeOK, CallbackConsistent, [Next]_vars
  PROVE  CallbackConsistent'
<1> USE DEF CallbackConsistent
<1>1. ASSUME UNCHANGED <<callback, saving_on>>,
             worker = "callback" => worker' = "callback",
             main = "crashed" => main' = "crashed"
      PROVE  CallbackConsistent'
  BY <1>1
<1>2. CASE UNCHANGED vars
  BY <1>1, <1>2 DEF vars, controllerVars
<1>3. CASE ShutdownSignal \/ SaveSignal \/ ChooseCaptureSignal \/ StreamEnds
             \/ StopKey
  BY <1>1, <1>3
     DEF ShutdownSignal, SaveSignal, ChooseCaptureSignal, StreamEnds,
         StopKey, controllerVars
<1>4. CASE SaveKey \/ SaveKeyRequest
  <2>1. UNCHANGED <<callback, saving_on, main>>
    BY <1>4 DEF SaveKey, SaveKeyRequest
  <2>2. worker = "callback" => worker' = "callback"
    BY <1>4, WorkerKept DEF SaveKey, SaveKeyRequest, Controller!Sources
  <2> QED BY <1>1, <2>1, <2>2
<1>5. CASE WorkerLoop \/ WorkerTakes
  <2>1. worker # "callback" /\ UNCHANGED <<callback, saving_on, main>>
    BY <1>5 DEF WorkerLoop, WorkerTakes, Controller!LoopTest, Controller!Sleep,
                Controller!LeaveWait, Controller!ExitAfterSave,
                Controller!FinishSave, Controller!TakeRequest
  <2> QED BY <1>1, <2>1
<1>6. CASE SaveBegins
  <2>1. recorder.id # None
    BY DEF TypeOK, RecordersOK, Recorders
  <2> QED BY <1>6, <2>1 DEF SaveBegins, controllerVars
<1>7. CASE \/ SaveRefused \/ SaveEnds \/ SaveOnDestroyed \/ Crash
           \/ SaveReadsStatus
  BY <1>7 DEF SaveRefused, SaveEnds, SaveOnDestroyed, Crash, SaveReadsStatus,
              controllerVars
<1>8. CASE SaveWritesStatus
  BY <1>8 DEF SaveWritesStatus
<1>9. CASE \/ Boot \/ Serve \/ LoopTest \/ NoManualSave \/ KeepCapture
           \/ ChooseCapture \/ RestartStops \/ RestartReplaces
           \/ RestartStarts \/ RestartReadsStatus \/ RestartWritesStatus
           \/ NotDue \/ PeriodicReadsStatus \/ PeriodicWritesStatus
           \/ StopListener \/ StopRecorder \/ FinalStatus
  <2>1. main # "crashed" /\ UNCHANGED <<callback, saving_on, worker>>
    BY <1>9
     DEF Boot, Serve, LoopTest, NoManualSave, KeepCapture, ChooseCapture,
         RestartStops, RestartReplaces, RestartStarts, RestartReadsStatus,
         RestartWritesStatus, NotDue, PeriodicReadsStatus,
         PeriodicWritesStatus, StopListener, StopRecorder, FinalStatus,
         controllerVars
  <2> QED BY <1>1, <2>1
<1>10. CASE ManualSave \/ ManualRequest \/ StopController
  <2>1. main # "crashed" /\ UNCHANGED <<callback, saving_on>>
    BY <1>10 DEF ManualSave, ManualRequest, StopController
  <2>2. worker = "callback" => worker' = "callback"
    BY <1>10, WorkerKept
       DEF ManualSave, ManualRequest, StopController, Controller!Sources
  <2> QED BY <1>1, <2>1, <2>2
<1> QED
  BY <1>2, <1>3, <1>4, <1>5, <1>6, <1>7, <1>8, <1>9, <1>10
     DEF Next, Environment, Worker, Main

\* Stop is the only step of the controller that moves stopper, and a Stop that
\* has returned does not begin again.
LEMMA StopperMoves ==
  ASSUME [Next]_vars
  PROVE  stopper' = stopper \/ (StopController /\ stopper # "joined")
<1>1. CASE UNCHANGED controllerVars
  BY <1>1 DEF controllerVars
<1>2. ASSUME NEW c \in {"main", "listener"}, NEW s,
             Controller!SampleTime(c, s) \/ Controller!RequestSave(c)
      PROVE  stopper' = stopper
  BY <1>2 DEF Controller!SampleTime, Controller!RequestSave,
              Controller!RefuseRequest, Controller!EnqueueRequest,
              Controller!stopVars
<1>3. ASSUME \/ Controller!LoopTest \/ Controller!Sleep
             \/ Controller!LeaveWait \/ Controller!ExitAfterSave
             \/ Controller!FinishSave \/ Controller!TakeRequest
             \/ Controller!CallbackReturns
      PROVE  stopper' = stopper
  BY <1>3 DEF Controller!LoopTest, Controller!Sleep, Controller!LeaveWait,
              Controller!ExitAfterSave, Controller!FinishSave,
              Controller!TakeRequest, Controller!CallbackReturns,
              Controller!stopVars
<1>4. CASE StopController
  BY <1>4 DEF StopController, Controller!Stop, Controller!MarkStopped,
              Controller!RequestStop, Controller!Join
<1>5. CASE UNCHANGED vars
  BY <1>1, <1>5 DEF vars
<1>6. CASE Environment \/ SaveKeyRequest
  BY <1>1, <1>2, <1>6
     DEF Environment, ShutdownSignal, SaveSignal, ChooseCaptureSignal,
         StreamEnds, SaveKey, StopKey, SaveKeyRequest
<1>7. CASE Worker
  BY <1>1, <1>3, <1>7
     DEF Worker, WorkerLoop, WorkerTakes, SaveRefused, SaveBegins, SaveEnds,
         SaveOnDestroyed, Crash, SaveReadsStatus, SaveWritesStatus
<1>8. CASE Main /\ ~StopController
  BY <1>1, <1>2, <1>8
     DEF Main, Boot, Serve, LoopTest, NoManualSave, ManualSave, ManualRequest,
         KeepCapture, ChooseCapture, RestartStops, RestartReplaces,
         RestartStarts, RestartReadsStatus, RestartWritesStatus, NotDue,
         PeriodicReadsStatus, PeriodicWritesStatus, StopListener,
         StopRecorder, FinalStatus
<1> QED BY <1>4, <1>5, <1>6, <1>7, <1>8 DEF Next

\* With the listener thread joined and the worker gone only the main thread
\* and the end of the stream touch the recorder and its status file.
LEMMA ShutdownStep ==
  ASSUME TypeOK, CallbackConsistent, SC!StopConsistent, ShutdownConsistent,
         [Next]_vars
  PROVE  ShutdownConsistent'
<1> USE DEF ShutdownConsistent
<1>1. stopper = "joined" => callback = "enter" /\ worker = "exited"
  BY DEF SC!StopConsistent, CallbackConsistent
<1>2. stopper = "joined" => stopper' = "joined"
  BY StopperMoves
<1>3. CASE UNCHANGED vars
  BY <1>2, <1>3 DEF vars, views
<1>4. CASE ShutdownSignal \/ SaveSignal \/ ChooseCaptureSignal \/ StopKey
             \/ SaveKey \/ SaveKeyRequest
  BY <1>2, <1>4
     DEF ShutdownSignal, SaveSignal, ChooseCaptureSignal, StopKey, SaveKey,
         SaveKeyRequest, views
<1>5. CASE StreamEnds
  BY <1>2, <1>5 DEF StreamEnds, views
<1>6. CASE Worker
  <2>1. stopper # "joined"
    BY <1>1, <1>6
       DEF Worker, WorkerLoop, WorkerTakes, SaveRefused, SaveBegins, SaveEnds,
           SaveOnDestroyed, Crash, SaveReadsStatus, SaveWritesStatus,
           Controller!LoopTest, Controller!Sleep, Controller!LeaveWait,
           Controller!ExitAfterSave, Controller!FinishSave,
           Controller!TakeRequest, Controller!CallbackReturns
  <2>2. UNCHANGED <<main, listener>> \/ main' = "crashed"
    BY <1>6
       DEF Worker, WorkerLoop, WorkerTakes, SaveRefused, SaveBegins, SaveEnds,
           SaveOnDestroyed, Crash, SaveReadsStatus, SaveWritesStatus
  <2> QED BY <2>1, <2>2
<1>7. CASE \/ Boot \/ Serve \/ LoopTest \/ NoManualSave \/ ManualSave
           \/ ManualRequest \/ KeepCapture \/ ChooseCapture \/ RestartStops
           \/ RestartReplaces \/ RestartStarts \/ RestartReadsStatus
           \/ RestartWritesStatus \/ NotDue \/ PeriodicReadsStatus
           \/ PeriodicWritesStatus
  <2>1. main' \notin {"stop_controller", "stop_recorder", "final", "returned"}
    BY <1>7
       DEF Boot, Serve, LoopTest, NoManualSave, ManualSave, ManualRequest,
           KeepCapture, ChooseCapture, RestartStops, RestartReplaces,
           RestartStarts, RestartReadsStatus, RestartWritesStatus, NotDue,
           PeriodicReadsStatus, PeriodicWritesStatus
  <2> QED BY <2>1
<1>8. CASE StopListener
  BY <1>8 DEF StopListener
<1>9. CASE StopController
  BY <1>9 DEF StopController
<1>10. CASE StopRecorder
  <2>1. ~recorder'.running
    BY <1>10 DEF StopRecorder, TypeOK, RecordersOK, Recorders
  <2> QED BY <1>2, <1>10, <2>1 DEF StopRecorder
<1>11. CASE FinalStatus
  BY <1>2, <1>11 DEF FinalStatus
<1> QED
  BY <1>3, <1>4, <1>5, <1>6, <1>7, <1>8, <1>9, <1>10, <1>11
     DEF Next, Environment, Main

\* The sources the controller holds.
Held == {active_source, pending_source, source}

\* A request of the listener thread is a keybind, and nothing else than a
\* manual request puts "manual" among the sources.
LEMMA HeldStep ==
  ASSUME TypeOK, RestartGuarded, [Next]_vars, ~ManualRequest,
         "manual" \notin Held
  PROVE  "manual" \notin Held'
<1> USE DEF Held
<1>1. CASE UNCHANGED controllerVars
  BY <1>1 DEF controllerVars
<1>2. ASSUME NEW c \in {"main", "listener"}, NEW s, Controller!SampleTime(c, s)
      PROVE  "manual" \notin Held'
  BY <1>2 DEF Controller!SampleTime, Controller!queueVars
<1>3. ASSUME Controller!RequestSave("listener")
      PROVE  "manual" \notin Held'
  <2>1. call["listener"] # None /\ call["listener"].source = "keybind"
    BY <1>3 DEF RestartGuarded, Controller!RequestSave,
                Controller!RefuseRequest, Controller!EnqueueRequest
  <2> QED BY <1>3, <2>1 DEF Controller!RequestSave, Controller!RefuseRequest,
                            Controller!EnqueueRequest, Controller!queueVars
<1>4. ASSUME \/ Controller!LoopTest \/ Controller!Sleep
             \/ Controller!LeaveWait \/ Controller!ExitAfterSave
             \/ Controller!FinishSave \/ Controller!TakeRequest
             \/ Controller!CallbackReturns
      PROVE  "manual" \notin Held'
  BY <1>4 DEF Controller!LoopTest, Controller!Sleep, Controller!LeaveWait,
              Controller!ExitAfterSave, Controller!FinishSave,
              Controller!TakeRequest, Controller!CallbackReturns,
              Controller!PromotePending, Controller!BecomeIdle,
              Controller!queueVars
<1>5. ASSUME Controller!Stop
      PROVE  "manual" \notin Held'
  BY <1>5 DEF Controller!Stop, Controller!MarkStopped, Controller!RequestStop,
              Controller!Join, Controller!queueVars
<1>6. CASE UNCHANGED vars
  BY <1>1, <1>6 DEF vars
<1>7. CASE Environment \/ SaveKeyRequest
  BY <1>1, <1>2, <1>3, <1>7
     DEF Environment, ShutdownSignal, SaveSignal, ChooseCaptureSignal,
         StreamEnds, SaveKey, StopKey, SaveKeyRequest
<1>8. CASE Worker
  BY <1>1, <1>4, <1>8
     DEF Worker, WorkerLoop, WorkerTakes, SaveRefused, SaveBegins, SaveEnds,
         SaveOnDestroyed, Crash, SaveReadsStatus, SaveWritesStatus
<1>9. CASE Main
  BY <1>1, <1>2, <1>5, <1>9
     DEF Main, Boot, Serve, LoopTest, NoManualSave, ManualSave,
         KeepCapture, ChooseCapture, RestartStops, RestartReplaces,
         RestartStarts, RestartReadsStatus, RestartWritesStatus, NotDue,
         PeriodicReadsStatus, PeriodicWritesStatus, StopListener,
         StopController, StopRecorder, FinalStatus
<1> QED BY <1>6, <1>7, <1>8, <1>9 DEF Next

\* The callers' calls change only when they sample the time and when they
\* return.
LEMMA CallStep ==
  ASSUME TypeOK, RestartGuarded, [Next]_vars
  PROVE  call'["listener"] # None => call'["listener"].source = "keybind"
<1> DEFINE Goal == call'["listener"] # None
                     => call'["listener"].source = "keybind"
<1>0. call \in [{"main", "listener"} -> Controller!Calls \cup {None}]
  BY DEF TypeOK, Controller!TypeOK
<1>1. ASSUME UNCHANGED call
      PROVE  Goal
  BY <1>1 DEF RestartGuarded
<1>2. CASE UNCHANGED controllerVars
  BY <1>1, <1>2 DEF controllerVars
<1>3. CASE SaveKey
  BY <1>0, <1>3 DEF SaveKey, Controller!SampleTime
<1>4. CASE ManualSave
  BY <1>0, <1>4 DEF ManualSave, Controller!SampleTime, RestartGuarded
<1>5. CASE SaveKeyRequest \/ ManualRequest
  BY <1>0, <1>5
     DEF SaveKeyRequest, ManualRequest, Controller!RequestSave,
         Controller!RefuseRequest, Controller!EnqueueRequest,
         Controller!Returns, RestartGuarded
<1>6. CASE WorkerLoop \/ WorkerTakes \/ SaveWritesStatus \/ StopController
  BY <1>1, <1>6
     DEF WorkerLoop, WorkerTakes, SaveWritesStatus, StopController,
         Controller!LoopTest, Controller!Sleep,
         Controller!LeaveWait, Controller!ExitAfterSave,
         Controller!FinishSave, Controller!TakeRequest,
         Controller!CallbackReturns, Controller!Stop, Controller!MarkStopped,
         Controller!RequestStop, Controller!Join, Controller!callVars
<1>7. CASE UNCHANGED vars
  BY <1>2, <1>7 DEF vars
<1>8. CASE Environment /\ ~SaveKey
  BY <1>2, <1>8
     DEF Environment, ShutdownSignal, SaveSignal, ChooseCaptureSignal,
         StreamEnds, StopKey
<1>9. CASE Worker /\ ~WorkerLoop /\ ~WorkerTakes /\ ~SaveWritesStatus
  BY <1>2, <1>9
     DEF Worker, SaveRefused, SaveBegins, SaveEnds,
         SaveOnDestroyed, Crash, SaveReadsStatus
<1>10. CASE Main /\ ~ManualSave /\ ~ManualRequest /\ ~StopController
  BY <1>2, <1>10
     DEF Main, Boot, Serve, LoopTest, NoManualSave,
         KeepCapture, ChooseCapture, RestartStops, RestartReplaces,
         RestartStarts, RestartReadsStatus, RestartWritesStatus, NotDue,
         PeriodicReadsStatus, PeriodicWritesStatus, StopListener,
         StopRecorder, FinalStatus
<1> QED BY <1>3, <1>4, <1>5, <1>6, <1>7, <1>8, <1>9, <1>10 DEF Next

\* ChooseCapture goes on only when the controller is idle, and an idle
\* controller holds no source: QueueConsistent is needed here.
LEMMA RestartStep ==
  ASSUME TypeOK, SC!QueueConsistent, RestartGuarded, [Next]_vars
  PROVE  RestartGuarded'
<1> SUFFICES ASSUME main' \in {"restart", "replace"}
             PROVE  "manual" \notin Held'
  BY CallStep DEF RestartGuarded, Held
<1>1. CASE main \in {"restart", "replace"}
  <2>1. ~ManualRequest
    BY <1>1 DEF ManualRequest
  <2>2. "manual" \notin Held
    BY <1>1 DEF RestartGuarded, Held
  <2> QED BY <2>1, <2>2, HeldStep
<1>2. CASE ChooseCapture
  <2>1. state = "Idle"
    BY <1>2 DEF ChooseCapture, Controller!Saving, TypeOK, Controller!TypeOK,
                Controller!States
  <2>2. active_source = None /\ pending_source = None /\ source = None
    BY <2>1 DEF SC!QueueConsistent
  <2>3. Held' = {None}
    BY <1>2, <2>2 DEF ChooseCapture, Held, controllerVars
  <2> QED BY <2>3
<1>3. CASE main \notin {"restart", "replace"} /\ ~ChooseCapture
  BY <1>3
     DEF Next, vars, Environment, ShutdownSignal, SaveSignal,
         ChooseCaptureSignal, StreamEnds, SaveKey, StopKey, SaveKeyRequest,
         Worker, WorkerLoop, WorkerTakes, SaveRefused, SaveBegins, SaveEnds,
         SaveOnDestroyed, Crash, SaveReadsStatus, SaveWritesStatus, Main, Boot,
         Serve, LoopTest, NoManualSave, ManualSave, ManualRequest,
         KeepCapture, RestartStops, RestartReplaces, RestartStarts,
         RestartReadsStatus, RestartWritesStatus, NotDue,
         PeriodicReadsStatus, PeriodicWritesStatus, StopListener,
         StopController, StopRecorder, FinalStatus
<1> QED BY <1>1, <1>2, <1>3

-----------------------------------------------------------------------------

\* The invariant is inductive.
THEOREM DaemonInvariant == SafeSpec => []IInv
<1>1. Init => IInv
  BY InitIInv
<1>2. ASSUME IInv, [Next]_vars
      PROVE  IInv'
  <2>1. SC!IInv'
    BY <1>2, ControllerInv DEF IInv
  <2>2. Controller!TypeOK'
    BY <2>1, SameState DEF SC!IInv
  <2>3. TypeOK'
    BY <1>2, <2>2, FlagsStep, ThreadsStep, RecordersStep DEF IInv, TypeOK
  <2>4. RecorderCounted' /\ CallbackConsistent'
    BY <1>2, CountStep, CallbackStep DEF IInv
  <2>5. ShutdownConsistent'
    BY <1>2, ShutdownStep DEF IInv, SC!IInv
  <2>6. RestartGuarded'
    BY <1>2, RestartStep DEF IInv, SC!IInv
  <2> QED BY <2>1, <2>3, <2>4, <2>5, <2>6 DEF IInv
<1> QED BY <1>1, <1>2, PTL DEF SafeSpec

\* Every variable of the daemon keeps its type; in particular each recorder's
\* id is the number of reselections before it.
THEOREM DaemonTypeCorrect == SafeSpec => []TypeOK
BY DaemonInvariant, PTL DEF IInv

\* Once RunListener stops the recorder for good, the listener thread is joined,
\* the worker has exited and no SaveClip runs: what the lambdas refer to may be
\* destroyed (the end of ClipDeckCore::RunListener).
THEOREM StopsThreadsFirst == SafeSpec => []ThreadsGoneBeforeRecorder
<1>1. IInv => ThreadsGoneBeforeRecorder
  BY DEF IInv, CallbackConsistent, ShutdownConsistent, SC!IInv,
         SC!StopConsistent, TypeOK, ThreadsOK, ThreadsGoneBeforeRecorder
<1> QED BY <1>1, DaemonInvariant, PTL

\* When RunListener has returned, the status file is the last status of the
\* last recorder, and that recorder does not run: no thread's late write of a
\* status read before replaces it.
THEOREM LeavesFinalStatus == SafeSpec => []LastStatusIsFinal
<1>1. IInv => LastStatusIsFinal
  BY DEF IInv, ShutdownConsistent, LastStatusIsFinal, StatusLine
<1> QED BY <1>1, DaemonInvariant, PTL

\* A recorder that is destroyed under a save is destroyed under one that the
\* keybind asked for: the check "waiting for the active save to finish" keeps
\* the main thread's own requests, the save that ran and the one that waited
\* away from the restart.
THEOREM ReplacesUnderKeybindOnly == SafeSpec => []ReplacedUnderKeybindOnly
<1>1. IInv => ReplacedUnderKeybindOnly
  <2> SUFFICES ASSUME IInv, main = "replace", saving_on # None
               PROVE  source = "keybind"
    BY DEF ReplacedUnderKeybindOnly
  <2>1. worker = "callback"
    BY DEF IInv, CallbackConsistent
  <2>2. source # None
    BY <2>1 DEF IInv, SC!IInv, SC!QueueConsistent, SC!InCallback
  <2>3. source \in {"keybind", "manual"}
    BY <2>2 DEF IInv, TypeOK, Controller!TypeOK, Controller!Sources
  <2> QED BY <2>3 DEF IInv, RestartGuarded
<1> QED BY <1>1, DaemonInvariant, PTL

-----------------------------------------------------------------------------
(* The keybind listener.                                                   *)

\* Only an event and the removal of devices change the state of the keys.
LEMMA KeysChange ==
  ASSUME [ListenerNext]_listenerVars
  PROVE  \/ UNCHANGED keyVars
         \/ \E d \in Devices : ReadEvent(d)
         \/ RemoveBrokenDevices
<1>1. ASSUME NEW d \in Devices, Key(d) \/ Unplug(d) \/ Plug(d)
      PROVE  UNCHANGED keyVars
  BY <1>1 DEF Key, Unplug, Plug
<1>2. ASSUME Tick \/ ScanDue \/ StopClears \/ StopRequests
      PROVE  UNCHANGED keyVars
  BY <1>2 DEF Tick, ScanDue, StopClears, StopRequests
<1>3. ASSUME \/ StartScan \/ ScanOne \/ ScanDone \/ NoScan
             \/ PollNothing \/ Poll \/ ReadDone \/ LoopEnds
      PROVE  UNCHANGED keyVars
  BY <1>3 DEF StartScan, ScanOne, ScanDone, NoScan, PollNothing, Poll,
              ReadDone, LoopEnds
<1>4. ASSUME NEW d \in Devices, FindBroken(d)
      PROVE  UNCHANGED keyVars
  BY <1>4 DEF FindBroken
<1>5. ASSUME UNCHANGED listenerVars
      PROVE  UNCHANGED keyVars
  BY <1>5 DEF listenerVars, keyVars
<1> QED BY <1>1, <1>2, <1>3, <1>4, <1>5 DEF ListenerNext, World, Thread, Read

\* What the listener remembers of a combination is never out of step with the
\* keys it thinks are down (daemon_listener.cpp:364-390): the invariant is
\* inductive as it stands, because each step changes both or neither.
THEOREM Armed == ListenerSpec => []ArmedIffUp
<1>1. ListenerInit => ArmedIffUp
  BY DEF ListenerInit, ArmedIffUp, KeybindIsPressed
<1>2. ArmedIffUp /\ [ListenerNext]_listenerVars => ArmedIffUp'
  <2> SUFFICES ASSUME ArmedIffUp, [ListenerNext]_listenerVars
               PROVE  ArmedIffUp'
    OBVIOUS
  <2>1. ASSUME UNCHANGED keyVars
        PROVE  ArmedIffUp'
    BY <2>1 DEF ArmedIffUp, keyVars, KeybindIsPressed
  <2>2. ASSUME NEW d \in Devices, ReadEvent(d)
        PROVE  ArmedIffUp'
    <3>1. CASE Head(queue[d]).value = 2
      BY <3>1, <2>1, <2>2 DEF ReadEvent, HandleInputEvent
    <3>2. CASE Head(queue[d]).value # 2
      <4> DEFINE down == Down(Head(queue[d]))
      <4>1. /\ pressed' = down
            /\ was_down' = [a \in Actions |-> KeybindIsPressed(a, down)]
        BY <3>2, <2>2 DEF ReadEvent, HandleInputEvent, NextWasDown
      <4> QED BY <4>1 DEF ArmedIffUp, KeybindIsPressed
    <3> QED BY <3>1, <3>2
  <2>3. ASSUME RemoveBrokenDevices
        PROVE  ArmedIffUp'
    <3>1. CASE broken = {}
      BY <3>1, <2>1, <2>3 DEF RemoveBrokenDevices
    <3>2. CASE broken # {}
      <4>1. /\ pressed' = {}
            /\ was_down' = [a \in Actions |-> FALSE]
        BY <3>2, <2>3 DEF RemoveBrokenDevices, ResetKeyState
      <4> QED BY <4>1 DEF ArmedIffUp, KeybindIsPressed
    <3> QED BY <3>1, <3>2
  <2>4. CASE UNCHANGED keyVars
    BY <2>1, <2>4
  <2> QED BY <2>2, <2>3, <2>4, KeysChange
<1> QED BY <1>1, <1>2, PTL DEF ListenerSpec

-----------------------------------------------------------------------------

\* A combination that is not remembered as down has been released, or never
\* went down, since it was last detected.
UpIsFresh == \A a \in Actions : ~was_down[a] => fresh[a]

\* A key that is no alternative of a keybind does not decide whether the
\* keybind is down.
LEMMA OtherKey ==
  ASSUME NEW a \in Actions, NEW k, k \notin UNION Requires[a], NEW down,
         KeybindIsPressed(a, down)
  PROVE  KeybindIsPressed(a, down \ {k})
BY DEF KeybindIsPressed

\* One more key that is down releases no combination.
LEMMA MoreKeys ==
  ASSUME NEW a \in Actions, NEW k, NEW down, KeybindIsPressed(a, down)
  PROVE  KeybindIsPressed(a, down \cup {k})
BY DEF KeybindIsPressed

\* UpIsFresh needs ArmedIffUp: only then does a combination cease to be down
\* by a release of one of its own keys, or by a reset.
LEMMA FreshStep ==
  ASSUME UpIsFresh, ArmedIffUp, [ListenerNext]_listenerVars
  PROVE  UpIsFresh'
<1>1. ASSUME UNCHANGED keyVars
      PROVE  UpIsFresh'
  BY <1>1 DEF UpIsFresh, keyVars
<1>2. ASSUME NEW d \in Devices, ReadEvent(d)
      PROVE  UpIsFresh'
  <2> DEFINE event == Head(queue[d])
             down == Down(event)
  <2>1. CASE event.value = 2
    BY <2>1, <1>1, <1>2 DEF ReadEvent, HandleInputEvent
  <2>2. CASE event.value # 2
    <3>1. /\ was_down' = [a \in Actions |-> KeybindIsPressed(a, down)]
          /\ fresh' = [a \in Actions |->
               IF a \in Detects(down) THEN FALSE
               ELSE fresh[a] \/ (event.value = 0
                                  /\ event.key \in UNION Requires[a])]
      BY <2>2, <1>2 DEF ReadEvent, HandleInputEvent, NextWasDown
    <3> SUFFICES ASSUME NEW a \in Actions, ~was_down'[a]
                 PROVE  fresh'[a]
      BY DEF UpIsFresh
    <3>2. ~KeybindIsPressed(a, down)
      BY <3>1
    <3>3. a \notin Detects(down)
      BY <3>2 DEF Detects
    <3>4. CASE ~was_down[a]
      BY <3>1, <3>3, <3>4 DEF UpIsFresh
    <3>5. CASE was_down[a]
      <4>1. KeybindIsPressed(a, pressed)
        BY <3>5 DEF ArmedIffUp
      <4>2. event.value = 0
        BY <4>1, <3>2, MoreKeys DEF Down
      <4>3. event.key \in UNION Requires[a]
        BY <4>1, <4>2, <3>2, OtherKey DEF Down
      <4> QED BY <4>2, <4>3, <3>1, <3>3
    <3> QED BY <3>4, <3>5
  <2> QED BY <2>1, <2>2
<1>3. ASSUME RemoveBrokenDevices
      PROVE  UpIsFresh'
  <2>1. CASE broken = {}
    BY <2>1, <1>1, <1>3 DEF RemoveBrokenDevices
  <2>2. CASE broken # {}
    <3>1. fresh' = [a \in Actions |-> TRUE]
      BY <2>2, <1>3 DEF RemoveBrokenDevices, ResetKeyState
    <3> QED BY <3>1 DEF UpIsFresh
  <2> QED BY <2>1, <2>2
<1>4. CASE UNCHANGED keyVars
  BY <1>1, <1>4
<1> QED BY <1>2, <1>3, <1>4, KeysChange

\* Between two calls of the callback for an action a key of it was released or
\* the state was reset (daemon_listener.cpp:364-390).
THEOREM Once == ListenerSpec => OncePerPress
<1>1. ListenerInit => UpIsFresh
  BY DEF ListenerInit, UpIsFresh
<1>2. ASSUME UpIsFresh, [ListenerNext]_listenerVars, NEW a \in Actions,
             last_detected_at'[a] # last_detected_at[a]
      PROVE  fresh[a]
  <2>1. ASSUME UNCHANGED last_detected_at
        PROVE  FALSE
    BY <2>1, <1>2
  <2>2. ASSUME NEW d \in Devices, ReadEvent(d)
        PROVE  fresh[a]
    <3> DEFINE down == Down(Head(queue[d]))
    <3>1. Head(queue[d]).value # 2
      BY <2>1, <2>2 DEF ReadEvent, HandleInputEvent, keyVars
    <3>2. last_detected_at' = [b \in Actions |->
            IF b \in Detects(down) THEN now ELSE last_detected_at[b]]
      BY <3>1, <2>2 DEF ReadEvent, HandleInputEvent
    <3>3. a \in Detects(down)
      BY <3>2, <1>2
    <3> QED BY <3>3, <1>2 DEF Detects, UpIsFresh
  <2>3. ASSUME RemoveBrokenDevices
        PROVE  FALSE
    BY <2>1, <2>3 DEF RemoveBrokenDevices, ResetKeyState, keyVars
  <2>4. CASE UNCHANGED keyVars
    BY <2>1, <2>4 DEF keyVars
  <2> QED BY <2>2, <2>3, <2>4, <1>2, KeysChange
<1>3. ASSUME UpIsFresh, [ListenerNext]_listenerVars
      PROVE  [\A a \in Actions : last_detected_at'[a] # last_detected_at[a]
                                   => fresh[a]]_listenerVars
  BY <1>2, <1>3
<1>4. UpIsFresh /\ ArmedIffUp /\ [ListenerNext]_listenerVars => UpIsFresh'
  BY FreshStep
<1> QED BY <1>1, <1>3, <1>4, Armed, PTL DEF ListenerSpec, OncePerPress

-----------------------------------------------------------------------------

\* What poll said of a device is about one that is open, and "in" means that
\* there is an event to read.
PollConsistent ==
  /\ loop # "read" => \A d \in Devices : revents[d] = "none"
  /\ \A d \in Devices : revents[d] # "none" => d \in Open
  /\ \A d \in Devices : revents[d] = "in" => queue[d] # <<>>

\* Some open device said last that the key is down.
KeysSeen == \A k \in pressed : \E d \in Open : k \in seen[d]

ListenerIInv == ListenerTypeOK /\ PollConsistent /\ KeysSeen

\* The removal takes the broken devices out and nothing else, and opens no
\* device twice.  That every device that stays is in the new sequence is a
\* count: as many positions as there are devices.
LEMMA Erased ==
  ASSUME DevicesOK, EraseBroken
  PROVE  /\ input_devices' \in Seq(Keyboards)
         /\ \A i, j \in DOMAIN input_devices' :
              input_devices'[i] = input_devices'[j] => i = j
         /\ Open' = Open \ broken
<1>1. input_devices \in [1..Len(input_devices) -> Keyboards]
  BY DEF DevicesOK
<1>2. Kept \subseteq 1..Len(input_devices) /\ Len(input_devices) \in Nat
  BY <1>1 DEF Kept, DevicesOK
<1>3. IsFiniteSet(Kept) /\ Cardinality(Kept) \in Nat
  <2>1. IsFiniteSet(1..Len(input_devices))
    BY <1>2, FS_Interval
  <2>2. IsFiniteSet(Kept)
    BY <1>2, <2>1, FS_Subset
  <2> QED BY <2>2, FS_CardinalityType
<1> DEFINE N == Cardinality(Kept)
<1>4. PICK order \in [1..N -> Kept] :
        /\ \A m, n \in DOMAIN order : m < n => order[m] < order[n]
        /\ input_devices' = [n \in DOMAIN order |-> input_devices[order[n]]]
  BY DEF EraseBroken
<1> HIDE DEF N
<1>5. N \in Nat
  BY <1>3 DEF N
<1>6. \A m, n \in 1..N : order[m] = order[n] => m = n
  <2>1. \A m \in 1..N : order[m] \in Int
    <3>1. \A m \in 1..N : order[m] \in Kept
      BY <1>4
    <3>2. \A k \in Kept : k \in Int
      BY <1>2
    <3> QED BY <3>1, <3>2
  <2>2. \A m, n \in 1..N : m < n => order[m] < order[n]
    BY <1>4
  <2> SUFFICES ASSUME NEW m \in 1..N, NEW n \in 1..N, m < n
               PROVE  order[m] # order[n]
    BY <1>5
  <2> QED BY <2>1, <2>2
<1>7. \A k \in Kept : \E n \in 1..N : order[n] = k
  <2>1. order \in Injection(1..N, Kept)
    BY <1>4, <1>6 DEF Injection, IsInjective
  <2>2. Cardinality(1..N) = N
    BY <1>5, FS_Interval
  <2>3. order \in Surjection(1..N, Kept)
    BY <2>1, <2>2, <1>3, FS_Injection DEF N
  <2> QED BY <2>3 DEF Surjection
<1>8. input_devices' = [n \in 1..N |-> input_devices[order[n]]]
  BY <1>4
<1>9. input_devices' \in Seq(Keyboards)
  <2>1. \A n \in 1..N : input_devices[order[n]] \in Keyboards
    BY <1>1, <1>2, <1>4
  <2>2. input_devices' \in [1..N -> Keyboards]
    BY <1>8, <2>1
  <2> QED BY <1>5, <2>2
<1>10. \A i, j \in DOMAIN input_devices' :
         input_devices'[i] = input_devices'[j] => i = j
  <2>1. \A n \in 1..N : order[n] \in DOMAIN input_devices
    BY <1>4 DEF Kept
  <2> QED BY <1>6, <1>8, <2>1 DEF DevicesOK
<1>11. Open' = Open \ broken
  <2>1. ASSUME NEW n \in 1..N
        PROVE  input_devices'[n] \in Open \ broken
    BY <1>4, <1>8 DEF Kept, Open
  <2>2. ASSUME NEW d \in Open \ broken
        PROVE  d \in Open'
    <3>1. PICK i \in Kept : input_devices[i] = d
      BY DEF Open, Kept
    <3>2. PICK n \in 1..N : order[n] = i
      BY <1>7
    <3> QED BY <1>8, <3>1, <3>2 DEF Open
  <2>3. Open' = {input_devices'[n] : n \in 1..N}
    BY <1>8 DEF Open
  <2> QED BY <2>1, <2>2, <2>3
<1> QED BY <1>9, <1>10, <1>11

\* A scan opens a device by its name, once.
LEMMA Opened ==
  ASSUME DevicesOK, NEW d \in Keyboards, d \notin Open,
         input_devices' = Append(input_devices, d)
  PROVE  /\ input_devices' \in Seq(Keyboards)
         /\ \A i, j \in DOMAIN input_devices' :
              input_devices'[i] = input_devices'[j] => i = j
         /\ Open' = Open \cup {d}
<1> DEFINE N == Len(input_devices)
<1>1. /\ input_devices \in [1..N -> Keyboards] /\ N \in Nat
      /\ DOMAIN input_devices = 1..N
  BY DEF DevicesOK
<1>2. /\ input_devices' \in Seq(Keyboards)
      /\ DOMAIN input_devices' = 1..N + 1
      /\ input_devices'[N + 1] = d
      /\ \A i \in 1..N : input_devices'[i] = input_devices[i]
  BY DEF DevicesOK
<1>3. \A i \in 1..N : input_devices[i] \in Open /\ input_devices[i] # d
  BY <1>1 DEF Open
<1> HIDE DEF N
<1>4. \A i, j \in 1..N + 1 : input_devices'[i] = input_devices'[j] => i = j
  <2> SUFFICES ASSUME NEW i \in 1..N + 1, NEW j \in 1..N + 1,
                      input_devices'[i] = input_devices'[j]
               PROVE  i = j
    OBVIOUS
  <2>1. CASE i \in 1..N /\ j \in 1..N
    BY <1>1, <1>2, <2>1 DEF DevicesOK
  <2>2. CASE i = N + 1 \/ j = N + 1
    BY <1>1, <1>2, <1>3, <2>2
  <2> QED BY <1>1, <2>1, <2>2
<1>5. Open' = Open \cup {d}
  <2>1. Open = {input_devices[i] : i \in 1..N}
    BY <1>1 DEF Open
  <2>2. Open' = {input_devices'[i] : i \in 1..N + 1}
    BY <1>2 DEF Open
  <2>3. 1..N + 1 = 1..N \cup {N + 1}
    BY <1>1
  <2> QED BY <2>1, <2>2, <2>3, <1>2
<1> QED BY <1>2, <1>4, <1>5

\* The devices: what exists, what is open, what has to go.
LEMMA DevicesStep ==
  ASSUME DevicesOK, [ListenerNext]_listenerVars
  PROVE  DevicesOK'
<1> DEFINE OpenOnce == /\ input_devices \in Seq(Keyboards)
                       /\ \A i, j \in DOMAIN input_devices :
                            input_devices[i] = input_devices[j] => i = j
<1>1. ASSUME UNCHANGED <<plugged, todo, input_devices, hung, broken>>
      PROVE  DevicesOK'
  BY <1>1 DEF DevicesOK, Open
<1>2. CASE UNCHANGED listenerVars
  BY <1>1, <1>2 DEF listenerVars, worldVars, deviceVars, scanVars, pollVars
<1>3. CASE \/ Tick \/ ScanDue \/ NoScan \/ PollNothing \/ ReadDone
           \/ StopClears \/ StopRequests \/ LoopEnds \/ ScanDone
           \/ \E d \in Devices : Key(d) \/ ReadEvent(d)
  BY <1>1, <1>3
     DEF Tick, ScanDue, NoScan, PollNothing, ReadDone, StopClears,
         StopRequests, LoopEnds, ScanDone, Key, ReadEvent, worldVars,
         deviceVars, scanVars, pollVars
<1>4. ASSUME NEW d \in Devices, Unplug(d) \/ Plug(d)
      PROVE  DevicesOK'
  <2>1. /\ plugged' \subseteq Devices
        /\ hung' = IF Unplug(d) /\ d \in Open THEN hung \cup {d} ELSE hung
        /\ UNCHANGED <<todo, input_devices, broken>>
    BY <1>4 DEF Unplug, Plug, DevicesOK, deviceVars, scanVars, pollVars
  <2> QED BY <2>1 DEF DevicesOK, Open
<1>5. CASE StartScan
  <2>1. /\ todo' \subseteq Devices
        /\ UNCHANGED <<plugged, input_devices, hung, broken>>
    BY <1>5 DEF StartScan, DevicesOK, worldVars, deviceVars, pollVars
  <2> QED BY <2>1 DEF DevicesOK, Open
<1>6. CASE ScanOne
  <2>1. PICK d \in todo :
          /\ todo' = todo \ {d}
          /\ IF d \in plugged \ Open /\ d \in Keyboards
             THEN input_devices' = Append(input_devices, d)
             ELSE UNCHANGED input_devices
    BY <1>6 DEF ScanOne
  <2>2. UNCHANGED <<plugged, hung, broken>>
    BY <1>6 DEF ScanOne, worldVars, pollVars
  <2>3. OpenOnce' /\ Open \subseteq Open'
    BY <2>1, Opened DEF DevicesOK, Open
  <2> QED BY <2>1, <2>2, <2>3 DEF DevicesOK
<1>7. CASE Poll
  BY <1>7 DEF Poll, DevicesOK, Open, worldVars, deviceVars, scanVars
<1>8. ASSUME NEW d \in Devices, FindBroken(d)
      PROVE  DevicesOK'
  BY <1>8 DEF FindBroken, Turn, DevicesOK, Open, worldVars, deviceVars,
              scanVars
<1>9. CASE RemoveBrokenDevices
  <2>1. UNCHANGED <<plugged, todo>>
    BY <1>9 DEF RemoveBrokenDevices, worldVars, scanVars
  <2>2. CASE broken = {}
    BY <1>1, <1>9, <2>1, <2>2 DEF RemoveBrokenDevices, deviceVars
  <2>3. CASE broken # {}
    <3>1. EraseBroken /\ hung' = hung \ broken /\ broken' = {}
      BY <1>9, <2>3 DEF RemoveBrokenDevices
    <3> QED BY <2>1, <3>1, Erased DEF DevicesOK
  <2> QED BY <2>2, <2>3
<1> QED
  BY <1>2, <1>3, <1>4, <1>5, <1>6, <1>7, <1>8, <1>9
     DEF ListenerNext, World, Thread, Read

\* What poll reported stays true until the event is read, whatever the
\* keyboards do meanwhile.
LEMMA PollStep ==
  ASSUME DevicesOK, EventsOK, PollConsistent, [ListenerNext]_listenerVars
  PROVE  PollConsistent'
<1> USE DEF PollConsistent
<1>1. ASSUME UNCHANGED <<revents, queue, Open>>, loop' = loop \/ loop # "read"
      PROVE  PollConsistent'
  BY <1>1
<1>2. CASE UNCHANGED listenerVars
  BY <1>1, <1>2 DEF listenerVars, deviceVars, pollVars, Open
<1>3. CASE \/ Tick \/ ScanDue \/ StartScan \/ NoScan \/ PollNothing
           \/ StopClears \/ StopRequests \/ LoopEnds \/ ScanDone
           \/ \E d \in Devices : Unplug(d) \/ Plug(d)
  <2>1. UNCHANGED <<revents, queue, Open>>
    BY <1>3
       DEF Tick, ScanDue, StartScan, NoScan, PollNothing, StopClears,
           StopRequests, LoopEnds, ScanDone, Unplug, Plug, deviceVars,
           pollVars, Open
  <2>2. loop' = loop \/ loop # "read"
    BY <1>3
       DEF Tick, ScanDue, StartScan, NoScan, PollNothing, StopClears,
           StopRequests, LoopEnds, ScanDone, Unplug, Plug
  <2> QED BY <1>1, <2>1, <2>2
<1>4. ASSUME NEW d \in Devices, Key(d)
      PROVE  PollConsistent'
  <2>1. UNCHANGED <<revents, Open, loop>>
    BY <1>4 DEF Key, pollVars, Open
  <2>2. PICK k \in Keys, value \in 0..2 : Emit(d, k, value)
    BY <1>4 DEF Key
  <2>3. ASSUME NEW e \in Devices, queue[e] # <<>>
        PROVE  queue'[e] # <<>>
    <3> DEFINE event == [key |-> k, value |-> value]
    <3>1. event \in Events /\ queue[e] \in Seq(Events)
      BY DEF Events, EventsOK
    <3> HIDE DEF event
    <3>2. Append(queue[e], event) # <<>>
      BY <3>1
    <3>3. queue'[e] = queue[e] \/ queue'[e] = Append(queue[e], event)
      BY <2>2 DEF Emit, EventsOK, event
    <3> QED BY <2>3, <3>2, <3>3
  <2> QED BY <2>1, <2>3
<1>5. CASE ScanOne
  <2>1. PICK d \in todo :
          IF d \in plugged \ Open /\ d \in Keyboards
          THEN /\ input_devices' = Append(input_devices, d)
               /\ queue' = [queue EXCEPT ![d] = <<>>]
          ELSE UNCHANGED <<input_devices, queue>>
    BY <1>5 DEF ScanOne
  <2>2. loop = "scan" /\ UNCHANGED <<loop, revents>>
    BY <1>5 DEF ScanOne, pollVars
  <2>3. \A e \in Devices : revents'[e] = "none"
    BY <2>2
  <2> QED BY <2>2, <2>3
<1>6. CASE Poll
  <2>1. /\ loop' = "read" /\ UNCHANGED <<queue, Open>>
        /\ revents' = [d \in Devices |->
             IF d \in Open THEN Ready(d) ELSE "none"]
    BY <1>6 DEF Poll, deviceVars, Open
  <2> QED BY <2>1 DEF Ready
<1>7. ASSUME NEW d \in Devices, ReadEvent(d)
      PROVE  PollConsistent'
  <2>1. /\ revents' = [revents EXCEPT ![d] = "none"]
        /\ queue' = [queue EXCEPT ![d] = Tail(@)]
        /\ loop = "read" /\ UNCHANGED <<loop, Open>>
    BY <1>7 DEF ReadEvent, Turn, Open
  <2> QED BY <2>1 DEF EventsOK
<1>8. ASSUME NEW d \in Devices, FindBroken(d)
      PROVE  PollConsistent'
  <2>1. /\ revents' = [revents EXCEPT ![d] = "none"]
        /\ loop = "read" /\ UNCHANGED <<loop, queue, Open>>
    BY <1>8 DEF FindBroken, Turn, Open, deviceVars
  <2> QED BY <2>1 DEF EventsOK
<1>9. CASE ReadDone
  <2>1. /\ \A d \in Open : revents[d] = "none"
        /\ UNCHANGED revents
    BY <1>9 DEF ReadDone, pollVars
  <2> QED BY <2>1
<1>10. CASE RemoveBrokenDevices
  <2>1. /\ loop = "remove" /\ loop' = "top" /\ UNCHANGED revents
    BY <1>10 DEF RemoveBrokenDevices
  <2> QED BY <2>1
<1> QED
  BY <1>2, <1>3, <1>4, <1>5, <1>6, <1>7, <1>8, <1>9, <1>10
     DEF ListenerNext, World, Thread, Read

\* What happens on the devices.
LEMMA EventsStep ==
  ASSUME DevicesOK, EventsOK, PollConsistent, [ListenerNext]_listenerVars
  PROVE  EventsOK'
<1> USE DEF EventsOK
<1>1. ASSUME UNCHANGED <<held, queue, seen, revents>>
      PROVE  EventsOK'
  BY <1>1
<1>2. CASE UNCHANGED listenerVars
  BY <1>1, <1>2 DEF listenerVars, worldVars, deviceVars, pollVars
<1>3. CASE \/ Tick \/ ScanDue \/ StartScan \/ NoScan \/ PollNothing
           \/ StopClears \/ StopRequests \/ LoopEnds \/ ScanDone \/ ReadDone
           \/ \E d \in Devices : Plug(d)
  BY <1>1, <1>3
     DEF Tick, ScanDue, StartScan, NoScan, PollNothing, StopClears,
         StopRequests, LoopEnds, ScanDone, ReadDone, Plug, worldVars,
         deviceVars, pollVars
<1>4. ASSUME NEW d \in Devices, Key(d)
      PROVE  EventsOK'
  <2>1. PICK k \in Keys, value \in 0..2 :
          /\ Emit(d, k, value)
          /\ \/ held' = [held EXCEPT ![d] = @ \cup {k}]
             \/ held' = [held EXCEPT ![d] = @ \ {k}]
             \/ held' = held
    BY <1>4 DEF Key
  <2>2. [key |-> k, value |-> value] \in Events
    BY DEF Events
  <2>3. queue' \in [Devices -> Seq(Events)]
    BY <2>1, <2>2 DEF Emit
  <2>4. held' \in [Devices -> SUBSET Keys]
    BY <2>1
  <2> QED BY <1>4, <2>3, <2>4 DEF Key, pollVars
<1>5. ASSUME NEW d \in Devices, Unplug(d)
      PROVE  EventsOK'
  BY <1>5 DEF Unplug, pollVars
<1>6. CASE ScanOne
  <2>1. PICK d \in todo :
          IF d \in plugged \ Open /\ d \in Keyboards
          THEN /\ queue' = [queue EXCEPT ![d] = <<>>]
               /\ seen' = [seen EXCEPT ![d] = {}]
          ELSE UNCHANGED <<queue, seen>>
    BY <1>6 DEF ScanOne
  <2>2. UNCHANGED <<held, revents>>
    BY <1>6 DEF ScanOne, worldVars, pollVars
  <2>3. queue' \in [Devices -> Seq(Events)]
    <3>1. <<>> \in Seq(Events)
      OBVIOUS
    <3> QED BY <2>1, <3>1
  <2>4. seen' \in [Devices -> SUBSET Keys]
    BY <2>1
  <2> QED BY <2>2, <2>3, <2>4
<1>7. CASE Poll
  <2>1. revents' = [d \in Devices |->
             IF d \in Open THEN Ready(d) ELSE "none"]
    BY <1>7 DEF Poll
  <2> QED BY <1>7, <2>1 DEF Ready, Poll, worldVars, deviceVars
<1>8. ASSUME NEW d \in Devices, ReadEvent(d)
      PROVE  EventsOK'
  <2>1. queue[d] # <<>> /\ queue[d] \in Seq(Events)
    BY <1>8 DEF ReadEvent, PollConsistent
  <2>2. Head(queue[d]) \in Events /\ Tail(queue[d]) \in Seq(Events)
    BY <2>1
  <2>3. Head(queue[d]).key \in Keys
    BY <2>2 DEF Events
  <2>4. seen' \in [Devices -> SUBSET Keys]
    BY <1>8, <2>3 DEF ReadEvent
  <2>5. queue' \in [Devices -> Seq(Events)]
    BY <1>8, <2>2 DEF ReadEvent
  <2> QED BY <1>8, <2>4, <2>5 DEF ReadEvent, Turn, worldVars
<1>9. ASSUME NEW d \in Devices, FindBroken(d)
      PROVE  EventsOK'
  BY <1>9 DEF FindBroken, Turn, worldVars, deviceVars
<1>10. CASE RemoveBrokenDevices
  <2>1. UNCHANGED <<held, revents>>
    BY <1>10 DEF RemoveBrokenDevices, worldVars
  <2>2. \/ UNCHANGED <<queue, seen>>
        \/ /\ queue' = [d \in Devices |->
                 IF d \in broken THEN <<>> ELSE queue[d]]
           /\ seen' = [d \in Devices |->
                 IF d \in broken THEN {} ELSE seen[d]]
    BY <1>10 DEF RemoveBrokenDevices, deviceVars
  <2>3. queue' \in [Devices -> Seq(Events)]
    <3>1. <<>> \in Seq(Events)
      OBVIOUS
    <3> QED BY <2>2, <3>1
  <2>4. seen' \in [Devices -> SUBSET Keys]
    BY <2>2
  <2> QED BY <2>1, <2>3, <2>4
<1> QED
  BY <1>2, <1>3, <1>4, <1>5, <1>6, <1>7, <1>8, <1>9, <1>10
     DEF ListenerNext, World, Thread, Read

\* What the listener reads from a device is an event.
LEMMA EventRead ==
  ASSUME EventsOK, PollConsistent, NEW d \in Devices, ReadEvent(d)
  PROVE  /\ Head(queue[d]) \in Events
         /\ Head(queue[d]).key \in Keys /\ Head(queue[d]).value \in 0..2
<1>1. queue[d] # <<>> /\ queue[d] \in Seq(Events)
  BY DEF ReadEvent, PollConsistent, EventsOK
<1>2. Head(queue[d]) \in Events
  BY <1>1
<1> QED BY <1>2 DEF Events

\* The keys of the listener and what it remembers per action.
LEMMA KeysStep ==
  ASSUME EventsOK, PollConsistent, KeysOK, LoopOK, [ListenerNext]_listenerVars
  PROVE  KeysOK'
<1>1. ASSUME UNCHANGED keyVars
      PROVE  KeysOK'
  BY <1>1 DEF KeysOK, keyVars
<1>2. ASSUME NEW d \in Devices, ReadEvent(d)
      PROVE  KeysOK'
  <2> DEFINE event == Head(queue[d])
             down == Down(event)
  <2>1. CASE event.value = 2
    BY <2>1, <1>1, <1>2 DEF ReadEvent, HandleInputEvent
  <2>2. CASE event.value # 2
    <3>1. /\ pressed' = down
          /\ last_detected_at' = [a \in Actions |->
               IF a \in Detects(down) THEN now ELSE last_detected_at[a]]
          /\ was_down' = [a \in Actions |-> KeybindIsPressed(a, down)]
      BY <2>2, <1>2 DEF ReadEvent, HandleInputEvent, NextWasDown
    <3>2. down \subseteq Keys
      BY <1>2, EventRead DEF Down, KeysOK
    <3> HIDE DEF down
    <3>3. was_down' \in [Actions -> BOOLEAN]
      BY <3>1 DEF KeybindIsPressed
    <3>4. last_detected_at' \in [Actions -> {Never} \cup 0..MaxTime]
      BY <3>1 DEF KeysOK, LoopOK
    <3> QED BY <3>1, <3>2, <3>3, <3>4 DEF KeysOK
  <2> QED BY <2>1, <2>2
<1>3. CASE RemoveBrokenDevices
  <2>1. CASE broken = {}
    BY <2>1, <1>1, <1>3 DEF RemoveBrokenDevices
  <2>2. CASE broken # {}
    BY <2>2, <1>3 DEF RemoveBrokenDevices, ResetKeyState, KeysOK
  <2> QED BY <2>1, <2>2
<1>4. CASE UNCHANGED keyVars
  BY <1>1, <1>4
<1> QED BY <1>2, <1>3, <1>4, KeysChange

\* The counts of the status and the place of the loop.
LEMMA LoopStep ==
  ASSUME DevicesOK, LoopOK, [ListenerNext]_listenerVars
  PROVE  LoopOK'
<1> USE DEF LoopOK
<1>1. ASSUME UNCHANGED <<now, loop, found, status>>
      PROVE  LoopOK'
  BY <1>1
<1>2. Len(input_devices) \in Nat
  BY DEF DevicesOK
<1>3. CASE UNCHANGED listenerVars
  BY <1>1, <1>3 DEF listenerVars, scanVars
<1>4. CASE \/ ScanDue \/ StopClears \/ StopRequests
           \/ \E d \in Devices : \/ Key(d) \/ Unplug(d) \/ Plug(d)
                                 \/ ReadEvent(d) \/ FindBroken(d)
  BY <1>1, <1>4
     DEF ScanDue, StopClears, StopRequests, Key, Unplug, Plug, ReadEvent,
         FindBroken, Turn, scanVars
<1>5. CASE Tick
  BY <1>5, ListenerParameters DEF Tick, scanVars
<1>6. CASE NoScan \/ PollNothing \/ Poll \/ ReadDone \/ LoopEnds
  BY <1>6 DEF NoScan, PollNothing, Poll, ReadDone, LoopEnds, scanVars
<1>7. CASE StartScan
  <2>1. [scanned |-> 0, readable |-> Len(input_devices),
         accepted |-> Len(input_devices)] \in Counts
    BY <1>2 DEF Counts
  <2> QED BY <1>7, <2>1 DEF StartScan
<1>8. CASE ScanOne
  <2>1. /\ UNCHANGED <<now, loop, status>>
        /\ \E i, j \in {0, 1} :
             found' = [found EXCEPT !.scanned = @ + 1,
                                    !.readable = @ + i,
                                    !.accepted = @ + j]
    BY <1>8 DEF ScanOne
  <2>2. PICK i \in {0, 1}, j \in {0, 1} :
          found' = [found EXCEPT !.scanned = @ + 1,
                                 !.readable = @ + i,
                                 !.accepted = @ + j]
    BY <2>1
  <2>3. found' \in Counts
    <3>1. \A n \in Nat : n + 1 \in Nat /\ n + i \in Nat /\ n + j \in Nat
      OBVIOUS
    <3> QED BY <2>2, <3>1 DEF Counts
  <2> QED BY <2>1, <2>3
<1>9. CASE ScanDone
  BY <1>9 DEF ScanDone
<1>10. CASE RemoveBrokenDevices
  <2>1. UNCHANGED <<now, found>> /\ loop' = "top"
    BY <1>10 DEF RemoveBrokenDevices, scanVars
  <2>2. CASE broken = {}
    BY <1>10, <2>1, <2>2 DEF RemoveBrokenDevices
  <2>3. CASE broken # {}
    <3>1. /\ EraseBroken
          /\ status' = [status EXCEPT !.readable = Len(input_devices'),
                                      !.accepted = Len(input_devices')]
      BY <1>10, <2>3 DEF RemoveBrokenDevices
    <3>2. Len(input_devices') \in Nat
      BY <3>1, Erased
    <3>3. status' \in Counts
      BY <3>1, <3>2 DEF Counts
    <3> QED BY <2>1, <3>3
  <2> QED BY <2>2, <2>3
<1> QED
  BY <1>3, <1>4, <1>5, <1>6, <1>7, <1>8, <1>9, <1>10
     DEF ListenerNext, World, Thread, Read

\* A key goes up for the listener when any device releases it, and then no
\* device needs to have said that it is down; a device is closed only in the
\* step that forgets every key.
LEMMA SeenStep ==
  ASSUME DevicesOK, EventsOK, PollConsistent, KeysSeen,
         [ListenerNext]_listenerVars
  PROVE  KeysSeen'
<1>1. ASSUME UNCHANGED <<pressed, Open, seen>>
      PROVE  KeysSeen'
  BY <1>1 DEF KeysSeen
<1>2. CASE UNCHANGED listenerVars
  BY <1>1, <1>2 DEF listenerVars, keyVars, deviceVars, Open
<1>3. CASE \/ Tick \/ ScanDue \/ StartScan \/ ScanDone \/ NoScan
           \/ PollNothing \/ Poll \/ ReadDone \/ LoopEnds
           \/ StopClears \/ StopRequests
           \/ \E d \in Devices : Key(d) \/ Unplug(d) \/ Plug(d) \/ FindBroken(d)
  <2>1. UNCHANGED <<pressed, input_devices, seen>>
    BY <1>3
       DEF Tick, ScanDue, StartScan, ScanDone, NoScan, PollNothing, Poll,
           ReadDone, LoopEnds, StopClears, StopRequests, Key, Unplug, Plug,
           FindBroken, keyVars, deviceVars
  <2> QED BY <1>1, <2>1 DEF Open
<1>4. CASE ScanOne
  <2>1. PICK d \in todo :
          IF d \in plugged \ Open /\ d \in Keyboards
          THEN /\ input_devices' = Append(input_devices, d)
               /\ seen' = [seen EXCEPT ![d] = {}]
          ELSE UNCHANGED <<input_devices, seen>>
    BY <1>4 DEF ScanOne
  <2>2. UNCHANGED pressed
    BY <1>4 DEF ScanOne, keyVars
  <2>3. CASE d \in plugged \ Open /\ d \in Keyboards
    <3>1. Open' = Open \cup {d}
      BY <2>1, <2>3, Opened
    <3>2. \A e \in Open : e \in Devices /\ e # d
      BY <2>3, ListenerParameters DEF DevicesOK, Open
    <3>3. \A e \in Open : seen'[e] = seen[e]
      BY <2>1, <2>3, <3>2 DEF EventsOK
    <3> QED BY <2>2, <3>1, <3>3 DEF KeysSeen
  <2>4. CASE ~(d \in plugged \ Open /\ d \in Keyboards)
    BY <1>1, <2>1, <2>2, <2>4 DEF Open
  <2> QED BY <2>3, <2>4
<1>5. ASSUME NEW d \in Devices, ReadEvent(d)
      PROVE  KeysSeen'
  <2> DEFINE event == Head(queue[d])
  <2>1. d \in Open /\ UNCHANGED Open
    BY <1>5 DEF ReadEvent, Turn, Open
  <2>2. /\ \A e \in Devices : e # d => seen'[e] = seen[e]
        /\ seen'[d] = IF event.value = 0 THEN seen[d] \ {event.key}
                                         ELSE seen[d] \cup {event.key}
    BY <1>5 DEF ReadEvent, EventsOK
  <2>3. \/ event.value = 2 /\ pressed' = pressed
        \/ event.value = 0 /\ pressed' = pressed \ {event.key}
        \/ event.value # 0 /\ pressed' = pressed \cup {event.key}
    BY <1>5 DEF ReadEvent, HandleInputEvent, Down, keyVars
  <2>4. \A e \in Open : e \in Devices
    BY ListenerParameters DEF DevicesOK, Open
  <2> HIDE DEF event
  <2> SUFFICES ASSUME NEW k \in pressed'
               PROVE  \E e \in Open : k \in seen'[e]
    BY <2>1 DEF KeysSeen
  <2>5. CASE k \in pressed /\ ~(event.value = 0 /\ k = event.key)
    <3>1. PICK e \in Open : k \in seen[e]
      BY <2>5 DEF KeysSeen
    <3> QED BY <2>2, <2>4, <2>5, <3>1
  <2>6. CASE k = event.key /\ event.value # 0
    BY <2>1, <2>2, <2>6
  <2> QED BY <2>3, <2>5, <2>6
<1>6. CASE RemoveBrokenDevices
  <2>1. CASE broken = {}
    BY <1>1, <1>6, <2>1 DEF RemoveBrokenDevices, keyVars, deviceVars, Open
  <2>2. CASE broken # {}
    BY <1>6, <2>2 DEF RemoveBrokenDevices, ResetKeyState, KeysSeen
  <2> QED BY <2>1, <2>2
<1> QED
  BY <1>2, <1>3, <1>4, <1>5, <1>6 DEF ListenerNext, World, Thread, Read

\* The listener starts in a state of its invariant.
LEMMA InitListenerIInv ==
  ASSUME ListenerInit
  PROVE  ListenerIInv
<1> USE DEF ListenerInit
<1>1. DevicesOK
  BY DEF DevicesOK, Open
<1>2. EventsOK
  <2>1. <<>> \in Seq(Events)
    OBVIOUS
  <2> QED BY <2>1 DEF EventsOK
<1>3. KeysOK
  BY DEF KeysOK
<1>4. LoopOK
  BY ListenerParameters DEF LoopOK, Counts, NoCounts
<1>5. PollConsistent /\ KeysSeen
  BY DEF PollConsistent, KeysSeen
<1> QED BY <1>1, <1>2, <1>3, <1>4, <1>5 DEF ListenerIInv, ListenerTypeOK

\* What always holds of the listener: the types, what poll's answers still
\* mean, and where each key that counts as down was last seen.
THEOREM ListenerInvariant == ListenerSpec => []ListenerIInv
<1>1. ListenerInit => ListenerIInv
  BY InitListenerIInv
<1>2. ListenerIInv /\ [ListenerNext]_listenerVars => ListenerIInv'
  BY DevicesStep, EventsStep, KeysStep, LoopStep, PollStep, SeenStep
     DEF ListenerIInv, ListenerTypeOK
<1> QED BY <1>1, <1>2, PTL DEF ListenerSpec

\* No device is open twice, none is marked broken or gone that is not open,
\* and the status counts are counts (daemon_listener.cpp:206-345).
THEOREM ListenerTypeCorrect == ListenerSpec => []ListenerTypeOK
<1>1. ListenerIInv => ListenerTypeOK
  BY DEF ListenerIInv
<1> QED BY <1>1, ListenerInvariant, PTL

\* No key stays down that no open device holds, whatever is unplugged, scanned
\* and read in which order (daemon_listener.cpp:317-345, 385): while a poll's
\* answers are handled the broken devices are still open, and their removal
\* forgets every key.
THEOREM NoGhosts == ListenerSpec => []NoGhostKeys
<1>1. ListenerIInv => NoGhostKeys
  BY DEF ListenerIInv, KeysSeen, NoGhostKeys
<1> QED BY <1>1, ListenerInvariant, PTL
=============================================================================
