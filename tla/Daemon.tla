-------------------------------- MODULE Daemon --------------------------------
(***************************************************************************)
(* The daemon process (ClipDeckCore::RunListener, core.cpp): the main      *)
(* thread with its signal flags, the listener thread with its keybind      *)
(* callback, the worker of the save controller with its save callback, and *)
(* the recorder object they share through one unique_ptr.                  *)
(*                                                                         *)
(* The controller is the module SaveController.  The recorder is reduced   *)
(* to what the other threads see of it: which object it is, whether it     *)
(* records, and how its last save ended.                                   *)
(***************************************************************************)
EXTENDS Integers

CONSTANTS
  None,
  MaxSignals,     \* bound: SIGUSR1 deliveries (clipdeck save)
  MaxReselects,   \* bound: SIGUSR2 deliveries (clipdeck choose-capture)
  MaxKeys,        \* bound: presses of the save keybind
  MaxArrivals     \* bound: all three together

ASSUME DaemonBounds ==
  /\ MaxSignals \in Nat /\ MaxReselects \in Nat
  /\ MaxKeys \in Nat /\ MaxArrivals \in Nat
ASSUME DaemonNone == None \notin Nat /\ None \notin {"keybind", "manual"}

\* The variables of the save controller.
VARIABLES clock, state, active_source, pending_source, last_request_source,
          last_keybind_request_at, stopped, stop_requested, call, worker,
          source, stopper, accepted, served, dropped, keybinds

VARIABLES
  shutdown_requested, save_requested, choose_capture_requested, \* signal flags
  main,         \* where RunListener is
  listener,     \* the listener thread: off, idle, save (in its callback), stopped
  recorder,     \* the object the unique_ptr points to
  saving_on,    \* the object the save callback called SaveClip on, or None
  callback,     \* where the save callback is
  main_view,    \* recorder status the main thread has read and not written;
                \* a local, NoStatus when it has none
  worker_view,  \* the same for the worker, of what it will write
  file,         \* the recorder status file
  signals, reselects, keys,  \* how often the environment acted
  owed_save,    \* history: a SIGUSR1 came and no save has begun since
  owed_choice   \* history: a SIGUSR2 came and no recorder was created since

controllerVars == <<clock, state, active_source, pending_source,
                    last_request_source, last_keybind_request_at, stopped,
                    stop_requested, call, worker, source, stopper, accepted,
                    served, dropped, keybinds>>
flags == <<shutdown_requested, save_requested, choose_capture_requested>>
views == <<main_view, worker_view, file>>
budget == <<signals, reselects, keys>>
owed == <<owed_save, owed_choice>>
vars == <<controllerVars, flags, main, listener, recorder, saving_on, callback,
          views, budget, owed>>

\* RunListener uses the default debounce of one second; time is not modelled
\* here, so the debounce never refuses a request.
Controller == INSTANCE SaveController
                WITH Callers <- {"main", "listener"},
                     KeybindDebounce <- 0,
                     MaxTime <- 0,
                     MaxRequests <- MaxSignals + MaxKeys + 1

Results == {"none", "saved", "failed"}
Recorders == [id : 0..MaxReselects, running : BOOLEAN, window : BOOLEAN,
              last : Results]
Lines == [running : BOOLEAN, last : Results]
MainPCs == {"boot", "serve", "test", "manual", "request", "choose", "restart",
            "replace", "start", "reread", "rewrite", "periodic", "write",
            "stop_listener", "stop_controller", "stop_recorder", "final",
            "returned", "crashed"}

ThreadsOK ==
  /\ main \in MainPCs
  /\ listener \in {"off", "idle", "save", "stopped", "crashed"}
  /\ callback \in {"enter", "saving", "read", "write", "crashed"}
  /\ signals \in 0..MaxSignals /\ reselects \in 0..MaxReselects
  /\ keys \in 0..MaxKeys

FlagsOK ==
  /\ shutdown_requested \in BOOLEAN /\ save_requested \in BOOLEAN
  /\ choose_capture_requested \in BOOLEAN
  /\ owed_save \in BOOLEAN /\ owed_choice \in BOOLEAN

RecordersOK ==
  /\ recorder \in Recorders
  /\ saving_on \in 0..MaxReselects \cup {None}
  /\ main_view \in Recorders /\ worker_view \in Lines /\ file \in Lines

TypeOK == Controller!TypeOK /\ ThreadsOK /\ FlagsOK /\ RecordersOK

NewRecorder(n) == [id |-> n, running |-> FALSE, window |-> FALSE,
                   last |-> "none"]

NoStatus == NewRecorder(0)

\* What the status file tells of a recorder.
StatusLine(status) == [running |-> status.running, last |-> status.last]
NoLine == StatusLine(NoStatus)

Init ==
  /\ Controller!Init
  /\ shutdown_requested = FALSE
  /\ save_requested = FALSE
  /\ choose_capture_requested = FALSE
  /\ main = "boot"
  /\ listener = "off"
  /\ recorder = NewRecorder(0)
  /\ saving_on = None
  /\ callback = "enter"
  /\ main_view = NoStatus /\ worker_view = NoLine /\ file = NoLine
  /\ signals = 0 /\ reselects = 0 /\ keys = 0
  /\ owed_save = FALSE /\ owed_choice = FALSE

-----------------------------------------------------------------------------
(* Signals, and the stream ending under the recorder (MonitorBus).         *)

\* The process has ended.
Gone == main \in {"returned", "crashed"}

MoreEvents == signals + reselects + keys < MaxArrivals

ShutdownSignal ==
  /\ ~shutdown_requested
  /\ ~Gone
  /\ shutdown_requested' = TRUE
  /\ UNCHANGED <<controllerVars, save_requested, choose_capture_requested,
                 main,
                 listener, recorder, saving_on, callback, views,
                 budget, owed>>

SaveSignal ==
  /\ signals < MaxSignals
  /\ MoreEvents
  /\ ~Gone
  /\ signals' = signals + 1
  /\ save_requested' = TRUE
  /\ owed_save' = TRUE
  /\ UNCHANGED <<controllerVars, shutdown_requested, choose_capture_requested,
                 main, listener, recorder, saving_on, callback, views,
                 reselects, keys, owed_choice>>

ChooseCaptureSignal ==
  /\ reselects < MaxReselects
  /\ MoreEvents
  /\ ~Gone
  /\ reselects' = reselects + 1
  /\ choose_capture_requested' = TRUE
  /\ owed_choice' = TRUE
  /\ UNCHANGED <<controllerVars, shutdown_requested, save_requested, main,
                 listener, recorder, saving_on, callback, views,
                 signals, keys, owed_save>>

StreamEnds ==
  /\ recorder.running
  /\ ~Gone
  /\ recorder' = [recorder EXCEPT !.running = FALSE]
  /\ UNCHANGED <<controllerVars, flags, main, listener, saving_on, callback,
                 views, budget, owed>>

-----------------------------------------------------------------------------
(* The listener thread: the keybind callback.                              *)

SaveKey ==
  /\ listener = "idle"
  /\ keys < MaxKeys
  /\ MoreEvents
  /\ keys' = keys + 1
  /\ Controller!SampleTime("listener", "keybind")
  /\ listener' = "save"
  /\ UNCHANGED <<flags, main, recorder, saving_on, callback, views,
                 signals, reselects, owed>>

SaveKeyRequest ==
  /\ listener = "save"
  /\ Controller!RequestSave("listener")
  /\ listener' = "idle"
  /\ UNCHANGED <<flags, main, recorder, saving_on, callback, views,
                 budget, owed>>

StopKey ==
  /\ listener = "idle"
  /\ ~shutdown_requested
  /\ shutdown_requested' = TRUE
  /\ UNCHANGED <<controllerVars, save_requested, choose_capture_requested,
                 main,
                 listener, recorder, saving_on, callback, views,
                 budget, owed>>

-----------------------------------------------------------------------------
(* The worker: the save callback.                                          *)

\* What is left of the worker's loop around the callback.
WorkerLoop ==
  /\ \/ Controller!LoopTest \/ Controller!Sleep \/ Controller!LeaveWait
     \/ Controller!ExitAfterSave \/ Controller!FinishSave
  /\ UNCHANGED <<flags, main, listener, recorder, saving_on, callback, views,
                 budget, owed>>

WorkerTakes ==
  /\ Controller!TakeRequest
  /\ owed_save' = FALSE
  /\ UNCHANGED <<flags, main, listener, recorder, saving_on, callback, views,
                 budget, owed_choice>>

\* recorder->SaveClip() of a recorder that is not healthy.
SaveRefused ==
  /\ worker = "callback" /\ callback = "enter"
  /\ ~recorder.running
  /\ recorder' = [recorder EXCEPT !.last = "failed"]
  /\ callback' = "read"
  /\ UNCHANGED <<controllerVars, flags, main, listener, saving_on, views,
                 budget, owed>>

\* recorder->SaveClip(): the pointer is read here and not again until it ends.
\* It clears the failure of the save before.
SaveBegins ==
  /\ worker = "callback" /\ callback = "enter"
  /\ recorder.running
  /\ saving_on' = recorder.id
  /\ recorder' = [recorder EXCEPT !.last = IF @ = "failed" THEN "none" ELSE @]
  /\ callback' = "saving"
  /\ UNCHANGED <<controllerVars, flags, main, listener, views, budget, owed>>

\* It succeeds or fails, even if the stream has ended meanwhile.
SaveEnds ==
  /\ callback = "saving"
  /\ saving_on = recorder.id
  /\ \E r \in {"saved", "failed"} :
       recorder' = [recorder EXCEPT !.last = r]
  /\ saving_on' = None
  /\ callback' = "read"
  /\ UNCHANGED <<controllerVars, flags, main, listener, views,
                 budget, owed>>

\* Undefined behaviour: the recorder was stopped or destroyed under SaveClip.
\* The call returns something ...
SaveOnDestroyed ==
  /\ callback = "saving"
  /\ saving_on # recorder.id
  /\ saving_on' = None
  /\ callback' = "read"
  /\ UNCHANGED <<controllerVars, flags, main, listener, recorder, views,
                 budget, owed>>

\* ... or the process dies.
Crash ==
  /\ callback = "saving"
  /\ saving_on # recorder.id \/ main = "replace"
  /\ callback' = "crashed" /\ main' = "crashed" /\ listener' = "crashed"
  /\ UNCHANGED <<controllerVars, flags, recorder, saving_on, views,
                 budget, owed>>

SaveReadsStatus ==
  /\ callback = "read"
  /\ worker_view' = StatusLine(recorder)
  /\ callback' = "write"
  /\ UNCHANGED <<controllerVars, flags, main, listener, recorder, saving_on,
                 main_view, file, budget, owed>>

SaveWritesStatus ==
  /\ callback = "write"
  /\ file' = worker_view
  /\ worker_view' = NoLine
  /\ callback' = "enter"
  /\ Controller!CallbackReturns
  /\ UNCHANGED <<flags, main, listener, recorder, saving_on, main_view, budget,
                 owed>>

Worker == \/ WorkerLoop \/ WorkerTakes \/ SaveRefused \/ SaveBegins
          \/ SaveEnds \/ SaveOnDestroyed \/ Crash \/ SaveReadsStatus
          \/ SaveWritesStatus

-----------------------------------------------------------------------------
(* The main thread.                                                        *)

\* recorder->Start(): it fails, or the user chooses a display or a window.
Started(r) == {[r EXCEPT !.running = FALSE, !.window = FALSE],
               [r EXCEPT !.running = TRUE, !.window = FALSE],
               [r EXCEPT !.running = TRUE, !.window = TRUE]}

\* Defect: the flags are reset after the recorder has started.
BootResetsFlags ==
  /\ main = "boot"
  /\ recorder' \in Started(recorder)
  /\ shutdown_requested' = FALSE
  /\ save_requested' = FALSE
  /\ choose_capture_requested' = FALSE
  /\ main' = "serve"
  /\ UNCHANGED <<controllerVars, listener, saving_on, callback, views, budget,
                 owed>>

\* The recorder starts, with the portal's dialog; signals only set flags.
Boot ==
  /\ main = "boot"
  /\ recorder' \in Started(recorder)
  /\ main' = "serve"
  /\ UNCHANGED <<controllerVars, flags, listener, saving_on, callback, views,
                 budget, owed>>

\* The first status, the save controller and the listener thread.
Serve ==
  /\ main = "serve"
  /\ file' = StatusLine(recorder)
  /\ listener' = "idle"
  /\ main' = "test"
  /\ UNCHANGED <<controllerVars, flags, recorder, saving_on, callback,
                 main_view, worker_view, budget, owed>>

\* while (listener.IsRunning() && shutdown_requested == 0); until the main
\* thread stops it, the listener runs.
LoopTest ==
  /\ main = "test"
  /\ main' = IF shutdown_requested THEN "stop_listener" ELSE "manual"
  /\ UNCHANGED <<controllerVars, flags, listener, recorder, saving_on,
                 callback,
                 views, budget, owed>>

NoManualSave ==
  /\ main = "manual"
  /\ ~save_requested
  /\ main' = "choose"
  /\ UNCHANGED <<controllerVars, flags, listener, recorder, saving_on,
                 callback,
                 views, budget, owed>>

\* The flag is cleared before the request is made.
ManualSave ==
  /\ main = "manual"
  /\ save_requested
  /\ save_requested' = FALSE
  /\ Controller!SampleTime("main", "manual")
  /\ main' = "request"
  /\ UNCHANGED <<shutdown_requested, choose_capture_requested, listener,
                 recorder, saving_on, callback, views, budget, owed>>

\* Defect: a manual request during a save is dropped instead of queued.
ManualRequestWhenIdle ==
  /\ main = "request"
  /\ IF Controller!Saving
     THEN /\ call' = [call EXCEPT !["main"] = None]
          /\ UNCHANGED <<clock, state, active_source, pending_source,
                         last_request_source, last_keybind_request_at, stopped,
                         stop_requested, worker, source, stopper, accepted,
                         served, dropped, keybinds>>
     ELSE Controller!RequestSave("main")
  /\ main' = "choose"
  /\ UNCHANGED <<flags, listener, recorder, saving_on, callback, views,
                 budget, owed>>

ManualRequest ==
  /\ main = "request"
  /\ Controller!RequestSave("main")
  /\ main' = "choose"
  /\ UNCHANGED <<flags, listener, recorder, saving_on, callback, views,
                 budget, owed>>

\* Defect: a reselection request during a save is dropped.
DropCapture ==
  /\ main = "choose"
  /\ choose_capture_requested => Controller!Saving
  /\ choose_capture_requested' = FALSE
  /\ main' = "periodic"
  /\ UNCHANGED <<controllerVars, shutdown_requested, save_requested, listener,
                 recorder, saving_on, callback, views, budget, owed>>

\* Not requested, or a save is active and the request stays.
KeepCapture ==
  /\ main = "choose"
  /\ choose_capture_requested => Controller!Saving
  /\ main' = "periodic"
  /\ UNCHANGED <<controllerVars, flags, listener, recorder, saving_on,
                 callback,
                 views, budget, owed>>

\* Defect: a save that is under way is not looked for.
ChooseRegardless ==
  /\ main = "choose"
  /\ choose_capture_requested
  /\ choose_capture_requested' = FALSE
  /\ main' = "restart"
  /\ UNCHANGED <<controllerVars, shutdown_requested, save_requested, listener,
                 recorder, saving_on, callback, views, budget, owed>>

\* The save status is read under the mutex of the controller, and acted upon
\* after it was released.
ChooseCapture ==
  /\ main = "choose"
  /\ choose_capture_requested
  /\ ~Controller!Saving
  /\ choose_capture_requested' = FALSE
  /\ main' = "restart"
  /\ UNCHANGED <<controllerVars, shutdown_requested, save_requested, listener,
                 recorder, saving_on, callback, views, budget, owed>>

RestartStops ==
  /\ main = "restart"
  /\ recorder' = [recorder EXCEPT !.running = FALSE, !.window = FALSE]
  /\ main' = "replace"
  /\ UNCHANGED <<controllerVars, flags, listener, saving_on, callback, views,
                 budget, owed>>

\* The assignment to the unique_ptr destroys the old recorder.
RestartReplaces ==
  /\ main = "replace"
  /\ recorder' = NewRecorder(recorder.id + 1)
  /\ owed_choice' = FALSE
  /\ main' = "start"
  /\ UNCHANGED <<controllerVars, flags, listener, saving_on, callback, views,
                 budget, owed_save>>

RestartStarts ==
  /\ main = "start"
  /\ recorder' \in Started(recorder)
  /\ main' = "reread"
  /\ UNCHANGED <<controllerVars, flags, listener, saving_on, callback, views,
                 budget, owed>>

RestartReadsStatus ==
  /\ main = "reread"
  /\ main_view' = recorder
  /\ main' = "rewrite"
  /\ UNCHANGED <<controllerVars, flags, listener, recorder, saving_on,
                 callback,
                 worker_view, file, budget, owed>>

RestartWritesStatus ==
  /\ main = "rewrite"
  /\ file' = StatusLine(main_view)
  /\ main_view' = NoStatus
  /\ main' = "periodic"
  /\ UNCHANGED <<controllerVars, flags, listener, recorder, saving_on,
                 callback, worker_view, budget, owed>>

\* Less than a second since the last periodic write, or an iteration that took
\* longer than that.
NotDue ==
  /\ main = "periodic"
  /\ main' = "test"
  /\ UNCHANGED <<controllerVars, flags, listener, recorder, saving_on,
                 callback,
                 views, budget, owed>>

PeriodicReadsStatus ==
  /\ main = "periodic"
  /\ main_view' = recorder
  /\ main' = "write"
  /\ UNCHANGED <<controllerVars, flags, listener, recorder, saving_on,
                 callback,
                 worker_view, file, budget, owed>>

\* Defect: only the status of a running recorder is written.
PeriodicWritesWhenRunning ==
  /\ main = "write"
  /\ file' = IF main_view.running THEN StatusLine(main_view) ELSE file
  /\ shutdown_requested' = (\/ shutdown_requested
                            \/ main_view.window /\ ~main_view.running)
  /\ main_view' = NoStatus
  /\ main' = "test"
  /\ UNCHANGED <<controllerVars, save_requested, choose_capture_requested,
                 listener, recorder, saving_on, callback, worker_view, budget,
                 owed>>

\* A window capture whose stream has ended stops the daemon.
PeriodicWritesStatus ==
  /\ main = "write"
  /\ file' = StatusLine(main_view)
  /\ shutdown_requested' = (\/ shutdown_requested
                            \/ main_view.window /\ ~main_view.running)
  /\ main_view' = NoStatus
  /\ main' = "test"
  /\ UNCHANGED <<controllerVars, save_requested, choose_capture_requested,
                 listener, recorder, saving_on, callback, worker_view, budget,
                 owed>>

\* Defect: the listener thread is told to stop and not joined.
StopListenerDetached ==
  /\ main = "stop_listener"
  /\ listener' = IF listener = "idle" THEN "stopped" ELSE listener
  /\ main' = "stop_controller"
  /\ UNCHANGED <<controllerVars, flags, recorder, saving_on, callback, views,
                 budget, owed>>

\* listener.Stop() joins the thread, which is in no callback then.
StopListener ==
  /\ main = "stop_listener"
  /\ listener = "idle"
  /\ listener' = "stopped"
  /\ main' = "stop_controller"
  /\ UNCHANGED <<controllerVars, flags, recorder, saving_on, callback, views,
                 budget, owed>>

\* Defect: the worker is told to stop and not joined.
StopControllerDetached ==
  /\ main = "stop_controller"
  /\ Controller!Stop
  /\ main' = IF stopper' = "joining" THEN "stop_recorder" ELSE main
  /\ UNCHANGED <<flags, listener, recorder, saving_on, callback, views,
                 budget, owed>>

\* save_controller.Stop()
StopController ==
  /\ main = "stop_controller"
  /\ Controller!Stop
  /\ main' = IF stopper' = "joined" THEN "stop_recorder" ELSE main
  /\ UNCHANGED <<flags, listener, recorder, saving_on, callback, views,
                 budget, owed>>

StopRecorder ==
  /\ main = "stop_recorder"
  /\ recorder' = [recorder EXCEPT !.running = FALSE, !.window = FALSE]
  /\ main' = "final"
  /\ UNCHANGED <<controllerVars, flags, listener, saving_on, callback, views,
                 budget, owed>>

FinalStatus ==
  /\ main = "final"
  /\ file' = StatusLine(recorder)
  /\ main' = "returned"
  /\ UNCHANGED <<controllerVars, flags, listener, recorder, saving_on,
                 callback,
                 main_view, worker_view, budget, owed>>

Main == \/ Boot \/ Serve \/ LoopTest \/ NoManualSave \/ ManualSave
        \/ ManualRequest \/ KeepCapture \/ ChooseCapture \/ RestartStops
        \/ RestartReplaces \/ RestartStarts \/ RestartReadsStatus
        \/ RestartWritesStatus \/ NotDue \/ PeriodicReadsStatus
        \/ PeriodicWritesStatus \/ StopListener \/ StopController
        \/ StopRecorder \/ FinalStatus

Environment == \/ ShutdownSignal \/ SaveSignal \/ ChooseCaptureSignal
               \/ StreamEnds \/ SaveKey \/ StopKey

Next == Environment \/ SaveKeyRequest \/ Worker \/ Main

SafeSpec == Init /\ [][Next]_vars

\* The three threads run; every wait of the recorder has a time limit.  An
\* iteration sleeps 250 ms, so the second between two writes passes.
Fairness == /\ WF_vars(Main) /\ SF_vars(PeriodicReadsStatus)
            /\ WF_vars(Worker) /\ WF_vars(SaveKeyRequest)

Spec == SafeSpec /\ Fairness

-----------------------------------------------------------------------------
(* Properties.                                                             *)

\* The shutdown stops the threads before what they use: once the recorder is
\* being stopped for good, the listener thread and the worker are gone and no
\* SaveClip runs; the objects RunListener's lambdas refer to may be destroyed.
ThreadsGoneBeforeRecorder ==
  main \in {"stop_recorder", "final", "returned"} =>
    /\ listener = "stopped" /\ worker = "exited"
    /\ callback = "enter" /\ saving_on = None

\* The status file a daemon leaves behind tells how its last save ended and
\* that nothing records any more: no late write of a thread overwrites it.
LastStatusIsFinal ==
  main = "returned" => file = StatusLine(recorder) /\ ~file.running

\* Every save signal is answered: some save begins after it, its own or one
\* that was accepted and waiting when it came, unless the daemon shuts down
\* or dies.  Signals may coalesce in the flag and in the pending request.
SaveSignalAnswered == owed_save ~> (~owed_save \/ shutdown_requested \/ Gone)

\* Every reselection signal is followed by the creation of a recorder, also
\* one that arrives during a restart or during a save.
ReselectionHonoured ==
  owed_choice ~> (~owed_choice \/ shutdown_requested \/ Gone)

\* A daemon that is asked to stop does, from wherever its threads are.
ShutdownCompletes == shutdown_requested ~> Gone

\* Whenever the status file tells another outcome than the recorder knows, the
\* two agree in the end, also if the main thread has overwritten the file with
\* a status it had read before the save ended.
OutcomeReachesFile ==
  file.last # recorder.last ~> (file.last = recorder.last \/ main = "crashed")

\* "Capture reselection requested; waiting for the active save to finish."
\* (core.cpp:533).  The check and the stop of the recorder are not one step,
\* so the recorder can be destroyed under a save; but only under one that a
\* keybind asked for after the check.  The main thread's own requests, a save
\* that ran at the check and the one pending behind it never run into it.
ReplacedUnderKeybindOnly ==
  main = "replace" /\ saving_on # None => source = "keybind"
=============================================================================
