---------------------------- MODULE SaveController ----------------------------
(***************************************************************************)
(* SaveRequestController (save_request_controller.cpp): the object through *)
(* which the threads of the daemon ask for a clip.  RequestSave is called  *)
(* by the listener thread (a keybind) and by the main thread (SIGUSR1);    *)
(* one worker thread runs the save callback; Stop marks the controller     *)
(* stopped, requests the worker's stop and joins it.                       *)
(*                                                                         *)
(* The grain is one action per critical section of mutex_, plus one for    *)
(* each thing a thread does outside it: the clock sample at the head of    *)
(* RequestSave, the loop test of the worker, the callback, the stop        *)
(* request and the join.                                                   *)
(***************************************************************************)
EXTENDS Integers, Sequences

CONSTANTS
  Callers,              \* the threads that call RequestSave
  KeybindDebounce,      \* config_.keybind_debounce, in clock ticks
  None,                 \* std::nullopt
  MaxTime,              \* bound: the last tick of the modelled clock
  MaxRequests           \* bound: no call of RequestSave starts after this
                        \* many were accepted

Sources == {"keybind", "manual"}

ASSUME DebounceAssumption == KeybindDebounce \in Nat
ASSUME BoundAssumption == MaxTime \in Nat /\ MaxRequests \in Nat
ASSUME NoneAssumption == None \notin Nat /\ None \notin Sources

VARIABLES
  clock,                    \* steady_clock
  state,                    \* state_
  active_source,            \* active_source_: accepted, not yet taken
  pending_source,           \* pending_source_: the one request that waits
  last_request_source,      \* last_request_source_
  last_keybind_request_at,  \* last_keybind_request_at_
  stopped,                  \* stopped_
  stop_requested,           \* the stop source of worker_thread_
  call,                     \* per caller: RequestSave between sample and lock
  worker,                   \* where WorkerLoop is
  source,                   \* its local: the request it is serving
  stopper,                  \* where Stop is
  accepted,                 \* history: calls of RequestSave that returned true
  served,                   \* history: callbacks whose result was recorded
  dropped,                  \* history: accepted requests the exit discarded
  keybinds                  \* history: the samples of the keybind requests
                            \* that were accepted, in that order

callVars == <<clock, call>>
queueVars == <<state, active_source, pending_source>>
requestVars == <<last_request_source, last_keybind_request_at>>
stopVars == <<stopped, stop_requested, stopper>>
history == <<accepted, served, dropped, keybinds>>
vars == <<callVars, queueVars, requestVars, stopVars, worker, source, history>>

States == {"Idle", "Saving", "Pending"}
WorkerPCs == {"top", "wait", "asleep", "callback", "finish", "exited"}
StopPCs == {"none", "marked", "joining", "joined"}
Calls == [source : Sources, now : Nat]

TypeOK ==
  /\ clock \in Nat
  /\ state \in States
  /\ active_source \in Sources \cup {None}
  /\ pending_source \in Sources \cup {None}
  /\ last_request_source \in Sources \cup {None}
  /\ last_keybind_request_at \in Nat \cup {None}
  /\ stopped \in BOOLEAN
  /\ stop_requested \in BOOLEAN
  /\ call \in [Callers -> Calls \cup {None}]
  /\ worker \in WorkerPCs
  /\ source \in Sources \cup {None}
  /\ stopper \in StopPCs
  /\ accepted \in Nat
  /\ served \in Nat
  /\ dropped \in Nat
  /\ keybinds \in Seq(Nat)

Init ==
  /\ clock = 0
  /\ state = "Idle"
  /\ active_source = None
  /\ pending_source = None
  /\ last_request_source = None
  /\ last_keybind_request_at = None
  /\ stopped = FALSE
  /\ stop_requested = FALSE
  /\ call = [c \in Callers |-> None]
  /\ worker = "top"
  /\ source = None
  /\ stopper = "none"
  /\ accepted = 0
  /\ served = 0
  /\ dropped = 0
  /\ keybinds = <<>>

Tick == /\ clock < MaxTime
        /\ clock' = clock + 1
        /\ UNCHANGED <<call, queueVars, requestVars, stopVars, worker, source,
                       history>>

-----------------------------------------------------------------------------
(* RequestSave.                                                            *)

\* SaveControllerStatus.saving
Saving == state \in {"Saving", "Pending"}

\* The accepted requests that are not completed, by the state alone.
Outstanding == IF state = "Pending" THEN 2 ELSE IF Saving THEN 1 ELSE 0

\* Defect: the interval as an unsigned difference.
UnsignedDebounce(now) ==
  \/ last_keybind_request_at = None
  \/ now < last_keybind_request_at
  \/ now - last_keybind_request_at >= KeybindDebounce

KeybindDebouncePassed(now) ==
  \/ last_keybind_request_at = None
  \/ now - last_keybind_request_at >= KeybindDebounce

\* The time is read before the mutex is taken.
SampleTime(c, s) ==
  /\ call[c] = None
  /\ accepted < MaxRequests
  /\ call' = [call EXCEPT ![c] = [source |-> s, now |-> clock]]
  /\ UNCHANGED <<clock, queueVars, requestVars, stopVars, worker, source,
                 history>>

\* The two early returns.
Refused(req) ==
  \/ stopped
  \/ req.source = "keybind" /\ ~KeybindDebouncePassed(req.now)

\* Defect: the state changes without a notification.
NobodyWoken == worker

\* notify_one: the worker's wait evaluates its predicate again.
Woken == IF worker = "asleep" THEN "wait" ELSE worker

Returns(c) == call' = [call EXCEPT ![c] = None]

RefuseRequest(c) ==
  /\ call[c] # None
  /\ Refused(call[c])
  /\ Returns(c)
  /\ UNCHANGED <<clock, queueVars, requestVars, stopVars, worker, source,
                 history>>

\* A request that is not refused is remembered as the last one, and a keybind
\* starts a new debounce interval, whether or not there is room for it.
Remember(req) ==
  /\ last_request_source' = req.source
  /\ last_keybind_request_at' = IF req.source = "keybind"
                                THEN req.now ELSE last_keybind_request_at

\* Only a request for which there is room becomes a save.
Record(req) ==
  keybinds' = IF state # "Pending" /\ req.source = "keybind"
              THEN Append(keybinds, req.now) ELSE keybinds

EnqueueRequest(c) ==
  /\ call[c] # None
  /\ ~Refused(call[c])
  /\ Remember(call[c])
  /\ Record(call[c])
  /\ Returns(c)
  /\ \/ /\ state = "Idle"
        /\ state' = "Saving"
        /\ active_source' = call[c].source
        /\ worker' = Woken
        /\ accepted' = accepted + 1
        /\ UNCHANGED pending_source
     \/ /\ state = "Saving"
        /\ state' = "Pending"
        /\ pending_source' = call[c].source
        /\ accepted' = accepted + 1
        /\ UNCHANGED <<active_source, worker>>
     \/ /\ state = "Pending"
        /\ UNCHANGED <<queueVars, worker, accepted>>
  /\ UNCHANGED <<clock, stopVars, source, served, dropped>>

RequestSave(c) == RefuseRequest(c) \/ EnqueueRequest(c)

-----------------------------------------------------------------------------
(* WorkerLoop.                                                             *)

\* while (!stop_token.stop_requested())
LoopTest ==
  /\ worker = "top"
  /\ worker' = IF stop_requested THEN "exited" ELSE "wait"
  /\ UNCHANGED <<callVars, queueVars, requestVars, stopVars, source, history>>

\* condition_.wait blocks: no active request and no stop request.
Sleep ==
  /\ worker = "wait"
  /\ active_source = None
  /\ ~stop_requested
  /\ worker' = "asleep"
  /\ UNCHANGED <<callVars, queueVars, requestVars, stopVars, source, history>>

LeaveWait ==
  /\ worker = "wait"
  /\ active_source = None
  /\ stop_requested
  /\ worker' = "exited"
  /\ UNCHANGED <<callVars, queueVars, requestVars, stopVars, source, history>>

\* Defect: the request that is taken is not reset.
TakeWithoutReset ==
  /\ worker = "wait"
  /\ active_source # None
  /\ source' = active_source
  /\ worker' = "callback"
  /\ UNCHANGED <<callVars, queueVars, requestVars, stopVars, history>>

\* The active request is taken even when a stop was requested meanwhile.
TakeRequest ==
  /\ worker = "wait"
  /\ active_source # None
  /\ source' = active_source
  /\ active_source' = None
  /\ worker' = "callback"
  /\ UNCHANGED <<callVars, state, pending_source, requestVars, stopVars,
                 history>>

\* save_callback_ returns; the mutex is not held.
CallbackReturns ==
  /\ worker = "callback"
  /\ worker' = "finish"
  /\ UNCHANGED <<callVars, queueVars, requestVars, stopVars, source, history>>

ExitAfterSave ==
  /\ worker = "finish"
  /\ stop_requested \/ stopped
  /\ state' = "Idle"
  /\ active_source' = None
  /\ pending_source' = None
  /\ worker' = "exited"
  /\ source' = None
  /\ served' = served + 1
  /\ dropped' = dropped + Outstanding - 1
  /\ UNCHANGED <<callVars, requestVars, stopVars, accepted, keybinds>>

PromotePending ==
  /\ state = "Pending"
  /\ state' = "Saving"
  /\ active_source' = pending_source
  /\ pending_source' = None

\* Defect: the end of a save does not look for a pending request.
BecomeIdleAlways ==
  /\ state' = "Idle"
  /\ pending_source' = None
  /\ UNCHANGED active_source

BecomeIdle ==
  /\ state # "Pending"
  /\ state' = "Idle"
  /\ UNCHANGED <<active_source, pending_source>>

FinishSave ==
  /\ worker = "finish"
  /\ ~(stop_requested \/ stopped)
  /\ PromotePending \/ BecomeIdle
  /\ worker' = "top"
  /\ source' = None
  /\ served' = served + 1
  /\ UNCHANGED <<callVars, requestVars, stopVars, accepted, dropped, keybinds>>

Worker == LoopTest \/ Sleep \/ LeaveWait \/ TakeRequest \/ CallbackReturns
            \/ ExitAfterSave \/ FinishSave

-----------------------------------------------------------------------------
(* Stop.                                                                   *)

MarkStopped ==
  /\ stopper = "none"
  /\ stopped' = TRUE
  /\ stopper' = "marked"
  /\ UNCHANGED <<callVars, queueVars, requestVars, stop_requested, worker,
                 source, history>>

\* Defect: the stop request wakes nobody.
RequestStopSilently ==
  /\ stopper = "marked"
  /\ stop_requested' = TRUE
  /\ stopper' = "joining"
  /\ UNCHANGED <<callVars, queueVars, requestVars, stopped, worker, source,
                 history>>

\* request_stop and notify_all
RequestStop ==
  /\ stopper = "marked"
  /\ stop_requested' = TRUE
  /\ worker' = Woken
  /\ stopper' = "joining"
  /\ UNCHANGED <<callVars, queueVars, requestVars, stopped, source, history>>

Join ==
  /\ stopper = "joining"
  /\ worker = "exited"
  /\ stopper' = "joined"
  /\ UNCHANGED <<callVars, queueVars, requestVars, stopped, stop_requested,
                 worker, source, history>>

Stop == MarkStopped \/ RequestStop \/ Join

Next == \/ Tick
        \/ \E c \in Callers, s \in Sources : SampleTime(c, s)
        \/ \E c \in Callers : RequestSave(c)
        \/ Worker
        \/ Stop

SafeSpec == Init /\ [][Next]_vars

\* A runnable thread runs: the worker (the callback returns, its waits on
\* files and child processes have time limits) and a Stop that has begun.
Fairness == WF_vars(Worker) /\ WF_vars(RequestStop) /\ WF_vars(Join)

Spec == SafeSpec /\ Fairness

-----------------------------------------------------------------------------
(* Properties.                                                             *)

InCallback == worker \in {"callback", "finish"}

\* The three fields the mutex guards agree with each other and with the
\* worker: a controller that is busy has exactly one current request, either
\* waiting in active_source_ or held by the worker, never both and never none;
\* pending_source_ is set exactly in the state Pending, and the worker waits
\* for a notification only when there is nothing to take.
QueueConsistent ==
  /\ (state = "Pending") <=> (pending_source # None)
  /\ (state = "Idle") <=> (active_source = None /\ ~InCallback)
  /\ ~(active_source # None /\ InCallback)
  /\ InCallback <=> (source # None)
  /\ worker = "asleep" => active_source = None /\ ~stop_requested

\* Every accepted request is accounted for, at every instant: it was served,
\* it is counted by the state, or the exit of the worker discarded it, and
\* that happens only to a stopped controller and to at most one request.
AcceptedAccountedFor ==
  /\ accepted = served + Outstanding + dropped
  /\ dropped > 0 => stopped /\ worker = "exited" /\ dropped = 1

\* When Stop returns no callback is running and none can start, so what the
\* callback refers to (the recorder, the status file) may be destroyed.
QuiescentAfterStop == stopper = "joined" => worker = "exited"

Fields == <<accepted, active_source, pending_source, state>>

\* From the moment Stop has marked the controller no request is accepted, even
\* one whose RequestSave had begun; and after the worker is gone nothing in
\* the queue changes.
NothingAcceptedAfterStop ==
  [][/\ stopped => accepted' = accepted
     /\ worker = "exited" => Fields' = Fields]_vars

\* However often the combination is pressed and whichever thread asks, the
\* keybind requests that become saves were made at least the debounce interval
\* apart and are accepted in the order in which they were made, although a
\* request samples the time before it gets the mutex, later samples can
\* overtake it, and manual requests and ignored ones come in between.
KeybindSpacing ==
  \A i, j \in DOMAIN keybinds :
    i < j => keybinds[j] >= keybinds[i] + KeybindDebounce

\* Every accepted request is eventually served unless the controller is
\* stopped: no wakeup is lost, however requests and the worker interleave.
AcceptedEventuallyServed ==
  \A n \in 1..MaxRequests : accepted >= n ~> (served >= n \/ stopped)

\* A Stop that has begun returns, whatever the worker was doing.
StopReturns == stopper = "marked" ~> stopper = "joined"

\* The refinement mapping to the abstract queue: the request the worker holds
\* or is about to take, then the pending one.
Current == IF InCallback THEN source ELSE active_source
AbstractQueue == (IF Current = None THEN <<>> ELSE <<Current>>)
                   \o (IF pending_source = None THEN <<>> ELSE <<pending_source>>)

Queue == INSTANCE SaveQueue WITH queue <- AbstractQueue,
                                 running <- InCallback,
                                 closed <- stopped

\* The controller implements the coalescing queue: requests are served in the
\* order of their acceptance, one at a time, at most two outstanding, and
\* none is forgotten while the controller is open.
ImplementsQueue == Queue!Spec
=============================================================================
