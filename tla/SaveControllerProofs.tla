------------------------- MODULE SaveControllerProofs -------------------------
(***************************************************************************)
(* Theorems about the save controller, for every set of callers, every     *)
(* debounce interval and every bound.  IInv is inductive; everything else  *)
(* follows from it.                                                        *)
(***************************************************************************)
EXTENDS SaveController, TLAPS

\* The stages of Stop as the flags show them.
StopConsistent ==
  /\ stopped <=> stopper # "none"
  /\ stop_requested <=> stopper \in {"joining", "joined"}
  /\ worker = "exited" => stop_requested \/ stopped
  /\ stopper = "joined" => worker = "exited"

IInv == TypeOK /\ QueueConsistent /\ StopConsistent /\ AcceptedAccountedFor

USE DebounceAssumption, BoundAssumption, NoneAssumption

-----------------------------------------------------------------------------

\* The initial state satisfies the inductive invariant.
LEMMA InitIInv == Init => IInv
<1> SUFFICES ASSUME Init PROVE IInv
  OBVIOUS
<1>1. TypeOK
  <2>1. keybinds \in Seq(Nat)
    BY DEF Init
  <2>2. QED
    BY <2>1 DEF Init, TypeOK, States, WorkerPCs, StopPCs
<1>2. QueueConsistent /\ StopConsistent
  BY DEF Init, QueueConsistent, StopConsistent, InCallback
<1>3. AcceptedAccountedFor
  BY DEF Init, AcceptedAccountedFor, Outstanding, Saving
<1>4. QED
  BY <1>1, <1>2, <1>3 DEF IInv

\* The fields keep their types.
LEMMA TypeStep == IInv /\ [Next]_vars => TypeOK'
<1> SUFFICES ASSUME IInv, [Next]_vars PROVE TypeOK'
  OBVIOUS
<1> USE DEF IInv, TypeOK, States, WorkerPCs, StopPCs, Sources
<1>1. CASE Tick
  BY <1>1 DEF Tick, queueVars, requestVars, stopVars, history
<1>2. ASSUME NEW c \in Callers, NEW s \in Sources, SampleTime(c, s)
      PROVE TypeOK'
  <2>1. [source |-> s, now |-> clock] \in Calls
    BY <1>2 DEF Calls
  <2>2. call' \in [Callers -> Calls \cup {None}]
    BY <1>2, <2>1 DEF SampleTime
  <2>3. QED
    BY <1>2, <2>2 DEF SampleTime, queueVars, requestVars, stopVars, history
<1>3. ASSUME NEW c \in Callers, RefuseRequest(c)
      PROVE TypeOK'
  BY <1>3 DEF RefuseRequest, Returns, queueVars, requestVars, stopVars, history
<1>4. ASSUME NEW c \in Callers, EnqueueRequest(c)
      PROVE TypeOK'
  <2>1. call[c].source \in Sources /\ call[c].now \in Nat
    BY <1>4 DEF EnqueueRequest, Calls
  <2>2. call' \in [Callers -> Calls \cup {None}]
    BY <1>4 DEF EnqueueRequest, Returns
  <2>3. /\ last_request_source' \in Sources
        /\ last_keybind_request_at' \in Nat \cup {None}
    BY <1>4, <2>1 DEF EnqueueRequest, Remember
  <2>4. keybinds' \in Seq(Nat)
    <3>1. Record(call[c])
      BY <1>4 DEF EnqueueRequest
    <3>2. Append(keybinds, call[c].now) \in Seq(Nat)
      BY <2>1
    <3>3. QED
      BY <3>1, <3>2 DEF Record
  <2>5. QED
    BY <1>4, <2>1, <2>2, <2>3, <2>4
       DEF EnqueueRequest, Woken, queueVars, stopVars
<1>5. CASE LoopTest \/ Sleep \/ LeaveWait \/ TakeRequest \/ CallbackReturns
  BY <1>5 DEF LoopTest, Sleep, LeaveWait, TakeRequest, CallbackReturns,
              callVars, queueVars, requestVars, stopVars, history
<1>6. CASE ExitAfterSave
  BY <1>6 DEF ExitAfterSave, QueueConsistent, InCallback, Outstanding, Saving,
              callVars, requestVars, stopVars
<1>7. CASE FinishSave
  BY <1>7 DEF FinishSave, PromotePending, BecomeIdle, callVars, requestVars,
              stopVars
<1>8. CASE Stop
  <2>1. CASE MarkStopped
    BY <2>1 DEF MarkStopped, callVars, queueVars, requestVars, history
  <2>2. CASE RequestStop
    BY <2>2 DEF RequestStop, Woken, callVars, queueVars, requestVars, history
  <2>3. CASE Join
    BY <2>3 DEF Join, callVars, queueVars, requestVars, history
  <2>4. QED
    BY <1>8, <2>1, <2>2, <2>3 DEF Stop
<1>9. CASE UNCHANGED vars
  BY <1>9 DEF vars, callVars, queueVars, requestVars, stopVars, history
<1>10. QED
  BY <1>1, <1>2, <1>3, <1>4, <1>5, <1>6, <1>7, <1>8, <1>9
     DEF Next, RequestSave, Worker

\* The queue, the worker and the stages of Stop stay consistent.
LEMMA ConsistencyStep ==
  IInv /\ [Next]_vars => QueueConsistent' /\ StopConsistent'
<1> SUFFICES ASSUME IInv, [Next]_vars
             PROVE QueueConsistent' /\ StopConsistent'
  OBVIOUS
<1> USE DEF IInv, TypeOK, States, WorkerPCs, StopPCs, Sources,
            QueueConsistent, StopConsistent, InCallback
<1>1. CASE Tick \/ \E c \in Callers, s \in Sources : SampleTime(c, s)
  BY <1>1 DEF Tick, SampleTime, queueVars, requestVars, stopVars, history
<1>2. ASSUME NEW c \in Callers, RefuseRequest(c)
      PROVE QueueConsistent' /\ StopConsistent'
  BY <1>2 DEF RefuseRequest, queueVars, requestVars, stopVars, history
<1>3. ASSUME NEW c \in Callers, EnqueueRequest(c)
      PROVE QueueConsistent' /\ StopConsistent'
  <2>1. call[c].source \in Sources /\ call[c].source # None /\ ~stopped
    BY <1>3 DEF EnqueueRequest, Calls, Refused
  <2>2. QED
    BY <1>3, <2>1 DEF EnqueueRequest, Woken, queueVars, stopVars
<1>4. CASE LoopTest \/ Sleep \/ LeaveWait
  BY <1>4 DEF LoopTest, Sleep, LeaveWait, callVars, queueVars, requestVars,
              stopVars, history
<1>5. CASE TakeRequest \/ CallbackReturns
  BY <1>5 DEF TakeRequest, CallbackReturns, callVars, queueVars, requestVars,
              stopVars, history
<1>6. CASE ExitAfterSave
  BY <1>6 DEF ExitAfterSave, callVars, requestVars, stopVars
<1>7. CASE FinishSave
  BY <1>7 DEF FinishSave, PromotePending, BecomeIdle, callVars, requestVars,
              stopVars
<1>8. CASE Stop
  BY <1>8 DEF Stop, MarkStopped, RequestStop, Join, Woken, callVars, queueVars,
              requestVars, stopVars, history
<1>9. CASE UNCHANGED vars
  BY <1>9 DEF vars, callVars, queueVars, requestVars, stopVars, history
<1>10. QED
  BY <1>1, <1>2, <1>3, <1>4, <1>5, <1>6, <1>7, <1>8, <1>9
     DEF Next, RequestSave, Worker

\* The count of accepted requests stays balanced.
LEMMA AccountStep == IInv /\ [Next]_vars => AcceptedAccountedFor'
<1> SUFFICES ASSUME IInv, [Next]_vars PROVE AcceptedAccountedFor'
  OBVIOUS
<1> USE DEF IInv, TypeOK, States, AcceptedAccountedFor, Outstanding, Saving
<1>1. CASE Tick \/ \E c \in Callers, s \in Sources : SampleTime(c, s)
  BY <1>1 DEF Tick, SampleTime, queueVars, stopVars, history
<1>2. ASSUME NEW c \in Callers, RefuseRequest(c)
      PROVE AcceptedAccountedFor'
  BY <1>2 DEF RefuseRequest, queueVars, stopVars, history
<1>3. ASSUME NEW c \in Callers, EnqueueRequest(c)
      PROVE AcceptedAccountedFor'
  BY <1>3 DEF EnqueueRequest, Woken, Refused, queueVars, stopVars
<1>4. CASE LoopTest \/ Sleep \/ LeaveWait \/ TakeRequest \/ CallbackReturns
  BY <1>4 DEF LoopTest, Sleep, LeaveWait, TakeRequest, CallbackReturns,
              queueVars, stopVars, history
<1>5. CASE ExitAfterSave
  BY <1>5 DEF ExitAfterSave, QueueConsistent, StopConsistent, InCallback,
              stopVars
<1>6. CASE FinishSave
  BY <1>6 DEF FinishSave, PromotePending, BecomeIdle, QueueConsistent,
              InCallback, stopVars
<1>7. CASE Stop
  BY <1>7 DEF Stop, MarkStopped, RequestStop, Join, Woken, queueVars, history
<1>8. CASE UNCHANGED vars
  BY <1>8 DEF vars, queueVars, stopVars, history
<1>9. QED
  BY <1>1, <1>2, <1>3, <1>4, <1>5, <1>6, <1>7, <1>8 DEF Next, RequestSave, Worker

\* IInv is an invariant of the controller.
THEOREM InductiveInvariant == SafeSpec => []IInv
<1>1. IInv /\ [Next]_vars => IInv'
  BY TypeStep, ConsistencyStep, AccountStep DEF IInv
<1>2. QED
  BY InitIInv, <1>1, PTL DEF SafeSpec

\* Type correctness.
THEOREM TypeCorrect == SafeSpec => []TypeOK
<1>1. IInv => TypeOK
  BY DEF IInv
<1>2. QED
  BY InductiveInvariant, <1>1, PTL

\* The state, the two request fields and the worker always agree.
THEOREM Consistency == SafeSpec => []QueueConsistent
<1>1. IInv => QueueConsistent
  BY DEF IInv
<1>2. QED
  BY InductiveInvariant, <1>1, PTL

\* No accepted request is lost before the controller is stopped.
THEOREM Accounting == SafeSpec => []AcceptedAccountedFor
<1>1. IInv => AcceptedAccountedFor
  BY DEF IInv
<1>2. QED
  BY InductiveInvariant, <1>1, PTL

\* No callback runs once Stop has returned.
THEOREM Quiescence == SafeSpec => []QuiescentAfterStop
<1>1. IInv => QuiescentAfterStop
  BY DEF IInv, StopConsistent, QuiescentAfterStop
<1>2. QED
  BY InductiveInvariant, <1>1, PTL

\* No step accepts a request once the controller is marked stopped, and the
\* queue is frozen once the worker is gone.
THEOREM StoppedAcceptsNothing == SafeSpec => NothingAcceptedAfterStop
<1> DEFINE A == /\ stopped => accepted' = accepted
                /\ worker = "exited" => Fields' = Fields
<1>1. IInv /\ [Next]_vars => [A]_vars
  <2> SUFFICES ASSUME IInv, Next PROVE A
    BY DEF vars
  <2> USE DEF IInv, StopConsistent, Fields
  <2>1. ASSUME NEW c \in Callers, EnqueueRequest(c) PROVE A
    <3>1. ~stopped /\ worker # "exited"
      BY <2>1 DEF EnqueueRequest, Refused, TypeOK, StopPCs
    <3>2. QED
      BY <3>1
  <2>2. CASE \/ Tick
             \/ \E c \in Callers, s \in Sources : SampleTime(c, s)
             \/ \E c \in Callers : RefuseRequest(c)
    BY <2>2 DEF Tick, SampleTime, RefuseRequest, queueVars, history
  <2>3. CASE Worker
    BY <2>3 DEF Worker, LoopTest, Sleep, LeaveWait, TakeRequest,
                CallbackReturns, ExitAfterSave, FinishSave, queueVars, history
  <2>4. CASE Stop
    BY <2>4 DEF Stop, MarkStopped, RequestStop, Join, queueVars, history
  <2>5. QED
    BY <2>1, <2>2, <2>3, <2>4 DEF Next, RequestSave
<1>2. QED
  BY InductiveInvariant, <1>1, PTL DEF SafeSpec, NothingAcceptedAfterStop

\* No accepted keybind request was sampled after the start of the running
\* debounce interval, which is that of the last keybind request that passed,
\* accepted or not.
IntervalBehind ==
  \A i \in DOMAIN keybinds :
    /\ last_keybind_request_at # None
    /\ keybinds[i] <= last_keybind_request_at

\* A keybind request that passes the debounce is later than all before it.
LEMMA SpacingStep ==
  ASSUME IInv, KeybindSpacing, IntervalBehind, [Next]_vars
  PROVE  KeybindSpacing' /\ IntervalBehind'
<1> USE DEF KeybindSpacing, IntervalBehind
<1>1. ASSUME NEW c \in Callers, EnqueueRequest(c)
      PROVE  KeybindSpacing' /\ IntervalBehind'
  <2> DEFINE now == call[c].now
  <2>1. /\ call[c] # None /\ ~Refused(call[c])
        /\ Remember(call[c]) /\ Record(call[c])
    BY <1>1 DEF EnqueueRequest
  <2>2. now \in Nat /\ keybinds \in Seq(Nat)
    BY <2>1 DEF IInv, TypeOK, Calls
  <2>3. last_keybind_request_at \in Nat \cup {None} /\ KeybindDebounce \in Nat
    BY DEF IInv, TypeOK
  <2>4. CASE call[c].source = "keybind"
    <3>1. last_keybind_request_at' = now
      BY <2>1, <2>4 DEF Remember
    <3>2. \A i \in DOMAIN keybinds : keybinds[i] + KeybindDebounce <= now
      <4> SUFFICES ASSUME NEW i \in DOMAIN keybinds
                   PROVE  keybinds[i] + KeybindDebounce <= now
        OBVIOUS
      <4>1. /\ last_keybind_request_at # None
            /\ keybinds[i] <= last_keybind_request_at
        OBVIOUS
      <4>2. now - last_keybind_request_at >= KeybindDebounce
        BY <2>1, <2>4, <4>1 DEF Refused, KeybindDebouncePassed
      <4>3. keybinds[i] \in Nat
        BY <2>2
      <4> QED BY <2>2, <2>3, <4>1, <4>2, <4>3
    <3>3. now # None
      BY <2>2
    <3>4. CASE state = "Pending"
      <4>1. keybinds' = keybinds
        BY <2>1, <3>4 DEF Record
      <4>2. \A i \in DOMAIN keybinds : keybinds[i] <= now
        BY <2>2, <2>3, <3>2
      <4> QED BY <3>1, <3>3, <4>1, <4>2
    <3>5. CASE state # "Pending"
      <4>1. keybinds' = Append(keybinds, now)
        BY <2>1, <2>4, <3>5 DEF Record
      <4>2. /\ DOMAIN keybinds' = 1..Len(keybinds) + 1
            /\ DOMAIN keybinds = 1..Len(keybinds)
            /\ keybinds'[Len(keybinds) + 1] = now
            /\ \A i \in DOMAIN keybinds : keybinds'[i] = keybinds[i]
        BY <2>2, <4>1
      <4>3. \A i \in DOMAIN keybinds' :
              i \notin DOMAIN keybinds => i = Len(keybinds) + 1
        BY <2>2, <4>2
      <4>4. \A i, j \in DOMAIN keybinds' :
              i < j => i \in DOMAIN keybinds
        BY <2>2, <4>2
      <4>5. KeybindSpacing'
        BY <2>2, <2>3, <3>2, <4>2, <4>3, <4>4
      <4>6. IntervalBehind'
        BY <2>2, <2>3, <3>1, <3>2, <3>3, <4>2, <4>3
      <4> QED BY <4>5, <4>6
    <3> QED BY <3>4, <3>5
  <2>5. CASE call[c].source # "keybind"
    BY <2>1, <2>5 DEF Remember, Record
  <2> QED BY <2>4, <2>5
<1>2. ASSUME \/ Tick
             \/ \E c \in Callers, s \in Sources : SampleTime(c, s)
             \/ \E c \in Callers : RefuseRequest(c)
             \/ Worker \/ Stop \/ UNCHANGED vars
      PROVE  KeybindSpacing' /\ IntervalBehind'
  <2>1. UNCHANGED <<keybinds, last_keybind_request_at>>
    BY <1>2 DEF Tick, SampleTime, RefuseRequest, Worker, LoopTest, Sleep,
                LeaveWait, TakeRequest, CallbackReturns, ExitAfterSave,
                FinishSave, Stop, MarkStopped, RequestStop, Join, vars,
                requestVars, history
  <2> QED BY <2>1
<1> QED BY <1>1, <1>2 DEF Next, RequestSave

\* Keybind requests become saves no more often than the debounce allows.
THEOREM Spacing == SafeSpec => []KeybindSpacing
<1>1. Init => KeybindSpacing /\ IntervalBehind
  BY DEF Init, KeybindSpacing, IntervalBehind
<1> QED BY <1>1, InductiveInvariant, SpacingStep, PTL DEF SafeSpec

-----------------------------------------------------------------------------
(* Refinement of the abstract queue.                                       *)

\* The queue's three state functions at a glance.
LEMMA StutterStep ==
  ASSUME UNCHANGED <<active_source, pending_source, source, InCallback, stopped>>
  PROVE  UNCHANGED Queue!vars
BY DEF Queue!vars, AbstractQueue, Current

\* Every step of the controller is a step of the queue or leaves it alone.
LEMMA RefinementStep == IInv /\ [Next]_vars => [Queue!Next]_(Queue!vars)
<1> SUFFICES ASSUME IInv, [Next]_vars PROVE [Queue!Next]_(Queue!vars)
  OBVIOUS
<1> USE DEF IInv, TypeOK, QueueConsistent, InCallback
<1>1. ASSUME \/ Tick \/ LoopTest \/ Sleep \/ LeaveWait \/ CallbackReturns
             \/ RequestStop \/ Join \/ UNCHANGED vars
             \/ \E c \in Callers, s \in Sources : SampleTime(c, s)
             \/ \E c \in Callers : RefuseRequest(c)
      PROVE  UNCHANGED Queue!vars
  <2>1. UNCHANGED <<active_source, pending_source, source, InCallback, stopped>>
    BY <1>1 DEF Tick, LoopTest, Sleep, LeaveWait, CallbackReturns, RequestStop,
                Join, SampleTime, RefuseRequest, Woken, vars, callVars,
                queueVars, stopVars
  <2>2. QED
    BY <2>1, StutterStep
<1>2. ASSUME NEW c \in Callers, EnqueueRequest(c)
      PROVE [Queue!Next]_(Queue!vars)
  <2>1. call[c].source \in Sources /\ call[c].source # None /\ ~stopped
    BY <1>2 DEF EnqueueRequest, Calls, Refused
  <2>2. CASE state = "Idle"
    <3>1. AbstractQueue = <<>> /\ AbstractQueue' = <<call[c].source>>
      BY <1>2, <2>1, <2>2 DEF EnqueueRequest, AbstractQueue, Current, Woken
    <3>2. Queue!Accept(call[c].source)
      BY <1>2, <2>1, <2>2, <3>1
         DEF EnqueueRequest, Queue!Accept, Queue!Capacity, Woken, stopVars
    <3>3. QED
      BY <2>1, <3>2 DEF Queue!Next
  <2>3. CASE state = "Saving"
    <3>1. /\ AbstractQueue = <<Current>>
          /\ AbstractQueue' = Append(<<Current>>, call[c].source)
      <4>1. pending_source = None /\ Current # None /\ Current \in Sources
        BY <2>3 DEF Current, States
      <4>2. pending_source' = call[c].source /\ Current' = Current
        BY <1>2, <2>3 DEF EnqueueRequest, Current
      <4>3. AbstractQueue = <<Current>>
        BY <4>1 DEF AbstractQueue
      <4>4. AbstractQueue' = <<Current>> \o <<call[c].source>>
        BY <2>1, <4>1, <4>2 DEF AbstractQueue
      <4>5. /\ <<Current>> \in Seq(Sources)
            /\ <<Current>> \o <<call[c].source>>
                 = Append(<<Current>>, call[c].source)
        BY <2>1, <4>1
      <4>6. QED
        BY <4>3, <4>4, <4>5
    <3>2. Queue!Accept(call[c].source)
      BY <1>2, <2>1, <2>3, <3>1
         DEF EnqueueRequest, Queue!Accept, Queue!Capacity, stopVars
    <3>3. QED
      BY <2>1, <3>2 DEF Queue!Next
  <2>4. CASE state = "Pending"
    BY <1>2, <2>4, StutterStep DEF EnqueueRequest, queueVars, stopVars
  <2>5. QED
    BY <2>2, <2>3, <2>4 DEF States
<1>3. ASSUME TakeRequest PROVE [Queue!Next]_(Queue!vars)
  <2>1. AbstractQueue' = AbstractQueue /\ AbstractQueue # <<>>
    BY <1>3 DEF TakeRequest, AbstractQueue, Current
  <2>2. Queue!Begin
    BY <1>3, <2>1 DEF TakeRequest, Queue!Begin, stopVars
  <2>3. QED
    BY <2>2 DEF Queue!Next
<1>4. ASSUME ExitAfterSave PROVE [Queue!Next]_(Queue!vars)
  <2>1. AbstractQueue' = <<>> /\ stopped
    BY <1>4 DEF ExitAfterSave, AbstractQueue, Current, StopConsistent, stopVars
  <2>2. Queue!Abandon
    BY <1>4, <2>1 DEF ExitAfterSave, Queue!Abandon, stopVars
  <2>3. QED
    BY <2>2 DEF Queue!Next
<1>5. ASSUME FinishSave PROVE [Queue!Next]_(Queue!vars)
  <2>1. AbstractQueue' = Tail(AbstractQueue)
    BY <1>5 DEF FinishSave, PromotePending, BecomeIdle, AbstractQueue, Current
  <2>2. Queue!Complete
    BY <1>5, <2>1 DEF FinishSave, Queue!Complete, stopVars
  <2>3. QED
    BY <2>2 DEF Queue!Next
<1>6. ASSUME MarkStopped PROVE [Queue!Next]_(Queue!vars)
  <2>1. AbstractQueue' = AbstractQueue /\ ~stopped
    BY <1>6 DEF MarkStopped, AbstractQueue, Current, StopConsistent, queueVars
  <2>2. Queue!Close
    BY <1>6, <2>1 DEF MarkStopped, Queue!Close
  <2>3. QED
    BY <2>2 DEF Queue!Next
<1>7. QED
  BY <1>1, <1>2, <1>3, <1>4, <1>5, <1>6 DEF Next, RequestSave, Worker, Stop

\* The controller implements the safety part of the abstract queue.
THEOREM Refinement == SafeSpec => Queue!SafeSpec
<1>1. Init => Queue!Init
  BY DEF Init, Queue!Init, AbstractQueue, Current, InCallback
<1>2. QED
  BY <1>1, InductiveInvariant, RefinementStep, PTL DEF SafeSpec, Queue!SafeSpec
=============================================================================
