------------------------------ MODULE SaveQueue ------------------------------
(***************************************************************************)
(* What the save controller of the daemon promises its callers: a queue of *)
(* save requests, served one at a time and in the order of their           *)
(* acceptance, that holds at most the save being served and one more.      *)
(* Nothing accepted is lost unless the queue is closed.                    *)
(***************************************************************************)
EXTENDS Naturals, Sequences

CONSTANT Sources            \* who may ask for a save

Capacity == 2               \* the active save and one pending save

VARIABLES
  queue,                    \* accepted requests that are not completed
  running,                  \* the head of queue is being served
  closed                    \* no request is accepted any more

vars == <<queue, running, closed>>

Init == /\ queue = <<>>
        /\ running = FALSE
        /\ closed = FALSE

Accept(s) == /\ ~closed
             /\ Len(queue) < Capacity
             /\ queue' = Append(queue, s)
             /\ UNCHANGED <<running, closed>>

Begin == /\ ~running
         /\ queue # <<>>
         /\ running' = TRUE
         /\ UNCHANGED <<queue, closed>>

Complete == /\ running
            /\ running' = FALSE
            /\ queue' = Tail(queue)
            /\ UNCHANGED closed

Close == /\ ~closed
         /\ closed' = TRUE
         /\ UNCHANGED <<queue, running>>

\* A closed queue finishes the save being served and forgets the other one.
Abandon == /\ closed
           /\ running
           /\ running' = FALSE
           /\ queue' = <<>>
           /\ UNCHANGED closed

Next == (\E s \in Sources : Accept(s)) \/ Begin \/ Complete \/ Close \/ Abandon

\* An open queue keeps serving; what has begun ends, whether open or closed.
Fairness == /\ WF_vars(~closed /\ Begin)
            /\ WF_vars(Complete \/ Abandon)

SafeSpec == Init /\ [][Next]_vars
Spec == SafeSpec /\ Fairness
=============================================================================
