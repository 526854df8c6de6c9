-------------------------- MODULE ChildProcessProofs --------------------------
(***************************************************************************)
(* Proofs about ChildProcess, for any threads, kinds, outputs, capacities  *)
(* and number of calls.                                                    *)
(*                                                                         *)
(* The invariant speaks of one call (CallOK) and of one thread (ThreadOK)  *)
(* at a time, and says that no two threads run the same call: so a step of *)
(* a thread or of a child has to be checked for its own call only, which   *)
(* the lemmas ThreadFrame and ChildFrame state.                            *)
(***************************************************************************)
EXTENDS ChildProcess, TLAPS

Active(t) == thread[t].pc # "idle"

\* Calls that have not begun have left no trace; what a probe's child wrote is
\* in the pipe, read or still to come, and while it runs it can write.
CallOK(i) ==
  /\ i > calls => kind[i] = "none" /\ child[i] = NoChild /\ result[i] = "none"
                  /\ data[i] = 0 /\ got[i] = 0
  /\ child[i].state = "none" => data[i] = 0 /\ got[i] = 0
  /\ kind[i] \in Piped /\ child[i].state # "none" =>
       got[i] + data[i] + child[i].left = Output
  /\ kind[i] \in Piped /\ Running(i) => i \in child[i].holds
  /\ child[i].status = "ok" => ~Running(i) /\ child[i].left = 0
  /\ result[i] # "none" => child[i].state \in {"none", "reaped"}
  /\ result[i] = "ok" /\ kind[i] # "capture" => child[i].status = "ok"
  /\ result[i] = "ok" /\ kind[i] \in Piped => got[i] + child[i].left = Output

\* Where a thread is says what its child can be and which kind its call has.
ThreadOK(t) ==
  LET i == thread[t].id pc == thread[t].pc
  IN  /\ i \in 1..calls /\ result[i] = "none"
      /\ pc \in {"pipe", "fork"} => child[i] = NoChild
      /\ pc \notin {"pipe", "fork"} => child[i].state \in {"running", "zombie"}
      /\ pc = "fork" => kind[i] # "none" /\ (kind[i] \in Piped => i \in open)
      /\ pc \in {"pipe", "close", "read"} => kind[i] \in Piped
      /\ pc \in {"setpgid", "poll", "terminate", "grace", "reap"}
           => kind[i] \in {"compose", "shell"}
      /\ pc = "wait" /\ kind[i] \in Piped =>
           data[i] = 0 /\ child[i].state = "zombie"

OneThreadPerCall ==
  \A t, u \in Threads :
    Active(t) /\ Active(u) /\ thread[t].id = thread[u].id => t = u

IInv ==
  /\ TypeOK /\ SignalsHitOwnChild /\ OneThreadPerCall
  /\ \A i \in Ids : CallOK(i)
  /\ \A t \in Threads : Active(t) => ThreadOK(t)

-----------------------------------------------------------------------------

USE DEF Ids, Piped

LEMMA InitIInv == Init => IInv
  <1> SUFFICES ASSUME Init PROVE IInv
    OBVIOUS
  <1> MaxCalls \in Nat
    BY ChildParameters DEF ChildParameters
  <1>1. thread \in [Threads -> [pc : PCs, id : 0..MaxCalls]]
    BY DEF Init, PCs
  <1>2. NoChild \in ChildRecord
    BY DEF NoChild, ChildRecord
  <1>3. quiet \in BOOLEAN /\ stopped \in BOOLEAN /\ strayed \in BOOLEAN
    BY Zenon DEF Init
  <1>4. kind \in [Ids -> AllKinds] /\ data \in [Ids -> Nat] /\ got \in [Ids -> Nat]
    BY DEF Init, AllKinds
  <1>5. open \subseteq Ids /\ calls \in 0..MaxCalls
    BY DEF Init
  <1>6. result \in [Ids -> {"none", "ok", "fail", "timeout"}]
    BY DEF Init
  <1>7. child \in [Ids -> ChildRecord]
    BY <1>2 DEF Init
  <1>8. TypeOK
    BY <1>1, <1>3, <1>4, <1>5, <1>6, <1>7 DEF TypeOK
  <1>9. \A i \in Ids : CallOK(i)
    BY DEF Init, CallOK, NoChild, Running
  <1>10. \A t \in Threads : ~Active(t)
    BY DEF Init, Active
  <1> QED
    BY <1>8, <1>9, <1>10 DEF Init, IInv, OneThreadPerCall, SignalsHitOwnChild

\* What an invariant of the calls gives for the properties.
LEMMA IInvImplies == IInv => NothingRunsAfterReturn /\ SuccessIsComplete
  <1> SUFFICES ASSUME IInv PROVE NothingRunsAfterReturn /\ SuccessIsComplete
    OBVIOUS
  <1>1. NothingRunsAfterReturn
    BY DEF IInv, CallOK, NothingRunsAfterReturn
  <1>2. ASSUME NEW i \in Ids, result[i] = "ok", kind[i] \in Piped
        PROVE  /\ got[i] = Output - child[i].left
               /\ child[i].status = "ok" => got[i] = Output
    <2>1. got[i] + child[i].left = Output /\ CallOK(i)
      BY <1>2 DEF IInv, CallOK
    <2>2. got[i] \in Nat /\ child[i].left \in Nat /\ Output \in Nat
      BY ChildParameters DEF IInv, TypeOK, ChildRecord, ChildParameters
    <2>3. child[i].status = "ok" => child[i].left = 0
      BY <2>1 DEF CallOK
    <2> QED
      BY <2>1, <2>2, <2>3
  <1>3. \A i \in Ids : result[i] = "ok" /\ kind[i] # "capture"
                         => child[i].status = "ok"
    BY DEF IInv, CallOK
  <1> QED
    BY <1>1, <1>2, <1>3 DEF SuccessIsComplete

-----------------------------------------------------------------------------
(* Frames.                                                                 *)

Untouched(j) ==
  /\ kind'[j] = kind[j] /\ child'[j] = child[j] /\ data'[j] = data[j]
  /\ got'[j] = got[j] /\ result'[j] = result[j]
  /\ (j \in open' <=> j \in open)

LEMMA UntouchedStays ==
  ASSUME NEW j \in Ids, Untouched(j), calls' = calls, CallOK(j)
  PROVE  CallOK(j)'
  BY DEF Untouched, CallOK, Running, NoChild

LEMMA OthersStay ==
  ASSUME NEW u \in Threads, thread'[u] = thread[u], Untouched(thread[u].id),
         calls' = calls, ThreadOK(u)
  PROVE  ThreadOK(u)'
  BY DEF Untouched, ThreadOK, NoChild

\* A step of thread t in its call i is to be checked for t and i only.
LEMMA ThreadFrame ==
  ASSUME IInv, TypeOK', SignalsHitOwnChild', calls' = calls,
         NEW t \in Threads, Active(t), NEW i \in Ids, i = thread[t].id,
         thread'[t].id = i,
         \A u \in Threads \ {t} : thread'[u] = thread[u],
         \A j \in Ids \ {i} : Untouched(j),
         CallOK(i)', Active(t)' => ThreadOK(t)'
  PROVE  IInv'
  <1>1. ASSUME NEW j \in Ids PROVE CallOK(j)'
    BY UntouchedStays DEF IInv
  <1>2. ASSUME NEW u \in Threads, Active(u)' PROVE ThreadOK(u)'
    <2>1. CASE u = t
      BY <1>2, <2>1
    <2>2. CASE u # t
      <3>1. thread'[u] = thread[u] /\ Active(u)
        BY <1>2, <2>2 DEF Active
      <3>2. thread[u].id # i
        BY <2>2, <3>1 DEF IInv, OneThreadPerCall
      <3>3. ThreadOK(u) /\ thread[u].id \in Ids
        BY <3>1 DEF IInv, TypeOK, ThreadOK
      <3> QED
        BY <3>1, <3>2, <3>3, OthersStay
    <2> QED
      BY <2>1, <2>2
  <1>3. OneThreadPerCall'
    BY DEF IInv, OneThreadPerCall, Active
  <1> QED
    BY <1>1, <1>2, <1>3 DEF IInv

\* A step of child i is to be checked for call i and the thread that runs it.
LEMMA ChildFrame ==
  ASSUME IInv, TypeOK', SignalsHitOwnChild', calls' = calls, thread' = thread,
         NEW i \in Ids, \A j \in Ids \ {i} : Untouched(j),
         CallOK(i)',
         \A u \in Threads : ThreadOK(u) /\ thread[u].id = i => ThreadOK(u)'
  PROVE  IInv'
  <1>1. ASSUME NEW j \in Ids PROVE CallOK(j)'
    BY UntouchedStays DEF IInv
  <1>2. ASSUME NEW u \in Threads, Active(u)' PROVE ThreadOK(u)'
    <2>1. ThreadOK(u) /\ thread[u].id \in Ids
      BY <1>2 DEF IInv, Active, TypeOK, ThreadOK
    <2> QED
      BY <2>1, OthersStay
  <1>3. OneThreadPerCall'
    BY DEF IInv, OneThreadPerCall, Active
  <1> QED
    BY <1>1, <1>2, <1>3 DEF IInv

-----------------------------------------------------------------------------
(* The children's own steps.                                               *)

\* Only child i changes, and it stays a child.
LEMMA ChildType ==
  ASSUME TypeOK, NEW i \in Ids, NEW c \in ChildRecord,
         child' = [child EXCEPT ![i] = c],
         thread' \in [Threads -> [pc : PCs, id : 0..MaxCalls]],
         result' \in [Ids -> {"none", "ok", "fail", "timeout"}],
         data' \in [Ids -> Nat], open' \subseteq Ids,
         strayed' \in BOOLEAN,
         UNCHANGED <<kind, got, calls, quiet, stopped>>
  PROVE  TypeOK'
  <1>1. child' \in [Ids -> ChildRecord]
    BY DEF TypeOK
  <1>2. quiet' \in BOOLEAN /\ stopped' \in BOOLEAN
    BY Zenon DEF TypeOK
  <1>3. /\ kind' \in [Ids -> AllKinds] /\ got' \in [Ids -> Nat]
        /\ calls' \in 0..MaxCalls
    BY DEF TypeOK
  <1> QED
    BY <1>1, <1>2, <1>3, Zenon DEF TypeOK

LEMMA WritePreserves ==
  ASSUME IInv, NEW i \in Ids, WriteChunk(i) PROVE IInv'
  <1> DEFINE c == [child[i] EXCEPT !.left = @ - 1]
  <1>1. TypeOK /\ SignalsHitOwnChild /\ CallOK(i) /\ child[i] \in ChildRecord
    BY DEF IInv, TypeOK
  <1>2. c \in ChildRecord
    BY <1>1 DEF ChildRecord, WriteChunk
  <1>3. child' = [child EXCEPT ![i] = c] /\ data' = [data EXCEPT ![i] = @ + 1]
    BY DEF WriteChunk
  <1>4. data' \in [Ids -> Nat] /\ data'[i] = data[i] + 1 /\ data[i] \in Nat
    BY <1>1, <1>3 DEF TypeOK
  <1>5. strayed' \in BOOLEAN
    BY <1>1, Zenon DEF TypeOK, WriteChunk
  <1>6. TypeOK'
    BY <1>1, <1>2, <1>3, <1>4, <1>5, ChildType DEF WriteChunk, TypeOK
  <1>7. child'[i] = c
    BY <1>1, <1>3 DEF TypeOK
  <1>8. /\ child'[i].state = child[i].state /\ child'[i].holds = child[i].holds
        /\ child'[i].status = child[i].status
        /\ child'[i].left = child[i].left - 1
        /\ child[i].left \in Nat
    BY <1>1, <1>7 DEF ChildRecord
  <1>9. \A j \in Ids \ {i} : Untouched(j)
    BY <1>1, <1>3 DEF Untouched, WriteChunk, TypeOK
  <1>10. child[i].state = "running" /\ kind[i] \in Piped
    BY DEF WriteChunk, Running
  <1>11. i <= calls
    BY <1>1, <1>10 DEF CallOK, TypeOK, NoChild
  <1>12. got[i] \in Nat /\ Output \in Nat /\ calls \in Nat
    BY <1>1, ChildParameters DEF TypeOK, ChildParameters
  <1>13. CallOK(i)'
    <2>1. kind' = kind /\ got' = got /\ result' = result /\ calls' = calls
      BY DEF WriteChunk
    <2>2. got[i] + data[i] + child[i].left = Output
      BY <1>1, <1>10 DEF CallOK
    <2>3. got'[i] + data'[i] + child'[i].left = Output
      <3> got'[i] = got[i]
        BY <2>1
      <3> HIDE DEF c
      <3> QED
        BY <1>4, <1>8, <1>12, <2>2, SMTT(30)
    <2>4. result[i] = "none" /\ child[i].status # "ok" /\ i \in child[i].holds
      BY <1>1, <1>10 DEF CallOK, Running
    <2> HIDE DEF c
    <2> QED
      BY <1>8, <1>10, <1>11, <1>12, <2>1, <2>3, <2>4 DEF CallOK, Running
  <1>14. \A u \in Threads : ThreadOK(u) /\ thread[u].id = i => ThreadOK(u)'
    BY <1>8, <1>10 DEF ThreadOK, WriteChunk, NoChild
  <1> QED
    BY <1>1, <1>6, <1>9, <1>13, <1>14, ChildFrame
    DEF WriteChunk, SignalsHitOwnChild

LEMMA ExitPreserves ==
  ASSUME IInv, NEW i \in Ids, Exit(i) PROVE IInv'
  <1>1. TypeOK /\ SignalsHitOwnChild /\ CallOK(i) /\ child[i] \in ChildRecord
    BY DEF IInv, TypeOK
  <1>2. PICK status \in {"ok", "fail"} :
          /\ child' = [child EXCEPT ![i] = Dead(child[i], status)]
          /\ status = "ok" => child[i].left = 0
    BY DEF Exit
  <1> DEFINE c == Dead(child[i], status)
  <1>3. /\ c \in ChildRecord /\ c.state = "zombie" /\ c.status = status
        /\ c.left = child[i].left
    BY <1>1 DEF ChildRecord, Dead
  <1>4. child'[i] = c
    BY <1>1, <1>2 DEF TypeOK
  <1>5. strayed' \in BOOLEAN
    BY <1>1, Zenon DEF TypeOK, Exit
  <1>6. TypeOK'
    <2> HIDE DEF c
    <2> QED
      BY <1>1, <1>2, <1>3, <1>5, ChildType DEF Exit, TypeOK, c
  <1>7. \A j \in Ids \ {i} : Untouched(j)
    BY <1>1, <1>2 DEF Untouched, Exit, TypeOK
  <1>8. child[i].state = "running"
    BY DEF Exit, Running
  <1>9. i <= calls
    BY <1>1, <1>8 DEF CallOK, TypeOK, NoChild
  <1>10. CallOK(i)'
    <2>1. UNCHANGED <<kind, data, got, result, calls>> /\ calls \in Nat
      BY <1>1 DEF Exit, TypeOK
    <2> HIDE DEF c
    <2> QED
      BY <1>1, <1>2, <1>3, <1>4, <1>8, <1>9, <2>1 DEF CallOK, Running
  <1>11. \A u \in Threads : ThreadOK(u) /\ thread[u].id = i => ThreadOK(u)'
    <2> HIDE DEF c
    <2> QED
      BY <1>3, <1>4, <1>8 DEF ThreadOK, Exit, NoChild
  <1> QED
    BY <1>1, <1>6, <1>7, <1>10, <1>11, ChildFrame
    DEF Exit, SignalsHitOwnChild

LEMMA GroupPreserves ==
  ASSUME IInv, NEW i \in Ids, ChildSetsGroup(i) PROVE IInv'
  <1> DEFINE c == [child[i] EXCEPT !.own = TRUE]
  <1>1. TypeOK /\ SignalsHitOwnChild /\ CallOK(i) /\ child[i] \in ChildRecord
    BY DEF IInv, TypeOK
  <1>2. /\ c \in ChildRecord /\ c.state = child[i].state
        /\ c.status = child[i].status /\ c.left = child[i].left
        /\ c.holds = child[i].holds
    BY <1>1 DEF ChildRecord
  <1>3. child' = [child EXCEPT ![i] = c] /\ child'[i] = c
    BY <1>1 DEF ChildSetsGroup, TypeOK
  <1>4. strayed' \in BOOLEAN
    BY <1>1, Zenon DEF TypeOK, ChildSetsGroup
  <1> HIDE DEF c
  <1>5. TypeOK'
    BY <1>1, <1>2, <1>3, <1>4, ChildType DEF ChildSetsGroup, TypeOK
  <1>6. \A j \in Ids \ {i} : Untouched(j)
    BY <1>1, <1>3 DEF Untouched, ChildSetsGroup, TypeOK
  <1>7. child[i].state = "running"
    BY DEF ChildSetsGroup, Running
  <1>8. i <= calls
    BY <1>1, <1>7 DEF CallOK, TypeOK, NoChild
  <1>9. CallOK(i)'
    BY <1>1, <1>2, <1>3, <1>7, <1>8
    DEF CallOK, ChildSetsGroup, Running, TypeOK
  <1>10. \A u \in Threads : ThreadOK(u) /\ thread[u].id = i => ThreadOK(u)'
    BY <1>2, <1>3, <1>7 DEF ThreadOK, ChildSetsGroup, NoChild
  <1> QED
    BY <1>1, <1>5, <1>6, <1>9, <1>10, ChildFrame
    DEF ChildSetsGroup, SignalsHitOwnChild

-----------------------------------------------------------------------------
(* The steps of threads.                                                   *)

\* What a thread in a call may rely on.
LEMMA InCall ==
  ASSUME IInv, NEW t \in Threads, Active(t)
  PROVE  /\ Call(t) \in Ids /\ ThreadOK(t) /\ CallOK(Call(t))
         /\ thread[t] \in [pc : PCs, id : 0..MaxCalls]
         /\ child[Call(t)] \in ChildRecord /\ calls \in Nat
         /\ Call(t) <= calls /\ TypeOK /\ SignalsHitOwnChild
  BY DEF IInv, TypeOK, ThreadOK, Call

\* Where a thread goes is where it is then, in the same call.
LEMMA Going ==
  ASSUME TypeOK, NEW t \in Threads, NEW pc \in PCs, Goto(t, pc)
  PROVE  /\ thread' \in [Threads -> [pc : PCs, id : 0..MaxCalls]]
         /\ thread'[t].pc = pc /\ thread'[t].id = thread[t].id
         /\ \A u \in Threads \ {t} : thread'[u] = thread[u]
  BY DEF TypeOK, Goto

LEMMA Returning ==
  ASSUME TypeOK, NEW t \in Threads, thread[t].id \in Ids,
         NEW value \in {"ok", "fail", "timeout"}, Return(t, value)
  PROVE  /\ thread' \in [Threads -> [pc : PCs, id : 0..MaxCalls]]
         /\ thread'[t].pc = "idle" /\ thread'[t].id = thread[t].id
         /\ \A u \in Threads \ {t} : thread'[u] = thread[u]
         /\ result' \in [Ids -> {"none", "ok", "fail", "timeout"}]
         /\ result'[thread[t].id] = value
         /\ \A j \in Ids \ {thread[t].id} : result'[j] = result[j]
  <1>1. Goto(t, "idle") /\ "idle" \in PCs
    BY DEF Return, PCs
  <1>2. result' = [result EXCEPT ![thread[t].id] = value]
    BY DEF Return, Call
  <1> QED
    BY <1>1, <1>2, Going DEF TypeOK

LEMMA TypePieces ==
  ASSUME TypeOK, thread' \in [Threads -> [pc : PCs, id : 0..MaxCalls]],
         child' \in [Ids -> ChildRecord],
         data' \in [Ids -> Nat], got' \in [Ids -> Nat], open' \subseteq Ids,
         result' \in [Ids -> {"none", "ok", "fail", "timeout"}],
         strayed' \in BOOLEAN, UNCHANGED <<kind, calls, quiet, stopped>>
  PROVE  TypeOK'
  <1>1. quiet' \in BOOLEAN /\ stopped' \in BOOLEAN
    BY Zenon DEF TypeOK
  <1>2. kind' \in [Ids -> AllKinds] /\ calls' \in 0..MaxCalls
    BY DEF TypeOK
  <1> QED
    BY <1>1, <1>2, Zenon DEF TypeOK

\* strayed is a Boolean that most steps leave alone.
LEMMA Straight == ASSUME TypeOK, UNCHANGED strayed PROVE strayed' \in BOOLEAN
  BY Zenon DEF TypeOK

LEMMA PipePreserves ==
  ASSUME IInv, NEW t \in Threads, MakePipe(t) PROVE IInv'
  <1>1. Active(t) /\ thread[t].pc = "pipe"
    BY DEF MakePipe, At, Active
  <1>call. PICK i \in Ids : i = thread[t].id /\ i = Call(t)
    BY <1>1, InCall DEF Call
  <1>2. /\ ThreadOK(t) /\ CallOK(i) /\ TypeOK
        /\ SignalsHitOwnChild /\ calls \in Nat
    BY <1>1, <1>call, InCall
  <1>3. /\ UNCHANGED <<kind, child, data, got, calls, quiet, stopped, strayed>>
        /\ child[i] = NoChild /\ kind[i] \in Piped /\ strayed' \in BOOLEAN
    BY <1>call, <1>1, <1>2, Straight DEF MakePipe, ThreadOK
  <1>4. CASE open' = open \cup {i} /\ Goto(t, "fork") /\ result' = result
    <2>1. "fork" \in PCs
      BY DEF PCs
    <2>2. /\ thread' \in [Threads -> [pc : PCs, id : 0..MaxCalls]]
          /\ thread'[t].pc = "fork" /\ thread'[t].id = i
          /\ \A u \in Threads \ {t} : thread'[u] = thread[u]
      BY <1>call, <1>2, <1>4, <2>1, Going
    <2>3. TypeOK'
      BY <1>2, <1>3, <1>4, <2>2, TypePieces DEF TypeOK
    <2>4. CallOK(i)'
      BY <1>2, <1>3, <1>4 DEF CallOK, Running
    <2>5. ThreadOK(t)'
      BY <1>call, <1>2, <1>3, <1>4, <2>2 DEF ThreadOK
    <2>6. \A j \in Ids \ {i} : Untouched(j)
      BY <1>3, <1>4 DEF Untouched
    <2> QED
      BY <1>call, <1>1, <1>2, <1>3, <2>2, <2>3, <2>4, <2>5, <2>6, ThreadFrame
      DEF SignalsHitOwnChild
  <1>5. CASE Return(t, "fail") /\ open' = open
    <2>1. /\ thread' \in [Threads -> [pc : PCs, id : 0..MaxCalls]]
          /\ thread'[t].pc = "idle" /\ thread'[t].id = i
          /\ \A u \in Threads \ {t} : thread'[u] = thread[u]
          /\ result' \in [Ids -> {"none", "ok", "fail", "timeout"}]
          /\ result'[i] = "fail"
          /\ \A j \in Ids \ {i} : result'[j] = result[j]
      BY <1>call, <1>2, <1>5, Returning
    <2>2. TypeOK'
      BY <1>2, <1>3, <1>5, <2>1, TypePieces DEF TypeOK
    <2>3. i <= calls /\ child[i].state = "none"
      BY <1>call, <1>2, <1>3 DEF ThreadOK, NoChild
    <2>4. CallOK(i)'
      BY <1>2, <1>3, <2>1, <2>3 DEF CallOK, Running
    <2>5. \A j \in Ids \ {i} : Untouched(j)
      BY <1>3, <1>5, <2>1 DEF Untouched
    <2>6. ~Active(t)'
      BY <2>1 DEF Active
    <2> QED
      BY <1>call, <1>1, <1>2, <1>3, <2>1, <2>2, <2>4, <2>5, <2>6, ThreadFrame
      DEF SignalsHitOwnChild
  <1> QED
    BY <1>call, <1>1, <1>4, <1>5 DEF MakePipe

LEMMA ForkPreserves ==
  ASSUME IInv, NEW t \in Threads, Fork(t) PROVE IInv'
  <1>1. Active(t) /\ thread[t].pc = "fork"
    BY DEF Fork, At, Active
  <1>call. PICK i \in Ids : i = thread[t].id /\ i = Call(t)
    BY <1>1, InCall DEF Call
  <1>2. /\ ThreadOK(t) /\ CallOK(i) /\ TypeOK
        /\ SignalsHitOwnChild /\ calls \in Nat
    BY <1>1, <1>call, InCall
  <1>3. /\ UNCHANGED <<kind, data, got, calls, quiet, stopped, strayed>>
        /\ child[i] = NoChild /\ kind[i] # "none" /\ strayed' \in BOOLEAN
        /\ (kind[i] \in Piped => i \in open)
        /\ i <= calls /\ result[i] = "none"
    BY <1>call, <1>1, <1>2, Straight DEF Fork, ThreadOK
  <1>4. /\ data[i] = 0 /\ got[i] = 0 /\ Output \in Nat /\ open \subseteq Ids
        /\ child \in [Ids -> ChildRecord]
    BY <1>2, <1>3, ChildParameters DEF CallOK, NoChild, ChildParameters, TypeOK
  <1>5. CASE \E hung \in BOOLEAN :
               /\ child' = [child EXCEPT ![i] =
                    [state |-> "running", hung |-> hung, own |-> FALSE,
                     left |-> IF kind[i] \in Piped THEN Output ELSE 0,
                     holds |-> open, status |-> "none"]]
               /\ Goto(t, AfterFork[kind[i]]) /\ UNCHANGED <<open, result>>
    <2>1. PICK hung \in BOOLEAN :
            /\ child' = [child EXCEPT ![i] =
                 [state |-> "running", hung |-> hung, own |-> FALSE,
                  left |-> IF kind[i] \in Piped THEN Output ELSE 0,
                  holds |-> open, status |-> "none"]]
            /\ Goto(t, AfterFork[kind[i]]) /\ UNCHANGED <<open, result>>
      BY <1>5
    <2> DEFINE left == IF kind[i] \in Piped THEN Output ELSE 0
               c == [state |-> "running", hung |-> hung, own |-> FALSE,
                     left |-> left, holds |-> open, status |-> "none"]
    <2>2. left \in Nat /\ (kind[i] \in Piped => left = Output)
      BY <1>4
    <2> HIDE DEF left
    <2>3. c \in ChildRecord
      BY <1>4, <2>2 DEF ChildRecord
    <2>4. child' = [child EXCEPT ![i] = c]
      BY <2>1 DEF left
    <2>5. /\ c.state = "running" /\ c.left = left /\ c.holds = open
          /\ c.status = "none"
      OBVIOUS
    <2> HIDE DEF c
    <2>6. child' \in [Ids -> ChildRecord] /\ child'[i] = c
      BY <1>2, <1>4, <2>3, <2>4
    <2> DEFINE pc == AfterFork[kind[i]]
    <2>7. /\ pc \in PCs
          /\ kind[i] \in Piped => pc = "close"
          /\ kind[i] \notin Piped => pc \in {"setpgid", "poll", "wait"}
          /\ kind[i] = "player" => pc = "wait"
      BY <1>2, <1>3 DEF AfterFork, PCs, TypeOK, AllKinds
    <2>8. pc # "wait" => kind[i] # "player"
      BY <2>7
    <2>9. kind[i] \in {"probe", "capture", "compose", "shell", "player"}
      BY <1>2, <1>3 DEF TypeOK, AllKinds
    <2>10. /\ thread' \in [Threads -> [pc : PCs, id : 0..MaxCalls]]
           /\ thread'[t].pc = pc /\ thread'[t].id = i
           /\ \A u \in Threads \ {t} : thread'[u] = thread[u]
      BY <1>call, <1>2, <2>1, <2>7, Going
    <2> HIDE DEF pc
    <2>11. TypeOK'
      BY <1>2, <1>3, <2>1, <2>6, <2>10, TypePieces DEF TypeOK
    <2>12. CallOK(i)'
      <3>1. /\ UNCHANGED <<kind, data, got, result, calls>>
            /\ ~(i > calls)
        BY <1>2, <1>3, <2>1
      <3>2. kind[i] \in Piped => got[i] + data[i] + left = Output
        BY <1>4, <2>2
      <3>3. kind[i] \in Piped => i \in open
        BY <1>3
      <3> QED
        BY <1>3, <2>5, <2>6, <3>1, <3>2, <3>3 DEF CallOK, Running
    <2>13. ThreadOK(t)'
      BY <1>call, <1>2, <1>3, <2>1, <2>5, <2>6, <2>7, <2>8, <2>9, <2>10
      DEF ThreadOK
    <2>14. \A j \in Ids \ {i} : Untouched(j)
      BY <1>3, <1>4, <2>1, <2>4 DEF Untouched
    <2> QED
      BY <1>call, <1>1, <1>2, <1>3, <2>10, <2>11, <2>12, <2>13, <2>14, ThreadFrame
      DEF SignalsHitOwnChild
  <1>6. CASE Return(t, "fail") /\ open' = open \ {i} /\ child' = child
    <2>1. /\ thread' \in [Threads -> [pc : PCs, id : 0..MaxCalls]]
          /\ thread'[t].pc = "idle" /\ thread'[t].id = i
          /\ \A u \in Threads \ {t} : thread'[u] = thread[u]
          /\ result' \in [Ids -> {"none", "ok", "fail", "timeout"}]
          /\ result'[i] = "fail"
          /\ \A j \in Ids \ {i} : result'[j] = result[j]
      BY <1>call, <1>2, <1>6, Returning
    <2>2. TypeOK'
      BY <1>2, <1>3, <1>6, <2>1, TypePieces DEF TypeOK
    <2>3. child[i].state = "none" /\ child[i].status = "none"
      BY <1>3 DEF NoChild
    <2>4. CallOK(i)'
      BY <1>2, <1>3, <1>4, <1>6, <2>1, <2>3 DEF CallOK, Running
    <2>5. \A j \in Ids \ {i} : Untouched(j)
      BY <1>3, <1>6, <2>1 DEF Untouched
    <2>6. ~Active(t)'
      BY <2>1 DEF Active
    <2> QED
      BY <1>call, <1>1, <1>2, <1>3, <2>1, <2>2, <2>4, <2>5, <2>6, ThreadFrame
      DEF SignalsHitOwnChild
  <1> QED
    BY <1>call, <1>1, <1>5, <1>6, Zenon DEF Fork

LEMMA ClosePreserves ==
  ASSUME IInv, NEW t \in Threads, CloseWriteEnd(t) PROVE IInv'
  <1>1. Active(t) /\ thread[t].pc = "close"
    BY DEF CloseWriteEnd, At, Active
  <1>call. PICK i \in Ids : i = thread[t].id /\ i = Call(t)
    BY <1>1, InCall DEF Call
  <1>2. /\ ThreadOK(t) /\ CallOK(i) /\ TypeOK /\ SignalsHitOwnChild
    BY <1>1, <1>call, InCall
  <1>3. /\ UNCHANGED <<kind, child, data, got, result, calls, quiet, stopped,
                       strayed>>
        /\ open' = open \ {i} /\ Goto(t, "read") /\ "read" \in PCs
        /\ strayed' \in BOOLEAN
    BY <1>call, <1>2, Straight DEF CloseWriteEnd, PCs
  <1>4. /\ thread' \in [Threads -> [pc : PCs, id : 0..MaxCalls]]
        /\ thread'[t].pc = "read" /\ thread'[t].id = i
        /\ \A u \in Threads \ {t} : thread'[u] = thread[u]
    BY <1>call, <1>2, <1>3, Going
  <1>5. TypeOK'
    BY <1>2, <1>3, <1>4, TypePieces DEF TypeOK
  <1>6. CallOK(i)' /\ \A j \in Ids \ {i} : Untouched(j)
    BY <1>2, <1>3 DEF CallOK, Running, Untouched
  <1>7. ThreadOK(t)'
    BY <1>call, <1>1, <1>2, <1>3, <1>4 DEF ThreadOK
  <1> QED
    BY <1>call, <1>1, <1>2, <1>3, <1>4, <1>5, <1>6, <1>7, ThreadFrame
    DEF SignalsHitOwnChild

LEMMA ReadPreserves ==
  ASSUME IInv, NEW t \in Threads, ReadOutput(t) PROVE IInv'
  <1>1. Active(t) /\ thread[t].pc = "read"
    BY DEF ReadOutput, At, Active
  <1>call. PICK i \in Ids : i = thread[t].id /\ i = Call(t)
    BY <1>1, InCall DEF Call
  <1>2. /\ ThreadOK(t) /\ CallOK(i) /\ TypeOK /\ SignalsHitOwnChild
    BY <1>1, <1>call, InCall
  <1>3. /\ UNCHANGED <<thread, kind, child, open, result, calls, quiet, stopped,
                       strayed>>
        /\ strayed' \in BOOLEAN /\ data[i] > 0
        /\ data' = [data EXCEPT ![i] = @ - 1]
        /\ got' = [got EXCEPT ![i] = @ + 1]
    BY <1>call, <1>2, Straight DEF ReadOutput
  <1>4. /\ data \in [Ids -> Nat] /\ got \in [Ids -> Nat]
        /\ child[i].left \in Nat /\ Output \in Nat
    BY <1>2, ChildParameters DEF TypeOK, ChildRecord, ChildParameters
  <1>5. /\ data' \in [Ids -> Nat] /\ got' \in [Ids -> Nat]
        /\ data'[i] = data[i] - 1 /\ got'[i] = got[i] + 1
    BY <1>3, <1>4
  <1>6. TypeOK'
    BY <1>2, <1>3, <1>5, TypePieces DEF TypeOK
  <1>7. CallOK(i)'
    <2>1. /\ kind[i] \in Piped /\ result[i] = "none"
          /\ child[i].state \in {"running", "zombie"} /\ i <= calls
          /\ calls \in Nat
      BY <1>call, <1>1, <1>2 DEF ThreadOK, TypeOK
    <2>2. got[i] + data[i] + child[i].left = Output
      BY <1>2, <2>1 DEF CallOK
    <2>3. got'[i] + data'[i] + child'[i].left = Output
      BY <1>3, <1>4, <1>5, <2>2
    <2> QED
      BY <1>2, <1>3, <2>1, <2>3 DEF CallOK, Running
  <1>8. \A j \in Ids \ {i} : Untouched(j)
    BY <1>3, <1>4 DEF Untouched
  <1>9. ThreadOK(t)'
    BY <1>call, <1>1, <1>2, <1>3 DEF ThreadOK
  <1> QED
    BY <1>call, <1>1, <1>2, <1>3, <1>6, <1>7, <1>8, <1>9, ThreadFrame
    DEF SignalsHitOwnChild

\* The end of the output is seen only when the child cannot write any more.
LEMMA EndPreserves ==
  ASSUME IInv, NEW t \in Threads, ReadEnd(t) PROVE IInv'
  <1>1. Active(t) /\ thread[t].pc = "read"
    BY DEF ReadEnd, At, Active
  <1>call. PICK i \in Ids : i = thread[t].id /\ i = Call(t)
    BY <1>1, InCall DEF Call
  <1>2. /\ ThreadOK(t) /\ CallOK(i) /\ TypeOK /\ SignalsHitOwnChild
    BY <1>1, <1>call, InCall
  <1>3. /\ UNCHANGED <<kind, child, data, got, open, result, calls, quiet,
                       stopped, strayed>>
        /\ data[i] = 0 /\ Goto(t, "wait") /\ "wait" \in PCs
        /\ strayed' \in BOOLEAN /\ i \notin child[i].holds
    BY <1>call, <1>2, Straight DEF ReadEnd, PCs, Writable
  <1>4. /\ thread' \in [Threads -> [pc : PCs, id : 0..MaxCalls]]
        /\ thread'[t].pc = "wait" /\ thread'[t].id = i
        /\ \A u \in Threads \ {t} : thread'[u] = thread[u]
    BY <1>call, <1>2, <1>3, Going
  <1>5. TypeOK'
    BY <1>2, <1>3, <1>4, TypePieces DEF TypeOK
  <1>6. CallOK(i)' /\ \A j \in Ids \ {i} : Untouched(j)
    BY <1>2, <1>3 DEF CallOK, Running, Untouched
  <1>7. child[i].state = "zombie"
    BY <1>call, <1>1, <1>2, <1>3 DEF ThreadOK, CallOK, Running
  <1>8. ThreadOK(t)'
    BY <1>call, <1>1, <1>2, <1>3, <1>4, <1>7 DEF ThreadOK
  <1> QED
    BY <1>call, <1>1, <1>2, <1>3, <1>4, <1>5, <1>6, <1>8, ThreadFrame
    DEF SignalsHitOwnChild

\* Collecting an ended child; a probe's has had all its output read.
LEMMA CollectPreserves ==
  ASSUME IInv, NEW t \in Threads,
         NEW from \in {"wait", "poll", "terminate", "reap"},
         NEW value \in {"ok", "fail", "timeout"},
         value = "ok" => kind[Call(t)] = "capture" \/ child[Call(t)].status = "ok",
         Collect(t, from, value)
  PROVE  IInv'
  <1>1. Active(t) /\ thread[t].pc = from
    BY DEF Collect, At, Active
  <1>call. PICK i \in Ids : i = thread[t].id /\ i = Call(t)
    BY <1>1, InCall DEF Call
  <1>2. /\ ThreadOK(t) /\ CallOK(i) /\ TypeOK /\ SignalsHitOwnChild
    BY <1>1, <1>call, InCall
  <1> DEFINE c == Reaped(child[i])
  <1>3. /\ UNCHANGED <<kind, data, got, open, calls, quiet, stopped, strayed>>
        /\ child' = [child EXCEPT ![i] = c] /\ Return(t, value)
        /\ child[i].state = "zombie" /\ strayed' \in BOOLEAN
    BY <1>call, <1>2, Straight DEF Collect
  <1>4. /\ c \in ChildRecord /\ c.state = "reaped" /\ c.left = child[i].left
        /\ c.status = child[i].status
    <2>1. child[i] \in ChildRecord
      BY <1>2 DEF TypeOK
    <2> QED
      BY <2>1 DEF ChildRecord, Reaped
  <1> HIDE DEF c
  <1>5. child' \in [Ids -> ChildRecord] /\ child'[i] = c
    BY <1>2, <1>3, <1>4 DEF TypeOK
  <1>6. /\ thread' \in [Threads -> [pc : PCs, id : 0..MaxCalls]]
        /\ thread'[t].pc = "idle" /\ thread'[t].id = i
        /\ \A u \in Threads \ {t} : thread'[u] = thread[u]
        /\ result' \in [Ids -> {"none", "ok", "fail", "timeout"}]
        /\ result'[i] = value
        /\ \A j \in Ids \ {i} : result'[j] = result[j]
    BY <1>call, <1>2, <1>3, Returning
  <1>7. TypeOK'
    BY <1>2, <1>3, <1>5, <1>6, TypePieces DEF TypeOK
  <1>8. CallOK(i)'
    <2>1. /\ ~(i > calls) /\ value # "none"
          /\ kind[i] \in Piped => data[i] = 0
      BY <1>call, <1>1, <1>2 DEF ThreadOK, TypeOK
    <2>2. kind[i] \in Piped => got[i] + data[i] + child[i].left = Output
      BY <1>2, <1>3 DEF CallOK
    <2>3. value = "ok" /\ kind[i] # "capture" => child[i].status = "ok"
      BY <1>call
    <2>4. kind[i] \in Piped => got[i] + child[i].left = Output
      <3>1. got[i] \in Nat /\ child[i].left \in Nat
        BY <1>2 DEF TypeOK, ChildRecord
      <3> QED
        BY <2>1, <2>2, <3>1
    <2>5. child[i].status = "ok" => child[i].left = 0
      BY <1>2 DEF CallOK
    <2> QED
      BY <1>3, <1>4, <1>5, <1>6, <2>1, <2>2, <2>3, <2>4, <2>5
      DEF CallOK, Running
  <1>9. \A j \in Ids \ {i} : Untouched(j)
    BY <1>2, <1>3, <1>6 DEF Untouched, TypeOK
  <1>10. ~Active(t)'
    BY <1>6 DEF Active
  <1> QED
    BY <1>call, <1>1, <1>2, <1>3, <1>6, <1>7, <1>8, <1>9, <1>10, ThreadFrame
    DEF SignalsHitOwnChild

\* A signal to a child that has not been collected.
LEMMA SignalPreserves ==
  ASSUME IInv, NEW t \in Threads,
         thread[t].pc \in {"poll", "terminate", "grace"},
         NEW to \in {"terminate", "grace", "reap"},
         NEW after, after \subseteq {child[Call(t)], Killed(child[Call(t)])},
         SendSignal(t, after, to)
  PROVE  IInv'
  <1>1. Active(t)
    BY DEF Active
  <1>call. PICK i \in Ids : i = thread[t].id /\ i = Call(t)
    BY <1>1, InCall DEF Call
  <1>2. /\ ThreadOK(t) /\ CallOK(i) /\ TypeOK /\ SignalsHitOwnChild
    BY <1>1, <1>call, InCall
  <1>3. /\ child[i].state \in {"running", "zombie"} /\ result[i] = "none"
        /\ kind[i] \in {"compose", "shell"} /\ i <= calls /\ calls \in Nat
    BY <1>call, <1>2 DEF ThreadOK, TypeOK
  <1>4. PICK c \in {child[i], Killed(child[i])} :
          child' = [child EXCEPT ![i] = c]
    BY <1>call DEF SendSignal
  <1>5. /\ c \in ChildRecord /\ c.state \in {"running", "zombie"}
        /\ c.status = "ok" => c = child[i]
    BY <1>2, <1>3 DEF TypeOK, ChildRecord, Killed, Dead
  <1>6. /\ UNCHANGED <<kind, data, got, open, result, calls, quiet, stopped>>
        /\ Goto(t, to) /\ to \in PCs /\ strayed' = FALSE
    BY <1>call, <1>2, <1>3 DEF SendSignal, SignalsHitOwnChild, PCs
  <1>7. child' \in [Ids -> ChildRecord] /\ child'[i] = c
    BY <1>2, <1>4, <1>5 DEF TypeOK
  <1>8. /\ thread' \in [Threads -> [pc : PCs, id : 0..MaxCalls]]
        /\ thread'[t].pc = to /\ thread'[t].id = i
        /\ \A u \in Threads \ {t} : thread'[u] = thread[u]
    BY <1>call, <1>2, <1>6, Going
  <1>9. TypeOK'
    BY <1>2, <1>6, <1>7, <1>8, TypePieces DEF TypeOK
  <1>10. CallOK(i)'
    BY <1>2, <1>3, <1>5, <1>6, <1>7 DEF CallOK, Running
  <1>11. \A j \in Ids \ {i} : Untouched(j)
    BY <1>2, <1>4, <1>6 DEF Untouched, TypeOK
  <1>12. ThreadOK(t)'
    BY <1>call, <1>2, <1>3, <1>5, <1>6, <1>7, <1>8 DEF ThreadOK
  <1> QED
    BY <1>call, <1>1, <1>2, <1>6, <1>8, <1>9, <1>10, <1>11, <1>12, ThreadFrame
    DEF SignalsHitOwnChild

LEMMA ParentPreserves ==
  ASSUME IInv, NEW t \in Threads, ParentSetsGroup(t) PROVE IInv'
  <1>1. Active(t) /\ thread[t].pc = "setpgid"
    BY DEF ParentSetsGroup, At, Active
  <1>call. PICK i \in Ids : i = thread[t].id /\ i = Call(t)
    BY <1>1, InCall DEF Call
  <1>2. /\ ThreadOK(t) /\ CallOK(i) /\ TypeOK /\ SignalsHitOwnChild
    BY <1>1, <1>call, InCall
  <1> DEFINE c == [child[i] EXCEPT !.own = TRUE]
  <1>3. /\ UNCHANGED <<kind, data, got, open, result, calls, quiet, stopped,
                       strayed>>
        /\ child' = [child EXCEPT ![i] = c]
        /\ Goto(t, "poll") /\ "poll" \in PCs /\ strayed' \in BOOLEAN
    BY <1>call, <1>2, Straight DEF ParentSetsGroup, PCs
  <1>4. /\ c \in ChildRecord /\ c.state = child[i].state
        /\ c.left = child[i].left /\ c.status = child[i].status
        /\ c.holds = child[i].holds
    <2>1. child[i] \in ChildRecord
      BY <1>2 DEF TypeOK
    <2> QED
      BY <2>1 DEF ChildRecord
  <1> HIDE DEF c
  <1>5. child' \in [Ids -> ChildRecord] /\ child'[i] = c
    BY <1>2, <1>3, <1>4 DEF TypeOK
  <1>6. /\ thread' \in [Threads -> [pc : PCs, id : 0..MaxCalls]]
        /\ thread'[t].pc = "poll" /\ thread'[t].id = i
        /\ \A u \in Threads \ {t} : thread'[u] = thread[u]
    BY <1>call, <1>2, <1>3, Going
  <1>7. TypeOK'
    BY <1>2, <1>3, <1>5, <1>6, TypePieces DEF TypeOK
  <1>8. /\ child[i].state \in {"running", "zombie"} /\ result[i] = "none"
        /\ kind[i] \in {"compose", "shell"} /\ i <= calls /\ calls \in Nat
    BY <1>call, <1>1, <1>2 DEF ThreadOK, TypeOK
  <1>9. CallOK(i)'
    BY <1>2, <1>3, <1>4, <1>5, <1>8 DEF CallOK, Running
  <1>10. \A j \in Ids \ {i} : Untouched(j)
    BY <1>2, <1>3 DEF Untouched, TypeOK
  <1>11. ThreadOK(t)'
    BY <1>call, <1>1, <1>2, <1>3, <1>4, <1>5, <1>6, <1>8 DEF ThreadOK
  <1> QED
    BY <1>call, <1>1, <1>2, <1>3, <1>6, <1>7, <1>9, <1>10, <1>11, ThreadFrame
    DEF SignalsHitOwnChild

-----------------------------------------------------------------------------
(* Calls that begin, the group's signal and the rate limit.                *)

LEMMA BeginPreserves ==
  ASSUME IInv, NEW t \in Threads, quiet' \in BOOLEAN,
         NEW k \in {"probe", "capture", "compose", "shell", "player"}, Begin(t, k)
  PROVE  IInv'
  <1> DEFINE i == calls + 1
             first == IF k \in Piped THEN "pipe" ELSE "fork"
  <1>1. TypeOK /\ calls \in 0..MaxCalls /\ MaxCalls \in Nat
    BY ChildParameters DEF IInv, TypeOK, ChildParameters
  <1>2. /\ i \in Ids /\ calls' = i /\ ~Active(t)
        /\ thread' = [thread EXCEPT ![t] = [pc |-> first, id |-> i]]
        /\ kind' = [kind EXCEPT ![i] = k]
        /\ UNCHANGED <<child, data, got, open, result, stopped, strayed>>
    BY <1>1 DEF Begin, At, Active
  <1>3. first \in PCs /\ first # "idle" /\ k \in AllKinds
    BY DEF PCs, AllKinds
  <1>4. /\ child[i] = NoChild /\ result[i] = "none"
        /\ data[i] = 0 /\ got[i] = 0 /\ CallOK(i)
    BY <1>1, <1>2 DEF IInv, CallOK
  <1> HIDE DEF first
  <1>5. /\ thread' \in [Threads -> [pc : PCs, id : 0..MaxCalls]]
        /\ thread'[t] = [pc |-> first, id |-> i]
        /\ \A u \in Threads \ {t} : thread'[u] = thread[u]
        /\ kind' \in [Ids -> AllKinds] /\ kind'[i] = k
        /\ \A j \in Ids \ {i} : kind'[j] = kind[j]
    BY <1>1, <1>2, <1>3 DEF TypeOK
  <1>6. TypeOK'
    <2>1. strayed' \in BOOLEAN /\ stopped' \in BOOLEAN
      BY <1>1, <1>2, Zenon DEF TypeOK
    <2>2. /\ child' \in [Ids -> ChildRecord] /\ data' \in [Ids -> Nat]
          /\ got' \in [Ids -> Nat] /\ open' \subseteq Ids
          /\ result' \in [Ids -> {"none", "ok", "fail", "timeout"}]
          /\ calls' \in 0..MaxCalls
      BY <1>1, <1>2 DEF TypeOK
    <2> QED
      BY <1>5, <2>1, <2>2, Zenon DEF TypeOK
  <1>7. ASSUME NEW j \in Ids PROVE CallOK(j)'
    <2>1. CASE j = i
      BY <1>1, <1>2, <1>4, <1>5, <2>1 DEF CallOK, NoChild, Running
    <2>2. CASE j # i
      BY <1>1, <1>2, <1>5, <2>2 DEF IInv, CallOK, NoChild, Running
    <2> QED
      BY <2>1, <2>2
  <1>8. \A u \in Threads : Active(u) => thread[u].id \in 1..calls
    BY DEF IInv, ThreadOK
  <1>9. ASSUME NEW u \in Threads, Active(u)' PROVE ThreadOK(u)'
    <2>1. CASE u = t
      <3>1. first = "pipe" => k \in Piped
        BY DEF first
      <3>2. first = "fork" => k # "none" /\ k \notin Piped
        BY DEF first
      <3>3. first \in {"pipe", "fork"}
        BY DEF first
      <3>4. i \in 1..calls'
        BY <1>1, <1>2
      <3> QED
        BY <1>2, <1>4, <1>5, <2>1, <3>1, <3>2, <3>3, <3>4 DEF ThreadOK
    <2>2. CASE u # t
      <3>1. Active(u) /\ thread'[u] = thread[u] /\ ThreadOK(u)
        BY <1>5, <1>9, <2>2 DEF Active, IInv
      <3>2. thread[u].id \in 1..calls /\ thread[u].id # i
        BY <1>1, <1>8, <3>1
      <3>3. kind'[thread[u].id] = kind[thread[u].id]
        BY <1>1, <1>5, <3>2
      <3> QED
        BY <1>1, <1>2, <3>1, <3>2, <3>3 DEF ThreadOK, NoChild
    <2> QED
      BY <2>1, <2>2
  <1>10. OneThreadPerCall'
    BY <1>1, <1>5, <1>8 DEF IInv, OneThreadPerCall, Active
  <1> QED
    BY <1>2, <1>6, <1>7, <1>9, <1>10 DEF IInv, SignalsHitOwnChild

LEMMA TerminatedPreserves == ASSUME IInv, GroupTerminated PROVE IInv'
  <1>1. TypeOK /\ \A j \in Ids : child[j] \in ChildRecord
    BY DEF IInv, TypeOK
  <1>2. /\ UNCHANGED <<thread, kind, data, got, open, result, calls, quiet,
                       strayed>>
        /\ stopped' = TRUE
    BY DEF GroupTerminated
  <1>3. /\ \A j \in Ids : child'[j] \in {child[j], Killed(child[j])}
        /\ child' = [j \in Ids |-> child'[j]]
    BY DEF GroupTerminated
  <1>4. ASSUME NEW j \in Ids
        PROVE  /\ child'[j] \in ChildRecord
               /\ \/ child'[j] = child[j]
                  \/ /\ child[j].state = "running"
                     /\ child'[j].state = "zombie"
                     /\ child'[j].status = "killed"
                     /\ child'[j].left = child[j].left
    BY <1>1, <1>3 DEF ChildRecord, Killed, Dead
  <1>5. TypeOK'
    <2>1. child' \in [Ids -> ChildRecord]
      BY <1>3, <1>4
    <2>2. quiet' \in BOOLEAN /\ strayed' \in BOOLEAN /\ stopped' \in BOOLEAN
      BY <1>1, <1>2, Zenon DEF TypeOK
    <2>3. /\ thread' \in [Threads -> [pc : PCs, id : 0..MaxCalls]]
          /\ kind' \in [Ids -> AllKinds] /\ data' \in [Ids -> Nat]
          /\ got' \in [Ids -> Nat] /\ open' \subseteq Ids
          /\ result' \in [Ids -> {"none", "ok", "fail", "timeout"}]
          /\ calls' \in 0..MaxCalls
      BY <1>1, <1>2 DEF TypeOK
    <2> QED
      BY <2>1, <2>2, <2>3, Zenon DEF TypeOK
  <1>6. ASSUME NEW j \in Ids PROVE CallOK(j)'
    BY <1>2, <1>4 DEF IInv, CallOK, Running, NoChild
  <1>7. ASSUME NEW u \in Threads, Active(u)' PROVE ThreadOK(u)'
    <2>1. Active(u) /\ ThreadOK(u) /\ thread[u].id \in Ids
      BY <1>1, <1>2, <1>7 DEF IInv, Active, ThreadOK, TypeOK
    <2> QED
      BY <1>2, <1>4, <2>1 DEF ThreadOK, NoChild
  <1>8. OneThreadPerCall'
    BY <1>2 DEF IInv, OneThreadPerCall, Active
  <1> QED
    BY <1>2, <1>5, <1>6, <1>7, <1>8 DEF IInv, SignalsHitOwnChild

LEMMA StutterPreserves ==
  ASSUME IInv, TypeOK',
         UNCHANGED <<thread, kind, child, data, got, open, result, calls,
                     strayed>>
  PROVE  IInv'
  <1>1. \A j \in Ids : CallOK(j)'
    BY DEF IInv, CallOK, Running, NoChild
  <1>2. \A u \in Threads : Active(u)' => ThreadOK(u)'
    BY DEF IInv, Active, ThreadOK, NoChild
  <1>3. OneThreadPerCall'
    BY DEF IInv, OneThreadPerCall, Active
  <1> QED
    BY <1>1, <1>2, <1>3 DEF IInv, SignalsHitOwnChild

LEMMA LimitPreserves ==
  ASSUME IInv, RateLimitPasses \/ UNCHANGED vars PROVE IInv'
  <1>1. TypeOK /\ UNCHANGED <<thread, kind, child, data, got, open, result,
                              calls, stopped, strayed>>
    BY DEF IInv, RateLimitPasses, vars
  <1>2. quiet' \in BOOLEAN
    BY <1>1, Zenon DEF TypeOK, RateLimitPasses, vars
  <1>3. stopped' \in BOOLEAN /\ strayed' \in BOOLEAN
    BY <1>1, Zenon DEF TypeOK
  <1>4. TypeOK'
    <2>1. /\ thread' \in [Threads -> [pc : PCs, id : 0..MaxCalls]]
          /\ kind' \in [Ids -> AllKinds] /\ child' \in [Ids -> ChildRecord]
          /\ data' \in [Ids -> Nat]
          /\ got' \in [Ids -> Nat] /\ open' \subseteq Ids
          /\ result' \in [Ids -> {"none", "ok", "fail", "timeout"}]
          /\ calls' \in 0..MaxCalls
      BY <1>1 DEF TypeOK
    <2> QED
      BY <1>2, <1>3, <2>1, Zenon DEF TypeOK
  <1> QED
    BY <1>1, <1>4, StutterPreserves

-----------------------------------------------------------------------------

LEMMA StepPreserves ==
  ASSUME IInv, NEW t \in Threads, Step(t) PROVE IInv'
  <1>1. ASSUME WaitForChild(t) \/ PollChild(t) \/ PollTerminated(t)
               \/ ReapKilled(t)
        PROVE  IInv'
    BY <1>1, CollectPreserves
    DEF WaitForChild, PollChild, PollTerminated, ReapKilled, ExitResult,
        StatusIgnored
  <1>2. ASSUME TimeLimit(t) PROVE IInv'
    BY <1>2, SignalPreserves DEF TimeLimit, At, Terminated
  <1>3. ASSUME KillChild(t) PROVE IInv'
    BY <1>3, SignalPreserves DEF KillChild, At
  <1> QED
    BY <1>1, <1>2, <1>3, PipePreserves, ForkPreserves, ClosePreserves,
       ReadPreserves, EndPreserves, ParentPreserves DEF Step

LEMMA NextPreserves == IInv /\ [Next]_vars => IInv'
  <1> SUFFICES ASSUME IInv, [Next]_vars PROVE IInv'
    OBVIOUS
  <1>1. ASSUME NEW t \in Threads, BeginCall(t) PROVE IInv'
    <2>1. quiet' \in BOOLEAN
      BY <1>1, Zenon DEF IInv, TypeOK, BeginCall
    <2>2. PICK k \in Kinds : Begin(t, k)
      BY <1>1 DEF BeginCall
    <2>3. k \in {"probe", "capture", "compose", "shell", "player"}
      BY ChildParameters DEF ChildParameters
    <2> QED
      BY <2>1, <2>2, <2>3, BeginPreserves
  <1>2. ASSUME NEW t \in Threads, NotifyKeybindAccepted(t) PROVE IInv'
    <2>1. quiet' \in BOOLEAN /\ Begin(t, "player")
      BY <1>2, Zenon DEF NotifyKeybindAccepted
    <2> QED
      BY <2>1, BeginPreserves
  <1> QED
    BY <1>1, <1>2, StepPreserves, WritePreserves, ExitPreserves,
       GroupPreserves, TerminatedPreserves, LimitPreserves DEF Next

LEMMA Invariance == Spec => []IInv
  <1>1. Init => IInv
    BY InitIInv
  <1>2. IInv /\ [Next]_vars => IInv'
    BY NextPreserves
  <1> QED
    BY <1>1, <1>2, PTL DEF Spec

\* Type correctness, for any threads, calls and pipes.
THEOREM TypeCorrect == Spec => []TypeOK
  <1>1. IInv => TypeOK
    BY DEF IInv
  <1> QED
    BY <1>1, Invariance, PTL

\* No signal is ever sent to a process id that was given back: a thread signals
\* only where its child has not been collected, and nobody else collects it.
THEOREM NoStraySignal == Spec => []SignalsHitOwnChild
  <1>1. IInv => SignalsHitOwnChild
    BY DEF IInv
  <1> QED
    BY <1>1, Invariance, PTL

\* A call that has returned has no child left, running or a zombie.
THEOREM ChildrenCollected == Spec => []NothingRunsAfterReturn
  <1>1. IInv => NothingRunsAfterReturn
    BY IInvImplies
  <1> QED
    BY <1>1, Invariance, PTL

\* A probe that reports success had a child that ended well by itself, and has
\* read all of its output; a capture has read all that its child wrote before
\* it ended, however it ended: what was written is in the pipe, read or to
\* come, and the end of the pipe is seen only after the writer is gone.
THEOREM SuccessComplete == Spec => []SuccessIsComplete
  <1>1. IInv => SuccessIsComplete
    BY IInvImplies
  <1> QED
    BY <1>1, Invariance, PTL
=============================================================================
