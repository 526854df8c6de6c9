--------------------------- MODULE CommandLineProofs ---------------------------
(***************************************************************************)
(* Proofs about the commands of the command line: those that start and     *)
(* stop the daemon (Lifecycle) and those that change the settings          *)
(* (Settings), which have nothing of the state in common.                  *)
(*                                                                         *)
(* A stop that came to its end has ended every daemon there was when it    *)
(* began that it could end, and commands that come one at a time lose a    *)
(* daemon only where the system refused them something, for any number of  *)
(* shells, commands and daemons.                                           *)
(*                                                                         *)
(* The argument of the first: a process id is never used again, so of the  *)
(* daemons that were born when a command began fewer and fewer are left,   *)
(* whatever the others do; and at each point of Stop those that are left   *)
(* are among those it still has to stop or has spared.                     *)
(*                                                                         *)
(* The settings survive because every value that can be in memory is       *)
(* Stable: it is read back as it was, but for the digits of the volume and *)
(* a default directory that is relative.                                   *)
(***************************************************************************)
EXTENDS Lifecycle, Settings, SequenceTheorems, TLAPS

Shell == [pc : PCs, command : {"none"} \cup AllCommands,
          pid : {NoPid} \cup Pids, target : {NoPid} \cup Pids,
          others : SUBSET Pids, clis : SUBSET Clis, then : {"read", "idle"},
          before : SUBSET Pids, spared : SUBSET Pids,
          complete : BOOLEAN, swept : BOOLEAN]

\* The shell k has before it, or has spared, what is left of the daemons there
\* were when it began, and the recorder status it removed is of none of them.
OnTrack(k, alive, born, st) ==
  /\ k.before \subseteq born
  /\ k.pc = "scan" => k.pid \notin (k.before \cap alive) \ k.spared
  /\ k.pc = "next" => k.before \cap alive \subseteq k.others \cup k.spared
  /\ k.pc \in {"term", "wait", "kill"} /\ k.target # k.pid =>
       k.before \cap alive \subseteq k.others \cup {k.target} \cup k.spared
  /\ k.pc \in {"forget pid", "forget status"}
     /\ k.command \in {"stop", "restart"} =>
       k.before \cap alive \subseteq k.spared
  /\ k.complete => k.before \cap alive \subseteq k.spared
  /\ k.complete /\ k.swept => st \notin k.before \ k.spared
  /\ k.pc \in {"signal", "truncate", "write"} => k.pid # NoPid

Typed ==
  /\ daemon \in [Pids -> States]
  /\ pid_file \in {NoPid} \cup Pids
  /\ status \in {NoPid} \cup Pids
  /\ old \subseteq Pids /\ astray \subseteq Pids
  /\ cli \in [Clis -> Shell]

\* The inductive invariant of Lifecycle.
IInv == Typed /\ \A c \in Clis : OnTrack(cli[c], Alive, Born, status)

-----------------------------------------------------------------------------
\* Nothing that was ever born comes back to life: of the daemons born before a
\* step, those alive after it were alive before it.  Only those alive write the
\* recorder status.
LEMMA NobodyReturns ==
  ASSUME Typed, [Next]_vars
  PROVE  /\ Alive' \cap Born \subseteq Alive /\ Born \subseteq Born'
         /\ status' \in {status, NoPid} \cup Alive
<1> USE DEF Typed, Alive, Born, States
<1>1. ASSUME NEW c \in Clis, Begin(c) \/ Command(c)
      PROVE  /\ Alive' \cap Born \subseteq Alive /\ Born \subseteq Born'
             /\ status' \in {status, NoPid}
  <2>1. CASE Fork(c)
    BY <2>1 DEF Fork
  <2>2. CASE RequestStop(c)
    BY <2>2 DEF RequestStop, Terminate, Spare
  <2>3. CASE ForceStop(c)
    BY <2>3 DEF ForceStop, Spare
  <2>4. CASE Signal(c)
    BY <2>4 DEF Signal
  <2>5. CASE UNCHANGED daemon /\ status' \in {status, NoPid}
    BY <2>5
  <2>6. CASE ForgetStatus(c)
    <3>1. UNCHANGED daemon /\ status' \in {status, NoPid}
      BY <2>6 DEF ForgetStatus
    <3>2. QED
      BY <3>1
  <2>7. QED
    BY <1>1, <2>1, <2>2, <2>3, <2>4, <2>5, <2>6
    DEF Begin, Command, ReadToStart, ReadToStop, ReadToUse, NoFork,
        TruncatePidFile, WritePidFile, PidFileNotWritten, WaitForProcessExit,
        FiveSecondsPass, FindSiblings, StopSibling, StopCommand, SiblingsDone,
        ForgetPid, Unhealthy
<1>2. ASSUME NEW d \in Pids, Process(d)
      PROVE  /\ Alive' \cap Born \subseteq Alive /\ Born \subseteq Born'
             /\ status' \in {status} \cup Alive
  BY <1>2 DEF Process, InstallHandlers, WriteRecorderStatus, Leave,
              RunListenerReturns, RemovePidFile, Exit, Crash, IsProcessRunning
<1>3. CASE UNCHANGED vars \/ Replace
  BY <1>3 DEF vars, Replace
<1>4. QED
  BY <1>1, <1>2, <1>3 DEF Next

\* A shell that does nothing stays on track while daemons are born, write the
\* status and die.
LEMMA StaysOnTrack ==
  ASSUME NEW k, NEW alive, NEW born, NEW st, NEW alive2, NEW born2, NEW st2,
         OnTrack(k, alive, born, st), NoPid \notin born,
         alive2 \cap born \subseteq alive, born \subseteq born2,
         st2 \in {st, NoPid} \cup alive
  PROVE  OnTrack(k, alive2, born2, st2)
BY DEF OnTrack

LEMMA TypedInit == Init => Typed
BY DEF Init, Typed, Shell, Idle, PCs, States, NoPid, Pids

\* What becomes of a shell that does no more than go on, or end.
LEMMA GoesOn ==
  ASSUME NEW k \in Shell, NEW pc \in PCs
  PROVE  /\ [k EXCEPT !.pc = pc] \in Shell
         /\ [k EXCEPT !.pc = pc].pc = pc
         /\ [k EXCEPT !.pc = pc].command = k.command
         /\ [k EXCEPT !.pc = pc].pid = k.pid
         /\ [k EXCEPT !.pc = pc].target = k.target
         /\ [k EXCEPT !.pc = pc].others = k.others
         /\ [k EXCEPT !.pc = pc].clis = k.clis
         /\ [k EXCEPT !.pc = pc].before = k.before
         /\ [k EXCEPT !.pc = pc].spared = k.spared
         /\ [k EXCEPT !.pc = pc].complete = k.complete
         /\ [k EXCEPT !.pc = pc].swept = k.swept
BY DEF Shell

LEMMA IdleTyped == Idle \in Shell
BY DEF Idle, Shell, PCs

LEMMA Ends ==
  ASSUME NEW k \in Shell
  PROVE  /\ Ended(k) \in Shell
         /\ Ended(k).pc = "idle" /\ Ended(k).clis = {}
         /\ \/ Ended(k) = Idle
            \/ /\ Ended(k).before = k.before /\ Ended(k).spared = k.spared
               /\ Ended(k).complete = k.complete /\ Ended(k).swept = k.swept
<1>1. CASE k.complete
  <2>1. k.complete = TRUE
    BY <1>1 DEF Shell
  <2>2. Ended(k) = [Idle EXCEPT !.before = k.before, !.spared = k.spared,
                                !.complete = TRUE, !.swept = k.swept]
    BY <1>1 DEF Ended
  <2>3. k.before \subseteq Pids /\ k.spared \subseteq Pids /\ k.swept \in BOOLEAN
    BY DEF Shell
  <2>4. QED
    BY <2>1, <2>2, <2>3, IdleTyped DEF Shell, Idle
<1>2. CASE ~k.complete
  BY <1>2, IdleTyped DEF Ended, Idle
<1>3. QED
  BY <1>1, <1>2

LEMMA SimpleTyped ==
  ASSUME cli \in [Clis -> Shell], NEW c \in Clis,
         End(c) \/ \E pc \in PCs : Goto(c, pc)
  PROVE  cli' \in [Clis -> Shell]
<1>1. CASE End(c)
  BY <1>1, Ends DEF End
<1>2. CASE \E pc \in PCs : Goto(c, pc)
  BY <1>2, GoesOn DEF Goto
<1>3. QED
  BY <1>1, <1>2

\* A process is spared only when it is there.
LEMMA SpareTyped ==
  ASSUME cli \in [Clis -> Shell], NEW c \in Clis, Spare(c),
         IsProcessRunning(cli[c].target)
  PROVE  cli' \in [Clis -> Shell]
<1> cli[c] \in Shell
  OBVIOUS
<1>1. cli[c].target \in Pids
  BY DEF IsProcessRunning, Alive
<1> DEFINE spared == cli[c].spared \cup {cli[c].target}
           pc == AfterTarget(c)
<1>2. pc \in PCs
  BY DEF AfterTarget, PCs
<1>3. spared \subseteq Pids
  BY <1>1 DEF Shell
<1>4. cli' = [cli EXCEPT ![c].pc = pc, ![c].spared = spared]
  BY DEF Spare
<1> HIDE DEF spared, pc
<1>5. [cli[c] EXCEPT !.pc = pc, !.spared = spared] \in Shell
  BY <1>2, <1>3 DEF Shell
<1>6. QED
  BY <1>4, <1>5

LEMMA CommandTyped ==
  ASSUME Typed, NEW c \in Clis, Begin(c) \/ Command(c)
  PROVE  cli' \in [Clis -> Shell]
<1> cli \in [Clis -> Shell] /\ cli[c] \in Shell
  BY DEF Typed
<1> pid_file \in {NoPid} \cup Pids /\ Alive \subseteq Pids /\ Born \subseteq Pids
  BY DEF Typed, Alive, Born
<1>1. CASE Begin(c)
  <2>1. PICK command \in Commands :
          cli' = [cli EXCEPT ![c] =
            [Idle EXCEPT !.pc = "read", !.command = command,
               !.before = IF command \in {"stop", "restart"} THEN Born ELSE {}]]
    BY <1>1 DEF Begin
  <2>2. command \in AllCommands
    BY LifecycleParameters
  <2> DEFINE before == IF command \in {"stop", "restart"} THEN Born ELSE {}
  <2>3. before \subseteq Pids
    OBVIOUS
  <2> HIDE DEF before
  <2>4. [Idle EXCEPT !.pc = "read", !.command = command, !.before = before]
          \in Shell
    BY <2>2, <2>3, IdleTyped DEF Shell, PCs
  <2>5. QED
    BY <2>1, <2>4 DEF before
<1>2. CASE ReadToStart(c) \/ NoFork(c) \/ TruncatePidFile(c) \/ WritePidFile(c)
           \/ PidFileNotWritten(c) \/ WaitForProcessExit(c)
           \/ FiveSecondsPass(c) \/ SiblingsDone(c) \/ ForgetPid(c)
           \/ Signal(c) \/ Unhealthy(c)
  <2>1. End(c) \/ \E pc \in PCs : Goto(c, pc)
    BY <1>2 DEF ReadToStart, NoFork, TruncatePidFile, WritePidFile,
                PidFileNotWritten, WaitForProcessExit, FiveSecondsPass,
                SiblingsDone, ForgetPid, Signal, Unhealthy, AfterTarget, PCs
  <2>2. QED
    BY <2>1, SimpleTyped
<1>3. CASE ReadToStop(c)
  BY <1>3 DEF ReadToStop, Shell, PCs
<1>4. CASE ReadToUse(c)
  <2>1. CASE End(c)
    BY <2>1, SimpleTyped
  <2>2. CASE cli' = [cli EXCEPT ![c].pid = pid_file, ![c].pc = "signal"]
    BY <2>2 DEF Shell, PCs
  <2>3. CASE cli' = [cli EXCEPT ![c].pid = pid_file, ![c].pc = "forget pid",
               ![c].then = IF cli[c].command = "choose" THEN "read" ELSE "idle",
               ![c].command = IF cli[c].command = "choose" THEN "start" ELSE @]
    BY <2>3 DEF Shell, PCs, AllCommands
  <2>4. CASE cli' = [cli EXCEPT ![c].command = "start"]
    BY <2>4 DEF Shell, AllCommands
  <2>5. QED
    BY <1>4, <2>1, <2>2, <2>3, <2>4 DEF ReadToUse
<1>5. CASE Fork(c)
  <2>1. PICK d \in Pids : cli' = [cli EXCEPT ![c].pid = d, ![c].pc = "truncate"]
    BY <1>5 DEF Fork
  <2>2. QED
    BY <2>1 DEF Shell, PCs
<1>6. CASE RequestStop(c) \/ ForceStop(c)
  <2>1. \/ \E pc \in PCs : Goto(c, pc)
        \/ Spare(c) /\ IsProcessRunning(cli[c].target)
    BY <1>6 DEF RequestStop, ForceStop, AfterTarget, PCs
  <2>2. QED
    BY <2>1, SimpleTyped, SpareTyped
<1>7. CASE FindSiblings(c)
  <2> DEFINE siblings == Alive \ {cli[c].pid}
             others == siblings \ old
             busy == {o \in Clis \ {c} : Busy(o)}
             spared == cli[c].spared \cup (siblings \cap old)
  <2>1. cli' = [cli EXCEPT ![c].pc = "next", ![c].others = others,
                  ![c].clis = busy, ![c].spared = spared]
    BY <1>7 DEF FindSiblings
  <2>2. others \subseteq Pids /\ busy \subseteq Clis /\ spared \subseteq Pids
    BY DEF Shell
  <2> HIDE DEF siblings, others, busy, spared
  <2>3. QED
    BY <2>1, <2>2 DEF Shell, PCs
<1>8. CASE StopSibling(c)
  <2>1. PICK d \in cli[c].others :
          cli' = [cli EXCEPT ![c].others = @ \ {d}, ![c].target = d,
                    ![c].pc = IF IsProcessRunning(d) THEN "term" ELSE "next"]
    BY <1>8 DEF StopSibling
  <2>2. d \in Pids
    BY DEF Shell
  <2> DEFINE pc == IF IsProcessRunning(d) THEN "term" ELSE "next"
  <2>3. pc \in PCs
    BY DEF PCs
  <2>4. cli' = [cli EXCEPT ![c].others = @ \ {d}, ![c].target = d, ![c].pc = pc]
    BY <2>1
  <2> HIDE DEF pc
  <2>5. [cli[c] EXCEPT !.others = @ \ {d}, !.target = d, !.pc = pc] \in Shell
    BY <2>2, <2>3 DEF Shell
  <2>6. QED
    BY <2>4, <2>5
<1>9. CASE StopCommand(c)
  <2>1. PICK o \in cli[c].clis, ended \in BOOLEAN :
          cli' = [cli EXCEPT ![c].clis = @ \ {o},
                             ![o] = IF Busy(o) /\ ended THEN Idle ELSE @]
    BY <1>9 DEF StopCommand
  <2>2. o \in Clis /\ cli[o] \in Shell
    BY DEF Shell
  <2>3. [cli[c] EXCEPT !.clis = @ \ {o}] \in Shell
    BY DEF Shell
  <2>4. \A x \in Clis :
          cli'[x] \in {Idle, cli[x], [cli[c] EXCEPT !.clis = @ \ {o}]}
    BY <2>1, <2>2
  <2>5. cli' \in [Clis -> Shell]
    <3>1. \A x \in Clis : cli'[x] \in Shell
      BY <2>3, <2>4, IdleTyped
    <3>2. cli' = [x \in Clis |-> cli'[x]]
      BY <2>1
    <3>3. QED
      BY <3>1, <3>2
  <2>6. QED
    BY <2>5
<1>10. CASE ForgetStatus(c)
  <2>1. PICK removed \in BOOLEAN :
          LET k == [cli[c] EXCEPT
                !.complete = Stopping(c), !.swept = Stopping(c) /\ removed,
                !.command = IF @ = "restart" THEN "start" ELSE @,
                !.pc = IF cli[c].command = "restart" THEN "read"
                       ELSE cli[c].then]
          IN  cli' = [cli EXCEPT ![c] = IF k.pc = "idle" THEN Ended(k) ELSE k]
    BY <1>10 DEF ForgetStatus
  <2> DEFINE complete == Stopping(c)
             swept == Stopping(c) /\ removed
             command == IF cli[c].command = "restart" THEN "start"
                        ELSE cli[c].command
             pc == IF cli[c].command = "restart" THEN "read" ELSE cli[c].then
             k == [cli[c] EXCEPT !.complete = complete, !.swept = swept,
                                 !.command = command, !.pc = pc]
  <2>2. cli' = [cli EXCEPT ![c] = IF k.pc = "idle" THEN Ended(k) ELSE k]
    BY <2>1
  <2>3. complete \in BOOLEAN /\ swept \in BOOLEAN
    BY DEF Stopping
  <2>4. command \in {"none"} \cup AllCommands /\ pc \in PCs
    BY DEF Shell, PCs, AllCommands
  <2> HIDE DEF complete, swept, command, pc
  <2>5. k \in Shell
    BY <2>3, <2>4 DEF Shell
  <2> HIDE DEF k
  <2>6. QED
    BY <2>2, <2>5, Ends
<1>11. QED
  BY <1>1, <1>2, <1>3, <1>4, <1>5, <1>6, <1>7, <1>8, <1>9, <1>10 DEF Command

LEMMA TypedStep ==
  ASSUME IInv, [Next]_vars
  PROVE  Typed'
<1>1. ASSUME NEW c \in Clis, Begin(c) \/ Command(c)
      PROVE  Typed'
  <2>1. cli' \in [Clis -> Shell]
    BY <1>1, CommandTyped DEF IInv
  <2> Typed /\ cli[c] \in Shell
    BY DEF IInv, Typed
  <2>2. daemon' \in [Pids -> States]
    <3>1. CASE Fork(c)
      BY <3>1 DEF Fork, States, Typed
    <3>2. CASE RequestStop(c)
      BY <3>2 DEF RequestStop, Terminate, Spare, States, Typed
    <3>3. CASE ForceStop(c)
      BY <3>3 DEF ForceStop, Spare, States, Typed
    <3>4. CASE Signal(c)
      BY <3>4 DEF Signal, States, Typed
    <3>5. CASE UNCHANGED daemon
      BY <3>5 DEF Typed
    <3>6. QED
      BY <1>1, <3>1, <3>2, <3>3, <3>4, <3>5
      DEF Begin, Command, ReadToStart, ReadToStop, ReadToUse, NoFork,
          TruncatePidFile, WritePidFile, PidFileNotWritten, WaitForProcessExit,
          FiveSecondsPass, FindSiblings, StopSibling, StopCommand, SiblingsDone,
          ForgetPid, ForgetStatus, Unhealthy
  <2>3. pid_file' \in {NoPid} \cup Pids
    <3>1. cli[c].pid \in {NoPid} \cup Pids
      BY DEF Shell
    <3>2. pid_file' \in {pid_file, NoPid, cli[c].pid}
      BY <1>1
      DEF Begin, Command, ReadToStart, ReadToStop, ReadToUse, Fork, NoFork,
          TruncatePidFile, WritePidFile, PidFileNotWritten, RequestStop,
          WaitForProcessExit, FiveSecondsPass, ForceStop, FindSiblings,
          StopSibling, StopCommand, SiblingsDone, ForgetPid, ForgetStatus,
          Signal, Unhealthy
    <3>3. QED
      BY <3>1, <3>2 DEF Typed
  <2>4. status' \in {NoPid} \cup Pids
    BY NobodyReturns DEF Typed, Alive
  <2>5. old' \subseteq Pids /\ astray' \subseteq Pids
    <3>1. CASE PidFileNotWritten(c)
      <4>1. cli[c].pid \in Pids
        BY <3>1 DEF IInv, OnTrack, PidFileNotWritten, At, Shell
      <4>2. QED
        BY <3>1, <4>1 DEF PidFileNotWritten, Typed
    <3>2. CASE ForgetPid(c)
      BY <3>2 DEF ForgetPid, Shell, Typed
    <3>3. CASE old' = old /\ astray' = astray
      BY <3>3 DEF Typed
    <3>4. old' = old
      BY <1>1
      DEF Begin, Command, ReadToStart, ReadToStop, ReadToUse, Fork, NoFork,
          TruncatePidFile, WritePidFile, PidFileNotWritten, RequestStop,
          WaitForProcessExit, FiveSecondsPass, ForceStop, FindSiblings,
          StopSibling, StopCommand, SiblingsDone, ForgetPid, ForgetStatus,
          Signal, Unhealthy
    <3>5. QED
      BY <1>1, <3>1, <3>2, <3>3, <3>4
      DEF Begin, Command, ReadToStart, ReadToStop, ReadToUse, Fork, NoFork,
          TruncatePidFile, WritePidFile, RequestStop,
          WaitForProcessExit, FiveSecondsPass, ForceStop, FindSiblings,
          StopSibling, StopCommand, SiblingsDone, ForgetStatus,
          Signal, Unhealthy
  <2>6. QED
    BY <2>1, <2>2, <2>3, <2>4, <2>5 DEF Typed
<1>2. ASSUME NEW d \in Pids, Process(d)
      PROVE  Typed'
  BY <1>2 DEF Process, InstallHandlers, WriteRecorderStatus, Leave,
              RunListenerReturns, RemovePidFile, Exit, Crash, States, Typed, IInv
<1>3. CASE UNCHANGED vars \/ Replace
  BY <1>3 DEF vars, Replace, Alive, Typed, IInv
<1>4. QED
  BY <1>1, <1>2, <1>3 DEF Next

-----------------------------------------------------------------------------
(* Each action keeps the shell that takes it on track; those of the others *)
(* follow from StaysOnTrack.                                               *)

LEMMA IdleOnTrack ==
  ASSUME NEW alive, NEW born, NEW st
  PROVE  OnTrack(Idle, alive, born, st)
BY DEF OnTrack, Idle

LEMMA EndOnTrack ==
  ASSUME NEW k \in Shell, NEW alive, NEW born, NEW st,
         OnTrack(k, alive, born, st)
  PROVE  OnTrack(Ended(k), alive, born, st)
<1>1. CASE Ended(k) = Idle
  BY <1>1, IdleOnTrack
<1>2. CASE Ended(k) # Idle
  BY <1>2, Ends DEF OnTrack
<1>3. QED
  BY <1>1, <1>2

LEMMA ShellStep ==
  ASSUME IInv, [Next]_vars, NEW c \in Clis, Begin(c) \/ Command(c)
  PROVE  OnTrack(cli'[c], Alive', Born', status')
<1> DEFINE k == cli[c]
<1>1. /\ Alive' \cap Born \subseteq Alive /\ Born \subseteq Born'
      /\ status' \in {status, NoPid} \cup Alive
  BY NobodyReturns DEF IInv
<1>2. NoPid \notin Born /\ NoPid \notin Alive
  BY DEF Born, Alive, Pids, NoPid
<1>3. cli \in [Clis -> Shell] /\ k \in Shell /\ Alive \subseteq Born
  BY DEF IInv, Typed, Alive, Born
<1>4. OnTrack(k, Alive, Born, status)
  BY DEF IInv
<1>5. OnTrack(k, Alive', Born', status')
  BY <1>1, <1>2, <1>4, StaysOnTrack
<1>6. ASSUME NEW pc \in PCs, cli' = [cli EXCEPT ![c].pc = pc]
      PROVE  /\ cli'[c].pc = pc /\ cli'[c].command = k.command
             /\ cli'[c].pid = k.pid /\ cli'[c].target = k.target
             /\ cli'[c].others = k.others /\ cli'[c].before = k.before
             /\ cli'[c].spared = k.spared /\ cli'[c].complete = k.complete
             /\ cli'[c].swept = k.swept
  <2>1. cli'[c] = [k EXCEPT !.pc = pc]
    BY <1>3, <1>6
  <2>2. QED
    BY <1>3, <2>1, GoesOn
<1>7. ASSUME End(c)
      PROVE  OnTrack(cli'[c], Alive', Born', status')
  <2>1. cli'[c] = Ended(k)
    BY <1>3, <1>7 DEF End
  <2>2. QED
    BY <1>3, <1>5, <2>1, EndOnTrack
<1>8. CASE Begin(c)
  <2>1. /\ cli'[c].pc = "read" /\ cli'[c].before \subseteq Born
        /\ cli'[c].complete = FALSE
    BY <1>3, <1>8 DEF Begin, Idle
  <2>2. QED
    BY <1>1, <2>1 DEF OnTrack
<1>9. CASE ReadToStart(c) \/ NoFork(c) \/ WritePidFile(c)
           \/ PidFileNotWritten(c) \/ Signal(c) \/ Unhealthy(c)
           \/ FiveSecondsPass(c) \/ TruncatePidFile(c)
  <2>1. CASE End(c)
    BY <1>7, <2>1
  <2>2. CASE Goto(c, "fork")
    BY <1>5, <1>6, <2>2 DEF OnTrack, Goto, PCs
  <2>3. CASE FiveSecondsPass(c)
    <3>1. k.pc = "wait" /\ cli' = [cli EXCEPT ![c].pc = "kill"]
      BY <2>3 DEF FiveSecondsPass, At, Goto
    <3>2. QED
      BY <1>5, <1>6, <3>1 DEF OnTrack, PCs
  <2>4. CASE TruncatePidFile(c)
    <3>1. k.pc = "truncate" /\ cli' = [cli EXCEPT ![c].pc = "write"]
      BY <2>4 DEF TruncatePidFile, At, Goto
    <3>2. QED
      BY <1>5, <1>6, <3>1 DEF OnTrack, PCs
  <2>5. QED
    BY <1>9, <2>1, <2>2, <2>3, <2>4
    DEF ReadToStart, NoFork, WritePidFile, PidFileNotWritten, Signal, Unhealthy
<1>10. CASE ReadToStop(c)
  <2> DEFINE pc == IF IsProcessRunning(pid_file) THEN "term" ELSE "scan"
  <2>1. cli'[c] = [k EXCEPT !.pid = pid_file, !.target = pid_file, !.pc = pc]
    BY <1>3, <1>10 DEF ReadToStop
  <2>2. /\ cli'[c].pid = pid_file /\ cli'[c].target = pid_file
        /\ cli'[c].pc = pc /\ cli'[c].before = k.before
        /\ cli'[c].spared = k.spared /\ cli'[c].complete = k.complete
        /\ cli'[c].swept = k.swept
    BY <1>3, <2>1 DEF Shell
  <2>3. pc \in {"term", "scan"} /\ (pc = "scan" => pid_file \notin Alive')
    BY <1>10 DEF IsProcessRunning, ReadToStop, Alive
  <2> HIDE DEF pc
  <2>4. QED
    BY <1>5, <2>2, <2>3 DEF OnTrack
<1>11. CASE ReadToUse(c)
  <2>1. k.command \notin {"stop", "restart"}
    BY <1>11 DEF ReadToUse
  <2>2. CASE End(c)
    BY <1>7, <2>2
  <2>3. CASE /\ IsProcessRunning(pid_file)
             /\ cli' = [cli EXCEPT ![c].pid = pid_file, ![c].pc = "signal"]
    <3>1. /\ cli'[c].pc = "signal" /\ cli'[c].pid = pid_file
          /\ cli'[c].before = k.before /\ cli'[c].complete = k.complete
          /\ cli'[c].spared = k.spared /\ cli'[c].swept = k.swept
      BY <1>3, <2>3 DEF Shell
    <3>2. pid_file # NoPid
      BY <1>2, <2>3 DEF IsProcessRunning
    <3>3. QED
      BY <1>5, <3>1, <3>2 DEF OnTrack
  <2>4. CASE cli' = [cli EXCEPT ![c].pid = pid_file, ![c].pc = "forget pid",
               ![c].then = IF k.command = "choose" THEN "read" ELSE "idle",
               ![c].command = IF k.command = "choose" THEN "start" ELSE @]
    <3>1. /\ cli'[c].pc = "forget pid"
          /\ cli'[c].command \in {k.command, "start"}
          /\ cli'[c].before = k.before /\ cli'[c].complete = k.complete
          /\ cli'[c].spared = k.spared /\ cli'[c].swept = k.swept
      BY <1>3, <2>4 DEF Shell
    <3>2. QED
      BY <1>5, <2>1, <3>1 DEF OnTrack
  <2>5. CASE cli' = [cli EXCEPT ![c].command = "start"]
    <3>1. /\ cli'[c].pc = k.pc /\ k.pc = "read"
          /\ cli'[c].before = k.before /\ cli'[c].complete = k.complete
          /\ cli'[c].spared = k.spared /\ cli'[c].swept = k.swept
      BY <1>3, <1>11, <2>5 DEF ReadToUse, At, Shell
    <3>2. QED
      BY <1>5, <3>1 DEF OnTrack
  <2>6. QED
    BY <1>11, <2>2, <2>3, <2>4, <2>5 DEF ReadToUse
<1>12. CASE Fork(c)
  <2>1. PICK d \in Pids : cli' = [cli EXCEPT ![c].pid = d, ![c].pc = "truncate"]
    BY <1>12 DEF Fork
  <2>2. d # NoPid
    BY DEF Pids, NoPid
  <2>3. /\ cli'[c].pc = "truncate" /\ cli'[c].pid = d
        /\ cli'[c].before = k.before /\ cli'[c].complete = k.complete
        /\ cli'[c].spared = k.spared /\ cli'[c].swept = k.swept
    BY <1>3, <2>1 DEF Shell
  <2>4. QED
    BY <1>5, <2>2, <2>3 DEF OnTrack
<1>13. ASSUME k.pc \in {"term", "wait", "kill"},
              k.target \notin Alive', Goto(c, AfterTarget(c))
       PROVE  OnTrack(cli'[c], Alive', Born', status')
  <2> DEFINE pc == AfterTarget(c)
  <2>1. pc \in PCs /\ pc = (IF k.target = k.pid THEN "scan" ELSE "next")
    BY DEF AfterTarget, PCs
  <2>2. cli' = [cli EXCEPT ![c].pc = pc]
    BY <1>13 DEF Goto
  <2> HIDE DEF pc
  <2>3. QED
    BY <1>5, <1>6, <1>13, <2>1, <2>2 DEF OnTrack
<1>14. ASSUME k.pc \in {"term", "wait", "kill"}, Spare(c),
              IsProcessRunning(k.target)
       PROVE  OnTrack(cli'[c], Alive', Born', status')
  <2> DEFINE pc == AfterTarget(c)
             spared == k.spared \cup {k.target}
  <2>1. pc \in PCs /\ pc = (IF k.target = k.pid THEN "scan" ELSE "next")
    BY DEF AfterTarget, PCs
  <2>2. cli' = [cli EXCEPT ![c].pc = pc, ![c].spared = spared]
    BY <1>14 DEF Spare
  <2> HIDE DEF pc
  <2>3. /\ cli'[c].pc = pc /\ cli'[c].spared = spared
        /\ cli'[c].pid = k.pid /\ cli'[c].others = k.others
        /\ cli'[c].before = k.before /\ cli'[c].complete = k.complete
        /\ cli'[c].swept = k.swept
    BY <1>3, <2>2 DEF Shell
  <2>4. QED
    BY <1>5, <1>14, <2>1, <2>3 DEF OnTrack
<1>15. CASE RequestStop(c)
  <2>1. k.pc = "term"
    BY <1>15 DEF RequestStop, At
  <2>2. CASE cli' = [cli EXCEPT ![c].pc = "wait"]
    BY <1>5, <1>6, <2>1, <2>2 DEF OnTrack, PCs
  <2>3. CASE ~IsProcessRunning(k.target) /\ Goto(c, AfterTarget(c))
             /\ UNCHANGED daemon
    <3>1. k.target \notin Alive'
      BY <2>3 DEF IsProcessRunning, Alive
    <3>2. QED
      BY <1>13, <2>1, <2>3, <3>1
  <2>4. QED
    BY <1>14, <1>15, <2>1, <2>2, <2>3 DEF RequestStop, Goto
<1>16. CASE WaitForProcessExit(c)
  <2>1. k.pc = "wait" /\ k.target \notin Alive' /\ Goto(c, AfterTarget(c))
    BY <1>16 DEF WaitForProcessExit, At, IsProcessRunning, Alive
  <2>2. QED
    BY <1>13, <2>1
<1>17. CASE ForceStop(c)
  <2>1. k.pc = "kill"
    BY <1>17 DEF ForceStop, At
  <2>2. CASE /\ daemon' = [daemon EXCEPT ![k.target] = "dead"]
             /\ Goto(c, AfterTarget(c))
    <3>1. k.target \notin Alive'
      BY <2>2 DEF Alive, IInv, Typed
    <3>2. QED
      BY <1>13, <2>1, <2>2, <3>1
  <2>3. CASE ~IsProcessRunning(k.target) /\ Goto(c, AfterTarget(c))
             /\ UNCHANGED daemon
    <3>1. k.target \notin Alive'
      BY <2>3 DEF IsProcessRunning, Alive
    <3>2. QED
      BY <1>13, <2>1, <2>3, <3>1
  <2>4. QED
    BY <1>14, <1>17, <2>1, <2>2, <2>3 DEF ForceStop
<1>18. CASE FindSiblings(c)
  <2> DEFINE siblings == Alive \ {k.pid}
             others == siblings \ old
             busy == {o \in Clis \ {c} : Busy(o)}
             spared == k.spared \cup (siblings \cap old)
  <2>1. /\ k.pc = "scan" /\ Alive' = Alive /\ Born' = Born /\ status' = status
        /\ cli' = [cli EXCEPT ![c].pc = "next", ![c].others = others,
                     ![c].clis = busy, ![c].spared = spared]
    BY <1>18 DEF FindSiblings, At, Alive, Born
  <2> HIDE DEF busy
  <2>2. /\ cli'[c].pc = "next" /\ cli'[c].others = others
        /\ cli'[c].spared = spared
        /\ cli'[c].before = k.before /\ cli'[c].complete = k.complete
        /\ cli'[c].swept = k.swept
    BY <1>3, <2>1 DEF Shell
  <2>3. QED
    BY <1>4, <2>1, <2>2 DEF OnTrack
<1>19. CASE StopSibling(c)
  <2>1. PICK d \in k.others :
          /\ k.pc = "next" /\ Alive' = Alive /\ Born' = Born /\ status' = status
          /\ cli' = [cli EXCEPT ![c].others = @ \ {d}, ![c].target = d,
                        ![c].pc = IF IsProcessRunning(d) THEN "term" ELSE "next"]
    BY <1>19 DEF StopSibling, At, Alive, Born
  <2> DEFINE others == k.others \ {d}
             pc == IF IsProcessRunning(d) THEN "term" ELSE "next"
  <2>2. pc \in {"term", "next"} /\ (pc = "next" => d \notin Alive)
    BY DEF IsProcessRunning
  <2>3. cli' = [cli EXCEPT ![c].others = others, ![c].target = d, ![c].pc = pc]
    BY <2>1
  <2> HIDE DEF pc
  <2>4. /\ cli'[c].pc = pc /\ cli'[c].others = others /\ cli'[c].target = d
        /\ cli'[c].spared = k.spared
        /\ cli'[c].before = k.before /\ cli'[c].complete = k.complete
        /\ cli'[c].swept = k.swept
    BY <1>3, <2>3 DEF Shell
  <2>5. QED
    BY <1>4, <2>1, <2>2, <2>4 DEF OnTrack
<1>20. CASE StopCommand(c)
  <2>1. PICK o \in k.clis, ended \in BOOLEAN :
          cli' = [cli EXCEPT ![c].clis = @ \ {o},
                             ![o] = IF Busy(o) /\ ended THEN Idle ELSE @]
    BY <1>20 DEF StopCommand
  <2>2. o \in Clis
    BY <1>3 DEF Shell
  <2>3. cli'[c] \in {Idle, [k EXCEPT !.clis = @ \ {o}]}
    BY <1>3, <2>1, <2>2
  <2>4. CASE cli'[c] = Idle
    BY <2>4, IdleOnTrack
  <2>5. CASE cli'[c] = [k EXCEPT !.clis = @ \ {o}]
    <3>1. /\ cli'[c].pc = k.pc /\ cli'[c].command = k.command
          /\ cli'[c].pid = k.pid /\ cli'[c].target = k.target
          /\ cli'[c].others = k.others /\ cli'[c].before = k.before
          /\ cli'[c].spared = k.spared /\ cli'[c].complete = k.complete
          /\ cli'[c].swept = k.swept
      BY <1>3, <2>5 DEF Shell
    <3>2. QED
      BY <1>5, <3>1 DEF OnTrack
  <2>6. QED
    BY <2>3, <2>4, <2>5
<1>21. CASE SiblingsDone(c)
  <2>1. /\ cli' = [cli EXCEPT ![c].pc = "forget pid"]
        /\ k.pc = "next" /\ k.others = {}
    BY <1>21 DEF SiblingsDone, Goto, At
  <2>2. QED
    BY <1>5, <1>6, <2>1 DEF OnTrack, PCs
<1>22. CASE ForgetPid(c)
  <2>1. cli' = [cli EXCEPT ![c].pc = "forget status"] /\ k.pc = "forget pid"
    BY <1>22 DEF ForgetPid, Goto, At
  <2>2. QED
    BY <1>5, <1>6, <2>1 DEF OnTrack, PCs
<1>23. CASE ForgetStatus(c)
  <2>1. k.pc = "forget status" /\ Alive' = Alive /\ Born' = Born
    BY <1>23 DEF ForgetStatus, At, Alive, Born
  <2>2. PICK removed \in BOOLEAN :
          /\ status' = IF removed THEN NoPid ELSE status
          /\ LET n == [k EXCEPT
                   !.complete = Stopping(c), !.swept = Stopping(c) /\ removed,
                   !.command = IF @ = "restart" THEN "start" ELSE @,
                   !.pc = IF k.command = "restart" THEN "read" ELSE k.then]
             IN  cli' = [cli EXCEPT ![c] = IF n.pc = "idle" THEN Ended(n) ELSE n]
    BY <1>23 DEF ForgetStatus
  <2> DEFINE complete == Stopping(c)
             swept == Stopping(c) /\ removed
             command == IF k.command = "restart" THEN "start" ELSE k.command
             pc == IF k.command = "restart" THEN "read" ELSE k.then
             n == [k EXCEPT !.complete = complete, !.swept = swept,
                            !.command = command, !.pc = pc]
  <2>3. cli' = [cli EXCEPT ![c] = IF n.pc = "idle" THEN Ended(n) ELSE n]
    BY <2>2
  <2>4. /\ complete \in BOOLEAN /\ swept \in BOOLEAN
        /\ complete <=> k.command \in {"stop", "restart"}
        /\ swept => status' = NoPid
    <3>1. complete \in BOOLEAN /\ swept \in BOOLEAN
      BY DEF Stopping
    <3>2. complete <=> k.command \in {"stop", "restart"}
      BY DEF Stopping
    <3>3. swept => removed
      OBVIOUS
    <3> HIDE DEF complete, swept
    <3>4. removed => status' = NoPid
      BY <2>2
    <3>5. QED
      BY <3>1, <3>2, <3>3, <3>4
  <2>5. command \in {"none"} \cup AllCommands /\ pc \in {"read", "idle"}
    BY <1>3 DEF Shell, AllCommands
  <2>6. NoPid \notin k.before
    BY <1>2, <1>4 DEF OnTrack
  <2>7. complete => k.before \cap Alive \subseteq k.spared
    BY <1>4, <2>1, <2>4 DEF OnTrack
  <2>8. k.before \subseteq Born
    BY <1>4 DEF OnTrack
  <2> HIDE DEF complete, swept, command, pc
  <2>9. /\ n \in Shell /\ n.pc = pc /\ n.before = k.before
        /\ n.spared = k.spared /\ n.complete = complete /\ n.swept = swept
    BY <1>3, <2>4, <2>5 DEF Shell, PCs
  <2> HIDE DEF n
  <2>10. OnTrack(n, Alive', Born', status')
    BY <2>1, <2>4, <2>5, <2>6, <2>7, <2>8, <2>9 DEF OnTrack
  <2>11. cli'[c] \in {n, Ended(n)}
    BY <1>3, <2>3
  <2>12. QED
    BY <2>9, <2>10, <2>11, EndOnTrack
<1>24. QED
  BY <1>8, <1>9, <1>10, <1>11, <1>12, <1>15, <1>16, <1>17, <1>18, <1>19,
     <1>20, <1>21, <1>22, <1>23 DEF Command

\* What one shell does leaves the others where they were, except that a stop
\* ends them.
LEMMA OtherShells ==
  ASSUME Typed, NEW c \in Clis, Begin(c) \/ Command(c), NEW x \in Clis \ {c}
  PROVE  cli'[x] \in {Idle, cli[x]}
<1> cli \in [Clis -> Shell]
  BY DEF Typed
<1>1. CASE StopCommand(c)
  <2>1. PICK o \in cli[c].clis, ended \in BOOLEAN :
          cli' = [cli EXCEPT ![c].clis = @ \ {o},
                             ![o] = IF Busy(o) /\ ended THEN Idle ELSE @]
    BY <1>1 DEF StopCommand
  <2>2. QED
    BY <2>1
<1>2. CASE End(c)
  BY <1>2 DEF End
<1>3. CASE ~StopCommand(c) /\ ~End(c)
  BY <1>3 DEF Begin, Command, ReadToStart, ReadToStop, ReadToUse, Fork, NoFork,
              TruncatePidFile, WritePidFile, PidFileNotWritten, RequestStop,
              WaitForProcessExit, FiveSecondsPass, ForceStop, Spare,
              FindSiblings, StopSibling, SiblingsDone, ForgetPid, ForgetStatus,
              Signal, Unhealthy, Goto
<1>4. QED
  BY <1>1, <1>2, <1>3

LEMMA IInvInit == Init => IInv
<1> SUFFICES ASSUME Init PROVE IInv
  OBVIOUS
<1>1. \A c \in Clis : cli[c] = Idle
  BY DEF Init
<1>2. QED
  BY <1>1, TypedInit, IdleOnTrack DEF IInv

LEMMA IInvStep == IInv /\ [Next]_vars => IInv'
<1> SUFFICES ASSUME IInv, [Next]_vars PROVE IInv'
  OBVIOUS
<1>1. Typed'
  BY TypedStep
<1>2. /\ Alive' \cap Born \subseteq Alive /\ Born \subseteq Born'
      /\ status' \in {status, NoPid} \cup Alive
  BY NobodyReturns DEF IInv
<1>3. NoPid \notin Born
  BY DEF Born, Pids, NoPid
<1>4. ASSUME NEW x \in Clis, cli'[x] \in {Idle, cli[x]}
      PROVE  OnTrack(cli'[x], Alive', Born', status')
  BY <1>2, <1>3, <1>4, StaysOnTrack, IdleOnTrack DEF IInv
<1>5. ASSUME NEW x \in Clis
      PROVE  OnTrack(cli'[x], Alive', Born', status')
  <2>1. ASSUME NEW c \in Clis, Begin(c) \/ Command(c)
        PROVE  OnTrack(cli'[x], Alive', Born', status')
    <3>1. CASE x = c
      BY <2>1, <3>1, ShellStep
    <3>2. CASE x # c
      BY <1>4, <2>1, <3>2, OtherShells DEF IInv
    <3>3. QED
      BY <3>1, <3>2
  <2>2. ASSUME NEW d \in Pids, Process(d)
        PROVE  cli' = cli
    BY <2>2 DEF Process, InstallHandlers, WriteRecorderStatus, Leave,
                RunListenerReturns, RemovePidFile, Exit, Crash
  <2>3. CASE UNCHANGED vars \/ Replace
    BY <1>4, <2>3 DEF vars, Replace
  <2>4. QED
    BY <1>4, <2>1, <2>2, <2>3 DEF Next
<1>6. QED
  BY <1>1, <1>5 DEF IInv

THEOREM Invariant == Spec => []IInv
BY IInvInit, IInvStep, PTL DEF Spec

\* When Stop returns, no daemon that was there when it was called is alive,
\* whether the pid file named it or not and whatever the other shells did
\* meanwhile (ClipDeckCore::Stop, core.cpp:584-616), but for those the system
\* did not let it stop; and once it has removed the status file, none of the
\* others writes it again.
THEOREM StopsAll == Spec => []StopStops
<1>1. IInv => StopStops
  BY DEF IInv, OnTrack, StopStops
<1>2. QED
  BY <1>1, Invariant, PTL

-----------------------------------------------------------------------------
(* Commands one at a time.                                                 *)

\* The daemons the pid file has to name.
Counted == {d \in Alive : daemon[d] # "exiting" /\ d \notin astray}

\* What the shell k, which alone is under way, knows of them: there is none but
\* the one it has to do with and those it has spared.
Near(k, counted, named) ==
  /\ k.pc \in {"idle", "read", "signal"} => counted \subseteq {named}
  /\ k.pc \in {"truncate", "write"} => counted \subseteq {k.pid}
  /\ k.pc \in {"term", "wait", "kill"} =>
       /\ k.target = k.pid => counted \subseteq {k.pid} \cup k.spared
       /\ k.target # k.pid => counted \subseteq k.spared
  /\ k.pc \in {"scan", "next"} => counted \subseteq k.spared
  /\ k.pc = "forget pid" =>
       /\ k.command \in {"stop", "restart"} => counted \subseteq k.spared
       /\ k.command \notin {"stop", "restart"} => counted = {}
  /\ k.pc \in {"fork", "forget status"} => counted = {}
  /\ k.pc \in {"term", "wait", "kill", "scan", "next"} =>
       k.command \in {"stop", "restart"}
  /\ k.clis = {}

OneAtATime ==
  /\ overlaps \in Nat
  /\ overlaps = 0 =>
       /\ \A c, o \in Clis : Busy(c) /\ Busy(o) => c = o
       /\ (\A c \in Clis : ~Busy(c)) => Counted \subseteq {pid_file}
       /\ \A c \in Clis : Busy(c) => Near(cli[c], Counted, pid_file)

\* Only a fork adds to them.
LEMMA CountedShrinks ==
  ASSUME Typed, [Next]_vars, \A c \in Clis : ~Fork(c)
  PROVE  Counted' \subseteq Counted
<1> USE DEF Typed, Counted, Alive, States
<1>1. ASSUME NEW c \in Clis, Begin(c) \/ Command(c)
      PROVE  Counted' \subseteq Counted
  <2>1. astray \subseteq astray'
    BY <1>1
    DEF Begin, Command, ReadToStart, ReadToStop, ReadToUse, Fork, NoFork,
        TruncatePidFile, WritePidFile, PidFileNotWritten, RequestStop,
        WaitForProcessExit, FiveSecondsPass, ForceStop, FindSiblings,
        StopSibling, StopCommand, SiblingsDone, ForgetPid, ForgetStatus,
        Signal, Unhealthy
  <2>2. CASE RequestStop(c)
    BY <2>1, <2>2 DEF RequestStop, Terminate, Spare
  <2>3. CASE ForceStop(c)
    BY <2>1, <2>3 DEF ForceStop, Spare
  <2>4. CASE Signal(c)
    BY <2>1, <2>4 DEF Signal
  <2>5. CASE UNCHANGED daemon
    BY <2>1, <2>5
  <2>6. QED
    BY <1>1, <2>2, <2>3, <2>4, <2>5
    DEF Begin, Command, ReadToStart, ReadToStop, ReadToUse, NoFork,
        TruncatePidFile, WritePidFile, PidFileNotWritten, WaitForProcessExit,
        FiveSecondsPass, FindSiblings, StopSibling, StopCommand, SiblingsDone,
        ForgetPid, ForgetStatus, Unhealthy
<1>2. ASSUME NEW d \in Pids, Process(d)
      PROVE  Counted' \subseteq Counted
  BY <1>2 DEF Process, InstallHandlers, WriteRecorderStatus, Leave,
              RunListenerReturns, RemovePidFile, Exit, Crash, IsProcessRunning
<1>3. CASE UNCHANGED vars \/ Replace
  BY <1>3 DEF vars, Replace
<1>4. QED
  BY <1>1, <1>2, <1>3 DEF Next

\* There is at most one such daemon, and the shell under way keeps track of it.
LEMMA CommandNear ==
  ASSUME Typed, NEW c \in Clis, Command(c), Near(cli[c], Counted, pid_file),
         \A o \in Clis : Busy(o) => o = c
  PROVE  Near(cli'[c], Counted', pid_file')
<1> DEFINE k == cli[c]
<1>1. cli \in [Clis -> Shell] /\ k \in Shell /\ NoPid \notin Alive
  BY DEF Typed, Alive, Pids, NoPid
<1>2. Counted \subseteq Alive /\ k.clis = {}
  BY DEF Counted, Near
<1>3. ~Fork(c) => Counted' \subseteq Counted
  <2>1. ASSUME NEW o \in Clis, Fork(o)
        PROVE  o = c
    BY <2>1 DEF Fork, At, Busy
  <2>2. QED
    BY <2>1, CountedShrinks DEF Next
<1>4. ASSUME NEW pc \in PCs, Goto(c, pc)
      PROVE  /\ cli'[c].pc = pc /\ cli'[c].command = k.command
             /\ cli'[c].pid = k.pid /\ cli'[c].target = k.target
             /\ cli'[c].spared = k.spared /\ cli'[c].clis = {}
  <2>1. cli'[c] = [k EXCEPT !.pc = pc]
    BY <1>1, <1>4 DEF Goto
  <2>2. QED
    BY <1>1, <1>2, <2>1, GoesOn
<1>5. ASSUME End(c), Counted' \subseteq {pid_file'}
      PROVE  Near(cli'[c], Counted', pid_file')
  <2>1. cli'[c].pc = "idle" /\ cli'[c].clis = {}
    BY <1>1, <1>5, Ends DEF End
  <2>2. QED
    BY <1>5, <2>1 DEF Near
<1>6. CASE ReadToStart(c)
  <2>1. k.pc = "read" /\ pid_file' = pid_file /\ Counted' \subseteq Counted
    BY <1>3, <1>6 DEF ReadToStart, At, Fork
  <2>2. CASE End(c)
    BY <1>5, <2>1, <2>2 DEF Near
  <2>3. CASE pid_file \notin Alive /\ Goto(c, "fork")
    <3>1. Counted' = {}
      BY <1>2, <2>1, <2>3 DEF Near
    <3>2. QED
      BY <1>4, <2>3, <3>1 DEF Near, PCs
  <2>4. QED
    BY <1>6, <2>2, <2>3 DEF ReadToStart, IsProcessRunning
<1>7. CASE ReadToStop(c)
  <2> DEFINE pc == IF IsProcessRunning(pid_file) THEN "term" ELSE "scan"
  <2>1. cli'[c] = [k EXCEPT !.pid = pid_file, !.target = pid_file, !.pc = pc]
    BY <1>1, <1>7 DEF ReadToStop
  <2>2. /\ k.pc = "read" /\ Counted' \subseteq Counted
        /\ k.command \in {"stop", "restart"}
    BY <1>3, <1>7 DEF ReadToStop, At, Fork
  <2>3. pc \in {"term", "scan"} /\ (pc = "scan" => pid_file \notin Alive)
    BY DEF IsProcessRunning
  <2> HIDE DEF pc
  <2>4. /\ cli'[c].pid = pid_file /\ cli'[c].target = pid_file
        /\ cli'[c].pc = pc /\ cli'[c].spared = k.spared /\ cli'[c].clis = {}
        /\ cli'[c].command = k.command
    BY <1>1, <1>2, <2>1 DEF Shell
  <2>5. QED
    BY <1>2, <2>2, <2>3, <2>4 DEF Near
<1>8. CASE ReadToUse(c)
  <2>1. /\ k.pc = "read" /\ pid_file' = pid_file /\ Counted' \subseteq Counted
        /\ k.command \notin {"stop", "restart"}
    BY <1>3, <1>8 DEF ReadToUse, At, Fork
  <2>2. CASE End(c)
    BY <1>5, <2>1, <2>2 DEF Near
  <2>3. CASE cli' = [cli EXCEPT ![c].pid = pid_file, ![c].pc = "signal"]
    <3>1. cli'[c].pc = "signal" /\ cli'[c].clis = {}
      BY <1>1, <1>2, <2>3 DEF Shell
    <3>2. QED
      BY <2>1, <3>1 DEF Near
  <2>4. CASE /\ pid_file \notin Alive
             /\ cli' = [cli EXCEPT ![c].pid = pid_file, ![c].pc = "forget pid",
                  ![c].then = IF k.command = "choose" THEN "read" ELSE "idle",
                  ![c].command = IF k.command = "choose" THEN "start" ELSE @]
    <3>1. /\ cli'[c].pc = "forget pid" /\ cli'[c].clis = {}
          /\ cli'[c].command \in {k.command, "start"}
      BY <1>1, <1>2, <2>4 DEF Shell
    <3>2. Counted' = {}
      BY <1>2, <2>1, <2>4 DEF Near
    <3>3. QED
      BY <2>1, <3>1, <3>2 DEF Near
  <2>5. CASE cli' = [cli EXCEPT ![c].command = "start"]
    <3>1. cli'[c].pc = "read" /\ cli'[c].clis = {}
      BY <1>1, <1>2, <2>1, <2>5 DEF Shell
    <3>2. QED
      BY <2>1, <3>1 DEF Near
  <2>6. QED
    BY <1>8, <2>2, <2>3, <2>4, <2>5 DEF ReadToUse, IsProcessRunning
<1>9. CASE Fork(c)
  <2>1. PICK d \in Pids :
          /\ k.pc = "fork" /\ daemon' = [daemon EXCEPT ![d] = "young"]
          /\ cli' = [cli EXCEPT ![c].pid = d, ![c].pc = "truncate"]
          /\ astray' = astray
    BY <1>9 DEF Fork, At
  <2>2. Counted' \subseteq Counted \cup {d}
    BY <2>1 DEF Counted, Alive, Typed
  <2>3. cli'[c].pc = "truncate" /\ cli'[c].pid = d /\ cli'[c].clis = {}
    BY <1>1, <1>2, <2>1 DEF Shell
  <2>4. QED
    BY <2>1, <2>2, <2>3 DEF Near
<1>10. CASE NoFork(c) \/ Signal(c) \/ Unhealthy(c)
  <2>1. /\ k.pc \in {"fork", "signal"} /\ pid_file' = pid_file
        /\ End(c)
    BY <1>10 DEF NoFork, Signal, Unhealthy, At
  <2>2. ~Fork(c)
    <3>1. cli'[c] = Ended(k)
      BY <1>1, <2>1 DEF End
    <3>2. cli'[c].pc = "idle"
      BY <1>1, <3>1, Ends
    <3>3. Fork(c) => cli'[c].pc = "truncate"
      BY <1>1 DEF Fork, Shell
    <3>4. QED
      BY <3>2, <3>3
  <2>3. QED
    BY <1>3, <1>5, <2>1, <2>2 DEF Near
<1>11. CASE TruncatePidFile(c)
  <2>1. k.pc = "truncate" /\ Goto(c, "write") /\ Counted' \subseteq Counted
    BY <1>3, <1>11 DEF TruncatePidFile, At, Fork
  <2>2. QED
    BY <1>4, <2>1 DEF Near, PCs
<1>12. CASE WritePidFile(c)
  <2>1. /\ k.pc = "write" /\ End(c) /\ pid_file' = k.pid
        /\ Counted' \subseteq Counted
    BY <1>3, <1>12 DEF WritePidFile, At, Fork
  <2>2. QED
    BY <1>5, <2>1 DEF Near
<1>13. CASE PidFileNotWritten(c)
  <2>1. /\ k.pc \in {"truncate", "write"} /\ End(c)
        /\ k.pid \in astray' /\ Counted' \subseteq Counted
    BY <1>3, <1>13 DEF PidFileNotWritten, At, Fork
  <2>2. k.pid \notin Counted'
    BY <2>1 DEF Counted
  <2>3. QED
    BY <1>5, <2>1, <2>2 DEF Near
<1>14. ASSUME k.pc \in {"term", "wait", "kill"}, ~Fork(c),
              k.target \notin Alive', Goto(c, AfterTarget(c))
       PROVE  Near(cli'[c], Counted', pid_file')
  <2> DEFINE pc == AfterTarget(c)
  <2>1. pc \in PCs /\ pc = (IF k.target = k.pid THEN "scan" ELSE "next")
    BY DEF AfterTarget, PCs
  <2>2. Goto(c, pc) /\ Counted' \subseteq Counted /\ k.target \notin Counted'
    BY <1>3, <1>14 DEF Counted
  <2> HIDE DEF pc
  <2>3. QED
    BY <1>4, <1>14, <2>1, <2>2 DEF Near
<1>15. ASSUME k.pc \in {"term", "wait", "kill"}, ~Fork(c), Spare(c)
       PROVE  Near(cli'[c], Counted', pid_file')
  <2> DEFINE pc == AfterTarget(c)
             spared == k.spared \cup {k.target}
  <2>1. pc \in PCs /\ pc = (IF k.target = k.pid THEN "scan" ELSE "next")
    BY DEF AfterTarget, PCs
  <2>2. cli' = [cli EXCEPT ![c].pc = pc, ![c].spared = spared]
    BY <1>15 DEF Spare
  <2> HIDE DEF pc
  <2>3. /\ cli'[c].pc = pc /\ cli'[c].spared = spared /\ cli'[c].clis = {}
        /\ cli'[c].command = k.command
    BY <1>1, <1>2, <2>2 DEF Shell
  <2>4. QED
    BY <1>3, <1>15, <2>1, <2>3 DEF Near
<1>16. CASE RequestStop(c)
  <2>1. k.pc = "term" /\ ~Fork(c)
    BY <1>16 DEF RequestStop, At, Fork
  <2>2. CASE Goto(c, "wait")
    BY <1>3, <1>4, <2>1, <2>2 DEF Near, PCs
  <2>3. CASE ~IsProcessRunning(k.target) /\ Goto(c, AfterTarget(c))
             /\ UNCHANGED daemon
    <3>1. k.target \notin Alive'
      BY <2>3 DEF IsProcessRunning, Alive
    <3>2. QED
      BY <1>14, <2>1, <2>3, <3>1
  <2>4. QED
    BY <1>15, <1>16, <2>1, <2>2, <2>3 DEF RequestStop
<1>17. CASE WaitForProcessExit(c)
  <2>1. /\ k.pc = "wait" /\ k.target \notin Alive' /\ Goto(c, AfterTarget(c))
        /\ ~Fork(c)
    BY <1>17 DEF WaitForProcessExit, At, IsProcessRunning, Alive, Fork
  <2>2. QED
    BY <1>14, <2>1
<1>18. CASE FiveSecondsPass(c)
  <2>1. k.pc = "wait" /\ ~Fork(c) /\ Goto(c, "kill")
    BY <1>18 DEF FiveSecondsPass, At, Fork
  <2>2. QED
    BY <1>3, <1>4, <2>1 DEF Near, PCs
<1>19. CASE ForceStop(c)
  <2>1. k.pc = "kill" /\ ~Fork(c)
    BY <1>19 DEF ForceStop, At, Fork
  <2>2. CASE /\ \/ daemon' = [daemon EXCEPT ![k.target] = "dead"]
                \/ ~IsProcessRunning(k.target) /\ UNCHANGED daemon
             /\ Goto(c, AfterTarget(c))
    <3>1. k.target \notin Alive'
      BY <2>2 DEF IsProcessRunning, Alive, Typed
    <3>2. QED
      BY <1>14, <2>1, <2>2, <3>1
  <2>3. QED
    BY <1>15, <1>19, <2>1, <2>2 DEF ForceStop
<1>20. CASE FindSiblings(c)
  <2> DEFINE siblings == Alive \ {k.pid}
             others == siblings \ old
             busy == {o \in Clis \ {c} : Busy(o)}
             spared == k.spared \cup (siblings \cap old)
  <2>1. /\ k.pc = "scan" /\ ~Fork(c)
        /\ cli' = [cli EXCEPT ![c].pc = "next", ![c].others = others,
                     ![c].clis = busy, ![c].spared = spared]
    BY <1>20 DEF FindSiblings, At, Fork
  <2>2. busy = {}
    OBVIOUS
  <2> HIDE DEF busy, others
  <2>3. /\ cli'[c].pc = "next" /\ cli'[c].spared = spared
        /\ cli'[c].clis = {} /\ cli'[c].command = k.command
    BY <1>1, <2>1, <2>2 DEF Shell
  <2>4. QED
    BY <1>3, <2>1, <2>3 DEF Near
<1>21. CASE StopSibling(c)
  <2>1. PICK d \in k.others :
          /\ k.pc = "next" /\ ~Fork(c)
          /\ cli' = [cli EXCEPT ![c].others = @ \ {d}, ![c].target = d,
                        ![c].pc = IF IsProcessRunning(d) THEN "term" ELSE "next"]
    BY <1>21 DEF StopSibling, At, Fork
  <2> DEFINE others == k.others \ {d}
             pc == IF IsProcessRunning(d) THEN "term" ELSE "next"
  <2>2. pc \in {"term", "next"}
    OBVIOUS
  <2>3. cli' = [cli EXCEPT ![c].others = others, ![c].target = d, ![c].pc = pc]
    BY <2>1
  <2> HIDE DEF pc, others
  <2>4. /\ cli'[c].pc = pc /\ cli'[c].spared = k.spared /\ cli'[c].clis = {}
        /\ cli'[c].command = k.command
    BY <1>1, <1>2, <2>3 DEF Shell
  <2>5. QED
    BY <1>3, <2>1, <2>2, <2>4 DEF Near
<1>22. CASE StopCommand(c)
  BY <1>2, <1>22 DEF StopCommand
<1>23. CASE SiblingsDone(c)
  <2>1. k.pc = "next" /\ ~Fork(c) /\ Goto(c, "forget pid")
    BY <1>23 DEF SiblingsDone, At, Fork
  <2>2. QED
    BY <1>3, <1>4, <2>1 DEF Near, PCs
<1>24. CASE ForgetPid(c)
  <2>1. /\ k.pc = "forget pid" /\ ~Fork(c) /\ Goto(c, "forget status")
    BY <1>24 DEF ForgetPid, At, Fork
  <2>2. Counted' = {}
    <3>1. CASE k.command \in {"stop", "restart"}
      <4>1. k.spared \subseteq astray'
        BY <1>24, <3>1 DEF ForgetPid, Stopping
      <4>2. Counted \subseteq k.spared
        BY <2>1, <3>1 DEF Near
      <4>3. QED
        BY <1>3, <2>1, <4>1, <4>2 DEF Counted
    <3>2. CASE k.command \notin {"stop", "restart"}
      BY <1>3, <2>1, <3>2 DEF Near
    <3>3. QED
      BY <3>1, <3>2
  <2>3. QED
    BY <1>4, <2>1, <2>2 DEF Near, PCs
<1>25. CASE ForgetStatus(c)
  <2>1. k.pc = "forget status" /\ ~Fork(c)
    BY <1>25 DEF ForgetStatus, At, Fork
  <2>2. cli'[c].pc \in {"read", "idle"} /\ cli'[c].clis = {}
    <3> DEFINE command == IF k.command = "restart" THEN "start" ELSE k.command
               pc == IF k.command = "restart" THEN "read" ELSE k.then
    <3>1. PICK removed \in BOOLEAN :
            LET n == [k EXCEPT
                  !.complete = Stopping(c), !.swept = Stopping(c) /\ removed,
                  !.command = command, !.pc = pc]
            IN  cli' = [cli EXCEPT ![c] = IF n.pc = "idle" THEN Ended(n) ELSE n]
      BY <1>25 DEF ForgetStatus
    <3> DEFINE complete == Stopping(c)
               swept == Stopping(c) /\ removed
               n == [k EXCEPT !.complete = complete, !.swept = swept,
                              !.command = command, !.pc = pc]
    <3>2. cli' = [cli EXCEPT ![c] = IF n.pc = "idle" THEN Ended(n) ELSE n]
      BY <3>1
    <3>3. command \in {"none"} \cup AllCommands /\ pc \in {"read", "idle"}
      BY <1>1 DEF Shell, AllCommands
    <3>4. complete \in BOOLEAN /\ swept \in BOOLEAN
      BY DEF Stopping
    <3> HIDE DEF command, pc, complete, swept
    <3>5. n \in Shell /\ n.pc = pc /\ n.clis = k.clis
      BY <1>1, <3>3, <3>4 DEF Shell, PCs
    <3> HIDE DEF n
    <3>6. cli'[c] \in {n, Ended(n)}
      BY <1>1, <3>2
    <3>7. QED
      BY <1>2, <3>3, <3>5, <3>6, Ends
  <2>3. QED
    BY <1>3, <2>1, <2>2 DEF Near
<1>26. QED
  BY <1>6, <1>7, <1>8, <1>9, <1>10, <1>11, <1>12, <1>13, <1>16, <1>17, <1>18,
     <1>19, <1>20, <1>21, <1>22, <1>23, <1>24, <1>25 DEF Command

\* A daemon starts no other, and the one that removes the pid file is the one
\* it names, or astray: then what it names goes astray with it.
LEMMA ProcessNear ==
  ASSUME Typed, NEW d \in Pids, Process(d)
  PROVE  /\ Counted' \subseteq Counted
         /\ Counted \subseteq {pid_file} => Counted' \subseteq {pid_file'}
<1>1. Counted' \subseteq Counted
  <2>1. ASSUME NEW c \in Clis, Fork(c) PROVE FALSE
    <3>1. cli' = cli
      BY DEF Process, InstallHandlers, WriteRecorderStatus, Leave,
             RunListenerReturns, RemovePidFile, Exit, Crash
    <3>2. cli[c].pc = "fork" /\ cli'[c].pc = "truncate"
      <4>1. cli \in [Clis -> Shell] /\ cli[c] \in Shell
        BY DEF Typed
      <4>2. cli[c].pc = "fork"
        BY <2>1 DEF Fork, At
      <4>3. QED
        BY <2>1, <4>1, <4>2 DEF Fork, Shell
    <3>3. QED
      BY <3>1, <3>2
  <2>2. QED
    BY <2>1, CountedShrinks DEF Next
<1>2. CASE RemovePidFile(d)
  <2>1. d \notin Counted'
    BY <1>2 DEF RemovePidFile, Counted, Alive, Typed
  <2>2. CASE d \in astray
    <3>1. CASE pid_file = NoPid
      BY <1>1, <1>2, <3>1 DEF RemovePidFile
    <3>2. CASE pid_file # NoPid
      <4>1. pid_file \in astray'
        BY <1>2, <2>2, <3>2 DEF RemovePidFile
      <4>2. QED
        BY <1>1, <4>1 DEF Counted
    <3>3. QED
      BY <3>1, <3>2
  <2>3. CASE d \notin astray
    <3>1. d \in Counted
      BY <1>2, <2>3 DEF RemovePidFile, Counted, Alive
    <3>2. QED
      BY <1>1, <2>1, <3>1
  <2>4. QED
    BY <2>2, <2>3
<1>3. CASE pid_file' = pid_file
  BY <1>1, <1>3
<1>4. QED
  BY <1>1, <1>2, <1>3
  DEF Process, InstallHandlers, WriteRecorderStatus, Leave,
      RunListenerReturns, Exit, Crash

LEMMA OneAtATimeStep ==
  ASSUME Typed, OneAtATime, [Next]_vars
  PROVE  OneAtATime'
<1>1. ASSUME NEW c \in Clis, Begin(c)
      PROVE  OneAtATime'
  <2>1. overlaps' \in Nat /\ (overlaps' = 0 => \A o \in Clis : ~Busy(o))
        /\ (overlaps' = 0 => overlaps = 0)
    BY <1>1 DEF Begin, OneAtATime
  <2>2. /\ Counted' = Counted /\ pid_file' = pid_file
        /\ cli'[c].pc = "read" /\ cli'[c].clis = {}
        /\ \A x \in Clis \ {c} : cli'[x] = cli[x]
    BY <1>1 DEF Begin, Counted, Alive, Typed, Idle
  <2>3. \A x \in Clis : Busy(x)' => x = c \/ Busy(x)
    BY <2>2 DEF Busy
  <2>4. Busy(c)'
    BY <2>2 DEF Busy
  <2>5. overlaps' = 0 => Near(cli'[c], Counted', pid_file')
    BY <2>1, <2>2 DEF OneAtATime, Near
  <2>6. QED
    BY <2>1, <2>3, <2>4, <2>5 DEF OneAtATime
<1>2. ASSUME NEW c \in Clis, Command(c)
      PROVE  OneAtATime'
  <2>1. Busy(c)
    BY <1>2
    DEF Command, ReadToStart, ReadToStop, ReadToUse, Fork, NoFork,
        TruncatePidFile, WritePidFile, PidFileNotWritten, RequestStop,
        WaitForProcessExit, FiveSecondsPass, ForceStop, FindSiblings,
        StopSibling, StopCommand, SiblingsDone, ForgetPid, ForgetStatus,
        Signal, Unhealthy, At, Busy
  <2>2. overlaps' = overlaps
    BY <1>2
    DEF Command, ReadToStart, ReadToStop, ReadToUse, Fork, NoFork,
        TruncatePidFile, WritePidFile, PidFileNotWritten, RequestStop,
        WaitForProcessExit, FiveSecondsPass, ForceStop, FindSiblings,
        StopSibling, StopCommand, SiblingsDone, ForgetPid, ForgetStatus,
        Signal, Unhealthy
  <2>3. \A x \in Clis \ {c} : Busy(x)' => Busy(x)
    BY <1>2, OtherShells DEF Busy, Idle
  <2>4. overlaps = 0 => Near(cli'[c], Counted', pid_file')
    BY <1>2, <2>1, CommandNear DEF OneAtATime
  <2>5. ~Busy(c)' => cli'[c].pc = "idle"
    BY DEF Busy
  <2>6. QED
    BY <2>1, <2>2, <2>3, <2>4, <2>5 DEF OneAtATime, Near
<1>3. ASSUME NEW d \in Pids, Process(d)
      PROVE  OneAtATime'
  <2>1. cli' = cli /\ overlaps' = overlaps
    BY <1>3 DEF Process, InstallHandlers, WriteRecorderStatus, Leave,
                RunListenerReturns, RemovePidFile, Exit, Crash
  <2>2. \A x \in Clis : Busy(x)' <=> Busy(x)
    BY <2>1 DEF Busy
  <2>3. /\ Counted' \subseteq Counted
        /\ Counted \subseteq {pid_file} => Counted' \subseteq {pid_file'}
    BY <1>3, ProcessNear
  <2>4. \A x \in Clis : Near(cli[x], Counted, pid_file) =>
                         Near(cli[x], Counted', pid_file')
    BY <2>3 DEF Near
  <2>5. QED
    BY <2>1, <2>2, <2>3, <2>4 DEF OneAtATime
<1>4. CASE UNCHANGED vars \/ Replace
  BY <1>4 DEF vars, Replace, OneAtATime, Busy, Counted, Alive
<1>5. QED
  BY <1>1, <1>2, <1>3, <1>4 DEF Next

\* While commands come one at a time, there is at most one daemon that has not
\* gone astray, and between commands the pid file names it, whenever daemons
\* crash or leave by themselves and whatever cannot be written, signalled or
\* removed (core.cpp:404, 425, 606, 636).
THEOREM PidFileFollows == Spec => []PidFileNamesDaemon
<1>1. Init => OneAtATime
  BY DEF Init, OneAtATime, Counted, Alive, Busy, Idle
<1>2. Typed /\ OneAtATime /\ [Next]_vars => OneAtATime'
  BY OneAtATimeStep
<1>3. OneAtATime => PidFileNamesDaemon
  BY DEF OneAtATime, PidFileNamesDaemon, Counted
<1>4. IInv => Typed
  BY DEF IInv
<1>5. QED
  BY <1>1, <1>2, <1>3, <1>4, Invariant, PTL DEF Spec

-----------------------------------------------------------------------------
\* What TypeOK says besides Typed.  A signal is sent to a process only.
Bounded ==
  /\ shot \subseteq Pids
  /\ commands \in 0..MaxCommands /\ overlaps \in 0..MaxOverlaps

LEMMA BoundedStep ==
  ASSUME IInv, Bounded, [Next]_vars
  PROVE  Bounded'
<1> USE LifecycleParameters
<1>1. ASSUME NEW c \in Clis, Begin(c)
      PROVE  Bounded'
  BY <1>1 DEF Begin, Bounded
<1>2. ASSUME NEW c \in Clis, Command(c)
      PROVE  Bounded'
  <2>1. commands' = commands /\ overlaps' = overlaps
    BY <1>2 DEF Command, ReadToStart, ReadToStop, ReadToUse, Fork, NoFork,
                TruncatePidFile, WritePidFile, PidFileNotWritten, RequestStop,
                WaitForProcessExit, FiveSecondsPass, ForceStop, FindSiblings,
                StopSibling, StopCommand, SiblingsDone, ForgetPid,
                ForgetStatus, Signal, Unhealthy
  <2>2. shot' \subseteq Pids
    <3>1. CASE Signal(c)
      <4>1. cli[c].pid \in Pids
        BY <3>1 DEF Signal, At, IInv, OnTrack, Typed, Shell
      <4>2. QED
        BY <3>1, <4>1 DEF Signal, Bounded
    <3>2. CASE shot' = shot
      BY <3>2 DEF Bounded
    <3>3. QED
      BY <1>2, <3>1, <3>2
      DEF Command, ReadToStart, ReadToStop, ReadToUse, Fork, NoFork,
          TruncatePidFile, WritePidFile, PidFileNotWritten, RequestStop,
          WaitForProcessExit, FiveSecondsPass, ForceStop, FindSiblings,
          StopSibling, StopCommand, SiblingsDone, ForgetPid, ForgetStatus,
          Unhealthy
  <2>3. QED
    BY <2>1, <2>2 DEF Bounded
<1>3. ASSUME NEW d \in Pids, Process(d)
      PROVE  Bounded'
  BY <1>3 DEF Process, InstallHandlers, WriteRecorderStatus, Leave,
              RunListenerReturns, RemovePidFile, Exit, Crash, Bounded
<1>4. CASE UNCHANGED vars \/ Replace
  BY <1>4 DEF vars, Replace, Bounded
<1>5. QED
  BY <1>1, <1>2, <1>3, <1>4 DEF Next

\* Every variable keeps its type; in particular what a save or a choice signals
\* is the process its pid file named when it was read (core.cpp:682, 733).
THEOREM TypeCorrect == Spec => []TypeOK
<1>1. Init => Bounded
  BY LifecycleParameters DEF Init, Bounded
<1>2. IInv /\ Bounded /\ [Next]_vars => Bounded'
  BY BoundedStep
<1>3. IInv /\ Bounded => TypeOK
  BY DEF IInv, Typed, Shell, Bounded, TypeOK
<1>4. QED
  BY <1>1, <1>2, <1>3, Invariant, PTL DEF Spec

-----------------------------------------------------------------------------
(* The settings.                                                           *)

\* What AsRead makes of the value of one key.
ReadBack(key, value) ==
  IF key = "directory" /\ value = DefaultDirectory
  THEN Resolve(DefaultDirectory)
  ELSE Printed(key, value)

\* Reading what was printed changes a value as AsRead says and no more.
Stable(key, value) ==
  /\ Understood(key, Printed(key, value))
  /\ Meaning(key, Printed(key, value)) = ReadBack(key, value)

StableSettings(settings) ==
  /\ settings = [key \in Key |-> settings[key]]
  /\ \A key \in Key : Stable(key, settings[key])

LEMMA KeysInOrder ==
  /\ Len(Keys) = 9
  /\ Key = {"clip_length", "keybind", "directory", "video", "audio",
            "audio_source", "encoder", "sound_path", "volume"}
  /\ \A i \in 1..9 : Keys[i] \in Key
  /\ \A key \in Key : \E i \in 1..9 : Keys[i] = key
  /\ \A i, j \in 1..9 : Keys[i] = Keys[j] => i = j
  <1>1. /\ Len(Keys) = 9 /\ DOMAIN Keys = 1..9
        /\ Keys[1] = "clip_length" /\ Keys[2] = "keybind"
        /\ Keys[3] = "directory" /\ Keys[4] = "video" /\ Keys[5] = "audio"
        /\ Keys[6] = "audio_source" /\ Keys[7] = "encoder"
        /\ Keys[8] = "sound_path" /\ Keys[9] = "volume"
    BY DEF Keys
  <1>2. 1..9 = {1, 2, 3, 4, 5, 6, 7, 8, 9}
    OBVIOUS
  <1>3. Key = {Keys[i] : i \in 1..9}
    BY <1>1 DEF Key, Range
  <1>4. Key = {"clip_length", "keybind", "directory", "video", "audio",
               "audio_source", "encoder", "sound_path", "volume"}
    BY <1>1, <1>2, <1>3
  <1> QED
    BY <1>1, <1>2, <1>3, <1>4

LEMMA Roots ==
  /\ DOMAIN Root = {"clips", "out"}
  /\ Root["clips"] = "/root/clips" /\ Root["out"] = "/root/out"
  BY DEF Root

LEMMA ResolvedTwice == \A path : Resolve(Resolve(path)) = Resolve(path)
  BY Roots DEF Resolve

LEMMA ReadBackTwice ==
  \A key, value : ReadBack(key, ReadBack(key, value)) = ReadBack(key, value)
  BY ResolvedTwice DEF ReadBack, Printed

LEMMA BooleanWords ==
  /\ DOMAIN Booleans = {"true", "on", "false", "off"}
  /\ Booleans["true"] = "true" /\ Booleans["on"] = "true"
  /\ Booleans["false"] = "false" /\ Booleans["off"] = "false"
  BY DEF Booleans

\* Whatever is read is stable, ...
LEMMA MeaningStable ==
  ASSUME NEW key \in Key, NEW value, Understood(key, value)
  PROVE  Stable(key, Meaning(key, value))
  <1> USE BooleanWords DEF Stable, ReadBack, Understood, Meaning, Printed
  <1>1. CASE key = "clip_length"
    BY <1>1
  <1>2. CASE key = "keybind"
    BY <1>2
  <1>3. CASE key = "directory"
    <2>1. value # "" /\ Resolve(value) # ""
      BY <1>3, Roots DEF Resolve
    <2>2. Resolve(Resolve(value)) = Resolve(value)
      BY ResolvedTwice
    <2> QED
      BY <1>3, <2>1, <2>2
  <1>4. CASE key = "video"
    BY <1>4
  <1>5. CASE key = "audio"
    BY <1>5
  <1>6. CASE key = "audio_source"
    BY <1>6
  <1>7. CASE key = "encoder"
    BY <1>7
  <1>8. CASE key = "sound_path"
    BY <1>8, ResolvedTwice
  <1>9. CASE key = "volume"
    BY <1>9
  <1> QED
    BY <1>1, <1>2, <1>3, <1>4, <1>5, <1>6, <1>7, <1>8, <1>9, KeysInOrder

\* ... as are the values that are set where nothing was read.
LEMMA DefaultStable == \A key \in Key : Stable(key, Default[key])
  <1>1. DefaultDirectory # "" /\ Resolve("") = ""
    BY SettingsParameters, Roots DEF SettingsParameters, Resolve
  <1> USE BooleanWords, <1>1
      DEF Default, Stable, ReadBack, Understood, Meaning, Printed
  <1>2. Stable("clip_length", Default["clip_length"])
    OBVIOUS
  <1>3. Stable("keybind", Default["keybind"])
    OBVIOUS
  <1>4. Stable("directory", Default["directory"])
    OBVIOUS
  <1>5. Stable("video", Default["video"])
    OBVIOUS
  <1>6. Stable("audio", Default["audio"])
    OBVIOUS
  <1>7. Stable("audio_source", Default["audio_source"])
    OBVIOUS
  <1>8. Stable("encoder", Default["encoder"])
    OBVIOUS
  <1>9. Stable("sound_path", Default["sound_path"])
    OBVIOUS
  <1>10. Stable("volume", Default["volume"])
    OBVIOUS
  <1> HIDE DEF Default, Stable
  <1> QED
    BY <1>2, <1>3, <1>4, <1>5, <1>6, <1>7, <1>8, <1>9, <1>10, KeysInOrder

LEMMA LoadStable ==
  ASSUME NEW lines
  PROVE  StableSettings(Load(lines))
  <1>1. ASSUME NEW key \in Key PROVE Stable(key, Load(lines)[key])
    <2>1. CASE Counts(lines, key) = {}
      BY <2>1, DefaultStable DEF Load
    <2>2. CASE Counts(lines, key) # {}
      <3>1. PICK i \in Counts(lines, key) :
              Load(lines)[key] = Meaning(key, lines[i][2])
        BY <2>2 DEF Load
      <3>2. Understood(key, lines[i][2])
        BY DEF Counts, Gives
      <3> QED
        BY <3>1, <3>2, MeaningStable
    <2> QED
      BY <2>1, <2>2
  <1>2. Load(lines) = [key \in Key |-> Load(lines)[key]]
    BY DEF Load
  <1> QED
    BY <1>1, <1>2 DEF StableSettings

LEMMA LinesInOrder ==
  ASSUME NEW settings
  PROVE  /\ DOMAIN Lines(settings) = 1..9
         /\ \A i \in 1..9 : Lines(settings)[i]
              = <<Keys[i], Printed(Keys[i], settings[Keys[i]])>>
         /\ Lines(settings) \o <<>> = Lines(settings)
  <1>1. /\ DOMAIN Lines(settings) = 1..9
        /\ Lines(settings) = [i \in 1..9 |->
             <<Keys[i], Printed(Keys[i], settings[Keys[i]])>>]
    BY KeysInOrder DEF Lines
  <1> DEFINE S == {<<Keys[i], Printed(Keys[i], settings[Keys[i]])>> : i \in 1..9}
  <1>2. Lines(settings) \in [1..9 -> S]
    BY <1>1
  <1>3. Lines(settings) \in Seq(S)
    BY <1>2, SeqDef
  <1>4. Lines(settings) \o <<>> = Lines(settings)
    BY <1>3, ConcatEmptySeq
  <1> QED
    BY <1>1, <1>4

\* What is written is read as AsRead says.
LEMMA ReadsBack ==
  ASSUME NEW settings, StableSettings(settings)
  PROVE  Load(Lines(settings)) = AsRead(settings)
  <1> DEFINE lines == Lines(settings)
  <1>1. ASSUME NEW key \in Key
        PROVE  Load(lines)[key] = ReadBack(key, settings[key])
    <2>1. PICK i \in 1..9 : Keys[i] = key
      BY KeysInOrder
    <2>2. /\ DOMAIN lines = 1..9
          /\ \A j \in 1..9 : lines[j]
               = <<Keys[j], Printed(Keys[j], settings[Keys[j]])>>
      BY LinesInOrder
    <2>3. /\ Understood(key, Printed(key, settings[key]))
          /\ Meaning(key, Printed(key, settings[key]))
               = ReadBack(key, settings[key])
      BY DEF StableSettings, Stable
    <2>4. \A j \in 1..9 : Gives(lines[j], key) => j = i
      BY <2>1, <2>2, KeysInOrder DEF Gives
    <2>5. Gives(lines[i], key)
          /\ lines[i][2] = Printed(key, settings[key])
      BY <2>1, <2>2, <2>3 DEF Gives
    <2> HIDE DEF lines
    <2>6. Counts(lines, key) = {i}
      BY <2>2, <2>4, <2>5 DEF Counts
    <2>7. Load(lines)[key] = Meaning(key, lines[i][2])
      BY <2>6 DEF Load
    <2> QED
      BY <2>3, <2>5, <2>7
  <1>2. Load(lines) = [key \in Key |-> Load(lines)[key]]
    BY DEF Load
  <1>3. AsRead(settings) = [key \in Key |-> ReadBack(key, settings[key])]
    BY DEF AsRead, ReadBack
  <1> HIDE DEF lines
  <1>4. Load(lines) = AsRead(settings)
    BY <1>1, <1>2, <1>3
  <1> QED
    BY <1>4 DEF lines

LEMMA ReadAgain ==
  ASSUME NEW settings
  PROVE  AsRead(AsRead(settings)) = AsRead(settings)
  <1>1. \A s : AsRead(s) = [key \in Key |-> ReadBack(key, s[key])]
    BY DEF AsRead, ReadBack
  <1> QED
    BY <1>1, ReadBackTwice

-----------------------------------------------------------------------------

\* Every setting in memory was read or set.
Shape ==
  /\ DOMAIN proc = Procs
  /\ \A p \in Procs :
       /\ proc[p] = [pc |-> proc[p].pc, settings |-> proc[p].settings,
                     result |-> proc[p].result]
       /\ StableSettings(proc[p].settings)

\* While nothing was lost one command runs at a time; it knows what the user
\* wants, and so does the file unless it is being written.
Faithful ==
  ~lost =>
    /\ \A p, q \in Procs : Running(p) /\ Running(q) => p = q
    /\ \A p \in Procs :
         /\ Running(p) => AsRead(proc[p].settings) = AsRead(wanted)
         /\ Reached(p, "close") => file = <<>>
    /\ (\A p \in Procs : Reached(p, "idle") \/ Reached(p, "loaded")) =>
         AsRead(Load(file)) = AsRead(wanted)

LEMMA AtRestStable == StableSettings(AtRest.settings) /\ AtRest.pc = "idle"
  BY LoadStable DEF AtRest

LEMMA InitFaithful == SettingsInit => Shape /\ Faithful
  <1> SUFFICES ASSUME SettingsInit PROVE Shape /\ Faithful
    OBVIOUS
  <1>1. /\ DOMAIN proc = Procs /\ wanted = Load(file)
        /\ \A p \in Procs : proc[p] = AtRest
    BY DEF SettingsInit
  <1>2. Shape
    BY <1>1, AtRestStable DEF Shape, AtRest
  <1>3. Faithful
    BY <1>1, AtRestStable DEF Faithful, Running, Reached
  <1> QED
    BY <1>2, <1>3

\* What a step of one command leaves of the others, and of itself.
LEMMA OneMoves ==
  ASSUME Shape, NEW p \in Procs, NEW pc, NEW settings, NEW result,
         StableSettings(settings),
         \/ proc' = [proc EXCEPT ![p] = [pc |-> pc, settings |-> settings,
                                         result |-> result]]
         \/ /\ proc' = [proc EXCEPT ![p].pc = pc, ![p].settings = settings]
            /\ result = proc[p].result
         \/ /\ proc' = [proc EXCEPT ![p].pc = pc, ![p].result = result]
            /\ settings = proc[p].settings
         \/ /\ proc' = [proc EXCEPT ![p].pc = pc]
            /\ settings = proc[p].settings /\ result = proc[p].result
  PROVE  /\ Shape'
         /\ proc'[p].pc = pc /\ proc'[p].settings = settings
         /\ \A q \in Procs \ {p} : proc'[q] = proc[q]
  <1> DEFINE r == [pc |-> pc, settings |-> settings, result |-> result]
  <1>1. /\ DOMAIN proc = Procs
        /\ proc[p] = [pc |-> proc[p].pc, settings |-> proc[p].settings,
                      result |-> proc[p].result]
    BY DEF Shape
  <1>2. proc' = [proc EXCEPT ![p] = r]
    BY <1>1
  <1>3. /\ DOMAIN proc' = Procs /\ proc'[p] = r
        /\ \A q \in Procs \ {p} : proc'[q] = proc[q]
    BY <1>1, <1>2
  <1>4. r.pc = pc /\ r.settings = settings /\ r.result = result
    OBVIOUS
  <1>5. r = [pc |-> r.pc, settings |-> r.settings, result |-> r.result]
    BY <1>4
  <1> HIDE DEF r
  <1> QED
    BY <1>3, <1>4, <1>5 DEF Shape

LEMMA LoadPreserves ==
  ASSUME Shape, Faithful, NEW p \in Procs, LoadSettings(p)
  PROVE  Shape' /\ Faithful'
  <1>1. /\ Shape'
        /\ proc'[p].pc = "loaded" /\ proc'[p].settings = Load(file)
        /\ \A q \in Procs \ {p} : proc'[q] = proc[q]
    <2>1. proc' = [proc EXCEPT ![p] = [pc |-> "loaded", settings |-> Load(file),
                                       result |-> "none"]]
      BY DEF LoadSettings
    <2> QED
      BY <2>1, LoadStable, OneMoves
  <1>2. Reached(p, "idle") /\ file' = file /\ wanted' = wanted
    BY DEF LoadSettings
  <1>3. ~lost' => ~lost /\ \A q \in Procs \ {p} : ~Running(q)
    BY Zenon DEF LoadSettings
  <1>4. Faithful'
    BY <1>1, <1>2, <1>3 DEF Faithful, Running, Reached
  <1> QED
    BY <1>1, <1>4

StableChanges(changes) ==
  \A key \in Key : key \in DOMAIN changes => Stable(key, changes[key])

LEMMA SetPreserves ==
  ASSUME Shape, Faithful, NEW p \in Procs, NEW changes, Set(p, changes),
         StableChanges(changes)
  PROVE  Shape' /\ Faithful'
  <1> DEFINE own == proc[p].settings
             set == [key \in Key |->
                       IF key \in DOMAIN changes THEN changes[key] ELSE own[key]]
  <1>1. StableSettings(set)
    <2>1. \A key \in Key : Stable(key, own[key])
      BY DEF Shape, StableSettings
    <2>2. \A key \in Key : Stable(key, set[key])
      BY <2>1 DEF StableChanges
    <2> QED
      BY <2>2 DEF StableSettings
  <1>4. /\ Shape'
        /\ proc'[p].pc = "open" /\ proc'[p].settings = set
        /\ \A q \in Procs \ {p} : proc'[q] = proc[q]
    <2>1. proc' = [proc EXCEPT ![p].pc = "open", ![p].settings = set]
      BY DEF Set
    <2> HIDE DEF set
    <2> QED
      BY <1>1, <2>1, OneMoves
  <1>5. /\ Reached(p, "loaded") /\ file' = file /\ lost' = lost
        /\ wanted' = [key \in Key |->
             IF key \in DOMAIN changes THEN changes[key] ELSE wanted[key]]
    BY DEF Set
  <1>6. AsRead(own) = AsRead(wanted) => AsRead(set) = AsRead(wanted')
    <2> SUFFICES ASSUME AsRead(own) = AsRead(wanted)
                 PROVE  AsRead(set) = AsRead(wanted')
      OBVIOUS
    <2>1. ASSUME NEW key \in Key
          PROVE  ReadBack(key, set[key]) = ReadBack(key, wanted'[key])
      <3>1. /\ AsRead(own)[key] = ReadBack(key, own[key])
            /\ AsRead(wanted)[key] = ReadBack(key, wanted[key])
        BY DEF AsRead, ReadBack
      <3> QED
        BY <1>5, <3>1
    <2> HIDE DEF set
    <2> QED
      BY <2>1 DEF AsRead, ReadBack
  <1> HIDE DEF set
  <1>7. Faithful'
    BY <1>4, <1>5, <1>6 DEF Faithful, Running, Reached
  <1> QED
    BY <1>4, <1>7

LEMMA StableValues ==
  /\ Stable("clip_length", "60") /\ Stable("keybind", "Ctrl+Alt+K")
  /\ \A path \in {"clips", "/clips"} : Stable("directory", Resolve(path))
  /\ \A enabled \in {"true", "false"} : Stable("audio", enabled)
  /\ \A source \in {"auto", "mic"} : Stable("audio_source", source)
  /\ \A encoder \in {"openh264", "x264"} : Stable("encoder", encoder)
  <1> USE DEF Stable, ReadBack, Understood, Meaning, Printed
  <1>1. \A path \in {"clips", "/clips"} : Stable("directory", Resolve(path))
    <2>1. \A path \in {"clips", "/clips"} :
            Resolve(path) # "" /\ Resolve(Resolve(path)) = Resolve(path)
      BY Roots, ResolvedTwice DEF Resolve
    <2> QED
      BY <2>1
  <1> QED
    BY <1>1, BooleanWords

LEMMA SetterPreserves ==
  ASSUME Shape, Faithful, NEW p \in Procs, Setter(p)
  PROVE  Shape' /\ Faithful'
  <1>1. PICK changes : Set(p, changes) /\ StableChanges(changes)
    <2>1. CASE SetClipLength(p)
      <3>1. StableChanges([clip_length |-> "60"])
        BY StableValues DEF StableChanges
      <3> QED
        BY <2>1, <3>1 DEF SetClipLength
    <2>2. CASE SetSaveKeybind(p)
      <3>1. StableChanges([keybind |-> "Ctrl+Alt+K"])
        BY StableValues DEF StableChanges
      <3> QED
        BY <2>2, <3>1 DEF SetSaveKeybind
    <2>3. CASE SetClipDirectory(p)
      <3>1. \A path \in {"clips", "/clips"} :
              StableChanges([directory |-> Resolve(path)])
        BY StableValues DEF StableChanges
      <3> QED
        BY <2>3, <3>1 DEF SetClipDirectory
    <2>4. CASE SetCaptureAudioEnabled(p)
      <3>1. \A enabled \in {"true", "false"} : StableChanges([audio |-> enabled])
        BY StableValues DEF StableChanges
      <3> QED
        BY <2>4, <3>1 DEF SetCaptureAudioEnabled
    <2>5. CASE SetCaptureAudioAuto(p)
      <3>1. StableChanges([audio |-> "true", audio_source |-> "auto"])
        BY StableValues DEF StableChanges
      <3> QED
        BY <2>5, <3>1 DEF SetCaptureAudioAuto
    <2>6. CASE SetCaptureAudioSource(p)
      <3>1. \A source \in {"auto", "mic"} :
              StableChanges([audio |-> "true", audio_source |-> source])
        BY StableValues DEF StableChanges
      <3>2. PICK source \in {"", "mic"} :
              Set(p, [audio |-> "true",
                audio_source |-> IF source = "" THEN "auto" ELSE source])
        BY <2>6 DEF SetCaptureAudioSource
      <3>3. (IF source = "" THEN "auto" ELSE source) \in {"auto", "mic"}
        OBVIOUS
      <3> QED
        BY <3>1, <3>2, <3>3
    <2>7. CASE SetEncoder(p)
      <3>1. \A encoder \in {"openh264", "x264"} :
              StableChanges([encoder |-> encoder])
        BY StableValues DEF StableChanges
      <3> QED
        BY <2>7, <3>1 DEF SetEncoder
    <2>8. CASE Rewrite(p)
      <3>1. StableChanges(<<>>)
        BY DEF StableChanges
      <3> QED
        BY <2>8, <3>1 DEF Rewrite
    <2> QED
      BY <2>1, <2>2, <2>3, <2>4, <2>5, <2>6, <2>7, <2>8 DEF Setter
  <1> QED
    BY <1>1, SetPreserves

LEMMA RefusePreserves ==
  ASSUME Shape, Faithful, NEW p \in Procs, Refuse(p)
  PROVE  Shape' /\ Faithful'
  <1>1. StableSettings(proc[p].settings)
    BY DEF Shape
  <1>2. proc' = [proc EXCEPT ![p].pc = "idle", ![p].result = "failed"]
    BY DEF Refuse
  <1>3. /\ Shape'
        /\ proc'[p].pc = "idle"
        /\ \A q \in Procs \ {p} : proc'[q] = proc[q]
    BY <1>1, <1>2, OneMoves
  <1>4. /\ Reached(p, "loaded") /\ file' = file /\ wanted' = wanted
        /\ lost' = lost
    BY DEF Refuse
  <1>5. Faithful'
    BY <1>3, <1>4 DEF Faithful, Running, Reached
  <1> QED
    BY <1>3, <1>5

LEMMA OpenPreserves ==
  ASSUME Shape, Faithful, NEW p \in Procs, Open(p)
  PROVE  Shape' /\ Faithful'
  <1>1. StableSettings(proc[p].settings)
    BY DEF Shape
  <1>2. proc' = [proc EXCEPT ![p].pc = "close", ![p].result = "saved"]
    BY DEF Open
  <1>3. /\ Shape'
        /\ proc'[p].pc = "close" /\ proc'[p].settings = proc[p].settings
        /\ \A q \in Procs \ {p} : proc'[q] = proc[q]
    BY <1>1, <1>2, OneMoves
  <1>4. /\ Reached(p, "open") /\ file' = <<>> /\ wanted' = wanted
        /\ lost' = lost
    BY DEF Open
  <1>5. Faithful'
    BY <1>3, <1>4 DEF Faithful, Running, Reached
  <1> QED
    BY <1>3, <1>5

LEMMA ClosePreserves ==
  ASSUME Shape, Faithful, NEW p \in Procs, Close(p)
  PROVE  Shape' /\ Faithful'
  <1>1. StableSettings(proc[p].settings)
    BY DEF Shape
  <1>2. proc' = [proc EXCEPT ![p].pc = "idle"]
    BY DEF Close, Advance
  <1>3. /\ Shape'
        /\ proc'[p].pc = "idle"
        /\ \A q \in Procs \ {p} : proc'[q] = proc[q]
    BY <1>1, <1>2, OneMoves
  <1>4. Reached(p, "close") /\ wanted' = wanted /\ lost' = lost
    BY DEF Close
  <1>5. ASSUME ~lost
        PROVE  AsRead(Load(file')) = AsRead(wanted)
    <2>1. file = <<>> /\ AsRead(proc[p].settings) = AsRead(wanted)
      BY <1>4, <1>5 DEF Faithful, Running, Reached
    <2>2. file' = Lines(proc[p].settings)
      <3>1. PICK rest \in {<<>>} \cup (Suffixes(file) \ {file}) :
              file' = Lines(proc[p].settings) \o rest
        BY DEF Close
      <3>2. rest = <<>>
        BY <2>1 DEF Suffixes
      <3> QED
        BY <3>1, <3>2, LinesInOrder
    <2> QED
      BY <1>1, <2>1, <2>2, ReadsBack, ReadAgain
  <1>6. Faithful'
    BY <1>3, <1>4, <1>5 DEF Faithful, Running, Reached
  <1> QED
    BY <1>3, <1>6

LEMMA FaultPreserves ==
  ASSUME Shape, Faithful, NEW p \in Procs, CloseOnFullDisk(p) \/ Interrupt(p)
  PROVE  Shape' /\ Faithful'
  <1>1. StableSettings(proc[p].settings)
    BY DEF Shape
  <1>2. \/ proc' = [proc EXCEPT ![p].pc = "idle"]
        \/ proc' = [proc EXCEPT ![p] = [pc |-> "idle", settings |-> Load(<<>>),
                                        result |-> "none"]]
    BY DEF CloseOnFullDisk, Interrupt, Advance, AtRest
  <1>3. Shape'
    BY <1>1, <1>2, OneMoves, LoadStable
  <1>4. lost'
    BY Zenon DEF CloseOnFullDisk, Interrupt
  <1> QED
    BY <1>3, <1>4 DEF Faithful

LEMMA EditPreserves == ASSUME Edit PROVE Shape' /\ Faithful'
  <1>1. /\ DOMAIN proc' = Procs /\ wanted' = Load(file')
        /\ \A p \in Procs : proc'[p] = AtRest
    BY DEF Edit
  <1>2. Shape'
    BY <1>1, AtRestStable DEF Shape, AtRest
  <1>3. Faithful'
    BY <1>1, AtRestStable DEF Faithful, Running, Reached
  <1> QED
    BY <1>2, <1>3

LEMMA StepFaithful ==
  Shape /\ Faithful /\ [SettingsNext]_settingsVars => Shape' /\ Faithful'
  <1> SUFFICES ASSUME Shape, Faithful, [SettingsNext]_settingsVars
               PROVE  Shape' /\ Faithful'
    OBVIOUS
  <1>1. CASE UNCHANGED settingsVars
    BY <1>1 DEF settingsVars, Shape, Faithful, Running, Reached
  <1>2. CASE SettingsNext
    BY <1>2, LoadPreserves, SetterPreserves, RefusePreserves, OpenPreserves,
       ClosePreserves, FaultPreserves, EditPreserves
    DEF SettingsNext
  <1> QED
    BY <1>1, <1>2

\* Whatever file a command started from, wherever the default directory is and
\* however commands cross, what a command is about to write is what the next one
\* reads, but for the two changes of AsRead (settings_store.cpp:223-242, 77-201).
THEOREM ReadsWhatIsWritten == SettingsSpec => []WrittenIsRead
  <1>1. Shape /\ Faithful => WrittenIsRead
    BY ReadsBack DEF Shape, WrittenIsRead
  <1> QED
    BY <1>1, InitFaithful, StepFaithful, PTL DEF SettingsSpec

\* With any number of shells and commands and any default directory: while no
\* two commands overlap and none is interrupted, the file holds every change ever
\* asked for, but for the two changes of AsRead (core.cpp:855-1002).
THEOREM KeepsChanges == SettingsSpec => []ChangesSurvive
  <1>1. Shape /\ Faithful => ChangesSurvive
    BY DEF Faithful, ChangesSurvive, Running
  <1> QED
    BY <1>1, InitFaithful, StepFaithful, PTL DEF SettingsSpec

-----------------------------------------------------------------------------
(* The types of the settings.                                              *)

\* Lines of a key and a value each.
Text(lines) ==
  /\ lines \in Seq(Range(lines))
  /\ \A i \in DOMAIN lines : Len(lines[i]) = 2

LEMMA TextOf ==
  ASSUME NEW n \in Nat, NEW f, f = [i \in 1..n |-> f[i]],
         \A i \in 1..n : Len(f[i]) = 2
  PROVE  Text(f)
  <1>1. DOMAIN f = 1..n
    OBVIOUS
  <1>2. f \in [1..n -> Range(f)]
    BY <1>1 DEF Range
  <1>3. f \in Seq(Range(f))
    BY <1>2
  <1> QED
    BY <1>1, <1>3 DEF Text

LEMMA Positions ==
  ASSUME NEW S, NEW s \in Seq(S)
  PROVE  s = [i \in 1..Len(s) |-> s[i]]
  OBVIOUS

LEMMA Joined ==
  ASSUME NEW a, NEW b, Text(a), Text(b)
  PROVE  Text(a \o b)
  <1> DEFINE S == Range(a) \cup Range(b)
             n == Len(a) + Len(b)
  <1>1. a \in Seq(S) /\ b \in Seq(S)
    BY DEF Text
  <1> HIDE DEF S
  <1>2. /\ n \in Nat
        /\ DOMAIN a = 1..Len(a) /\ DOMAIN b = 1..Len(b)
        /\ a \o b = [i \in 1..n |-> (a \o b)[i]]
        /\ \A i \in 1..n :
             (a \o b)[i] = IF i <= Len(a) THEN a[i] ELSE b[i - Len(a)]
    <2>1. /\ a \o b \in Seq(S) /\ Len(a \o b) = n
          /\ \A i \in 1..n :
               (a \o b)[i] = IF i <= Len(a) THEN a[i] ELSE b[i - Len(a)]
      BY <1>1, ConcatProperties
    <2>2. /\ Len(a) \in Nat /\ Len(b) \in Nat
          /\ DOMAIN a = 1..Len(a) /\ DOMAIN b = 1..Len(b)
      BY <1>1
    <2>3. a \o b = [i \in 1..Len(a \o b) |-> (a \o b)[i]]
      BY <2>1, Positions, Zenon
    <2> QED
      BY <2>1, <2>2, <2>3
  <1>3. ASSUME NEW i \in 1..n
        PROVE  Len((a \o b)[i]) = 2
    <2>1. CASE i <= Len(a)
      BY <1>1, <1>2, <2>1 DEF Text
    <2>2. CASE ~(i <= Len(a))
      <3>1. i - Len(a) \in 1..Len(b)
        BY <1>1, <2>2
      <3> QED
        BY <1>2, <2>2, <3>1 DEF Text
    <2> QED
      BY <2>1, <2>2
  <1> QED
    BY <1>2, <1>3, TextOf

LEMMA PartOf ==
  ASSUME NEW a, Text(a), NEW k \in Nat \ {0}, NEW m \in 0..Len(a)
  PROVE  Text(SubSeq(a, k, m)) /\ Len(SubSeq(a, k, m)) \in Nat
  <1>1. a \in Seq(Range(a)) /\ Len(a) \in Nat /\ DOMAIN a = 1..Len(a)
    BY DEF Text
  <1>2. CASE k > m
    <2>1. SubSeq(a, k, m) = <<>>
      BY <1>1, <1>2
    <2> QED
      BY <2>1 DEF Text, Range
  <1>3. CASE k <= m
    <2> DEFINE n == 1 + m - k
               part == SubSeq(a, k, m)
    <2>1. n \in Nat /\ part = [i \in 1..n |-> a[i + k - 1]]
      BY <1>1, <1>3
    <2>2. \A i \in 1..n : part[i] = a[i + k - 1] /\ i + k - 1 \in 1..Len(a)
      BY <1>1, <1>3, <2>1
    <2>3. part = [i \in 1..n |-> part[i]]
      BY <2>1
    <2> HIDE DEF n, part
    <2>4. Text(part)
      BY <1>1, <2>1, <2>2, <2>3, TextOf DEF Text
    <2>5. Len(part) = n
      BY <2>1
    <2> QED
      BY <2>1, <2>4, <2>5 DEF part
  <1> QED
    BY <1>1, <1>2, <1>3

LEMMA LinesAreText ==
  ASSUME NEW settings
  PROVE  Text(Lines(settings)) /\ Len(Lines(settings)) = 9
  <1>1. 9 \in Nat /\ Lines(settings) = [i \in 1..9 |-> Lines(settings)[i]]
    BY KeysInOrder DEF Lines
  <1>2. \A i \in 1..9 : Len(Lines(settings)[i]) = 2
    BY KeysInOrder DEF Lines
  <1>3. Len(Lines(settings)) = 9
    BY KeysInOrder DEF Lines
  <1> QED
    BY <1>1, <1>2, <1>3, TextOf

Fields ==
  /\ Text(file)
  /\ \A p \in Procs :
       /\ proc[p].pc \in {"idle", "loaded", "open", "close"}
       /\ proc[p].result \in {"none", "saved", "failed"}
  /\ DOMAIN wanted = Key
  /\ begun \in 0..MaxBegun /\ faults \in 0..MaxFaults

LEMMA EmptyText == Text(<<>>)
  BY DEF Text, Range

LEMMA LoadedKeys == ASSUME NEW lines PROVE DOMAIN Load(lines) = Key
  BY DEF Load

\* The file stays text, also when one writes over what another has left.
LEMMA TextKept ==
  ASSUME Fields, [SettingsNext]_settingsVars
  PROVE  Text(file')
  <1>1. Text(file)
    BY DEF Fields
  <1>2. ASSUME NEW p \in Procs, Close(p) PROVE Text(file')
    <2>1. PICK rest \in {<<>>} \cup (Suffixes(file) \ {file}) :
            file' = Lines(proc[p].settings) \o rest
      BY <1>2 DEF Close
    <2>2. CASE rest = <<>>
      BY <2>1, <2>2, LinesAreText, EmptyText, Joined
    <2>3. CASE rest # <<>>
      <3>1. PICK l \in 1..Len(file) : rest = SubSeq(file, l, Len(file))
        BY <2>1, <2>3 DEF Suffixes
      <3>2. Len(file) \in Nat
        BY <1>1 DEF Text
      <3>3. Text(rest)
        BY <1>1, <3>1, <3>2, PartOf
      <3> QED
        BY <2>1, <3>3, LinesAreText, Joined
    <2> QED
      BY <2>2, <2>3
  <1>3. ASSUME NEW p \in Procs, CloseOnFullDisk(p) PROVE Text(file')
    <2> DEFINE all == Lines(proc[p].settings)
    <2>1. PICK start \in Prefixes(all) :
            file' = start \o SubSeq(file, Len(start) + 1, Len(file))
      BY <1>3 DEF CloseOnFullDisk
    <2>2. Text(all) /\ Len(all) = 9 /\ Len(file) \in Nat
      BY <1>1, LinesAreText DEF Text
    <2> HIDE DEF all
    <2>3. PICK l \in 0..Len(all) : start = SubSeq(all, 1, l)
      BY <2>1 DEF Prefixes
    <2>4. Text(start) /\ Len(start) \in Nat
      <3>1. 1 \in Nat \ {0}
        OBVIOUS
      <3>2. Text(SubSeq(all, 1, l)) /\ Len(SubSeq(all, 1, l)) \in Nat
        BY <2>2, <3>1, PartOf
      <3> QED
        BY <2>3, <3>2
    <2>5. Text(SubSeq(file, Len(start) + 1, Len(file)))
      BY <1>1, <2>2, <2>4, PartOf
    <2> QED
      BY <2>1, <2>4, <2>5, Joined
  <1>4. ASSUME NEW p \in Procs, Open(p) PROVE Text(file')
    BY <1>4, EmptyText DEF Open
  <1>5. CASE Edit
    BY <1>5, SettingsParameters DEF Edit, Text
  <1>6. CASE file' = file
    BY <1>1, <1>6
  <1>7. ASSUME NEW p \in Procs,
               LoadSettings(p) \/ Setter(p) \/ Refuse(p) \/ Interrupt(p)
        PROVE  file' = file
    BY <1>7, Zenon
    DEF LoadSettings, Setter, SetClipLength, SetSaveKeybind, SetClipDirectory,
        SetCaptureAudioEnabled, SetCaptureAudioAuto, SetCaptureAudioSource,
        SetEncoder, Rewrite, Set, Refuse, Interrupt
  <1> QED
    BY <1>2, <1>3, <1>4, <1>5, <1>6, <1>7 DEF SettingsNext, settingsVars

LEMMA OneMore ==
  ASSUME NEW n \in Nat, NEW m \in 0..n
  PROVE  m < n => m + 1 \in 0..n
  OBVIOUS

LEMMA CountsKept ==
  ASSUME Fields, [SettingsNext]_settingsVars
  PROVE  begun' \in 0..MaxBegun /\ faults' \in 0..MaxFaults
  <1>1. MaxBegun \in Nat /\ MaxFaults \in Nat
    BY SettingsParameters
  <1>2. begun \in 0..MaxBegun /\ faults \in 0..MaxFaults
    BY DEF Fields
  <1>3. \/ begun' = begun
        \/ /\ begun < MaxBegun
           /\ begun' = begun + 1
    BY Zenon
    DEF SettingsNext, settingsVars, LoadSettings, Setter, SetClipLength,
        SetSaveKeybind, SetClipDirectory, SetCaptureAudioEnabled,
        SetCaptureAudioAuto, SetCaptureAudioSource, SetEncoder, Rewrite, Set,
        Refuse, Open, Close, CloseOnFullDisk, Interrupt, Edit
  <1>4. \/ faults' = faults
        \/ /\ faults < MaxFaults
           /\ faults' = faults + 1
    BY Zenon
    DEF SettingsNext, settingsVars, LoadSettings, Setter, SetClipLength,
        SetSaveKeybind, SetClipDirectory, SetCaptureAudioEnabled,
        SetCaptureAudioAuto, SetCaptureAudioSource, SetEncoder, Rewrite, Set,
        Refuse, Open, Close, CloseOnFullDisk, Interrupt, Edit, Fault
  <1>5. begun' \in 0..MaxBegun
    BY <1>1, <1>2, <1>3, OneMore
  <1>6. faults' \in 0..MaxFaults
    BY <1>1, <1>2, <1>4, OneMore
  <1> QED
    BY <1>5, <1>6

LEMMA FieldsKept ==
  ASSUME Shape, Fields, [SettingsNext]_settingsVars
  PROVE  Fields'
  <1> DEFINE PCOf(k) == k.pc \in {"idle", "loaded", "open", "close"}
             ResultOf(k) == k.result \in {"none", "saved", "failed"}
             Kept == /\ DOMAIN wanted' = Key
                     /\ \A p \in Procs : PCOf(proc'[p]) /\ ResultOf(proc'[p])
  <1>1. /\ DOMAIN wanted = Key /\ DOMAIN proc = Procs
        /\ \A p \in Procs : PCOf(proc[p]) /\ ResultOf(proc[p])
    BY DEF Fields, Shape
  <1>2. ASSUME NEW p \in Procs,
               proc[p] = [pc |-> proc[p].pc, settings |-> proc[p].settings,
                          result |-> proc[p].result]
        PROVE  /\ LoadSettings(p) => Kept
               /\ Setter(p) => Kept
               /\ Refuse(p) => Kept
               /\ Open(p) => Kept
               /\ Close(p) => Kept
               /\ CloseOnFullDisk(p) => Kept
               /\ Interrupt(p) => Kept
    <2>1. LoadSettings(p) => Kept
      BY <1>1, <1>2 DEF LoadSettings
    <2>2. ASSUME Setter(p) PROVE Kept
      <3>1. PICK changes : Set(p, changes)
        BY <2>2, Zenon
        DEF Setter, SetClipLength, SetSaveKeybind, SetClipDirectory,
            SetCaptureAudioEnabled, SetCaptureAudioAuto, SetCaptureAudioSource,
            SetEncoder, Rewrite
      <3> QED
        BY <1>1, <1>2, <3>1 DEF Set
    <2>3. Refuse(p) => Kept
      BY <1>1, <1>2 DEF Refuse
    <2>4. Open(p) => Kept
      BY <1>1, <1>2 DEF Open
    <2>5. Close(p) => Kept
      BY <1>1, <1>2 DEF Close, Advance
    <2>6. CloseOnFullDisk(p) => Kept
      BY <1>1, <1>2 DEF CloseOnFullDisk, Advance
    <2>7. Interrupt(p) => Kept
      BY <1>1, <1>2 DEF Interrupt, AtRest
    <2> QED
      BY <2>1, <2>2, <2>3, <2>4, <2>5, <2>6, <2>7
  <1>3. Edit => Kept
    BY LoadedKeys DEF Edit, AtRest
  <1>4. UNCHANGED settingsVars => Kept
    BY <1>1 DEF settingsVars
  <1>5. Kept
    <2>1. \A p \in Procs :
            proc[p] = [pc |-> proc[p].pc, settings |-> proc[p].settings,
                       result |-> proc[p].result]
      BY DEF Shape
    <2> HIDE DEF Kept
    <2> QED
      BY <1>2, <1>3, <1>4, <2>1 DEF SettingsNext
  <1> QED
    BY <1>5, TextKept, CountsKept DEF Fields

LEMMA LostIsBoolean ==
  ASSUME lost \in BOOLEAN, [SettingsNext]_settingsVars
  PROVE  lost' \in BOOLEAN
  BY Zenon
  DEF SettingsNext, settingsVars, LoadSettings, Setter, SetClipLength,
      SetSaveKeybind, SetClipDirectory, SetCaptureAudioEnabled,
      SetCaptureAudioAuto, SetCaptureAudioSource, SetEncoder, Rewrite, Set,
      Refuse, Open, Close, CloseOnFullDisk, Interrupt, Edit

\* Every variable keeps its type: the file consists of lines, also when two
\* commands write at once or the disk is full, and what a command has in memory
\* is a value of each key (settings_store.cpp:59-244).
THEOREM SettingsTypeCorrect == SettingsSpec => []SettingsTypeOK
  <1>1. SettingsInit => Fields /\ lost \in BOOLEAN
    <2> SUFFICES ASSUME SettingsInit PROVE Fields /\ lost \in BOOLEAN
      OBVIOUS
    <2>1. Text(file) /\ 0 \in 0..MaxBegun /\ 0 \in 0..MaxFaults
      <3>0. MaxBegun \in Nat /\ MaxFaults \in Nat
        BY SettingsParameters
      <3>1. 0 \in 0..MaxBegun /\ 0 \in 0..MaxFaults
        BY <3>0
      <3>2. file \in HandWritten
        BY DEF SettingsInit
      <3>3. Text(file)
        BY <3>2, SettingsParameters, Zenon DEF Text
      <3> QED
        BY <3>1, <3>3
    <2>2. \A p \in Procs : proc[p] = AtRest
      BY DEF SettingsInit
    <2>3. lost = FALSE /\ DOMAIN wanted = Key /\ begun = 0 /\ faults = 0
      BY LoadedKeys, Zenon DEF SettingsInit
    <2>4. Fields
      BY <2>1, <2>2, <2>3 DEF Fields, AtRest
    <2> QED
      BY <2>3, <2>4
  <1>2. /\ Shape /\ Faithful /\ Fields /\ lost \in BOOLEAN
        /\ [SettingsNext]_settingsVars
        => Fields' /\ (lost \in BOOLEAN)'
    BY FieldsKept, LostIsBoolean
  <1>3. ASSUME Shape, NEW p \in Procs
        PROVE  /\ DOMAIN proc[p].settings = Key
               /\ proc[p].settings.video = "portal"
               /\ proc[p].settings.audio \in {"true", "false"}
               /\ proc[p].settings.audio_source # ""
    <2>1. /\ DOMAIN proc[p].settings = Key
          /\ \A key \in Key : Stable(key, proc[p].settings[key])
      BY <1>3 DEF Shape, StableSettings
    <2>2. "video" \in Key /\ "audio" \in Key /\ "audio_source" \in Key
      BY KeysInOrder
    <2>3. /\ Stable("video", proc[p].settings.video)
          /\ Stable("audio", proc[p].settings.audio)
          /\ Stable("audio_source", proc[p].settings.audio_source)
      BY <2>1, <2>2
    <2>4. proc[p].settings.video = "portal"
      BY <2>3 DEF Stable, Meaning, ReadBack, Printed
    <2>5. proc[p].settings.audio \in {"true", "false"}
      BY <2>3, BooleanWords
      DEF Stable, Understood, Meaning, ReadBack, Printed
    <2>6. proc[p].settings.audio_source # ""
      BY <2>3 DEF Stable, Meaning, ReadBack, Printed
    <2> QED
      BY <2>1, <2>4, <2>5, <2>6
  <1>4. Shape /\ Fields /\ lost \in BOOLEAN => SettingsTypeOK
    BY <1>3, Zenon DEF Fields, Text, SettingsTypeOK
  <1> QED
    BY <1>1, <1>2, <1>4, InitFaithful, StepFaithful, PTL DEF SettingsSpec
=============================================================================
