--------------------------- MODULE ClipMuxerProofs ---------------------------
(***************************************************************************)
(* Proofs about ClipMuxer, for any processes, number of calls, selection   *)
(* of segments and length of the clip.                                     *)
(***************************************************************************)
EXTENDS ClipMuxer, TLAPS

Call == [pc : PCs, id : 0..MaxCalls, mode : {"recorder", "checked"},
         todo : SUBSET (1..MaxCalls), stale : SUBSET (1..MaxCalls),
         selected : Nat, looked : Nat, paths : Nat, there : Nat,
         output : [length : Int, black : BOOLEAN], ok : BOOLEAN,
         failure : Failures, result : {"none", "clip", "failed"}]

\* A file longer than all that was selected cannot come out of it.
Bounded(c) ==
  /\ c.looked <= c.selected /\ c.there <= c.paths /\ c.paths <= c.looked
  /\ c.output.length \in -1..(Segment * c.selected)

\* What a call that is about to publish holds has been validated, or is lost.
Validated(c) ==
  c.pc \in {"publish", "copying"} =>
    c.output = Absent \/ (Passes(c) /\ ~MostlyBlack(c))

\* A path is returned by the last step only.
Reached(c) ==
  /\ c.pc # "idle" => c.id # 0
  /\ c.pc \notin {"cleanup", "idle"} => c.result = "none"

Sound(c) == c \in Call /\ Bounded(c) /\ Validated(c) /\ Reached(c)

\* Names are given once, and those of killed processes are not used again.
Names ==
  /\ dirs \subseteq 1..calls /\ killed \subseteq 1..calls
  /\ \A clip \in clips : clip.id \in 1..calls
  /\ \A p \in Procs : call[p].id <= calls /\ call[p].id \notin killed
  /\ \A p, q \in Procs : call[p].id = call[q].id => p = q \/ call[p].id = 0

\* Of what the killed left behind, a call has before it what it has not removed.
Cleaning ==
  \A p \in Procs :
    /\ call[p].stale \subseteq killed
    /\ call[p].pc = "clean" => call[p].stale \cap dirs \subseteq call[p].todo
    /\ call[p].pc \in {"mkdir"} \cup StagingPCs => call[p].stale \cap dirs = {}

Typed ==
  /\ DOMAIN call = Procs /\ call = [p \in Procs |-> call[p]]
  /\ \A p \in Procs : Sound(call[p])
  /\ dirs \subseteq 1..MaxCalls /\ calls \in 0..MaxCalls

IInv == /\ Typed /\ Names /\ Cleaning
        /\ PublishedUsable /\ ReportedPublished /\ NothingLeftBehind

-----------------------------------------------------------------------------
(* The call of one process.                                                *)

\* Only the call of p changes.
OnlyCall(p) == Sound(call'[p]) /\ call' = [call EXCEPT ![p] = call'[p]]

LEMMA Parameters ==
  Modes \subseteq {"recorder", "checked"} /\ Selections \subseteq Nat
    /\ Target \in Nat /\ MaxCalls \in Nat
  BY MuxerParameters DEF MuxerParameters

LEMMA AbsentType ==
  /\ Absent \in [length : Int, black : BOOLEAN] /\ Absent.length = -1
  /\ \A n \in Nat : Absent.length \in -1..(Segment * n)
  BY DEF Absent, Segment

LEMMA IdleSound == Sound(Idle)
  BY Parameters DEF Sound, Call, Bounded, Validated, Reached, Idle, Absent,
     PCs, Failures, Segment

LEMMA InitIInv == Init => IInv
  <1> SUFFICES ASSUME Init PROVE IInv
    OBVIOUS
  <1>1. \A p \in Procs : call[p] = Idle
    BY DEF Init
  <1>2. Idle.id = 0 /\ Idle.pc = "idle" /\ Idle.stale = {}
    BY DEF Idle
  <1>3. Typed
    BY <1>1, IdleSound, Parameters DEF Init, Typed
  <1>4. Names /\ Cleaning
    BY <1>1, <1>2 DEF Init, Names, Cleaning, StagingPCs
  <1> QED
    BY <1>1, <1>2, <1>3, <1>4
    DEF Init, IInv, PublishedUsable, ReportedPublished, NothingLeftBehind

LEMMA Counts ==
  ASSUME NEW c, Sound(c)
  PROVE  /\ c.selected \in Nat /\ c.looked \in Nat
         /\ c.paths \in Nat /\ c.there \in Nat
         /\ c.there <= c.paths /\ c.paths <= c.looked
         /\ c.looked <= c.selected /\ c.there <= c.selected
  <1>1. c \in Call /\ Bounded(c)
    BY DEF Sound
  <1>2. /\ c.selected \in Nat /\ c.looked \in Nat
        /\ c.paths \in Nat /\ c.there \in Nat
    BY <1>1 DEF Call
  <1>3. c.there <= c.paths /\ c.paths <= c.looked /\ c.looked <= c.selected
    BY <1>1 DEF Bounded
  <1>4. c.there <= c.selected
    BY <1>2, <1>3
  <1> QED
    BY <1>2, <1>3, <1>4

LEMMA Within ==
  ASSUME NEW m \in Nat, NEW n \in Nat, m <= n, NEW x \in 0..(Segment * m)
  PROVE  x \in Int /\ x \in -1..(Segment * n)
  BY DEF Segment

LEMMA Only ==
  ASSUME Typed, NEW p \in Procs, NEW r, Sound(r),
         call' = [call EXCEPT ![p] = r]
  PROVE  OnlyCall(p)
  BY DEF Typed, OnlyCall

\* A call that goes on without touching its file or its result.
LEMMA GoesOn ==
  ASSUME Typed, NEW p \in Procs, call[p].pc \notin {"idle", "cleanup"},
         NEW pc \in PCs \ {"idle", "publish", "copying"}, Goto(p, pc)
  PROVE  OnlyCall(p)
  <1>1. Sound([call[p] EXCEPT !.pc = pc])
    <2>1. Sound(call[p])
      BY DEF Typed
    <2> QED
      BY <2>1 DEF Sound, Call, Bounded, Validated, Reached
  <1>2. call' = [call EXCEPT ![p] = [call[p] EXCEPT !.pc = pc]]
    BY DEF Goto, Typed
  <1> QED
    BY <1>1, <1>2, Only

LEMMA Fails ==
  ASSUME Typed, NEW p \in Procs, call[p].pc # "idle",
         NEW pc \in {"idle", "cleanup"}, NEW why \in Failures,
         Fail(p, why, pc)
  PROVE  OnlyCall(p)
  <1> DEFINE r == [call[p] EXCEPT !.pc = pc, !.failure = why,
                                  !.result = "failed"]
  <1>1. Sound(r)
    <2>1. Sound(call[p])
      BY DEF Typed
    <2> QED
      BY <2>1 DEF Sound, Call, Bounded, Validated, Reached, PCs, StagingPCs
  <1>2. call' = [call EXCEPT ![p] = r]
    BY DEF Fail, Typed
  <1> HIDE DEF r
  <1> QED
    BY <1>1, <1>2, Only

\* A call loses what it had in a directory that is removed.
LEMMA Loses ==
  ASSUME NEW c, Sound(c)
  PROVE  Sound([c EXCEPT !.there = 0, !.output = Absent])
  <1> DEFINE r == [c EXCEPT !.there = 0, !.output = Absent]
  <1>1. r \in Call
    BY AbsentType DEF Sound, Call
  <1>2. Bounded(r)
    BY AbsentType DEF Sound, Call, Bounded
  <1>3. Validated(r) /\ Reached(r)
    BY DEF Sound, Call, Validated, Reached
  <1> QED
    BY <1>1, <1>2, <1>3 DEF Sound

\* What a step other than cleaning does to the call of its process.
LEMMA StepSound ==
  ASSUME Typed, NEW p \in Procs, Step(p), ~CleanOne(p)
  PROVE  OnlyCall(p)
  <1> DEFINE c == call[p]
  <1>1. Sound(c)
    BY DEF Typed
  <1>3. CASE NoStaging(p)
    BY <1>3, Fails DEF NoStaging, At, Failures
  <1>4. CASE CleanDone(p)
    BY <1>4, GoesOn DEF CleanDone, At, PCs
  <1>5. CASE MakeStaging(p)
    BY <1>5, GoesOn DEF MakeStaging, At, PCs, StagingPCs
  <1>6. CASE StageSegment(p)
    <2>1. PICK n \in {0, 1} :
            call' = [call EXCEPT ![p].looked = @ + 1, ![p].paths = @ + n,
                                 ![p].there = @ + n]
      BY <1>6 DEF StageSegment
    <2> DEFINE r == [c EXCEPT !.looked = @ + 1, !.paths = @ + n,
                              !.there = @ + n]
    <2>2. c.looked < c.selected /\ c.pc = "stage"
      BY <1>6 DEF StageSegment, At
    <2> DEFINE looked == c.looked + 1
               paths == c.paths + n
               there == c.there + n
    <2>3. /\ looked \in Nat /\ paths \in Nat /\ there \in Nat
          /\ looked <= c.selected /\ there <= paths /\ paths <= looked
      BY <1>1, <2>2, Counts
    <2>4. r = [c EXCEPT !.looked = looked, !.paths = paths, !.there = there]
      OBVIOUS
    <2> HIDE DEF looked, paths, there
    <2>5. r \in Call
      BY <1>1, <2>3, <2>4 DEF Sound, Call
    <2>6. Bounded(r)
      BY <1>1, <2>3, <2>4 DEF Sound, Call, Bounded
    <2>7. Validated(r) /\ Reached(r)
      BY <1>1, <2>2 DEF Sound, Call, Validated, Reached
    <2>8. call' = [call EXCEPT ![p] = r]
      BY <2>1 DEF Typed
    <2> HIDE DEF r
    <2> QED
      BY <2>5, <2>6, <2>7, <2>8, Only DEF Sound
  <1>7. CASE StagingDone(p)
    BY <1>7, GoesOn, Fails DEF StagingDone, At, PCs, StagingPCs, Failures
  <1>8. CASE WriteManifest(p)
    BY <1>8, GoesOn, Fails DEF WriteManifest, At, PCs, StagingPCs, Failures
  <1>9. ASSUME NEW from \in {"copy", "encode"},
               NEW to \in {"probe copy", "exit"}, Compose(p, from, to)
        PROVE  OnlyCall(p)
    <2>1. PICK ok \in BOOLEAN,
               file \in Files(Segment * c.there) \cup {Absent} :
            call' = [call EXCEPT ![p].pc = to, ![p].ok = ok,
                                 ![p].output = file]
      BY <1>9 DEF Compose
    <2> DEFINE r == [c EXCEPT !.pc = to, !.ok = ok, !.output = file]
    <2>2. /\ file \in [length : Int, black : BOOLEAN]
          /\ file.length \in -1..(Segment * c.selected)
      <3>1. /\ c.there \in Nat /\ c.selected \in Nat /\ c.there <= c.selected
        BY <1>1, Counts
      <3>2. CASE file = Absent
        BY <3>1, <3>2, AbsentType
      <3>3. CASE file \in Files(Segment * c.there)
        <4>1. file.length \in 0..(Segment * c.there) /\ file.black \in BOOLEAN
              /\ file = [length |-> file.length, black |-> file.black]
          BY <3>3 DEF Files
        <4>2. /\ file.length \in Int
              /\ file.length \in -1..(Segment * c.selected)
          BY <3>1, <4>1, Within
        <4> QED
          BY <4>1, <4>2
      <3> QED
        BY <3>2, <3>3
    <2>3. c.pc = from
      BY <1>9 DEF Compose, At
    <2>4. r \in Call
      BY <1>1, <2>2 DEF Sound, Call, PCs, StagingPCs
    <2>5. Bounded(r)
      BY <1>1, <2>2 DEF Sound, Call, Bounded
    <2>6. Validated(r) /\ Reached(r)
      BY <1>1, <2>3 DEF Sound, Call, Validated, Reached
    <2>7. call' = [call EXCEPT ![p] = r]
      BY <2>1 DEF Typed
    <2> HIDE DEF r
    <2> QED
      BY <2>4, <2>5, <2>6, <2>7, Only DEF Sound
  <1>10. CASE AcceptCopy(p)
    BY <1>10, GoesOn DEF AcceptCopy, At, PCs, StagingPCs
  <1>11. CASE RefuseCopy(p)
    <2> DEFINE r == [c EXCEPT !.pc = "encode", !.output = Absent]
    <2>1. c.pc = "probe copy" /\ call' = [call EXCEPT ![p] = r]
      BY <1>11 DEF RefuseCopy, At, Typed
    <2>2. Sound(r)
      BY <1>1, <2>1, AbsentType
      DEF Sound, Call, Bounded, Validated, Reached, PCs, StagingPCs
    <2> HIDE DEF r
    <2> QED
      BY <2>1, <2>2, Only
  <1>12. CASE CheckExit(p)
    BY <1>12, GoesOn, Fails DEF CheckExit, At, PCs, StagingPCs, Failures
  <1>13. CASE Validate(p)
    <2>1. c.pc = "probe"
      BY <1>13 DEF Validate, At
    <2>2. CASE Passes(c) /\ ~MostlyBlack(c)
      <3> DEFINE r == [c EXCEPT !.pc = "publish"]
      <3>1. call' = [call EXCEPT ![p] = r]
        BY <1>13, <2>2 DEF Validate, Goto, Typed
      <3>2. Validated(r)
        BY <1>1, <2>2
        DEF Sound, Call, Validated, Passes, MostlyBlack, Export, Available
      <3>3. r \in Call /\ Bounded(r) /\ Reached(r)
        BY <1>1, <2>1 DEF Sound, Call, Bounded, Reached, PCs, StagingPCs
      <3> HIDE DEF r
      <3> QED
        BY <3>1, <3>2, <3>3, Only DEF Sound
    <2>3. CASE ~(Passes(c) /\ ~MostlyBlack(c))
      BY <1>13, <2>1, <2>3, Fails DEF Validate, Failures
    <2> QED
      BY <2>2, <2>3
  <1>14. CASE Rename(p)
    <2> DEFINE r == [c EXCEPT !.pc = "cleanup", !.result = "clip",
                              !.output = Absent]
    <2>1. c.pc = "publish" /\ call' = [call EXCEPT ![p] = r]
      BY <1>14 DEF Rename, At, Typed
    <2>2. Sound(r)
      BY <1>1, <2>1, AbsentType
      DEF Sound, Call, Bounded, Validated, Reached, PCs, StagingPCs
    <2> HIDE DEF r
    <2> QED
      BY <2>1, <2>2, Only
  <1>15. CASE CopyInstead(p)
    <2>1. c.pc = "publish"
      BY <1>15 DEF CopyInstead, At
    <2>2. CASE Fail(p, "publish", "cleanup")
      BY <2>1, <2>2, Fails DEF Failures
    <2>3. CASE Goto(p, "copying")
      <3> DEFINE r == [c EXCEPT !.pc = "copying"]
      <3>1. call' = [call EXCEPT ![p] = r]
        BY <2>3 DEF Goto, Typed
      <3>2. Validated(r)
        BY <1>1, <2>1
        DEF Sound, Call, Validated, Passes, MostlyBlack, Export, Available
      <3>3. r \in Call /\ Bounded(r) /\ Reached(r)
        BY <1>1, <2>1 DEF Sound, Call, Bounded, Reached, PCs, StagingPCs
      <3> HIDE DEF r
      <3> QED
        BY <3>1, <3>2, <3>3, Only DEF Sound
    <2> QED
      BY <1>15, <2>2, <2>3 DEF CopyInstead
  <1>16. CASE CopyEnds(p)
    <2>1. c.pc = "copying"
      BY <1>16 DEF CopyEnds, At
    <2>2. CASE Fail(p, "publish", "cleanup")
      BY <2>1, <2>2, Fails DEF Failures
    <2>3. CASE Return(p)
      <3> DEFINE r == [c EXCEPT !.pc = "cleanup", !.result = "clip"]
      <3>1. call' = [call EXCEPT ![p] = r]
        BY <2>3 DEF Return, Typed
      <3>2. Sound(r)
        BY <1>1, <2>1
        DEF Sound, Call, Bounded, Validated, Reached, PCs, StagingPCs
      <3> HIDE DEF r
      <3> QED
        BY <3>1, <3>2, Only
    <2> QED
      BY <1>16, <2>2, <2>3 DEF CopyEnds
  <1>17. CASE Cleanup(p)
    <2>1. call' = [call EXCEPT ![p] = Outcome(c)]
      BY <1>17 DEF Cleanup, Typed
    <2>2. Outcome(c) \in Call
      BY <1>1, IdleSound DEF Sound, Call, Outcome
    <2>3. Bounded(Outcome(c)) /\ Validated(Outcome(c)) /\ Reached(Outcome(c))
      BY <1>1, IdleSound
      DEF Sound, Call, Bounded, Validated, Reached, Outcome, Idle, PCs
    <2> QED
      BY <2>1, <2>2, <2>3, Only DEF Sound
  <1> QED
    BY <1>3, <1>4, <1>5, <1>6, <1>7, <1>8, <1>9, <1>10, <1>11, <1>12, <1>13,
       <1>14, <1>15, <1>16, <1>17
    DEF Step, RunFfmpegComposeCopy, RunFfmpegCompose

-----------------------------------------------------------------------------
(* What a step does to the directories and to the clips.                   *)

\* The call goes to pc and says so of its result.
Does(p, pc, result) ==
  /\ call'[p].pc = pc /\ call'[p].result = result
  /\ call'[p].id = call[p].id /\ call'[p].stale = call[p].stale

LEMMA GotoDoes ==
  ASSUME Typed, NEW p \in Procs, NEW pc, Goto(p, pc)
  PROVE  Does(p, pc, call[p].result)
  <1>1. p \in DOMAIN call /\ call[p] \in Call
    BY DEF Typed, Sound
  <1>2. call'[p] = [call[p] EXCEPT !.pc = pc]
    BY <1>1 DEF Goto
  <1> QED
    BY <1>1, <1>2 DEF Does, Call

LEMMA FailDoes ==
  ASSUME Typed, NEW p \in Procs, NEW pc, NEW why, Fail(p, why, pc)
  PROVE  Does(p, pc, "failed")
  <1>1. p \in DOMAIN call /\ call[p] \in Call
    BY DEF Typed, Sound
  <1>2. call'[p] = [call[p] EXCEPT !.pc = pc, !.failure = why,
                                   !.result = "failed"]
    BY <1>1 DEF Fail
  <1> QED
    BY <1>1, <1>2 DEF Does, Call

\* The actions that change more of the call than its place.
LEMMA OtherwiseDoes ==
  ASSUME Typed, NEW p \in Procs
  PROVE  /\ StageSegment(p) => Does(p, "stage", call[p].result)
         /\ RunFfmpegComposeCopy(p) => Does(p, "probe copy", call[p].result)
         /\ RunFfmpegCompose(p) => Does(p, "exit", call[p].result)
         /\ RefuseCopy(p) => Does(p, "encode", call[p].result)
         /\ Rename(p) \/ Return(p) => Does(p, "cleanup", "clip")
         /\ Cleanup(p) => /\ call'[p].pc = "idle" /\ call'[p].stale = {}
                          /\ call'[p].id = call[p].id
                          /\ call'[p].result = call[p].result
  <1>1. p \in DOMAIN call /\ call[p] \in Call
    BY DEF Typed, Sound
  <1>2. ASSUME StageSegment(p)
        PROVE  Does(p, "stage", call[p].result)
    <2>1. PICK n \in {0, 1} :
            call'[p] = [call[p] EXCEPT !.looked = @ + 1, !.paths = @ + n,
                                       !.there = @ + n]
      BY <1>1, <1>2 DEF StageSegment
    <2>2. call[p].pc = "stage"
      BY <1>2 DEF StageSegment, At
    <2> QED
      BY <1>1, <2>1, <2>2 DEF Does, Call
  <1>3. ASSUME NEW from, NEW to, Compose(p, from, to)
        PROVE  Does(p, to, call[p].result)
    <2>1. PICK ok \in BOOLEAN,
               file \in Files(Segment * call[p].there) \cup {Absent} :
            call' = [call EXCEPT ![p].pc = to, ![p].ok = ok,
                                 ![p].output = file]
      BY <1>3 DEF Compose
    <2>2. call'[p] = [call[p] EXCEPT !.pc = to, !.ok = ok, !.output = file]
      BY <1>1, <2>1
    <2> QED
      BY <1>1, <2>2 DEF Does, Call
  <1>4. ASSUME RefuseCopy(p)
        PROVE  Does(p, "encode", call[p].result)
    <2>1. call'[p] = [call[p] EXCEPT !.pc = "encode", !.output = Absent]
      BY <1>1, <1>4 DEF RefuseCopy
    <2> QED
      BY <1>1, <2>1 DEF Does, Call
  <1>5. ASSUME Rename(p)
        PROVE  Does(p, "cleanup", "clip")
    <2>1. call'[p] = [call[p] EXCEPT !.pc = "cleanup", !.result = "clip",
                                     !.output = Absent]
      BY <1>1, <1>5 DEF Rename
    <2> QED
      BY <1>1, <2>1 DEF Does, Call
  <1>6. ASSUME Return(p)
        PROVE  Does(p, "cleanup", "clip")
    <2>1. call'[p] = [call[p] EXCEPT !.pc = "cleanup", !.result = "clip"]
      BY <1>1, <1>6 DEF Return
    <2> QED
      BY <1>1, <2>1 DEF Does, Call
  <1>7. ASSUME Cleanup(p)
        PROVE  /\ call'[p].pc = "idle" /\ call'[p].stale = {}
               /\ call'[p].id = call[p].id
               /\ call'[p].result = call[p].result
    BY <1>1, <1>7 DEF Cleanup, Outcome, Idle
  <1> QED
    BY <1>2, <1>3, <1>4, <1>5, <1>6, <1>7
    DEF RunFfmpegComposeCopy, RunFfmpegCompose

\* Where a step other than cleaning takes its call.
Moves(p) ==
  /\ call'[p].id = call[p].id
  /\ call'[p].stale \in {call[p].stale, {}}
  /\ call[p].pc \in {"clean", "mkdir"} \cup StagingPCs
  /\ call[p].pc = "clean" => call[p].todo = {}
  /\ call'[p].pc \in {"idle", "mkdir"} \cup StagingPCs
  /\ call[p].pc \in StagingPCs =>
       \/ call'[p].pc \in StagingPCs \/ call[p].id \notin dirs'
       \/ call[p].id \in refused'
  /\ refused \subseteq refused'
  /\ dirs' \subseteq dirs \cup {call[p].id}
  /\ call[p].id \in dirs' \ dirs => call'[p].pc \in StagingPCs
  /\ calls' = calls /\ killed' = killed

LEMMA StepMoves ==
  ASSUME Typed, NEW p \in Procs, Step(p), ~CleanOne(p)
  PROVE  Moves(p)
  <1> USE DEF At, StagingPCs
  <1>1. CASE NoStaging(p)
    BY <1>1, FailDoes DEF NoStaging, Moves, Does
  <1>2. CASE CleanDone(p) \/ MakeStaging(p) \/ AcceptCopy(p)
    BY <1>2, GotoDoes DEF CleanDone, MakeStaging, AcceptCopy, Moves, Does
  <1>3. CASE StagingDone(p) \/ WriteManifest(p) \/ CheckExit(p)
    BY <1>3, GotoDoes, FailDoes
    DEF StagingDone, WriteManifest, CheckExit, Moves, Does
  <1>4. CASE Validate(p) \/ CopyInstead(p)
    BY <1>4, GotoDoes, FailDoes DEF Validate, CopyInstead, Moves, Does
  <1>5. CASE CopyEnds(p)
    BY <1>5, FailDoes, OtherwiseDoes DEF CopyEnds, Moves, Does
  <1>6. CASE StageSegment(p) \/ RefuseCopy(p) \/ Rename(p)
    BY <1>6, OtherwiseDoes DEF StageSegment, RefuseCopy, Rename, Moves, Does
  <1>7. CASE RunFfmpegComposeCopy(p) \/ RunFfmpegCompose(p)
    BY <1>7, OtherwiseDoes
    DEF RunFfmpegComposeCopy, RunFfmpegCompose, Compose, Moves, Does
  <1>8. CASE Cleanup(p)
    BY <1>8, OtherwiseDoes DEF Cleanup, Moves
  <1> QED
    BY <1>1, <1>2, <1>3, <1>4, <1>5, <1>6, <1>7, <1>8 DEF Step

\* What complete clips a step other than cleaning leaves, and what its call
\* says of them.
Publishes(p) ==
  /\ call'[p].result = "clip"
  /\ call[p].pc \in {"publish", "copying"} /\ call[p].output # Absent
  /\ \/ clips' = clips \cup {Clip(call[p], TRUE)}
     \/ clips' = (clips \ {Clip(call[p], FALSE)}) \cup {Clip(call[p], TRUE)}

KeepsClips(p) ==
  /\ clips' = clips \/ clips' = clips \cup {Clip(call[p], FALSE)}
  /\ \/ call'[p].result = call[p].result
     \/ call'[p].result = "failed" /\ call[p].result = "none"

LEMMA StepClips ==
  ASSUME Typed, NEW p \in Procs, Step(p), ~CleanOne(p)
  PROVE  Publishes(p) \/ KeepsClips(p)
  <1> USE DEF At
  <1>0. call[p].pc \notin {"cleanup", "idle"} => call[p].result = "none"
    BY DEF Typed, Sound, Reached
  <1>1. CASE NoStaging(p)
    BY <1>0, <1>1, FailDoes DEF NoStaging, KeepsClips, Does
  <1>2. CASE CleanDone(p) \/ MakeStaging(p) \/ AcceptCopy(p)
    BY <1>2, GotoDoes DEF CleanDone, MakeStaging, AcceptCopy, KeepsClips, Does
  <1>3. CASE StagingDone(p) \/ WriteManifest(p) \/ CheckExit(p)
    BY <1>0, <1>3, GotoDoes, FailDoes
    DEF StagingDone, WriteManifest, CheckExit, KeepsClips, Does
  <1>4. CASE Validate(p) \/ CopyInstead(p)
    BY <1>0, <1>4, GotoDoes, FailDoes
    DEF Validate, CopyInstead, KeepsClips, Does
  <1>5. CASE CopyEnds(p)
    BY <1>0, <1>5, FailDoes, OtherwiseDoes
    DEF CopyEnds, KeepsClips, Publishes, Does
  <1>6. CASE StageSegment(p) \/ RefuseCopy(p)
    BY <1>6, OtherwiseDoes DEF StageSegment, RefuseCopy, KeepsClips, Does
  <1>7. CASE RunFfmpegComposeCopy(p) \/ RunFfmpegCompose(p)
    BY <1>7, OtherwiseDoes
    DEF RunFfmpegComposeCopy, RunFfmpegCompose, Compose, KeepsClips, Does
  <1>8. CASE Rename(p)
    BY <1>8, OtherwiseDoes DEF Rename, Publishes, Does
  <1>9. CASE Cleanup(p)
    BY <1>9, OtherwiseDoes DEF Cleanup, KeepsClips
  <1> QED
    BY <1>1, <1>2, <1>3, <1>4, <1>5, <1>6, <1>7, <1>8, <1>9 DEF Step

-----------------------------------------------------------------------------
(* A step of a call other than cleaning.                                   *)

LEMMA StepKeeps ==
  ASSUME IInv, NEW p \in Procs, Step(p), ~CleanOne(p)
  PROVE  IInv'
  <1> USE DEF IInv
  <1>1. Moves(p)
    BY StepMoves
  <1>2. OnlyCall(p)
    BY StepSound
  <1>3. \A q \in Procs : q # p => call'[q] = call[q]
    BY <1>2 DEF OnlyCall, Typed
  <1>4. Publishes(p) \/ KeepsClips(p)
    BY StepClips
  <1>5. call[p].id \in 1..calls /\ calls \in 0..MaxCalls
    <2>1. Sound(call[p]) /\ calls \in 0..MaxCalls /\ call[p].id <= calls
      BY DEF Typed, Names
    <2>2. call[p].id \in 0..MaxCalls /\ call[p].id # 0
      BY <1>1, <2>1 DEF Sound, Call, Reached, Moves, StagingPCs
    <2> QED
      BY <2>1, <2>2, Parameters
  <1>6. \A q \in Procs : call'[q].id = call[q].id
    BY <1>1, <1>3 DEF Moves
  <1>7. Typed'
    <2>1. \A q \in Procs : Sound(call'[q])
      BY <1>2, <1>3 DEF OnlyCall, Typed
    <2>2. DOMAIN call' = Procs /\ call' = [q \in Procs |-> call'[q]]
      BY <1>2 DEF OnlyCall, Typed
    <2>3. dirs' \subseteq 1..MaxCalls /\ calls' \in 0..MaxCalls
      <3>1. calls <= MaxCalls /\ 1..calls \subseteq 1..MaxCalls
        BY <1>5, Parameters
      <3> QED
        BY <1>1, <1>5, <3>1 DEF Moves, Typed
    <2> QED
      BY <2>1, <2>2, <2>3 DEF Typed
  <1>8. Names'
    <2>1. dirs' \subseteq 1..calls' /\ killed' \subseteq 1..calls'
      BY <1>1, <1>5 DEF Moves, Names
    <2>2. \A clip \in clips' : clip.id \in 1..calls'
      <3>1. \A b \in BOOLEAN : Clip(call[p], b).id = call[p].id
        BY DEF Clip
      <3>2. \A clip \in clips' :
              clip \in clips \/ \E b \in BOOLEAN : clip = Clip(call[p], b)
        BY <1>4 DEF Publishes, KeepsClips
      <3> QED
        BY <1>1, <1>5, <3>1, <3>2 DEF Moves, Names
    <2> QED
      BY <1>1, <1>6, <2>1, <2>2 DEF Moves, Names
  <1>9. Cleaning'
    <2>1. ASSUME NEW q \in Procs, q # p
          PROVE  /\ call'[q].stale \subseteq killed'
                 /\ call'[q].pc = "clean" =>
                      call'[q].stale \cap dirs' \subseteq call'[q].todo
                 /\ call'[q].pc \in {"mkdir"} \cup StagingPCs =>
                      call'[q].stale \cap dirs' = {}
      <3>1. call[q].stale \subseteq killed /\ call[p].id \notin killed
        BY DEF Cleaning, Names
      <3>2. call[q].stale \cap dirs' \subseteq call[q].stale \cap dirs
        BY <1>1, <3>1 DEF Moves
      <3> QED
        BY <1>1, <1>3, <2>1, <3>1, <3>2 DEF Cleaning, Moves
    <2>2. /\ call'[p].stale \subseteq killed' /\ call'[p].pc # "clean"
          /\ call'[p].stale \cap dirs' = {}
      <3>1. call[p].stale \subseteq killed /\ call[p].id \notin killed
        BY DEF Cleaning, Names
      <3>2. call[p].stale \cap dirs = {}
        BY <1>1 DEF Cleaning, Moves
      <3> QED
        BY <1>1, <3>1, <3>2 DEF Moves, StagingPCs
    <2> QED
      BY <2>1, <2>2 DEF Cleaning
  <1>10. PublishedUsable'
    <2>1. ASSUME Publishes(p)
          PROVE  /\ Passes(call[p]) /\ ~MostlyBlack(call[p])
                 /\ Sound(call[p])
      BY <2>1 DEF Publishes, Typed, Sound, Validated
    <2>2. ASSUME NEW clip, clip = Clip(call[p], TRUE), Publishes(p)
          PROVE  /\ FinalClipPassesValidation(clip.file, clip.mode, clip.export)
                 /\ clip.mode = "checked" => ~clip.file.black
      BY <2>1, <2>2 DEF Clip, Passes, MostlyBlack
    <2>3. ~Clip(call[p], FALSE).whole
      BY DEF Clip
    <2>4. \A clip \in clips' :
            clip.whole =>
              clip \in clips \/ (Publishes(p) /\ clip = Clip(call[p], TRUE))
      BY <1>4, <2>3 DEF Publishes, KeepsClips
    <2> QED
      BY <2>2, <2>4 DEF PublishedUsable
  <1>11. ReportedPublished'
    <2> DEFINE Has(i, s) == \E clip \in s : clip.id = i /\ clip.whole
    <2>1. /\ Clip(call[p], TRUE).id = call[p].id /\ Clip(call[p], TRUE).whole
          /\ ~Clip(call[p], FALSE).whole
      BY DEF Clip
    <2>2. ASSUME NEW q \in Procs, q # p, call[q].id # 0
          PROVE  Has(call[q].id, clips') <=> Has(call[q].id, clips)
      <3>1. call[q].id # call[p].id
        BY <2>2 DEF Names
      <3> QED
        BY <1>4, <2>1, <3>1 DEF Publishes, KeepsClips
    <2>3. CASE Publishes(p)
      <3>1. Has(call[p].id, clips')
        BY <2>1, <2>3 DEF Publishes
      <3> QED
        BY <1>3, <1>6, <2>2, <2>3, <3>1 DEF ReportedPublished, Publishes
    <2>4. CASE KeepsClips(p)
      <3>1. Has(call[p].id, clips') <=> Has(call[p].id, clips)
        BY <2>1, <2>4 DEF KeepsClips
      <3>2. call'[p].result = "clip" <=> call[p].result = "clip"
        BY <2>4 DEF KeepsClips
      <3> QED
        BY <1>3, <1>6, <2>2, <3>1, <3>2 DEF ReportedPublished
    <2> QED
      BY <1>4, <2>3, <2>4
  <1>12. NothingLeftBehind'
    <2> SUFFICES ASSUME NEW i \in dirs'
                 PROVE  i \in killed' \cup refused' \/ \E q \in Procs :
                          call'[q].id = i /\ call'[q].pc \in StagingPCs
      BY DEF NothingLeftBehind, Owner
    <2>1. CASE i \notin dirs
      BY <1>1, <2>1 DEF Moves
    <2>2. CASE i \in dirs /\ i \notin killed \cup refused
      <3>1. PICK q \in Procs : call[q].id = i /\ call[q].pc \in StagingPCs
        BY <2>2 DEF NothingLeftBehind, Owner
      <3> QED
        BY <1>1, <1>3, <1>6, <3>1 DEF Moves
    <2> QED
      BY <1>1, <2>1, <2>2 DEF Moves
  <1> QED
    BY <1>7, <1>8, <1>9, <1>10, <1>11, <1>12

-----------------------------------------------------------------------------
(* The other steps.                                                        *)

LEMMA CleanKeeps ==
  ASSUME IInv, NEW p \in Procs, CleanOne(p)
  PROVE  IInv'
  <1> USE DEF IInv
  <1> DEFINE Less(c, d) == [c EXCEPT !.todo = @ \ {d}]
             Excused(c, d) == [c EXCEPT !.todo = @ \ {d}, !.stale = @ \ {d}]
             Without(c) == [c EXCEPT !.there = 0, !.output = Absent]
  <1>1. PICK d \in call[p].todo :
          \/ /\ call' = [q \in Procs |->
                          Lose([call EXCEPT ![p].todo = @ \ {d}], d, q)]
             /\ dirs' = dirs \ {d}
          \/ /\ \/ call' = [q \in Procs |->
                             Lose([call EXCEPT ![p].todo = @ \ {d},
                                               ![p].stale = @ \ {d}], d, q)]
                \/ call' = [call EXCEPT ![p].todo = @ \ {d},
                                        ![p].stale = @ \ {d}]
             /\ dirs' = dirs
    BY DEF CleanOne
  <1>2. call[p].pc = "clean" /\ UNCHANGED <<clips, calls, killed, refused>>
    BY DEF CleanOne, At
  <1>3. \A q \in Procs : Sound(call[q]) /\ call[q] \in Call
    BY DEF Typed, Sound
  <1>4. /\ Sound(Less(call[p], d)) /\ Less(call[p], d) \in Call
        /\ Sound(Excused(call[p], d)) /\ Excused(call[p], d) \in Call
    BY <1>2, <1>3
    DEF Sound, Call, Bounded, Validated, Reached
  \* What the call of p is when it has looked at d.
  <1>5. \/ /\ call'[p] \in {Less(call[p], d), Without(Less(call[p], d))}
           /\ dirs' = dirs \ {d}
        \/ call'[p] \in {Excused(call[p], d), Without(Excused(call[p], d))}
    <2>1. CASE /\ call' = [q \in Procs |->
                             Lose([call EXCEPT ![p].todo = @ \ {d}], d, q)]
               /\ dirs' = dirs \ {d}
      <3>1. call'[p] \in {Less(call[p], d), Without(Less(call[p], d))}
        BY <2>1 DEF Lose, Typed
      <3> QED
        BY <2>1, <3>1
    <2>2. CASE /\ \/ call' = [q \in Procs |->
                                Lose([call EXCEPT ![p].todo = @ \ {d},
                                                  ![p].stale = @ \ {d}], d, q)]
                  \/ call' = [call EXCEPT ![p].todo = @ \ {d},
                                          ![p].stale = @ \ {d}]
               /\ dirs' = dirs
      <3>1. call'[p] \in {Excused(call[p], d), Without(Excused(call[p], d))}
        BY <1>3, <2>2 DEF Lose, Typed, Call
      <3> QED
        BY <2>2, <3>1
    <2> QED
      BY <1>1, <2>1, <2>2
  <1>others. \A q \in Procs : q # p => call'[q] \in {call[q], Without(call[q])}
    BY <1>1 DEF Lose, Typed
  <1>domain. DOMAIN call' = Procs /\ call' = [q \in Procs |-> call'[q]]
    BY <1>1 DEF Typed
  <1>6. \A q \in Procs : Sound(call'[q])
    <2>1. \A c : Sound(c) => Sound(Without(c))
      BY Loses
    <2> HIDE DEF Less, Excused, Without
    <2> QED
      BY <1>3, <1>4, <1>5, <1>others, <2>1
  <1>7. \A q \in Procs :
          /\ call'[q].pc = call[q].pc /\ call'[q].id = call[q].id
          /\ call'[q].result = call[q].result
          /\ q # p => /\ call'[q].stale = call[q].stale
                      /\ call'[q].todo = call[q].todo
          /\ q = p => /\ call'[q].todo = call[q].todo \ {d}
                      /\ \/ /\ call'[q].stale = call[q].stale
                            /\ dirs' = dirs \ {d}
                         \/ call'[q].stale = call[q].stale \ {d}
    <2>1. \A c \in Call :
            /\ Without(c).pc = c.pc /\ Without(c).id = c.id
            /\ Without(c).stale = c.stale /\ Without(c).result = c.result
            /\ Without(c).todo = c.todo
      BY DEF Call
    <2>2. \A c \in Call :
            /\ Less(c, d).pc = c.pc /\ Less(c, d).id = c.id
            /\ Less(c, d).stale = c.stale /\ Less(c, d).result = c.result
            /\ Less(c, d).todo = c.todo \ {d}
            /\ Excused(c, d).pc = c.pc /\ Excused(c, d).id = c.id
            /\ Excused(c, d).stale = c.stale \ {d}
            /\ Excused(c, d).result = c.result
            /\ Excused(c, d).todo = c.todo \ {d}
      BY DEF Call
    <2> HIDE DEF Less, Excused, Without
    <2>3. ASSUME NEW q \in Procs, q # p
          PROVE  /\ call'[q].pc = call[q].pc /\ call'[q].id = call[q].id
                 /\ call'[q].stale = call[q].stale
                 /\ call'[q].result = call[q].result
                 /\ call'[q].todo = call[q].todo
      BY <1>3, <1>others, <2>1, <2>3
    <2>4. /\ call'[p].pc = call[p].pc /\ call'[p].id = call[p].id
          /\ call'[p].result = call[p].result
          /\ call'[p].todo = call[p].todo \ {d}
          /\ \/ call'[p].stale = call[p].stale /\ dirs' = dirs \ {d}
             \/ call'[p].stale = call[p].stale \ {d}
      BY <1>3, <1>4, <1>5, <2>1, <2>2
    <2> QED
      BY <2>3, <2>4
  <1>8. dirs' \subseteq dirs
    BY <1>1
  <1>9. Typed'
    BY <1>2, <1>6, <1>8, <1>domain DEF Typed
  <1>10. Names'
    BY <1>2, <1>7, <1>8 DEF Names
  <1>11. Cleaning'
    <2>1. /\ call[p].stale \subseteq killed
          /\ call[p].stale \cap dirs \subseteq call[p].todo
      BY <1>2 DEF Cleaning
    <2>2. ASSUME NEW q \in Procs, q # p
          PROVE  /\ call'[q].stale \subseteq killed'
                 /\ call'[q].pc = "clean" =>
                      call'[q].stale \cap dirs' \subseteq call'[q].todo
                 /\ call'[q].pc \in {"mkdir"} \cup StagingPCs =>
                      call'[q].stale \cap dirs' = {}
      BY <1>2, <1>7, <1>8, <2>2 DEF Cleaning
    <2>3. /\ call'[p].stale \subseteq killed' /\ call'[p].pc = "clean"
          /\ call'[p].stale \cap dirs' \subseteq call'[p].todo
      <3>1. call'[p].todo = call[p].todo \ {d} /\ call'[p].pc = "clean"
        BY <1>2, <1>7
      <3>2. \/ call'[p].stale = call[p].stale /\ dirs' = dirs \ {d}
            \/ call'[p].stale = call[p].stale \ {d}
        BY <1>7
      <3> QED
        BY <1>2, <1>8, <2>1, <3>1, <3>2
    <2> QED
      BY <2>2, <2>3 DEF Cleaning, StagingPCs
  <1>12. PublishedUsable' /\ ReportedPublished'
    BY <1>2, <1>7 DEF PublishedUsable, ReportedPublished
  <1>13. NothingLeftBehind'
    BY <1>2, <1>7, <1>8 DEF NothingLeftBehind, Owner
  <1> QED
    BY <1>9, <1>10, <1>11, <1>12, <1>13

\* A new call has a name of its own and has not published anything.
LEMMA BeginKeeps ==
  ASSUME IInv, NEW p \in Procs, Begin(p) \/ NoDirectory(p)
  PROVE  IInv'
  <1> USE DEF IInv
  <1>1. /\ call[p].pc = "idle" /\ calls < MaxCalls /\ calls' = calls + 1
        /\ UNCHANGED <<dirs, clips, killed, refused>>
    BY DEF Begin, NoDirectory, At
  <1>2. calls \in Nat /\ MaxCalls \in Nat /\ calls + 1 \in 0..MaxCalls
        /\ 1..calls \subseteq 1..(calls + 1) /\ calls + 1 \notin 1..calls
    BY <1>1, Parameters DEF Typed
  <1> DEFINE r == call'[p]
             mine(mode, n) ==
               [Idle EXCEPT !.pc = "clean", !.id = calls + 1, !.mode = mode,
                            !.selected = n, !.todo = dirs,
                            !.stale = dirs \cap killed]
             none == [Idle EXCEPT !.id = calls + 1, !.failure = "directory",
                                  !.result = "failed"]
  <1>3. /\ Sound(r) /\ r.id = calls + 1 /\ r.result # "clip"
        /\ r.pc \in {"idle", "clean"}
        /\ r.stale \subseteq killed
        /\ r.pc = "clean" => r.stale \cap dirs \subseteq r.todo
    <2>1. CASE Begin(p)
      <3>1. PICK mode \in Modes, n \in Selections : r = mine(mode, n)
        BY <2>1 DEF Begin, Typed
      <3>2. mode \in {"recorder", "checked"} /\ n \in Nat
            /\ dirs \subseteq 1..MaxCalls
        BY Parameters DEF Typed
      <3>3. mine(mode, n) \in Call
        BY <1>2, <3>2, IdleSound DEF Sound, Call, PCs
      <3>4. Bounded(mine(mode, n)) /\ Validated(mine(mode, n))
            /\ Reached(mine(mode, n))
        BY <1>2, <3>2, AbsentType DEF Bounded, Validated, Reached, Idle
      <3>5. /\ mine(mode, n).id = calls + 1 /\ mine(mode, n).pc = "clean"
            /\ mine(mode, n).result = "none" /\ mine(mode, n).todo = dirs
            /\ mine(mode, n).stale = dirs \cap killed
        BY DEF Idle
      <3> HIDE DEF mine, r
      <3> QED
        BY <3>1, <3>3, <3>4, <3>5 DEF Sound
    <2>2. CASE NoDirectory(p)
      <3>1. r = none
        BY <2>2 DEF NoDirectory, Typed
      <3>2. none \in Call
        BY <1>2, IdleSound DEF Sound, Call, Failures
      <3>3. Bounded(none) /\ Validated(none) /\ Reached(none)
        BY <1>2, AbsentType DEF Bounded, Validated, Reached, Idle
      <3>4. /\ none.id = calls + 1 /\ none.pc = "idle"
            /\ none.result = "failed" /\ none.stale = {}
        BY DEF Idle
      <3> HIDE DEF none, r
      <3> QED
        BY <3>1, <3>2, <3>3, <3>4 DEF Sound
    <2> QED
      BY <2>1, <2>2
  <1>4. call' = [call EXCEPT ![p] = r]
    BY DEF Begin, NoDirectory, Typed
  <1>5. \A q \in Procs : q # p => call'[q] = call[q]
    BY <1>4 DEF Typed
  <1> HIDE DEF r
  <1>6. Typed'
    <2>1. DOMAIN call' = Procs /\ call' = [q \in Procs |-> call'[q]]
      BY <1>4 DEF Typed
    <2>2. \A q \in Procs : Sound(call'[q])
      BY <1>3, <1>5 DEF Typed, r
    <2> QED
      BY <1>1, <1>2, <2>1, <2>2 DEF Typed
  <1>7. \A q \in Procs : call[q].id \in Nat /\ call[q].id # calls + 1
    <2>1. \A q \in Procs : call[q].id \in 0..MaxCalls /\ call[q].id <= calls
      BY DEF Typed, Names, Sound, Call
    <2> QED
      BY <1>2, <2>1
  <1>8. Names'
    <2>1. dirs' \subseteq 1..calls' /\ killed' \subseteq 1..calls'
          /\ \A clip \in clips' : clip.id \in 1..calls'
      BY <1>1, <1>2 DEF Names
    <2>2. \A q \in Procs : call'[q].id <= calls' /\ call'[q].id \notin killed'
      BY <1>1, <1>2, <1>3, <1>5, <1>7 DEF Names, r
    <2>3. \A q, o \in Procs :
            call'[q].id = call'[o].id => q = o \/ call'[q].id = 0
      BY <1>3, <1>5, <1>7 DEF Names, r
    <2> QED
      BY <2>1, <2>2, <2>3 DEF Names
  <1>9. Cleaning'
    BY <1>1, <1>3, <1>5 DEF Cleaning, r, StagingPCs
  <1>10. PublishedUsable'
    BY <1>1 DEF PublishedUsable
  <1>11. ReportedPublished'
    <2>1. \A clip \in clips : clip.id # calls + 1
      BY <1>2 DEF Names
    <2> QED
      BY <1>1, <1>3, <1>5, <2>1 DEF ReportedPublished, r
  <1>12. NothingLeftBehind'
    BY <1>1, <1>5 DEF NothingLeftBehind, Owner, StagingPCs
  <1> QED
    BY <1>6, <1>8, <1>9, <1>10, <1>11, <1>12

LEMMA KillKeeps ==
  ASSUME IInv, NEW p \in Procs, Kill(p)
  PROVE  IInv'
  <1> USE DEF IInv
  <1>1. /\ call[p].pc # "idle" /\ killed' = killed \cup {call[p].id}
        /\ call' = [call EXCEPT ![p] = Idle]
        /\ UNCHANGED <<dirs, clips, calls, refused>>
    BY DEF Kill, At
  <1>2. /\ call'[p] = Idle /\ \A q \in Procs : q # p => call'[q] = call[q]
        /\ DOMAIN call' = Procs /\ call' = [q \in Procs |-> call'[q]]
    BY <1>1 DEF Typed
  <1>3. Idle.id = 0 /\ Idle.pc = "idle" /\ Idle.stale = {}
    BY DEF Idle
  <1>4. Typed'
    BY <1>1, <1>2, IdleSound DEF Typed
  <1>5. call[p].id \in 1..calls /\ calls \in Nat
    <2>1. call[p].id \in 0..MaxCalls /\ call[p].id # 0 /\ call[p].id <= calls
          /\ calls \in 0..MaxCalls
      BY <1>1 DEF Typed, Sound, Call, Reached, Names
    <2> QED
      BY <2>1, Parameters
  <1>6. Names'
    <2>1. \A q \in Procs : call'[q].id <= calls' /\ call'[q].id \notin killed'
      <3>1. 0 <= calls /\ 0 \notin killed'
        BY <1>1, <1>5 DEF Names
      <3>2. \A q \in Procs : q # p => call[q].id # call[p].id
        BY <1>5 DEF Names
      <3> QED
        BY <1>1, <1>2, <1>3, <3>1, <3>2 DEF Names
    <2>2. \A q, o \in Procs :
            call'[q].id = call'[o].id => q = o \/ call'[q].id = 0
      BY <1>2, <1>3 DEF Names
    <2> QED
      BY <1>1, <1>5, <2>1, <2>2 DEF Names
  <1>7. Cleaning'
    BY <1>1, <1>2, <1>3 DEF Cleaning, StagingPCs
  <1>8. PublishedUsable' /\ ReportedPublished'
    BY <1>1, <1>2, <1>3 DEF PublishedUsable, ReportedPublished
  <1>9. NothingLeftBehind'
    BY <1>1, <1>2 DEF NothingLeftBehind, Owner
  <1> QED
    BY <1>4, <1>6, <1>7, <1>8, <1>9

-----------------------------------------------------------------------------

LEMMA StepIInv == IInv /\ [Next]_vars => IInv'
  <1> SUFFICES ASSUME IInv, [Next]_vars PROVE IInv'
    OBVIOUS
  <1>1. CASE UNCHANGED vars
    BY <1>1
    DEF vars, IInv, Typed, Names, Cleaning, PublishedUsable,
        ReportedPublished, NothingLeftBehind, Owner
  <1>2. CASE Next
    BY <1>2, StepKeeps, CleanKeeps, BeginKeeps, KillKeeps DEF Next
  <1> QED
    BY <1>1, <1>2

LEMMA IInvTypeOK == IInv => TypeOK
  <1> SUFFICES ASSUME IInv PROVE TypeOK
    OBVIOUS
  <1>1. \A p \in Procs : call[p] \in Call /\ Bounded(call[p])
    BY DEF IInv, Typed, Sound
  <1>2. \A p \in Procs : call[p].looked \in 0..call[p].selected
    BY <1>1 DEF Call, Bounded
  <1> QED
    BY <1>1, <1>2 DEF IInv, Typed, TypeOK, Call, Bounded

\* Every variable keeps its type; what a call stages and composes is bounded
\* by what it was given.
THEOREM TypeCorrect == Spec => []TypeOK
  BY InitIInv, StepIInv, IInvTypeOK, PTL DEF Spec

\* However many processes compose, remove each other's directories and are
\* killed, and whatever ffmpeg writes: a complete clip passed the validation
\* its caller asked for (clip_muxer.cpp:691-716).
THEOREM ValidatedBeforePublished == Spec => []PublishedUsable
  <1>1. IInv => PublishedUsable
    BY DEF IInv
  <1> QED
    BY <1>1, InitIInv, StepIInv, PTL DEF Spec

\* A path is returned exactly when the clip of that call is complete
\* (clip_muxer.cpp:718-752).
THEOREM ReportsWhatIsThere == Spec => []ReportedPublished
  <1>1. IInv => ReportedPublished
    BY DEF IInv
  <1> QED
    BY <1>1, InitIInv, StepIInv, PTL DEF Spec

\* A staging directory belongs to a call under way, to a process that was
\* killed or to a call that could not remove it (clip_muxer.cpp:145-153, 439).
THEOREM LeavesNothing == Spec => []NothingLeftBehind
  <1>1. IInv => NothingLeftBehind
    BY DEF IInv
  <1> QED
    BY <1>1, InitIInv, StepIInv, PTL DEF Spec

\* What processes killed before left behind is gone once a call stages, but
\* for what it could not remove (clip_muxer.cpp:439-458).
THEOREM RemovesWhatWasLeft == Spec => []KilledCleanedUp
  <1>1. IInv => KilledCleanedUp
    BY DEF IInv, Cleaning, KilledCleanedUp
  <1> QED
    BY <1>1, InitIInv, StepIInv, PTL DEF Spec
=============================================================================
