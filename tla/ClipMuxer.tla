------------------------------ MODULE ClipMuxer ------------------------------
(***************************************************************************)
(* ClipMuxer::WriteClipFromSegments (clip_muxer.cpp), run by several       *)
(* processes at once: the daemon's recorder and every `clipdeck save` that *)
(* finds no daemon compose clips below the same runtime directory.  A      *)
(* process can be killed at any step and its slot taken by a new one.      *)
(*                                                                         *)
(* Lengths count half seconds, so that the tolerances are integers.  What  *)
(* is in a file is reduced to its length and to whether it is black.  What *)
(* ffmpeg produces is any file that fits in the staged material.           *)
(***************************************************************************)
EXTENDS Integers, FiniteSets

CONSTANTS
  Procs,      \* processes that call WriteClipFromSegments
  Modes,      \* "recorder": trusted segments, no check for black frames, as
              \* both callers ask; "checked": the default options
  Selections, \* how many segments a caller may pass
  Target,     \* target_duration, in seconds
  MaxCalls    \* bound: calls altogether

Segment == 2  \* one second of recording

ASSUME MuxerParameters ==
  /\ Modes \subseteq {"recorder", "checked"}
  /\ Selections \subseteq Nat
  /\ Target \in Nat /\ MaxCalls \in Nat

VARIABLES
  call,     \* per process: the locals of its call and what it returned
  dirs,     \* staging directories below temp_directory_, by their call
  clips,    \* files in clip_directory_
  calls,    \* calls begun
  killed,   \* history: calls whose process was killed
  refused   \* history: calls that could not remove their own directory

vars == <<call, dirs, clips, calls, killed, refused>>

Absent == [length |-> -1, black |-> FALSE]
Files(n) == [length : 0..n, black : BOOLEAN]

\* stale is a history: the directories of killed processes that the call found,
\* without those it could not remove.
Idle == [pc |-> "idle", id |-> 0, mode |-> "recorder", todo |-> {},
         stale |-> {}, selected |-> 0, looked |-> 0, paths |-> 0, there |-> 0,
         output |-> Absent, ok |-> FALSE, failure |-> "", result |-> "none"]

Init ==
  /\ call = [p \in Procs |-> Idle]
  /\ dirs = {} /\ clips = {}
  /\ calls = 0 /\ killed = {} /\ refused = {}

StagingPCs == {"stage", "manifest", "copy", "probe copy", "encode", "exit",
               "probe", "publish", "copying", "cleanup"}
PCs == {"idle", "clean", "mkdir"} \cup StagingPCs
Failures == {"", "directory", "no segments", "manifest", "compose", "invalid",
             "black", "publish"}

TypeOK ==
  /\ \A p \in Procs :
       /\ call[p].pc \in PCs
       /\ call[p].id \in 0..MaxCalls
       /\ call[p].todo \subseteq 1..MaxCalls
       /\ call[p].looked \in 0..call[p].selected
       /\ call[p].there <= call[p].paths /\ call[p].paths <= call[p].looked
       /\ call[p].output.length \in -1..(Segment * call[p].selected)
       /\ call[p].failure \in Failures
       /\ call[p].result \in {"none", "clip", "failed"}
  /\ dirs \subseteq 1..MaxCalls
  /\ calls \in 0..MaxCalls

-----------------------------------------------------------------------------
(* What the call computes from its segments.                               *)

Least(a, b) == IF a < b THEN a ELSE b
Distance(a, b) == IF a < b THEN b - a ELSE a - b

\* With trusted segments the length of all that were selected, though some
\* may not have been staged; otherwise of those that were.
Available(c) == Segment * (IF c.mode = "recorder" THEN c.selected ELSE c.paths)

Export(c) == Least(Available(c), Segment * Target)

\* One second either way for five seconds and more, half a second for less.
TrustedFinalClipLooksUsable(file, expected) ==
  /\ file.length > 0
  /\ Distance(file.length, expected) <= IF expected >= 10 THEN 2 ELSE 1

IsUsableFinalClip(file, expected) ==
  /\ file.length > 0 /\ expected > 0
  /\ Distance(file.length, expected) <= 1

\* Streams and audio are left out: an unusable file has length 0.
FinalClipPassesValidation(file, mode, expected) ==
  IF mode = "recorder" THEN TrustedFinalClipLooksUsable(file, expected)
                       ELSE IsUsableFinalClip(file, expected)

Passes(c) == FinalClipPassesValidation(c.output, c.mode, Export(c))
\* ValidateNotMostlyBlack, when the options ask for it.
MostlyBlack(c) == c.mode = "checked" /\ c.output.black

-----------------------------------------------------------------------------
(* One step of a call.                                                     *)

At(p, pc) == call[p].pc = pc
Goto(p, pc) == call' = [call EXCEPT ![p].pc = pc]
HasDirectory(p) == call[p].id \in dirs

\* SetLastFailure and return nullopt; pc is "idle" before the staging
\* directory has its owner.
Fail(p, why, pc) ==
  call' = [call EXCEPT ![p].pc = pc, ![p].failure = why,
                       ![p].result = "failed"]

Begin(p) ==
  /\ At(p, "idle")
  /\ calls < MaxCalls
  /\ calls' = calls + 1
  /\ \E mode \in Modes, n \in Selections :
       call' = [call EXCEPT ![p] =
                 [Idle EXCEPT !.pc = "clean", !.id = calls + 1, !.mode = mode,
                              !.selected = n, !.todo = dirs,
                              !.stale = dirs \cap killed]]
  /\ UNCHANGED <<dirs, clips, killed, refused>>

\* The clip directory or the one for staging cannot be created.
NoDirectory(p) ==
  /\ At(p, "idle")
  /\ calls < MaxCalls
  /\ calls' = calls + 1
  /\ call' = [call EXCEPT ![p] =
       [Idle EXCEPT !.id = calls + 1, !.failure = "directory",
                    !.result = "failed"]]
  /\ UNCHANGED <<dirs, clips, killed, refused>>

NoStaging(p) ==
  /\ At(p, "mkdir")
  /\ Fail(p, "directory", "idle")
  /\ UNCHANGED <<dirs, clips, calls, killed, refused>>

\* Every call loses what it had in directory d.
Lose(c, d, q) == IF c[q].id = d
                 THEN [c[q] EXCEPT !.there = 0, !.output = Absent]
                 ELSE c[q]

\* Defect: directories of killed processes are passed over.
CleanOneOfOthers(p) ==
  /\ At(p, "clean")
  /\ \E d \in call[p].todo :
       LET rest == [call EXCEPT ![p].todo = @ \ {d}]
       IN  /\ call' = [q \in Procs |-> IF d \in killed THEN rest[q]
                                       ELSE Lose(rest, d, q)]
           /\ dirs' = IF d \in killed THEN dirs ELSE dirs \ {d}
  /\ UNCHANGED <<clips, calls, killed, refused>>

\* CleanStaleStagingDirectories looks at names only, and drops the error of
\* remove_all.  What cannot be removed, for its permissions or because its
\* owner creates files there, has lost its files or has them still, and is not
\* asked of this call again.
CleanOne(p) ==
  /\ At(p, "clean")
  /\ \E d \in call[p].todo :
       \/ LET rest == [call EXCEPT ![p].todo = @ \ {d}]
          IN  /\ call' = [q \in Procs |-> Lose(rest, d, q)]
              /\ dirs' = dirs \ {d}
       \/ LET rest == [call EXCEPT ![p].todo = @ \ {d}, ![p].stale = @ \ {d}]
          IN  /\ \/ call' = [q \in Procs |-> Lose(rest, d, q)]
                 \/ call' = rest
              /\ d \in dirs /\ dirs' = dirs
  /\ UNCHANGED <<clips, calls, killed, refused>>

CleanDone(p) ==
  /\ At(p, "clean")
  /\ call[p].todo = {}
  /\ Goto(p, "mkdir")
  /\ UNCHANGED <<dirs, clips, calls, killed, refused>>

MakeStaging(p) ==
  /\ At(p, "mkdir")
  /\ dirs' = dirs \cup {call[p].id}
  /\ Goto(p, "stage")
  /\ UNCHANGED <<clips, calls, killed, refused>>

\* One segment is copied, or skipped: it is not usable, or it cannot be copied.
StageSegment(p) ==
  /\ At(p, "stage")
  /\ call[p].looked < call[p].selected
  /\ \E copied \in IF HasDirectory(p) THEN {0, 1} ELSE {0} :
       call' = [call EXCEPT ![p].looked = @ + 1, ![p].paths = @ + copied,
                            ![p].there = @ + copied]
  /\ UNCHANGED <<dirs, clips, calls, killed, refused>>

StagingDone(p) ==
  /\ At(p, "stage")
  /\ call[p].looked = call[p].selected
  /\ IF call[p].paths = 0 THEN Fail(p, "no segments", "cleanup")
                          ELSE Goto(p, "manifest")
  /\ UNCHANGED <<dirs, clips, calls, killed, refused>>

WriteManifest(p) ==
  /\ At(p, "manifest")
  /\ \/ HasDirectory(p) /\ Goto(p, "copy")
     \/ Fail(p, "manifest", "cleanup")
  /\ UNCHANGED <<dirs, clips, calls, killed, refused>>

\* ffmpeg ends, by itself or at its timeout.  It cannot exit with 0 without
\* a directory to write in.
Compose(p, from, to) ==
  /\ At(p, from)
  /\ \E ok \in {TRUE, FALSE} \ (IF HasDirectory(p) THEN {} ELSE {TRUE}) :
     \E file \in IF HasDirectory(p)
                 THEN Files(Segment * call[p].there) \cup {Absent}
                 ELSE {Absent} :
       /\ ok => file # Absent
       /\ call' = [call EXCEPT ![p].pc = to, ![p].ok = ok, ![p].output = file]
  /\ UNCHANGED <<dirs, clips, calls, killed, refused>>

RunFfmpegComposeCopy(p) == Compose(p, "copy", "probe copy")
RunFfmpegCompose(p) == Compose(p, "encode", "exit")

\* The stream copy is kept, or removed for a normalized re-encode.
AcceptCopy(p) ==
  /\ At(p, "probe copy")
  /\ call[p].ok /\ Passes(call[p]) /\ ~MostlyBlack(call[p])
  /\ Goto(p, "exit")
  /\ UNCHANGED <<dirs, clips, calls, killed, refused>>

RefuseCopy(p) ==
  /\ At(p, "probe copy")
  /\ ~(call[p].ok /\ Passes(call[p]) /\ ~MostlyBlack(call[p]))
  /\ call' = [call EXCEPT ![p].pc = "encode", ![p].output = Absent]
  /\ UNCHANGED <<dirs, clips, calls, killed, refused>>

CheckExit(p) ==
  /\ At(p, "exit")
  /\ IF call[p].ok THEN Goto(p, "probe") ELSE Fail(p, "compose", "cleanup")
  /\ UNCHANGED <<dirs, clips, calls, killed, refused>>

\* Defect: the last look at the file does not ask whether it is black.
ValidateLengthOnly(p) ==
  /\ At(p, "probe")
  /\ IF ~Passes(call[p]) THEN Fail(p, "invalid", "cleanup")
                         ELSE Goto(p, "publish")
  /\ UNCHANGED <<dirs, clips, calls, killed, refused>>

\* The file is probed again whichever way it was composed.
Validate(p) ==
  /\ At(p, "probe")
  /\ IF ~Passes(call[p]) THEN Fail(p, "invalid", "cleanup")
     ELSE IF MostlyBlack(call[p]) THEN Fail(p, "black", "cleanup")
     ELSE Goto(p, "publish")
  /\ UNCHANGED <<dirs, clips, calls, killed, refused>>

Clip(c, whole) == [id |-> c.id, whole |-> whole, file |-> c.output,
                   mode |-> c.mode, selected |-> c.selected,
                   export |-> Export(c)]

Return(p) == call' = [call EXCEPT ![p].pc = "cleanup", ![p].result = "clip"]

Rename(p) ==
  /\ At(p, "publish")
  /\ call[p].output # Absent
  /\ clips' = clips \cup {Clip(call[p], TRUE)}
  /\ call' = [call EXCEPT ![p].pc = "cleanup", ![p].result = "clip",
                          ![p].output = Absent]
  /\ UNCHANGED <<dirs, calls, killed, refused>>

\* Defect: the path is returned while the copy is under way.
CopyUnattended(p) ==
  /\ At(p, "publish")
  /\ call[p].output # Absent
  /\ clips' = clips \cup {Clip(call[p], FALSE)}
  /\ Return(p)
  /\ UNCHANGED <<dirs, calls, killed, refused>>

\* rename fails, for a clip directory on another filesystem always.  The copy
\* takes time: whoever lists the directory sees what is written so far.
CopyInstead(p) ==
  /\ At(p, "publish")
  /\ \/ /\ call[p].output # Absent
        /\ clips' = clips \cup {Clip(call[p], FALSE)}
        /\ Goto(p, "copying")
     \/ Fail(p, "publish", "cleanup") /\ UNCHANGED clips
  /\ UNCHANGED <<dirs, calls, killed, refused>>

CopyEnds(p) ==
  /\ At(p, "copying")
  /\ \/ /\ call[p].output # Absent
        /\ clips' = (clips \ {Clip(call[p], FALSE)})
                      \cup {Clip(call[p], TRUE)}
        /\ Return(p)
     \/ Fail(p, "publish", "cleanup") /\ UNCHANGED clips
  /\ UNCHANGED <<dirs, calls, killed, refused>>

\* What is left of a call for its caller.
Outcome(c) == [Idle EXCEPT !.id = c.id, !.failure = c.failure,
                           !.result = c.result]

\* Defect: the directory is removed only after success.
CleanupAfterSuccess(p) ==
  /\ At(p, "cleanup")
  /\ dirs' = IF call[p].result = "clip" THEN dirs \ {call[p].id} ELSE dirs
  /\ call' = [call EXCEPT ![p] = Outcome(@)]
  /\ UNCHANGED <<clips, calls, killed, refused>>

\* ~ScopedDirectoryCleanup, on every way out; its error too is dropped.
Cleanup(p) ==
  /\ At(p, "cleanup")
  /\ \/ dirs' = dirs \ {call[p].id} /\ UNCHANGED refused
     \/ /\ HasDirectory(p)
        /\ refused' = refused \cup {call[p].id} /\ UNCHANGED dirs
  /\ call' = [call EXCEPT ![p] = Outcome(@)]
  /\ UNCHANGED <<clips, calls, killed>>

\* The process is killed, as Stop does to a daemon still saving after 5 s.
Kill(p) ==
  /\ ~At(p, "idle")
  /\ killed' = killed \cup {call[p].id}
  /\ call' = [call EXCEPT ![p] = Idle]
  /\ UNCHANGED <<dirs, clips, calls, refused>>

Step(p) ==
  \/ NoStaging(p) \/ CleanOne(p) \/ CleanDone(p) \/ MakeStaging(p)
  \/ StageSegment(p) \/ StagingDone(p) \/ WriteManifest(p)
  \/ RunFfmpegComposeCopy(p) \/ AcceptCopy(p) \/ RefuseCopy(p)
  \/ RunFfmpegCompose(p) \/ CheckExit(p) \/ Validate(p)
  \/ Rename(p) \/ CopyInstead(p) \/ CopyEnds(p) \/ Cleanup(p)

Next == \E p \in Procs : Begin(p) \/ NoDirectory(p) \/ Step(p) \/ Kill(p)

Spec == Init /\ [][Next]_vars /\ \A p \in Procs : WF_vars(Step(p))

-----------------------------------------------------------------------------
(* Properties.                                                             *)

Owner(i) == {p \in Procs : call[p].id = i /\ call[p].pc \in StagingPCs}

\* Whatever is complete in the clip directory, by rename or by copy, reported
\* or not, was composed to the length it was meant to have and, when the
\* caller asked for it, is not black (the validations of clip_muxer.cpp:644,
\* 691 and 705 against a file that is written twice and can be lost between).
PublishedUsable ==
  \A clip \in clips :
    clip.whole =>
      /\ FinalClipPassesValidation(clip.file, clip.mode, clip.export)
      /\ clip.mode = "checked" => ~clip.file.black

\* A call that returns a path has a complete file there, and no other call
\* has: a save whose staging directory another process removed fails
\* (clip_muxer.cpp:724-740).
ReportedPublished ==
  \A p \in Procs :
    call[p].id # 0 =>
      (call[p].result = "clip" <=>
         \E clip \in clips : clip.id = call[p].id /\ clip.whole)

\* Only calls under way, killed processes and calls whose own removal failed
\* have a staging directory: each of the eight ways out removes it
\* (clip_muxer.cpp:145-153).
NothingLeftBehind ==
  \A i \in dirs : i \in killed \cup refused \/ Owner(i) # {}

\* A call that stages has removed what every process killed before it began
\* left behind, unless it tried and the removal failed
\* (clip_muxer.cpp:439-458).
KilledCleanedUp ==
  \A p \in Procs : call[p].pc \in StagingPCs => call[p].stale \cap dirs = {}
=============================================================================
