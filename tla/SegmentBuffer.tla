---------------------------- MODULE SegmentBuffer ----------------------------
(***************************************************************************)
(* The rolling recording and what a save takes from it.                    *)
(*                                                                         *)
(* The splitmuxsink of the recorder's pipeline writes one fragment after   *)
(* the other into clipdeck-00000.mp4, ...; after RetainedSegmentCount      *)
(* names it begins again with the first, over the oldest fragment.  A      *)
(* fragment is finalized, which writes its "moov", some time after the     *)
(* next one was begun.                                                     *)
(*                                                                         *)
(* A save is GStreamerRecorder::SaveClip in the daemon or, when no daemon  *)
(* runs, `clipdeck save` with the files the last one left.  It reads the   *)
(* directory name by name, in an order that is the file system's, while    *)
(* fragments are begun and finalized; it selects files by name, and        *)
(* ClipMuxer copies them later one by one, whatever they have become.      *)
(*                                                                         *)
(* Fragments are numbered in the order of recording; lengths count half    *)
(* seconds, so that tolerances are integers.                               *)
(***************************************************************************)
EXTENDS Integers, FiniteSets

CONSTANTS
  ClipLength,     \* clip_length_seconds
  BufferSafety,   \* buffer_safety_seconds
  MaxLag,         \* fragments that may wait for their finalization
  Rank,           \* where the directory lists a name; equal ranks in any order
  MaxFragments,   \* bound: fragments
  MaxBegun,       \* bound: fragments begun while a save selects and stages
  MaxCuts,        \* bound: fragments the encoder's keyframes end early
  MaxStarts,      \* bound: recordings
  MaxErrors,      \* bound: copies that fail, of one save
  MaxSaves        \* bound: saves

ASSUME BufferParameters ==
  /\ ClipLength \in Nat \ {0} /\ BufferSafety \in Nat /\ MaxLag \in Nat
  /\ MaxFragments \in Nat /\ MaxBegun \in Nat /\ MaxCuts \in Nat
  /\ MaxStarts \in Nat /\ MaxErrors \in Nat /\ MaxSaves \in Nat

Least(a, b) == IF a < b THEN a ELSE b
Greatest(a, b) == IF a < b THEN b ELSE a

Second == 2  \* kSegmentSeconds, the length of a whole fragment

\* Defect: nothing is kept beyond what a clip needs.
RetainedOnlySelected == ClipLength + Greatest(BufferSafety, 1)

RetainedSegmentCount == ClipLength + BufferSafety + 3

\* SelectSegmentsForClip: clip_length + clamp(buffer_safety, 1, 3)
SelectedCount == ClipLength + Least(Greatest(BufferSafety, 1), 3)

Names == 0..(RetainedSegmentCount - 1)

ASSUME ListingOrder == Rank \in [Names -> Nat]

VARIABLES
  file,      \* per name: the fragment in it and its length
  name,      \* name of the open fragment
  open,      \* number of the open fragment, the last one begun
  done,      \* fragments up to this number are finalized
  first,     \* fragments up to this number are of earlier recordings
  recording, \* the pipeline plays
  split,     \* split-now was signalled and the fragment not ended yet
  cuts,      \* fragments ended early by the encoder's keyframes
  starts,    \* recordings begun
  saves,     \* saves begun
  save       \* the save under way, or how the last one ended

recordingVars == <<file, name, open, done, first, recording, split, cuts,
                   starts>>
vars == <<recordingVars, saves, save>>

Empty == [number |-> 0, length |-> 0]

SavePCs == {"idle", "wait", "select", "scan", "stamp", "look", "copy",
            "compose"}
Failures == {"", "no segment", "no usable segment", "compose", "invalid"}

\* The time of modification of a file that has the fragment of that number: it
\* lies after the finalization of fragment "after", which is its own when it is
\* finalized.
Times == [after : Nat, number : Nat]
NoTime == [after |-> 0, number |-> 0]

\* known: the last fragment finalized when the directory was read, begun: those
\* begun since.  from: where their recording began.  seen: the names found
\* finalized, was: what their times told.
NoSave == [pc |-> "idle", offline |-> FALSE, known |-> 0, todo |-> {},
           seen |-> {}, was |-> [k \in Names |-> NoTime], from |-> 0,
           selected |-> 0, staged |-> {}, looked |-> 0, begun |-> 0,
           errors |-> 0, cleaned |-> FALSE, clip |-> FALSE, failure |-> ""]

Init ==
  /\ file = [k \in Names |-> Empty]
  /\ name = 0 /\ open = 0 /\ done = 0 /\ first = 0
  /\ recording = FALSE /\ split = FALSE /\ cuts = 0 /\ starts = 0
  /\ saves = 0 /\ save = NoSave

File == [number : 0..MaxFragments, length : 0..Second]
Copies == [path : Names, number : 0..MaxFragments, length : 0..Second,
           whole : BOOLEAN]
SaveRecord ==
  [pc : SavePCs, offline : BOOLEAN, known : Nat, todo : SUBSET Names,
   seen : SUBSET Names, was : [Names -> Times], from : Nat, selected : Nat,
   staged : SUBSET Copies, looked : Names, begun : Nat, errors : Nat,
   cleaned : BOOLEAN, clip : BOOLEAN, failure : Failures]

TypeOK ==
  /\ file \in [Names -> File]
  /\ name \in Names
  /\ open \in 0..MaxFragments /\ done \in 0..MaxFragments
  /\ first \in 0..MaxFragments
  /\ recording \in BOOLEAN /\ split \in BOOLEAN
  /\ cuts \in 0..MaxCuts /\ starts \in 0..MaxStarts /\ saves \in 0..MaxSaves
  /\ save \in SaveRecord

-----------------------------------------------------------------------------
(* The recording.                                                          *)

\* The save holds names.
Staging == save.pc \in {"scan", "stamp", "look", "copy"}

\* What counts as the length of a fragment that is still written is left out.
NewFragment == [number |-> open + 1, length |-> 0]

\* CleanSegmentDirectory and a new pipeline.
StartRecording ==
  /\ ~recording /\ open < MaxFragments /\ starts < MaxStarts
  /\ starts' = starts + 1
  /\ recording' = TRUE
  /\ file' = [k \in Names |-> IF k = 0 THEN NewFragment ELSE Empty]
  /\ name' = 0
  /\ open' = open + 1 /\ done' = open /\ first' = open
  /\ split' = FALSE
  /\ save' = IF Staging THEN [save EXCEPT !.cleaned = TRUE] ELSE save
  /\ UNCHANGED <<cuts, saves>>

\* The pipeline is stopped or the daemon dies: what is not finalized stays so.
\* A save of the daemon has ended before or dies with it.
StopRecording ==
  /\ recording
  /\ recording' = FALSE
  /\ save' = IF save.pc = "idle" \/ save.offline THEN save ELSE NoSave
  /\ UNCHANGED <<file, name, open, done, first, split, cuts, starts, saves>>

Following(k) == IF k = RetainedSegmentCount - 1 THEN 0 ELSE k + 1

\* A fragment ends after its second, or earlier, when split-now was signalled
\* or a keyframe came early and the group of pictures after it did not fit.
\* The next one is written over the oldest.
BeginFragment ==
  /\ recording /\ open < MaxFragments /\ open - done <= MaxLag
  /\ Staging => save.begun < MaxBegun
  /\ \E length \in {1, Second} :
       LET cut == length < Second /\ ~split
       IN  /\ cut => cuts < MaxCuts
           /\ cuts' = IF cut THEN cuts + 1 ELSE cuts
           /\ file' = [file EXCEPT ![name].length = length,
                                   ![Following(name)] = NewFragment]
  /\ name' = Following(name)
  /\ open' = open + 1
  /\ split' = FALSE
  /\ save' = IF Staging THEN [save EXCEPT !.begun = @ + 1] ELSE save
  /\ UNCHANGED <<done, first, recording, starts, saves>>

\* async-finalize: in the order of recording, while others are written.
Finalize ==
  /\ recording /\ done + 1 < open
  /\ done' = done + 1
  /\ UNCHANGED <<file, name, open, first, recording, split, cuts, starts, saves,
                 save>>

-----------------------------------------------------------------------------
(* Selection.                                                              *)

IsFinalizedMp4Segment(k) == file[k].number \in 1..done

FinalizedSegmentEntries == {k \in Names : IsFinalizedMp4Segment(k)}

\* A file that is still written has been modified lately; one that is gone has
\* the least of all times.
SegmentModifiedTimes(k) ==
  LET n == file[k].number
  IN  IF n <= done THEN {[after |-> n, number |-> n]}
      ELSE {[after |-> a, number |-> n] : a \in save.known..done}

\* Defect: the sort descends and its end is taken for the newest.
Older(j, k) ==
  LET s == save.was[j]
      t == save.was[k]
  IN  \/ s.after < t.after
      \/ s.after = t.after /\ s.number < t.number
      \/ s = t /\ j < k

\* j sorts after k, by the times that were read and then by name.
Newer(j, k) ==
  LET s == save.was[j]
      t == save.was[k]
  IN  \/ s.after > t.after
      \/ s.after = t.after /\ s.number > t.number
      \/ s = t /\ j > k

\* SelectRecentFinalizedSegmentsByCount: the last ones of those that were seen.
SelectRecent(names) ==
  /\ Cardinality(names) = Least(SelectedCount, Cardinality(save.seen))
  /\ \A k \in names, j \in save.seen \ names : Newer(k, j)

-----------------------------------------------------------------------------
(* A save.                                                                 *)

Goto(pc) == save' = [save EXCEPT !.pc = pc]
Fail(why) == save' = [save EXCEPT !.pc = "idle", !.failure = why]

\* SaveClip signals split-now and waits for any finalized segment;
\* `clipdeck save` selects at once.
BeginSave ==
  /\ save.pc = "idle" /\ saves < MaxSaves
  /\ saves' = saves + 1
  /\ save' = [NoSave EXCEPT !.pc = IF recording THEN "wait" ELSE "select",
                            !.offline = ~recording]
  /\ split' = recording
  /\ UNCHANGED <<file, name, open, done, first, recording, cuts, starts>>

\* WaitForAnyFinalizedSegment looks again after its two seconds; whether any
\* segment is finalized does not depend on the order of looking.
WaitForAnyFinalizedSegment ==
  /\ save.pc = "wait"
  /\ IF FinalizedSegmentEntries # {} THEN Goto("select")
                                     ELSE Fail("no segment")
  /\ UNCHANGED <<recordingVars, saves>>

BeginScan ==
  /\ save.pc = "select"
  /\ save' = [save EXCEPT !.pc = "scan", !.todo = Names, !.known = done,
                          !.from = first]
  /\ UNCHANGED <<recordingVars, saves>>

\* FinalizedSegmentEntries looks for the "moov" of the next file ...
ScanLook ==
  /\ save.pc = "scan"
  /\ \E k \in save.todo :
       /\ \A j \in save.todo : Rank[k] <= Rank[j]
       /\ save' = IF IsFinalizedMp4Segment(k)
                  THEN [save EXCEPT !.todo = @ \ {k}, !.looked = k,
                                    !.pc = "stamp"]
                  ELSE [save EXCEPT !.todo = @ \ {k}]
  /\ UNCHANGED <<recordingVars, saves>>

\* ... and asks for the time of what is there then.
ScanStamp ==
  /\ save.pc = "stamp"
  /\ \E time \in SegmentModifiedTimes(save.looked) :
       save' = [save EXCEPT !.pc = "scan", !.seen = @ \cup {save.looked},
                            !.was[save.looked] = time]
  /\ UNCHANGED <<recordingVars, saves>>

Select ==
  /\ save.pc = "scan" /\ save.todo = {}
  /\ IF save.seen = {} THEN Fail("no usable segment")
     ELSE \E names \in SUBSET save.seen :
            /\ SelectRecent(names)
            /\ save' = [save EXCEPT
                 !.pc = "look", !.todo = names, !.seen = {},
                 !.was = [k \in Names |-> IF k \in names THEN @[k] ELSE NoTime],
                 !.selected = Cardinality(names)]
  /\ UNCHANGED <<recordingVars, saves>>

Oldest(k) == k \in save.todo /\ \A j \in save.todo \ {k} : Newer(j, k)

\* StageSegments looks for the "moov" ...
StageLook ==
  /\ save.pc = "look"
  /\ \E k \in Names :
       /\ Oldest(k)
       /\ save' = [save EXCEPT !.todo = @ \ {k}, !.looked = k,
                     !.pc = IF IsFinalizedMp4Segment(k) THEN "copy" ELSE "look"]
  /\ UNCHANGED <<recordingVars, saves>>

\* ... and copies what is there then, or cannot.
StageCopy ==
  /\ save.pc = "copy"
  /\ LET k == save.looked
         copy == [path |-> k, number |-> file[k].number,
                  length |-> file[k].length, whole |-> IsFinalizedMp4Segment(k)]
     IN  \/ /\ file[k] # Empty
            /\ save' = [save EXCEPT !.pc = "look", !.staged = @ \cup {copy}]
         \/ /\ file[k] = Empty
            /\ Goto("look")
         \/ /\ file[k] # Empty /\ save.errors < MaxErrors
            /\ save' = [save EXCEPT !.pc = "look", !.errors = @ + 1]
  /\ UNCHANGED <<recordingVars, saves>>

StagingDone ==
  /\ save.pc = "look" /\ save.todo = {}
  /\ IF save.staged = {} THEN Fail("no usable segment") ELSE Goto("compose")
  /\ UNCHANGED <<recordingVars, saves>>

Whole == {c \in save.staged : c.whole}
\* The half seconds of the whole copies, each with the copy it is of.
HalfSeconds == {p \in Whole \X (1..Second) : p[2] <= p[1].length}
Total == Cardinality(HalfSeconds)

\* Defect: the length of what was staged is expected, not of what was selected.
AvailableStaged == Second * Cardinality(save.staged)

\* available_duration_seconds: every selected segment counts one second.
Available == Second * save.selected
\* Defect: the full length is expected of a recording that just began.
ExportTarget == Second * ClipLength

Export == Least(Available, Second * ClipLength)
Trim == Greatest(Available - Export, 0)

\* TrustedFinalClipLooksUsable: a second either way for five seconds and more,
\* half a second for less.
Tolerance == IF Export >= 10 THEN 2 ELSE 1
TrustedFinalClipLooksUsable(length) ==
  /\ length > 0
  /\ length + Tolerance >= Export /\ length - Export <= Tolerance

\* ffmpeg joins the staged files, leaves out the trim at the head and writes
\* the length to export; what it does with a copy that is not whole is open.
Outputs ==
  IF Whole = save.staged THEN {Least(Export, Greatest(Total - Trim, 0))}
                         ELSE 0..Export

\* Compose, validate and publish; any of it may also fail (module ClipMuxer).
Compose ==
  /\ save.pc = "compose"
  /\ \/ Fail("compose")
     \/ \E length \in Outputs :
          IF TrustedFinalClipLooksUsable(length)
          THEN save' = [save EXCEPT !.pc = "idle", !.clip = TRUE]
          ELSE Fail("invalid")
  /\ UNCHANGED <<recordingVars, saves>>

SaveStep == WaitForAnyFinalizedSegment \/ BeginScan \/ ScanLook \/ ScanStamp
            \/ Select \/ StageLook \/ StageCopy \/ StagingDone \/ Compose

Next == \/ StartRecording \/ StopRecording \/ BeginFragment
        \/ Finalize \/ BeginSave \/ SaveStep

Spec == Init /\ [][Next]_vars

-----------------------------------------------------------------------------
(* Properties.                                                             *)

\* The files were not removed since the directory was read, and selecting and
\* staging is quick: what the buffer is meant to keep beyond a clip is not used up.
Spare == BufferSafety + 3 - Least(Greatest(BufferSafety, 1), 3)
InTime == ~save.cleaned /\ save.begun + MaxLag < Spare

\* While it is in time a save stages the fragments whose times it sorted, and
\* whole, though it holds only names and the recorder goes on writing over the
\* oldest (gstreamer_recorder.cpp:40-43 against 1102-1109).
StagedAsSelected ==
  InTime => \A c \in save.staged :
              c.whole /\ c.number = save.was[c.path].number

Selected == {c.number : c \in save.staged}

\* A clip whose files were all staged in time has no hole in what was finalized
\* when its directory was read: all of it back to the clip's length and its
\* safety, or to the beginning of the recording.  Only of what is finalized while
\* the directory is read may it have a later fragment and miss an earlier one
\* (segment_file.cpp:111-125, 234-239).
ClipIsRecent ==
  save.clip /\ InTime /\ Cardinality(save.staged) = save.selected =>
    /\ \A n \in Selected : n..save.known \subseteq Selected
    /\ save.selected < SelectedCount =>
         (save.from + 1)..save.known \subseteq Selected

\* A published clip misses at most one second of what its segments should have
\* held, however many were short, skipped or could not be staged: the recorder
\* says how long its selection is and the probe is held against that
\* (clip_muxer.cpp:70-75, 518-521, 594-602).
NoSilentLoss ==
  save.clip /\ Whole = save.staged =>
    Total + Second >= Second * save.selected

\* A save is refused as invalid only when segments are lost or short; a
\* recording of whole seconds that is staged in time never is.
RefusalExplained ==
  save.failure = "invalid" =>
    \/ Whole # save.staged \/ Cardinality(Whole) < save.selected
    \/ \E c \in Whole : c.length < Second
=============================================================================
