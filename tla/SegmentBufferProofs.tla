------------------------- MODULE SegmentBufferProofs -------------------------
(***************************************************************************)
(* Proofs about SegmentBuffer, for any clip length, safety and lag of the  *)
(* finalization.                                                           *)
(*                                                                         *)
(* IInv says where the fragments are: the names are a ring, and a file     *)
(* that was selected holds its fragment until the ring comes round to it.  *)
(* While the directory is read, every name that was read and holds one of  *)
(* the newest fragments that were known was taken with that fragment's     *)
(* time (Scan): what is begun and finalized meanwhile changes other names. *)
(* Story says what a save knows: what it selected has no hole (Choice),    *)
(* and it stages each file of it at most once.                             *)
(***************************************************************************)
EXTENDS SegmentBuffer, FiniteSetTheorems, TLAPS

\* How many fragments ago name k was last written.
Age(k) == IF k <= name THEN name - k ELSE name + RetainedSegmentCount - k

\* The names hold the last fragments of this recording, one after the other.
Ring ==
  /\ first <= done /\ done <= open /\ open - done <= MaxLag + 1
  /\ \A k \in Names :
       file[k].number = IF open - Age(k) > first THEN open - Age(k) ELSE 0

\* The fragments a save cannot miss: the newest that were known.
InWindow(n) == n \in 1..save.known /\ n > save.known - SelectedCount

\* What the time of a name tells, and how long the name holds that fragment.
Stamped(k) ==
  /\ save.was[k].number \in 1..open /\ save.was[k].number > first
  /\ save.was[k].number > save.known => save.was[k].after >= save.known
  /\ save.was[k].number <= save.known =>
       save.was[k].after = save.was[k].number
  /\ save.was[k].number > open - RetainedSegmentCount =>
       file[k].number = save.was[k].number

\* What was read so far.
Scan ==
  /\ save.from = first /\ first <= save.known /\ save.known <= done
  /\ open <= save.known + MaxLag + 1 + save.begun
  /\ \A k \in save.seen : Stamped(k)
  /\ \A k \in Names \ save.todo :
       InWindow(file[k].number) =>
         \/ k \in save.seen /\ save.was[k].number = file[k].number
         \/ save.pc = "stamp" /\ k = save.looked
  /\ save.pc = "stamp" => file[save.looked].number # 0

\* What is known of a name that was selected: it was among the newest, and it
\* holds the same fragment.
Held(k) ==
  /\ save.was[k].number \in 1..open
  /\ save.was[k].number >= open - save.begun - MaxLag - SelectedCount
  /\ file[k].number = save.was[k].number

SaveInv ==
  /\ save.pc \in {"wait", "select", "scan", "stamp"} => save.staged = {}
  /\ save.pc \in {"wait", "select"} => /\ save.seen = {} /\ save.begun = 0
                                       /\ ~save.cleaned
  /\ save.pc \in {"scan", "stamp"} /\ ~save.cleaned => Scan
  /\ save.pc \in {"look", "copy"} /\ InTime => \A k \in save.todo : Held(k)
  /\ save.pc = "copy" /\ InTime => /\ Held(save.looked)
                                   /\ save.was[save.looked].number <= done

IInv == TypeOK /\ Ring /\ SaveInv /\ StagedAsSelected

LEMMA Numbers ==
  /\ RetainedSegmentCount \in Nat /\ SelectedCount \in Nat
  /\ RetainedSegmentCount >= SelectedCount + 2 /\ SelectedCount >= 2
  /\ Spare = RetainedSegmentCount - SelectedCount
  /\ MaxLag \in Nat /\ MaxFragments \in Nat
  BY BufferParameters
  DEF BufferParameters, RetainedSegmentCount, SelectedCount, Spare, Least,
      Greatest

LEMMA FiniteNames == IsFiniteSet(Names)
  BY FS_Interval, Numbers DEF Names

LEMMA Upward ==
  ASSUME NEW a \in Int, NEW b \in Int, a <= b
  PROVE  IsFiniteSet((a + 1)..b) /\ Cardinality((a + 1)..b) = b - a
  <1>1. a + 1 \in Int
    OBVIOUS
  <1>2. /\ IsFiniteSet((a + 1)..b)
        /\ Cardinality((a + 1)..b)
             = IF a + 1 > b THEN 0 ELSE b - (a + 1) + 1
    BY <1>1, FS_Interval
  <1> QED
    BY <1>2

\* The name that fragment u was written to.
NameOf(u) == IF name >= open - u THEN name - (open - u)
             ELSE name + RetainedSegmentCount - (open - u)

LEMMA HeldByName ==
  ASSUME TypeOK, Ring, NEW u \in Int, first < u, u <= open,
         open - u < RetainedSegmentCount
  PROVE  NameOf(u) \in Names /\ file[NameOf(u)].number = u
  <1>1. name \in Names /\ open \in Nat /\ first \in Nat
    BY DEF TypeOK
  <1>2. NameOf(u) \in Names /\ Age(NameOf(u)) = open - u
    BY <1>1, Numbers DEF Names, Age, NameOf
  <1>3. open - Age(NameOf(u)) = u
    BY <1>1, <1>2
  <1> QED
    BY <1>1, <1>2, <1>3 DEF Ring

\* No fragment is in two files.
LEMMA OneNameEach ==
  ASSUME TypeOK, Ring
  PROVE  \A j, k \in Names :
           file[j].number = file[k].number /\ file[j].number # 0 => j = k
  <1> SUFFICES ASSUME NEW j \in Names, NEW k \in Names,
                      file[j].number = file[k].number, file[j].number # 0
               PROVE  j = k
    OBVIOUS
  <1>1. name \in Names /\ open \in Nat
    BY DEF TypeOK
  <1>2. Age(j) \in Int /\ Age(k) \in Int
    BY <1>1, Numbers DEF Age, Names
  <1>3. file[j].number = open - Age(j) /\ file[k].number = open - Age(k)
    BY DEF Ring
  <1>4. open - Age(j) = open - Age(k)
    BY <1>3
  <1>5. Age(j) = Age(k)
    BY <1>1, <1>2, <1>4
  <1> QED
    BY <1>1, <1>5, Numbers DEF Age, Names

\* The names hold numbers of this recording, or nothing.
LEMMA NumbersHeld ==
  ASSUME TypeOK, Ring, NEW k \in Names
  PROVE  /\ file[k].number \in Nat /\ file[k].number <= open
         /\ file[k].number # 0 => file[k].number > first
  <1>1. name \in Names /\ open \in Nat /\ first \in Nat
    BY DEF TypeOK
  <1>2. Age(k) \in Nat
    BY <1>1, Numbers DEF Age, Names
  <1> QED
    BY <1>1, <1>2 DEF Ring

-----------------------------------------------------------------------------

LEMMA NoSaveType == NoSave \in SaveRecord
  BY Numbers DEF NoSave, SaveRecord, SavePCs, Failures, Names, Times, NoTime

LEMMA InitIInv == Init => IInv
  <1> SUFFICES ASSUME Init PROVE IInv
    OBVIOUS
  <1>1. TypeOK
    <2>1. recording \in BOOLEAN /\ split \in BOOLEAN
      BY Zenon DEF Init
    <2>2. Empty \in File
      BY Numbers DEF Empty, File, Second
    <2>3. file \in [Names -> File]
      BY <2>2 DEF Init
    <2>4. name \in Names
      BY Numbers DEF Init, Names
    <2>5. save \in SaveRecord
      BY NoSaveType DEF Init
    <2>6. /\ open \in 0..MaxFragments /\ done \in 0..MaxFragments
          /\ first \in 0..MaxFragments /\ cuts \in 0..MaxCuts
          /\ starts \in 0..MaxStarts /\ saves \in 0..MaxSaves
      BY BufferParameters DEF Init, BufferParameters
    <2> QED
      BY <2>1, <2>3, <2>4, <2>5, <2>6 DEF TypeOK
  <1>2. Ring
    BY Numbers DEF Init, Ring, Age, Empty, Names
  <1> QED
    BY <1>1, <1>2
    DEF Init, IInv, SaveInv, StagedAsSelected, NoSave, Staging

\* A step that leaves the recording alone keeps what is known of it.
LEMMA RingStays ==
  ASSUME TypeOK, Ring, UNCHANGED <<file, name, open, done, first>>
  PROVE  Ring'
  <1>1. \A k \in Names : Age(k)' = Age(k)
    BY DEF Age
  <1> QED
    BY <1>1 DEF Ring

-----------------------------------------------------------------------------
(* The recording's steps.                                                  *)

LEMMA StartPreserves == ASSUME IInv, StartRecording PROVE IInv'
  <1> USE DEF IInv
  <1>1. TypeOK'
    <2>1. NewFragment \in File /\ Empty \in File /\ 0 \in Names
      BY Numbers DEF NewFragment, Empty, File, TypeOK, StartRecording, Second,
         Names
    <2>2. file' \in [Names -> File]
      BY <2>1 DEF StartRecording
    <2>3. save' \in SaveRecord
      BY DEF StartRecording, TypeOK, SaveRecord
    <2>4. recording' \in BOOLEAN /\ split' \in BOOLEAN
      BY Zenon DEF StartRecording
    <2>5. name' \in Names
      BY <2>1 DEF StartRecording
    <2>6. /\ open' \in 0..MaxFragments /\ done' \in 0..MaxFragments
          /\ first' \in 0..MaxFragments /\ cuts' \in 0..MaxCuts
          /\ starts' \in 0..MaxStarts /\ saves' \in 0..MaxSaves
      BY BufferParameters DEF StartRecording, TypeOK, BufferParameters
    <2> QED
      BY <2>2, <2>3, <2>4, <2>5, <2>6 DEF TypeOK
  <1>2. Ring'
    <2>1. /\ name' = 0 /\ open' = open + 1 /\ first' = open /\ done' = open
          /\ open \in Nat
      BY DEF StartRecording, TypeOK
    <2>2. \A k \in Names : file'[k].number = IF k = 0 THEN open + 1 ELSE 0
      BY DEF StartRecording, NewFragment, Empty
    <2>3. \A k \in Names :
            Age(k)' = IF k = 0 THEN 0 ELSE RetainedSegmentCount - k
      BY <2>1, Numbers DEF Age, Names
    <2> QED
      BY <2>1, <2>2, <2>3, Numbers DEF Ring, Names
  <1>3. SaveInv' /\ StagedAsSelected'
    <2>1. CASE Staging
      <3>1. save'.cleaned /\ save'.pc = save.pc /\ save'.staged = save.staged
        BY <2>1 DEF StartRecording, TypeOK, SaveRecord
      <3> QED
        BY <2>1, <3>1 DEF SaveInv, StagedAsSelected, InTime, Staging
    <2>2. CASE ~Staging
      <3>1. save' = save
        BY <2>2 DEF StartRecording
      <3> QED
        BY <2>2, <3>1 DEF SaveInv, StagedAsSelected, InTime, Staging
    <2> QED
      BY <2>1, <2>2
  <1> QED
    BY <1>1, <1>2, <1>3

LEMMA StopPreserves == ASSUME IInv, StopRecording PROVE IInv'
  <1> USE DEF IInv
  <1>1. TypeOK'
    <2>1. recording' \in BOOLEAN /\ split' \in BOOLEAN
      BY Zenon DEF StopRecording, TypeOK
    <2>2. save' \in SaveRecord
      BY NoSaveType DEF StopRecording, TypeOK
    <2> QED
      BY <2>1, <2>2 DEF StopRecording, TypeOK
  <1>2. Ring'
    BY RingStays DEF StopRecording
  <1>3. SaveInv' /\ StagedAsSelected'
    <2>1. CASE save' = save
      BY <2>1 DEF StopRecording, SaveInv, StagedAsSelected, InTime, Staging,
         Held, Scan, Stamped, InWindow
    <2>2. CASE save' = NoSave
      BY <2>2 DEF NoSave, SaveInv, StagedAsSelected, Staging
    <2> QED
      BY <2>1, <2>2 DEF StopRecording
  <1> QED
    BY <1>1, <1>2, <1>3

LEMMA FinalizePreserves == ASSUME IInv, Finalize PROVE IInv'
  <1> USE DEF IInv
  <1>1. TypeOK'
    <2>1. recording' \in BOOLEAN /\ split' \in BOOLEAN
      BY Zenon DEF Finalize, TypeOK
    <2>2. done' \in 0..MaxFragments
      BY Numbers DEF Finalize, TypeOK
    <2> QED
      BY <2>1, <2>2 DEF Finalize, TypeOK
  <1>2. Ring'
    <2>1. \A k \in Names : Age(k)' = Age(k)
      BY DEF Finalize, Age
    <2> QED
      BY <2>1, Numbers DEF Finalize, TypeOK, Ring
  <1>3. SaveInv' /\ StagedAsSelected'
    <2>1. /\ file' = file /\ open' = open /\ first' = first /\ save' = save
          /\ done \in Nat /\ done' = done + 1
      BY DEF Finalize, TypeOK
    <2>2. Scan => Scan'
      <3>1. save.known \in Nat
        BY DEF TypeOK, SaveRecord
      <3>2. save.known <= done => save.known <= done'
        BY <2>1, <3>1
      <3>3. \A k \in Names : Stamped(k) <=> Stamped(k)'
        BY <2>1 DEF Stamped
      <3> QED
        BY <2>1, <3>2, <3>3 DEF Scan, InWindow, TypeOK, SaveRecord
    <2>3. \A k \in Names : Held(k) <=> Held(k)'
      BY <2>1 DEF Held
    <2>4. /\ InTime <=> InTime'
          /\ save.todo \subseteq Names /\ save.looked \in Names
          /\ save.was[save.looked].number <= done
               => save.was[save.looked].number <= done'
      <3>1. InTime <=> InTime'
        BY <2>1 DEF InTime
      <3>2. /\ save.todo \subseteq Names /\ save.looked \in Names
            /\ save.was[save.looked].number \in Nat
        BY DEF TypeOK, SaveRecord, Times
      <3> QED
        BY <2>1, <3>1, <3>2
    <2>5. SaveInv'
      BY <2>1, <2>2, <2>3, <2>4 DEF SaveInv
    <2> QED
      BY <2>1, <2>4, <2>5 DEF StagedAsSelected
  <1> QED
    BY <1>1, <1>2, <1>3

LEMMA BeginFragmentPreserves == ASSUME IInv, BeginFragment PROVE IInv'
  <1> USE DEF IInv
  <1>1. PICK length \in {1, Second} :
          /\ cuts' \in {cuts, cuts + 1} /\ cuts' <= MaxCuts
          /\ file' = [file EXCEPT ![name].length = length,
                                  ![Following(name)] = NewFragment]
    <2>1. PICK length \in {1, Second} :
            LET cut == length < Second /\ ~split
            IN  /\ cut => cuts < MaxCuts
                /\ cuts' = IF cut THEN cuts + 1 ELSE cuts
                /\ file' = [file EXCEPT ![name].length = length,
                                        ![Following(name)] = NewFragment]
      BY DEF BeginFragment
    <2>2. cuts' \in {cuts, cuts + 1} /\ cuts' <= MaxCuts
      BY <2>1, BufferParameters DEF TypeOK, BufferParameters
    <2> QED
      BY <2>1, <2>2
  <1>2. Following(name) \in Names /\ Following(name) # name
    BY Numbers DEF TypeOK, Names, Following
  <1>3. /\ file' \in [Names -> File]
        /\ file'[Following(name)].number = open + 1
        /\ \A k \in Names :
             k # Following(name) => file'[k].number = file[k].number
    <2>1. NewFragment \in File /\ NewFragment.number = open + 1
      BY Numbers DEF NewFragment, File, TypeOK, BeginFragment, Second
    <2>2. length \in 0..Second
      BY DEF Second
    <2> QED
      BY <1>1, <1>2, <2>1, <2>2 DEF TypeOK, File
  <1>4. /\ save' \in SaveRecord
        /\ save'.known = save.known /\ save'.from = save.from
        /\ save'.seen = save.seen
        /\ save'.pc = save.pc /\ save'.was = save.was
        /\ save'.staged = save.staged /\ save'.todo = save.todo
        /\ save'.looked = save.looked /\ save'.cleaned = save.cleaned
        /\ save'.begun = IF Staging THEN save.begun + 1 ELSE save.begun
    BY DEF BeginFragment, TypeOK, SaveRecord
  <1>5. TypeOK'
    <2>1. recording' \in BOOLEAN /\ split' \in BOOLEAN
      BY Zenon DEF BeginFragment, TypeOK
    <2>2. name' \in Names
      BY <1>2 DEF BeginFragment
    <2>3. /\ open' \in 0..MaxFragments /\ done' \in 0..MaxFragments
          /\ first' \in 0..MaxFragments /\ cuts' \in 0..MaxCuts
          /\ starts' \in 0..MaxStarts /\ saves' \in 0..MaxSaves
      BY <1>1, BufferParameters DEF BeginFragment, TypeOK, BufferParameters
    <2> QED
      BY <1>3, <1>4, <2>1, <2>2, <2>3 DEF TypeOK
  <1>6. Ring'
    <2>1. first' <= done' /\ done' <= open' /\ open' - done' <= MaxLag + 1
      BY Numbers DEF BeginFragment, Ring, TypeOK
    <2>2. ASSUME NEW k \in Names
          PROVE  file'[k].number = IF open' - Age(k)' > first'
                                   THEN open' - Age(k)' ELSE 0
      <3>1. CASE k = Following(name)
        <4>1. /\ name' = k /\ open' = open + 1 /\ first' = first
              /\ first <= open /\ open \in Nat /\ first \in Nat
          BY <3>1 DEF BeginFragment, Ring, TypeOK
        <4>2. Age(k)' = 0
          BY <4>1, Numbers DEF Age, Names
        <4> QED
          BY <1>3, <3>1, <4>1, <4>2
      <3>2. CASE k # Following(name)
        <4>1. open' - Age(k)' = open - Age(k)
          <5>1. /\ name' = Following(name) /\ open' = open + 1
                /\ name \in Names /\ open \in Nat
            BY DEF BeginFragment, TypeOK
          <5> QED
            BY <3>2, <5>1, Numbers DEF Age, Names, Following
        <4> QED
          BY <1>3, <3>2, <4>1 DEF BeginFragment, Ring, TypeOK
      <3> QED
        BY <3>1, <3>2
    <2> QED
      BY <2>1, <2>2 DEF Ring
  <1>a. /\ open \in Nat /\ done \in Nat /\ first \in Nat
        /\ open' = open + 1 /\ done' = done /\ first' = first
        /\ first <= done /\ done <= open
        /\ save.begun \in Nat /\ save.known \in Nat
        /\ \A k \in Names : save.was[k] \in Times
    BY DEF BeginFragment, TypeOK, SaveRecord, Ring
  <1>b. ASSUME NEW k \in Names, save.was[k].number # 0,
               file[k].number = save.was[k].number,
               save.was[k].number > open + 1 - RetainedSegmentCount
        PROVE  file'[k].number = save.was[k].number
    <2>1. save.was[k].number \in Nat
      BY <1>a DEF Times
    <2>2. k # Following(name)
      <3>1. name \in Names
        BY DEF TypeOK
      <3>2. file[k].number = open - Age(k)
        BY <1>b DEF Ring
      <3> QED
        BY <1>a, <1>b, <2>1, <3>1, <3>2, Numbers DEF Age, Following, Names
    <2> QED
      BY <1>3, <1>b, <2>2
  <1>c. InTime' => InTime
    BY <1>4, <1>a, Numbers DEF InTime, Spare, Staging
  <1>7. ASSUME NEW k \in Names, Held(k), Staging, InTime' PROVE Held(k)'
    <2>1. save.was[k].number \in Nat /\ save.was[k].number # 0
      BY <1>7, <1>a DEF Held, Times
    <2>2. save'.begun = save.begun + 1
      BY <1>4, <1>7
    <2>3. save.begun + 1 + MaxLag < RetainedSegmentCount - SelectedCount
      BY <1>7, <2>2, Numbers DEF InTime, Spare
    <2>4. save.was[k].number >= open - save.begun - MaxLag - SelectedCount
      BY <1>7 DEF Held
    <2>5. save.was[k].number > open + 1 - RetainedSegmentCount
      BY <1>a, <2>1, <2>3, <2>4, Numbers
    <2>6. file'[k].number = save.was[k].number
      BY <1>7, <1>b, <2>1, <2>5 DEF Held
    <2>7. save.was[k].number \in 1..(open + 1)
      BY <1>7, <1>a DEF Held
    <2>8. save.was[k].number
            >= (open + 1) - (save.begun + 1) - MaxLag - SelectedCount
      BY <1>a, <2>1, <2>4, Numbers
    <2> QED
      BY <1>4, <1>a, <2>2, <2>6, <2>7, <2>8 DEF Held
  <1>d. ASSUME NEW k \in Names, Stamped(k) PROVE Stamped(k)'
    <2>1. save.was[k].number \in 1..(open + 1)
      BY <1>a, <1>d DEF Stamped
    <2>2. save.was[k].number \in Nat /\ save.was[k].number # 0
      BY <1>a, <1>d DEF Times, Stamped
    <2>3. save.was[k].number > open + 1 - RetainedSegmentCount =>
            file'[k].number = save.was[k].number
      <3>1. save.was[k].number > open + 1 - RetainedSegmentCount =>
              save.was[k].number > open - RetainedSegmentCount
        BY <1>a, <2>2, Numbers
      <3> QED
        BY <1>b, <1>d, <2>2, <3>1 DEF Stamped
    <2>4. /\ save.was[k].number > first
          /\ save.was[k].number > save.known =>
               save.was[k].after >= save.known
          /\ save.was[k].number <= save.known =>
               save.was[k].after = save.was[k].number
      BY <1>d DEF Stamped
    <2>5. save'.was = save.was /\ save'.known = save.known
      BY <1>4
    <2>6. save'.was[k].number > open' - RetainedSegmentCount =>
            file'[k].number = save'.was[k].number
      <3>1. open' - RetainedSegmentCount = open + 1 - RetainedSegmentCount
        BY <1>a, Numbers
      <3> QED
        BY <2>3, <2>5, <3>1
    <2>7. save'.was[k].number \in 1..open' /\ save'.was[k].number > first'
      BY <1>a, <2>1, <2>4, <2>5
    <2>8. /\ save'.was[k].number > save'.known =>
               save'.was[k].after >= save'.known
          /\ save'.was[k].number <= save'.known =>
               save'.was[k].after = save'.was[k].number
      BY <2>4, <2>5
    <2> QED
      BY <2>6, <2>7, <2>8 DEF Stamped
  <1>e. ASSUME Scan, save.pc \in {"scan", "stamp"} PROVE Scan'
    <2>1. Staging /\ save'.begun = save.begun + 1
      BY <1>4, <1>e DEF Staging
    <2>2. open + 1 <= save.known + MaxLag + 1 + (save.begun + 1)
      BY <1>a, <1>e, Numbers DEF Scan
    <2>3. ASSUME NEW k \in Names \ save.todo, InWindow(file'[k].number)
          PROVE  \/ k \in save.seen /\ save.was[k].number = file'[k].number
                 \/ save.pc = "stamp" /\ k = save.looked
      <3>1. k # Following(name)
        BY <1>3, <1>a, <1>e, <2>3 DEF InWindow, Scan
      <3>2. file'[k].number = file[k].number
        BY <1>3, <3>1
      <3> QED
        BY <1>e, <2>3, <3>2 DEF Scan
    <2>4. save.pc = "stamp" => file'[save.looked].number # 0
      <3>1. save.looked \in Names
        BY DEF TypeOK, SaveRecord
      <3> QED
        BY <1>3, <1>a, <1>e, <3>1 DEF Scan
    <2>5. \A k \in save.seen : Stamped(k)'
      BY <1>d, <1>e DEF Scan, TypeOK, SaveRecord
    <2>6. \A n : InWindow(n) <=> InWindow(n)'
      BY <1>4 DEF InWindow
    <2> QED
      BY <1>4, <1>a, <1>e, <2>1, <2>2, <2>3, <2>4, <2>5, <2>6 DEF Scan
  <1>8. SaveInv'
    <2>1. save.todo \subseteq Names /\ save.looked \in Names
      BY DEF TypeOK, SaveRecord
    <2>2. /\ save'.pc \in {"wait", "select", "scan", "stamp"}
               => save'.staged = {}
          /\ save'.pc \in {"wait", "select"} =>
               save'.seen = {} /\ save'.begun = 0 /\ ~save'.cleaned
      BY <1>4 DEF SaveInv, Staging
    <2>3. save'.pc \in {"scan", "stamp"} /\ ~save'.cleaned => Scan'
      BY <1>4, <1>e DEF SaveInv
    <2>4. ASSUME save'.pc \in {"look", "copy"}, InTime',
                 NEW k \in save'.todo
          PROVE  Held(k)'
      <3>1. save.pc \in {"look", "copy"} /\ InTime /\ k \in save.todo
        BY <1>4, <1>c, <2>4
      <3>2. Held(k) /\ Staging /\ k \in Names
        BY <2>1, <3>1 DEF SaveInv, Staging
      <3> QED
        BY <1>7, <2>4, <3>2
    <2>5. ASSUME save'.pc = "copy", InTime'
          PROVE  (Held(save.looked) /\ save.was[save.looked].number <= done)'
      <3>1. save.pc = "copy" /\ InTime
        BY <1>4, <1>c, <2>5
      <3>2. PICK k \in Names : k = save.looked
        BY <2>1
      <3>3. Held(k) /\ Staging /\ save.was[k].number <= done
        BY <3>1, <3>2 DEF SaveInv, Staging
      <3>4. Held(k)'
        BY <1>7, <2>5, <3>3
      <3>5. save'.looked = k /\ save'.was = save.was
        BY <1>4, <3>2
      <3> QED
        BY <1>a, <3>3, <3>4, <3>5 DEF Held
    <2>6. save'.pc \in {"look", "copy"} /\ InTime'
            => \A k \in save'.todo : Held(k)'
      BY <2>4
    <2> QED
      BY <2>2, <2>3, <2>5, <2>6 DEF SaveInv
  <1>9. StagedAsSelected'
    BY <1>4, <1>c DEF StagedAsSelected
  <1> QED
    BY <1>5, <1>6, <1>8, <1>9

-----------------------------------------------------------------------------
(* The steps of a save.                                                    *)

\* Moving on and giving up keep all that is known of a save.
LEMMA Moving ==
  ASSUME save \in SaveRecord, NEW pc \in {"look", "copy", "compose", "select"},
         Goto(pc)
  PROVE  save' \in SaveRecord /\ save' = [save EXCEPT !.pc = pc]
  BY DEF Goto, SaveRecord, SavePCs

LEMMA GivingUp ==
  ASSUME save \in SaveRecord, NEW why \in Failures, Fail(why)
  PROVE  save' \in SaveRecord
         /\ save' = [save EXCEPT !.pc = "idle", !.failure = why]
  BY DEF Fail, SaveRecord, SavePCs

LEMMA OpeningPreserves ==
  ASSUME IInv, BeginSave \/ WaitForAnyFinalizedSegment
  PROVE  IInv'
  <1> USE DEF IInv
  <1>1. Ring'
    BY RingStays DEF BeginSave, WaitForAnyFinalizedSegment, recordingVars
  <1>2. CASE BeginSave
    <2>a. recording \in BOOLEAN /\ (~recording) \in BOOLEAN
      <3>1. recording \in BOOLEAN
        BY DEF TypeOK
      <3> QED
        BY <3>1
    <2>1. save' \in SaveRecord
      <3>1. (IF recording THEN "wait" ELSE "select") \in SavePCs
        BY DEF SavePCs
      <3>2. \A pc \in SavePCs, off \in BOOLEAN :
              [NoSave EXCEPT !.pc = pc, !.offline = off] \in SaveRecord
        BY NoSaveType DEF SaveRecord
      <3>3. save' = [NoSave EXCEPT !.pc = IF recording THEN "wait" ELSE "select",
                                   !.offline = ~recording]
        BY <1>2 DEF BeginSave
      <3> QED
        BY <2>a, <3>1, <3>2, <3>3, Zenon
    <2>b. split' \in BOOLEAN /\ recording' \in BOOLEAN
      BY <1>2, <2>a, Zenon DEF BeginSave
    <2>c. saves' \in 0..MaxSaves
      BY <1>2, BufferParameters DEF BeginSave, TypeOK, BufferParameters
    <2>2. TypeOK'
      BY <1>2, <2>1, <2>b, <2>c DEF BeginSave, TypeOK
    <2>3. SaveInv' /\ StagedAsSelected'
      BY <1>2, NoSaveType
      DEF BeginSave, NoSave, SaveInv, StagedAsSelected, Staging
    <2> QED
      BY <1>1, <2>2, <2>3
  <1>3. CASE WaitForAnyFinalizedSegment
    <2>1. save' \in SaveRecord
      BY <1>3, Moving, GivingUp DEF WaitForAnyFinalizedSegment, Failures, TypeOK
    <2>2. TypeOK'
      BY <1>3, <2>1 DEF WaitForAnyFinalizedSegment, TypeOK, recordingVars
    <2>3. /\ save'.pc \in {"idle", "select"} /\ save'.staged = {}
          /\ save'.seen = {} /\ save'.begun = 0 /\ ~save'.cleaned
      <3>1. /\ save.pc = "wait" /\ save.staged = {} /\ save.seen = {}
            /\ save.begun = 0 /\ ~save.cleaned
        BY <1>3 DEF WaitForAnyFinalizedSegment, SaveInv
      <3>2. \/ save' = [save EXCEPT !.pc = "select"]
            \/ save' = [save EXCEPT !.pc = "idle", !.failure = "no segment"]
        BY <1>3 DEF WaitForAnyFinalizedSegment, Goto, Fail
      <3> QED
        BY <3>1, <3>2 DEF TypeOK, SaveRecord
    <2>4. SaveInv' /\ StagedAsSelected'
      BY <2>3 DEF SaveInv, StagedAsSelected
    <2> QED
      BY <1>1, <2>2, <2>4
  <1> QED
    BY <1>2, <1>3

LEMMA BeginScanPreserves == ASSUME IInv, BeginScan PROVE IInv'
  <1> USE DEF IInv
  <1>1. Ring'
    BY RingStays DEF BeginScan, recordingVars
  <1>2. /\ save \in SaveRecord /\ done \in Nat /\ first \in Nat /\ open \in Nat
        /\ UNCHANGED <<file, open, done, first>>
    BY DEF BeginScan, TypeOK, recordingVars
  <1>3. save' \in SaveRecord
    BY <1>2 DEF BeginScan, SaveRecord, SavePCs
  <1>4. TypeOK'
    BY <1>3 DEF BeginScan, TypeOK, recordingVars
  <1>5. /\ save'.pc = "scan" /\ save'.todo = Names /\ save'.known = done
        /\ save'.from = first /\ save'.seen = {} /\ save'.begun = 0
        /\ save'.staged = {}
    BY <1>2 DEF BeginScan, SaveRecord, SaveInv
  <1>6. Scan'
    BY <1>2, <1>5, Numbers DEF Scan, Ring
  <1> QED
    BY <1>1, <1>4, <1>5, <1>6 DEF SaveInv, StagedAsSelected

LEMMA ScanLookPreserves == ASSUME IInv, ScanLook PROVE IInv'
  <1> USE DEF IInv
  <1>1. Ring'
    BY RingStays DEF ScanLook, recordingVars
  <1>2. /\ save \in SaveRecord /\ done \in Nat /\ save.known \in Nat
        /\ save.pc = "scan" /\ UNCHANGED <<file, open, done, first>>
    BY DEF ScanLook, TypeOK, recordingVars, SaveRecord
  <1>3. PICK k \in Names :
          /\ k \in save.todo
          /\ save' = IF IsFinalizedMp4Segment(k)
                     THEN [save EXCEPT !.todo = @ \ {k}, !.looked = k,
                                       !.pc = "stamp"]
                     ELSE [save EXCEPT !.todo = @ \ {k}]
    BY <1>2 DEF ScanLook, SaveRecord
  <1>4. save' \in SaveRecord
    BY <1>2, <1>3 DEF SaveRecord, SavePCs
  <1>5. TypeOK'
    BY <1>4 DEF ScanLook, TypeOK, recordingVars
  <1>6. /\ save'.todo = save.todo \ {k} /\ save'.seen = save.seen
        /\ save'.was = save.was /\ save'.known = save.known
        /\ save'.from = save.from /\ save'.begun = save.begun
        /\ save'.cleaned = save.cleaned /\ save'.staged = save.staged
        /\ save'.pc \in {"scan", "stamp"}
    BY <1>2, <1>3 DEF SaveRecord
  <1>7. IF IsFinalizedMp4Segment(k) THEN save'.pc = "stamp" /\ save'.looked = k
                                    ELSE save'.pc = "scan"
    BY <1>2, <1>3 DEF SaveRecord
  <1>8. ASSUME Scan PROVE Scan'
    <2>1. ASSUME NEW j \in Names \ save'.todo, InWindow(file[j].number)
          PROVE  \/ j \in save.seen /\ save.was[j].number = file[j].number
                 \/ save'.pc = "stamp" /\ j = save'.looked
      <3>1. CASE j = k
        <4>1. IsFinalizedMp4Segment(k)
          BY <1>2, <1>8, <2>1, <3>1 DEF InWindow, IsFinalizedMp4Segment, Scan
        <4> QED
          BY <1>7, <3>1, <4>1
      <3>2. CASE j # k
        BY <1>2, <1>6, <1>8, <2>1, <3>2 DEF Scan
      <3> QED
        BY <3>1, <3>2
    <2>2. save'.pc = "stamp" => file[save'.looked].number # 0
      BY <1>2, <1>7 DEF IsFinalizedMp4Segment
    <2>3. \A j \in save.seen : Stamped(j)'
      BY <1>2, <1>6, <1>8 DEF Scan, Stamped
    <2>4. \A n : InWindow(n) <=> InWindow(n)'
      BY <1>6 DEF InWindow
    <2> QED
      BY <1>2, <1>6, <1>8, <2>1, <2>2, <2>3, <2>4 DEF Scan
  <1>9. SaveInv' /\ StagedAsSelected'
    BY <1>2, <1>6, <1>8 DEF SaveInv, StagedAsSelected
  <1> QED
    BY <1>1, <1>5, <1>9

\* What a time tells of the fragment the name holds.
LEMMA TimeTells ==
  ASSUME TypeOK, NEW k \in Names, NEW time \in SegmentModifiedTimes(k),
         save.known <= done
  PROVE  /\ time \in Times /\ time.number = file[k].number
         /\ time.number > save.known => time.after >= save.known
         /\ time.number <= save.known => time.after = time.number
  <1>1. /\ file[k].number \in Nat /\ done \in Nat /\ save.known \in Nat
    BY DEF TypeOK, File, SaveRecord
  <1>2. PICK a \in Nat : /\ time = [after |-> a, number |-> file[k].number]
                         /\ IF file[k].number <= done THEN a = file[k].number
                                                     ELSE a >= save.known
    BY <1>1 DEF SegmentModifiedTimes
  <1> QED
    BY <1>1, <1>2 DEF Times

LEMMA ScanStampPreserves == ASSUME IInv, ScanStamp PROVE IInv'
  <1> USE DEF IInv
  <1>1. Ring'
    BY RingStays DEF ScanStamp, recordingVars
  <1>2. /\ save \in SaveRecord /\ save.known \in Nat /\ save.pc = "stamp"
        /\ UNCHANGED <<file, open, done, first>> /\ save.looked \in Names
    BY DEF ScanStamp, TypeOK, recordingVars, SaveRecord
  <1>3. PICK k \in Names : k = save.looked
    BY <1>2
  <1>4. PICK time \in SegmentModifiedTimes(k) :
          save' = [save EXCEPT !.pc = "scan", !.seen = @ \cup {k},
                               !.was[k] = time]
    BY <1>3 DEF ScanStamp
  <1>5. time \in Times
    <2>1. /\ file[k].number \in Nat /\ done \in Nat
      BY DEF TypeOK, File
    <2> QED
      BY <1>2, <2>1 DEF SegmentModifiedTimes, Times
  <1>6. save' \in SaveRecord
    <2>1. [save.was EXCEPT ![k] = time] \in [Names -> Times]
      BY <1>2, <1>5 DEF SaveRecord
    <2> QED
      BY <1>2, <1>3, <1>4, <2>1 DEF SaveRecord, SavePCs
  <1>7. TypeOK'
    BY <1>6 DEF ScanStamp, TypeOK, recordingVars
  <1>8. /\ save'.todo = save.todo /\ save'.seen = save.seen \cup {k}
        /\ save'.known = save.known /\ save'.from = save.from
        /\ save'.begun = save.begun /\ save'.cleaned = save.cleaned
        /\ save'.staged = save.staged /\ save'.pc = "scan"
        /\ save'.was = [save.was EXCEPT ![k] = time]
    BY <1>2, <1>4 DEF SaveRecord
  <1>9. /\ save'.was[k] = time
        /\ \A j \in Names : j # k => save'.was[j] = save.was[j]
    BY <1>2, <1>8 DEF SaveRecord
  <1>10. ASSUME Scan PROVE Scan'
    <2>1. /\ time.number = file[k].number
          /\ time.number > save.known => time.after >= save.known
          /\ time.number <= save.known => time.after = time.number
      BY <1>10, TimeTells DEF Scan
    <2>2. /\ file[k].number \in 1..open /\ file[k].number > first
      <3>1. file[k].number # 0 /\ open \in Nat
        BY <1>2, <1>3, <1>10 DEF Scan, TypeOK
      <3> QED
        BY <3>1, NumbersHeld
    <2>3. ASSUME NEW j \in save'.seen PROVE Stamped(j)'
      <3>1. CASE j = k
        BY <1>2, <1>8, <1>9, <2>1, <2>2, <3>1 DEF Stamped
      <3>2. CASE j # k
        <4>1. j \in save.seen /\ j \in Names
          BY <1>2, <1>8, <2>3, <3>2 DEF SaveRecord
        <4> QED
          BY <1>2, <1>8, <1>9, <1>10, <3>2, <4>1 DEF Stamped, Scan
      <3> QED
        BY <3>1, <3>2
    <2>4. ASSUME NEW j \in Names \ save'.todo, InWindow(file[j].number)
          PROVE  j \in save'.seen /\ save'.was[j].number = file[j].number
      <3>1. CASE j = k
        BY <1>8, <1>9, <2>1, <3>1
      <3>2. CASE j # k
        BY <1>3, <1>8, <1>9, <1>10, <2>4, <3>2 DEF Scan
      <3> QED
        BY <3>1, <3>2
    <2>5. \A n : InWindow(n) <=> InWindow(n)'
      BY <1>8 DEF InWindow
    <2> QED
      BY <1>2, <1>8, <1>10, <2>3, <2>4, <2>5 DEF Scan
  <1>11. SaveInv' /\ StagedAsSelected'
    BY <1>2, <1>8, <1>10 DEF SaveInv, StagedAsSelected
  <1> QED
    BY <1>1, <1>7, <1>11

-----------------------------------------------------------------------------
(* What is selected when the directory was read in time.                   *)

Read == IInv /\ InTime /\ save.pc = "scan" /\ save.todo = {}

LEMMA WhenRead ==
  ASSUME Read
  PROVE  /\ TypeOK /\ Ring /\ Scan
         /\ save.known \in Nat /\ first \in Nat /\ done \in Nat
         /\ open \in Nat /\ save.begun \in Nat
         /\ save.seen \in SUBSET Names
         /\ \A k \in Names : save.was[k] \in Times
         /\ open - save.known + SelectedCount <= RetainedSegmentCount
         /\ save.known <= done /\ done <= open
  <1>1. /\ TypeOK /\ Ring /\ save \in SaveRecord
        /\ save.known \in Nat /\ first \in Nat /\ done \in Nat
        /\ open \in Nat /\ save.begun \in Nat
    BY DEF Read, IInv, TypeOK, SaveRecord
  <1>2. Scan
    BY DEF Read, IInv, SaveInv, InTime
  <1>3. save.begun + MaxLag < RetainedSegmentCount - SelectedCount
    BY Numbers DEF Read, InTime, Spare
  <1>4. open <= save.known + MaxLag + 1 + save.begun /\ save.known <= done
    BY <1>2 DEF Scan
  <1>5. open - save.known + SelectedCount <= RetainedSegmentCount
    BY <1>1, <1>3, <1>4, Numbers
  <1> QED
    BY <1>1, <1>2, <1>4, <1>5 DEF SaveRecord, Ring

\* The newest fragments that were known were all seen, with their times.
LEMMA WindowRead ==
  ASSUME Read, NEW u \in Int, first < u, u <= save.known,
         u > save.known - SelectedCount
  PROVE  /\ NameOf(u) \in save.seen /\ file[NameOf(u)].number = u
         /\ save.was[NameOf(u)].number = u /\ save.was[NameOf(u)].after = u
  <1>1. u <= open /\ open - u < RetainedSegmentCount /\ u >= 1
    BY WhenRead, Numbers
  <1>2. NameOf(u) \in Names /\ file[NameOf(u)].number = u
    BY <1>1, WhenRead, HeldByName
  <1>3. InWindow(u)
    BY <1>1, WhenRead DEF InWindow
  <1>4. NameOf(u) \in save.seen /\ save.was[NameOf(u)].number = u
    BY <1>2, <1>3, WhenRead DEF Read, Scan
  <1>5. Stamped(NameOf(u))
    BY <1>4, WhenRead DEF Scan
  <1> QED
    BY <1>2, <1>4, <1>5 DEF Stamped

\* Each has a name of its own.
LEMMA Pigeons ==
  ASSUME Read, first <= save.known - SelectedCount, NEW S \in SUBSET Names,
         \A u \in (save.known - SelectedCount + 1)..save.known : NameOf(u) \in S
  PROVE  SelectedCount <= Cardinality(S)
  <1> DEFINE window == (save.known - SelectedCount + 1)..save.known
             f == [u \in window |-> NameOf(u)]
  <1>1. IsFiniteSet(window) /\ Cardinality(window) = SelectedCount
    <2>1. PICK a \in Int : a = save.known - SelectedCount
      BY WhenRead, Numbers
    <2>2. /\ IsFiniteSet((a + 1)..save.known)
          /\ Cardinality((a + 1)..save.known) = save.known - a
      <3>1. a <= save.known /\ save.known \in Int
        BY <2>1, WhenRead, Numbers
      <3> QED
        BY <3>1, Upward
    <2>3. save.known - a = SelectedCount
      BY <2>1, WhenRead, Numbers
    <2> QED
      BY <2>1, <2>2, <2>3
  <1>2. \A u \in window : NameOf(u) \in S /\ file[NameOf(u)].number = u
    <2> SUFFICES ASSUME NEW u \in window
                 PROVE  NameOf(u) \in S /\ file[NameOf(u)].number = u
      OBVIOUS
    <2>1. /\ u \in Int /\ first < u /\ u <= save.known
          /\ u > save.known - SelectedCount
      BY WhenRead, Numbers
    <2> QED
      BY <2>1, WindowRead
  <1>3. f \in Injection(window, S)
    <2>1. f \in [window -> S]
      BY <1>2
    <2>2. \A u, v \in window : f[u] = f[v] => u = v
      BY <1>2
    <2> HIDE DEF f, window
    <2> QED
      BY <2>1, <2>2 DEF Injection, IsInjective
  <1>4. IsFiniteSet(S)
    BY FiniteNames, FS_Subset
  <1> HIDE DEF f, window
  <1>5. Cardinality(window) <= Cardinality(S)
    BY <1>1, <1>3, <1>4, FS_Injection
  <1> QED
    BY <1>1, <1>5

LEMMA SelectionIsSmall ==
  ASSUME Read, NEW names \in SUBSET save.seen, SelectRecent(names)
  PROVE  /\ IsFiniteSet(names) /\ Cardinality(names) \in Nat
         /\ Cardinality(names) <= SelectedCount
         /\ Cardinality(names) < SelectedCount => names = save.seen
  <1>1. /\ IsFiniteSet(save.seen) /\ Cardinality(save.seen) \in Nat
        /\ IsFiniteSet(names) /\ Cardinality(names) \in Nat
    BY WhenRead, FiniteNames, FS_Subset, FS_CardinalityType
  <1>2. Cardinality(names) = IF SelectedCount < Cardinality(save.seen)
                             THEN SelectedCount ELSE Cardinality(save.seen)
    BY DEF SelectRecent, Least
  <1>3. ASSUME Cardinality(names) < SelectedCount PROVE names = save.seen
    <2>1. Cardinality(names) = Cardinality(save.seen)
      BY <1>1, <1>2, <1>3, Numbers
    <2> QED
      BY <1>1, <2>1, FS_Subset
  <1> QED
    BY <1>1, <1>2, <1>3, Numbers

\* Whatever was known to be newer than something selected was selected too.
LEMMA SelectsNewer ==
  ASSUME Read, NEW names \in SUBSET save.seen, SelectRecent(names),
         NEW k \in names, NEW u \in Int, save.was[k].number < u,
         u <= save.known, u > save.known - SelectedCount
  PROVE  NameOf(u) \in names
  <1>1. /\ Stamped(k) /\ k \in Names /\ save.was[k] \in Times
    BY WhenRead DEF Scan
  <1>2. /\ save.was[k].number \in Nat /\ save.was[k].number > first
        /\ save.was[k].after = save.was[k].number
    BY <1>1, WhenRead DEF Stamped, Times
  <1>3. /\ NameOf(u) \in save.seen /\ save.was[NameOf(u)].number = u
        /\ save.was[NameOf(u)].after = u
    BY <1>2, WhenRead, WindowRead
  <1>4. ~Newer(k, NameOf(u))
    BY <1>2, <1>3 DEF Newer
  <1> QED
    BY <1>3, <1>4 DEF SelectRecent

LEMMA SelectsRecent ==
  ASSUME Read, NEW names \in SUBSET save.seen, SelectRecent(names),
         NEW k \in names
  PROVE  save.was[k].number > save.known - SelectedCount
  <1> SUFFICES ASSUME save.was[k].number <= save.known - SelectedCount
               PROVE  FALSE
    <2>1. save.was[k].number \in Nat
      BY WhenRead DEF Times
    <2> QED
      BY <2>1, WhenRead, Numbers
  <1>1. /\ save.was[k].number \in Nat /\ save.was[k].number > first
    BY WhenRead DEF Scan, Stamped, Times
  <1>2. ASSUME NEW u \in (save.known - SelectedCount + 1)..save.known
        PROVE  NameOf(u) \in names \ {k}
    <2>1. /\ u \in Int /\ save.was[k].number < u /\ u <= save.known
          /\ u > save.known - SelectedCount /\ first < u
      BY <1>1, WhenRead, Numbers
    <2>2. NameOf(u) \in names
      BY <2>1, SelectsNewer
    <2>3. save.was[NameOf(u)].number = u
      BY <2>1, WindowRead
    <2> QED
      BY <2>1, <2>2, <2>3, <1>1
  <1>3. SelectedCount <= Cardinality(names \ {k})
    <2>1. names \ {k} \in SUBSET Names
      BY WhenRead
    <2>2. first <= save.known - SelectedCount
      BY <1>1, WhenRead, Numbers
    <2> QED
      BY <1>2, <2>1, <2>2, Pigeons
  <1>4. Cardinality(names \ {k}) = Cardinality(names) - 1
    BY SelectionIsSmall, FS_RemoveElement
  <1> QED
    BY <1>3, <1>4, SelectionIsSmall, Numbers

\* A selection that is short has all that was known of the recording.
LEMMA SelectsAll ==
  ASSUME Read, NEW names \in SUBSET save.seen, SelectRecent(names),
         Cardinality(names) < SelectedCount,
         NEW u \in Int, first < u, u <= save.known
  PROVE  NameOf(u) \in names /\ save.was[NameOf(u)].number = u
  <1>1. names = save.seen
    BY SelectionIsSmall
  <1>2. ~(first <= save.known - SelectedCount)
    <2> SUFFICES ASSUME first <= save.known - SelectedCount PROVE FALSE
      OBVIOUS
    <2>1. ASSUME NEW v \in (save.known - SelectedCount + 1)..save.known
          PROVE  NameOf(v) \in names
      <3>1. /\ v \in Int /\ first < v /\ v <= save.known
            /\ v > save.known - SelectedCount
        BY WhenRead, Numbers
      <3> QED
        BY <1>1, <3>1, WindowRead
    <2>2. names \in SUBSET Names
      BY WhenRead
    <2>3. SelectedCount <= Cardinality(names)
      BY <2>1, <2>2, Pigeons
    <2> QED
      BY <2>3, SelectionIsSmall, Numbers
  <1>3. u > save.known - SelectedCount
    BY <1>2, WhenRead, Numbers
  <1> QED
    BY <1>1, <1>3, WindowRead

\* What a selection leaves of the save.
LEMMA Selecting ==
  ASSUME save \in SaveRecord, Select, save.seen # {}
  PROVE  \E names \in SUBSET save.seen :
           /\ SelectRecent(names) /\ save' \in SaveRecord
           /\ save'.pc = "look" /\ save'.todo = names
           /\ \A k \in names : save'.was[k] = save.was[k]
           /\ save'.selected = Cardinality(names)
           /\ save'.known = save.known /\ save'.from = save.from
           /\ save'.staged = save.staged /\ save'.begun = save.begun
           /\ save'.cleaned = save.cleaned /\ save'.clip = save.clip
           /\ save'.failure = save.failure
  <1>1. PICK names \in SUBSET save.seen :
          /\ SelectRecent(names)
          /\ save' = [save EXCEPT
               !.pc = "look", !.todo = names, !.seen = {},
               !.was = [k \in Names |-> IF k \in names THEN save.was[k]
                                                       ELSE NoTime],
               !.selected = Cardinality(names)]
    BY DEF Select
  <1> DEFINE was == [k \in Names |-> IF k \in names THEN save.was[k] ELSE NoTime]
  <1>2. names \in SUBSET Names
    BY DEF SaveRecord
  <1>3. was \in [Names -> Times]
    BY DEF SaveRecord, Times, NoTime
  <1>4. \A k \in names : was[k] = save.was[k]
    BY <1>2
  <1>5. Cardinality(names) \in Nat
    BY <1>2, FiniteNames, FS_Subset, FS_CardinalityType
  <1>6. save' = [save EXCEPT !.pc = "look", !.todo = names, !.seen = {},
                   !.was = was, !.selected = Cardinality(names)]
    BY <1>1
  <1> HIDE DEF was
  <1>7. save' \in SaveRecord
    BY <1>2, <1>3, <1>5, <1>6 DEF SaveRecord, SavePCs
  <1>8. /\ save'.pc = "look" /\ save'.todo = names /\ save'.was = was
        /\ save'.selected = Cardinality(names)
        /\ save'.known = save.known /\ save'.from = save.from
        /\ save'.staged = save.staged /\ save'.begun = save.begun
        /\ save'.cleaned = save.cleaned /\ save'.clip = save.clip
        /\ save'.failure = save.failure
    BY <1>6 DEF SaveRecord
  <1> QED
    BY <1>1, <1>4, <1>7, <1>8

LEMMA SelectPreserves == ASSUME IInv, Select PROVE IInv'
  <1> USE DEF IInv
  <1>1. Ring'
    BY RingStays DEF Select, recordingVars
  <1>2. CASE save.seen = {}
    <2>1. save' = [save EXCEPT !.pc = "idle", !.failure = "no usable segment"]
      BY <1>2 DEF Select, Fail
    <2>2. TypeOK'
      BY <2>1 DEF Select, TypeOK, recordingVars, SaveRecord, SavePCs, Failures
    <2> QED
      BY <1>1, <2>1, <2>2 DEF Select, TypeOK, SaveRecord, SaveInv,
         StagedAsSelected, Staging
  <1>3. CASE save.seen # {}
    <2>1. PICK names \in SUBSET save.seen :
            /\ SelectRecent(names) /\ save' \in SaveRecord
            /\ save'.pc = "look" /\ save'.todo = names
            /\ \A k \in names : save'.was[k] = save.was[k]
            /\ save'.staged = save.staged /\ save'.begun = save.begun
            /\ save'.cleaned = save.cleaned
      BY <1>3, Selecting DEF TypeOK
    <2>2. TypeOK'
      BY <2>1 DEF Select, TypeOK, recordingVars
    <2>3. /\ UNCHANGED <<file, open, done, first>> /\ save'.staged = {}
          /\ InTime' => Read
      BY <2>1 DEF Select, SaveInv, recordingVars, InTime, Read
    <2>4. ASSUME NEW k \in names, Read PROVE Held(k)'
      <3>1. /\ k \in Names /\ Stamped(k) /\ save.was[k].number \in Nat
        BY <2>4, WhenRead DEF Scan, Times
      <3>2. save.was[k].number > save.known - SelectedCount
        BY <2>1, <2>4, SelectsRecent
      <3>3. open <= save.known + MaxLag + 1 + save.begun
        BY <2>4, WhenRead DEF Scan
      <3>4. save.was[k].number >= open - save.begun - MaxLag - SelectedCount
        BY <2>4, <3>1, <3>2, <3>3, WhenRead, Numbers
      <3>5. save.was[k].number > open - RetainedSegmentCount
        BY <2>4, <3>1, <3>2, WhenRead, Numbers
      <3>6. save'.was[k] = save.was[k]
        BY <2>1
      <3> QED
        BY <2>1, <2>3, <3>1, <3>4, <3>5, <3>6 DEF Held, Stamped
    <2>5. SaveInv'
      BY <2>1, <2>3, <2>4 DEF SaveInv
    <2>6. StagedAsSelected'
      BY <2>3 DEF StagedAsSelected
    <2> QED
      BY <1>1, <2>2, <2>5, <2>6
  <1> QED
    BY <1>2, <1>3

-----------------------------------------------------------------------------
(* Staging and ending.                                                     *)

LEMMA LookPreserves == ASSUME IInv, StageLook \/ StagingDone PROVE IInv'
  <1> USE DEF IInv
  <1>1. Ring'
    BY RingStays DEF StageLook, StagingDone, recordingVars
  <1>2. CASE StageLook
    <2>1. PICK k \in Names :
            /\ k \in save.todo
            /\ save' = [save EXCEPT !.todo = @ \ {k}, !.looked = k,
                          !.pc = IF IsFinalizedMp4Segment(k)
                                 THEN "copy" ELSE "look"]
      BY <1>2 DEF StageLook, Oldest
    <2>2. TypeOK'
      BY <1>2, <2>1
      DEF StageLook, TypeOK, recordingVars, SaveRecord, SavePCs
    <2>3. InTime => \A j \in save.todo : Held(j)
      BY <1>2 DEF StageLook, SaveInv
    <2>4. /\ save'.todo \subseteq save.todo /\ save'.looked = k
          /\ save'.cleaned = save.cleaned /\ save'.begun = save.begun
          /\ save'.was = save.was /\ save'.staged = save.staged
          /\ save'.pc \in {"look", "copy"}
      BY <2>1 DEF TypeOK, SaveRecord
    <2>5. \A j \in save.todo : Held(j) => Held(j)'
      BY <1>2, <2>4 DEF StageLook, Held, recordingVars
    <2>6. SaveInv'
      <3>1. InTime' <=> InTime
        BY <2>4 DEF InTime
      <3>2. ASSUME save'.pc = "copy", InTime
            PROVE  Held(k)' /\ save'.was[k].number <= done'
        <4>1. IsFinalizedMp4Segment(k) /\ done \in Nat /\ done' = done
          <5>1. save'.pc = IF IsFinalizedMp4Segment(k) THEN "copy" ELSE "look"
            BY <2>1 DEF TypeOK, SaveRecord
          <5>2. done \in Nat
            BY DEF TypeOK
          <5>3. done' = done
            BY <1>2 DEF StageLook, recordingVars
          <5> QED
            BY <3>2, <5>1, <5>2, <5>3
        <4>2. Held(k) /\ Held(k)'
          BY <2>1, <2>3, <2>5, <3>2
        <4> QED
          BY <2>4, <4>1, <4>2 DEF Held, IsFinalizedMp4Segment
      <3>3. save'.pc = "copy" /\ InTime'
              => (Held(save.looked) /\ save.was[save.looked].number <= done)'
        BY <2>4, <3>1, <3>2 DEF Held
      <3>4. \A j \in save'.todo : InTime' => Held(j)'
        BY <2>3, <2>4, <2>5, <3>1
      <3> QED
        BY <2>4, <3>3, <3>4 DEF SaveInv
    <2>7. StagedAsSelected'
      BY <2>4 DEF StagedAsSelected, InTime
    <2> QED
      BY <1>1, <2>2, <2>6, <2>7
  <1>3. CASE StagingDone
    <2>0. save' \in SaveRecord
      BY <1>3, Moving, GivingUp DEF StagingDone, Failures, TypeOK
    <2>1. TypeOK'
      BY <1>3, <2>0 DEF StagingDone, TypeOK, recordingVars
    <2>2. /\ save'.pc \in {"idle", "compose"}
          /\ save'.was = save.was /\ save'.begun = save.begun
          /\ save'.cleaned = save.cleaned /\ save'.staged = save.staged
      <3>1. \/ save' = [save EXCEPT !.pc = "idle",
                                    !.failure = "no usable segment"]
            \/ save' = [save EXCEPT !.pc = "compose"]
        BY <1>3 DEF StagingDone, Fail, Goto
      <3>2. save \in SaveRecord
        BY DEF TypeOK
      <3> QED
        BY <3>1, <3>2 DEF SaveRecord
    <2>3. SaveInv' /\ StagedAsSelected'
      BY <2>2 DEF SaveInv, StagedAsSelected, InTime, Staging
    <2> QED
      BY <1>1, <2>1, <2>3
  <1> QED
    BY <1>2, <1>3

\* A copy that was made, could not be made or failed moves the save on and
\* adds at most what was copied.
LEMMA CopyMoves ==
  ASSUME save \in SaveRecord, NEW c \in Copies,
         \/ save' = [save EXCEPT !.pc = "look", !.staged = @ \cup {c}]
         \/ save' = [save EXCEPT !.pc = "look"]
         \/ save' = [save EXCEPT !.pc = "look", !.errors = @ + 1]
  PROVE  /\ save' \in SaveRecord
         /\ save'.pc = "look" /\ save'.todo = save.todo
         /\ save'.was = save.was /\ save'.begun = save.begun
         /\ save'.cleaned = save.cleaned
         /\ save'.staged \in {save.staged, save.staged \cup {c}}
  <1>1. save.staged \cup {c} \in SUBSET Copies
    BY DEF SaveRecord
  <1>2. CASE save' = [save EXCEPT !.pc = "look", !.staged = @ \cup {c}]
    BY <1>1, <1>2 DEF SaveRecord, SavePCs
  <1>3. CASE save' = [save EXCEPT !.pc = "look"]
    BY <1>3 DEF SaveRecord, SavePCs
  <1>4. CASE save' = [save EXCEPT !.pc = "look", !.errors = @ + 1]
    <2>1. save.errors + 1 \in Nat
      BY DEF SaveRecord
    <2>2. save' \in SaveRecord
      BY <1>4, <2>1 DEF SaveRecord, SavePCs
    <2>3. /\ save'.pc = "look" /\ save'.todo = save.todo
          /\ save'.was = save.was /\ save'.begun = save.begun
          /\ save'.cleaned = save.cleaned /\ save'.staged = save.staged
      BY <1>4 DEF SaveRecord
    <2> QED
      BY <2>2, <2>3
  <1> QED
    BY <1>2, <1>3, <1>4

LEMMA CopyPreserves == ASSUME IInv, StageCopy PROVE IInv'
  <1> USE DEF IInv
  <1> DEFINE k == save.looked
             copy == [path |-> k, number |-> file[k].number,
                      length |-> file[k].length,
                      whole |-> IsFinalizedMp4Segment(k)]
  <1>1. Ring'
    BY RingStays DEF StageCopy, recordingVars
  <1>2. k \in Names /\ copy \in Copies
    <2>1. k \in Names /\ file[k] \in File
      BY DEF TypeOK, SaveRecord
    <2>2. IsFinalizedMp4Segment(k) \in BOOLEAN
      BY DEF IsFinalizedMp4Segment
    <2> QED
      BY <2>1, <2>2 DEF File, Copies
  <1>3. /\ save' \in SaveRecord
        /\ save'.pc = "look" /\ save'.todo = save.todo
        /\ save'.was = save.was /\ save'.begun = save.begun
        /\ save'.cleaned = save.cleaned
        /\ save'.staged \in {save.staged, save.staged \cup {copy}}
    <2>1. \/ save' = [save EXCEPT !.pc = "look", !.staged = @ \cup {copy}]
          \/ save' = [save EXCEPT !.pc = "look"]
          \/ save' = [save EXCEPT !.pc = "look", !.errors = @ + 1]
      BY DEF StageCopy, Goto
    <2> QED
      BY <1>2, <2>1, CopyMoves DEF TypeOK
  <1>4. TypeOK'
    BY <1>3 DEF StageCopy, TypeOK, recordingVars
  <1>5. \A j \in save.todo : Held(j) => Held(j)'
    BY <1>3 DEF StageCopy, Held, recordingVars
  <1>6. SaveInv'
    <2>1. InTime' <=> InTime
      BY <1>3 DEF InTime
    <2>2. \A j \in save'.todo : InTime' => Held(j)'
      BY <1>3, <1>5, <2>1 DEF StageCopy, SaveInv
    <2> QED
      BY <1>3, <2>2 DEF SaveInv
  <1>7. StagedAsSelected'
    <2> SUFFICES ASSUME InTime, NEW c \in save'.staged
                 PROVE  c.whole /\ c.number = save.was[c.path].number
      BY <1>3 DEF StagedAsSelected, InTime
    <2>1. CASE c \in save.staged
      BY <2>1 DEF StagedAsSelected
    <2>2. CASE c = copy
      <3>1. Held(k) /\ save.was[k].number <= done
        BY DEF StageCopy, SaveInv
      <3>2. done \in Nat /\ save.was[k].number \in Nat
        BY <1>2 DEF TypeOK, SaveRecord, Times
      <3>3. /\ file[k].number = save.was[k].number
            /\ file[k].number \in 1..done
        BY <3>1, <3>2 DEF Held
      <3> QED
        BY <2>2, <3>3 DEF IsFinalizedMp4Segment
    <2> QED
      BY <1>3, <2>1, <2>2
  <1> QED
    BY <1>1, <1>4, <1>6, <1>7

LEMMA ComposePreserves == ASSUME IInv, Compose PROVE IInv'
  <1> USE DEF IInv
  <1>1. Ring'
    BY RingStays DEF Compose, recordingVars
  <1>2. \/ save' = [save EXCEPT !.pc = "idle", !.failure = "compose"]
        \/ save' = [save EXCEPT !.pc = "idle", !.failure = "invalid"]
        \/ save' = [save EXCEPT !.pc = "idle", !.clip = TRUE]
    BY DEF Compose, Fail
  <1>3. TypeOK'
    BY <1>2 DEF Compose, TypeOK, recordingVars, SaveRecord, SavePCs, Failures
  <1> QED
    BY <1>1, <1>2, <1>3 DEF TypeOK, SaveRecord, SaveInv, StagedAsSelected,
       InTime, Staging

-----------------------------------------------------------------------------

LEMMA StepIInv == IInv /\ [Next]_vars => IInv'
  <1> SUFFICES ASSUME IInv, [Next]_vars PROVE IInv'
    OBVIOUS
  <1>1. CASE UNCHANGED vars
    BY <1>1 DEF vars, recordingVars, IInv, TypeOK, Ring, Age, SaveInv, Held,
       Scan, Stamped, InWindow, StagedAsSelected, InTime
  <1>2. CASE Next
    BY <1>2, StartPreserves, StopPreserves, FinalizePreserves,
       BeginFragmentPreserves, OpeningPreserves, BeginScanPreserves,
       ScanLookPreserves, ScanStampPreserves, SelectPreserves,
       LookPreserves, CopyPreserves, ComposePreserves
    DEF Next, SaveStep
  <1> QED
    BY <1>1, <1>2

\* The variables keep their types: in particular the numbers of fragments fit
\* the names they are written to.
THEOREM TypeCorrect == Spec => []TypeOK
  <1>1. IInv => TypeOK
    BY DEF IInv
  <1> QED
    BY <1>1, InitIInv, StepIInv, PTL DEF Spec

\* Whatever the length and the safety are set to, a save that stages quickly
\* enough stages the fragments whose times it sorted, in whatever order the
\* directory lists them: the recording, which goes on and writes over its oldest
\* names, does not reach them (gstreamer_recorder.cpp:40-43, 1102-1109).
THEOREM StagesWhatItSelected == Spec => []StagedAsSelected
  <1>1. IInv => StagedAsSelected
    BY DEF IInv
  <1> QED
    BY <1>1, InitIInv, StepIInv, PTL DEF Spec
-----------------------------------------------------------------------------
(* What a clip and a refusal tell of the recording.                        *)

\* A save has no result before it ends.
Quiet == save.pc # "idle" => ~save.clip /\ save.failure = ""

Unselected ==
  save.pc \in {"wait", "select", "scan", "stamp"} =>
    save.selected = 0 /\ save.staged = {}

\* The files that were selected and not given up.
Touched ==
  save.todo \cup {c.path : c \in save.staged}
    \cup (IF save.pc = "copy" THEN {save.looked} ELSE {})

\* One name is staged once.
CopiedOnce ==
  /\ IsFiniteSet(save.staged)
  /\ \A c, d \in save.staged : c.path = d.path => c = d
  /\ \A c \in save.staged : c.path \notin save.todo
  /\ save.pc = "copy" => /\ save.looked \notin save.todo
                         /\ \A c \in save.staged : c.path # save.looked

\* Some name of S was last written with each of these fragments.
Has(S, numbers) == \A u \in numbers : \E j \in S : save.was[j].number = u

\* S is what was selected: all that was known from its oldest fragment on, and
\* short only of what was not recorded.
Choice(S) ==
  /\ Cardinality(S) = save.selected /\ Touched \subseteq S
  /\ \A k \in S : Has(S, save.was[k].number..save.known)
  /\ save.selected < SelectedCount => Has(S, (save.from + 1)..save.known)

Chosen ==
  save.pc \in {"look", "copy", "compose"} \/ save.clip =>
    /\ save.selected > 0
    /\ InTime => \E S \in SUBSET Names : Choice(S)

Story == Quiet /\ Unselected /\ CopiedOnce /\ Chosen
Outcome == NoSilentLoss /\ RefusalExplained

-----------------------------------------------------------------------------
(* The steps keep it.                                                      *)

\* The save learns at most that it has less time.
SameSave ==
  /\ save'.pc = save.pc /\ save'.known = save.known /\ save'.todo = save.todo
  /\ save'.was = save.was /\ save'.from = save.from
  /\ save'.selected = save.selected /\ save'.staged = save.staged
  /\ save'.looked = save.looked /\ save'.clip = save.clip
  /\ save'.failure = save.failure
  /\ InTime' => InTime

\* Less is left to stage of the same selection.
SameChoice ==
  /\ \A k \in Names : save'.was[k] = save.was[k]
  /\ save'.known = save.known
  /\ save'.from = save.from /\ save'.selected = save.selected
  /\ Touched' \subseteq Touched
  /\ InTime' => InTime

LEMMA ChoiceStays ==
  ASSUME Chosen, SameChoice,
         save.pc \in {"look", "copy", "compose"} \/ save.clip
  PROVE  Chosen'
  <1>1. ASSUME NEW S \in SUBSET Names, Choice(S) PROVE Choice(S)'
    <2>1. \A numbers : Has(S, numbers) => Has(S, numbers)'
      BY DEF Has, SameChoice
    <2>2. \A k \in S : save'.was[k] = save.was[k]
      BY DEF SameChoice
    <2>3. \A k \in S : (Has(S, save.was[k].number..save.known))'
      BY <1>1, <2>2 DEF Has, SameChoice, Choice
    <2>4. save.selected < SelectedCount
            => (Has(S, (save.from + 1)..save.known))'
      BY <1>1, <2>2 DEF Has, SameChoice, Choice
    <2> QED
      BY <1>1, <2>3, <2>4 DEF Choice, SameChoice
  <1>2. save'.selected = save.selected /\ (InTime' => InTime)
    BY DEF SameChoice
  <1> QED
    BY <1>1, <1>2 DEF Chosen

LEMMA SameStory ==
  ASSUME Story, Outcome, SameSave
  PROVE  Story' /\ Outcome'
  <1> USE DEF SameSave
  <1>1. Quiet' /\ Unselected' /\ CopiedOnce'
    BY DEF Story, Quiet, Unselected, CopiedOnce
  <1>2. Chosen'
    <2>1. Touched' = Touched
      BY DEF Touched
    <2>2. CASE save.pc \in {"look", "copy", "compose"} \/ save.clip
      BY <2>1, <2>2, ChoiceStays DEF Story, SameChoice
    <2>3. CASE ~(save.pc \in {"look", "copy", "compose"} \/ save.clip)
      BY <2>3 DEF Chosen
    <2> QED
      BY <2>2, <2>3
  <1>3. Outcome'
    <2>1. Whole' = Whole
      BY DEF Whole
    <2>2. Total' = Total
      BY <2>1 DEF Total, HalfSeconds
    <2> QED
      BY <2>1, <2>2 DEF Outcome, NoSilentLoss, RefusalExplained
  <1> QED
    BY <1>1, <1>2, <1>3 DEF Story

LEMMA NewStory ==
  ASSUME save'.pc \in {"idle", "wait", "select"},
         save'.selected = 0, save'.todo = {}, save'.staged = {},
         ~save'.clip, save'.failure = ""
  PROVE  Story' /\ Outcome'
  <1>1. CopiedOnce'
    BY FS_EmptySet DEF CopiedOnce
  <1>2. Quiet' /\ Unselected' /\ Chosen'
    BY DEF Quiet, Unselected, Chosen
  <1> QED
    BY <1>1, <1>2 DEF Story, Outcome, NoSilentLoss, RefusalExplained

LEMMA InitStory == Init => Story /\ Outcome
  <1> SUFFICES ASSUME Init PROVE Story /\ Outcome
    OBVIOUS
  <1>1. /\ save.pc = "idle" /\ save.selected = 0
        /\ save.todo = {} /\ save.staged = {} /\ save.failure = ""
        /\ ~save.clip
    BY DEF Init, NoSave
  <1>2. CopiedOnce
    BY <1>1, FS_EmptySet DEF CopiedOnce
  <1>3. Quiet /\ Unselected /\ Chosen
    BY <1>1 DEF Quiet, Unselected, Chosen
  <1> QED
    BY <1>1, <1>2, <1>3
    DEF Story, Outcome, NoSilentLoss, RefusalExplained

\* The recording goes on without the save knowing, or ends and takes it along.
LEMMA RecordingStory ==
  ASSUME IInv, Story, Outcome,
         StartRecording \/ StopRecording \/ BeginFragment \/ Finalize
  PROVE  Story' /\ Outcome'
  <1>1. save \in SaveRecord
    BY DEF IInv, TypeOK
  <1>2. SameSave \/ save' = NoSave
    <2>1. CASE StartRecording
      BY <1>1, <2>1 DEF StartRecording, SameSave, SaveRecord, InTime
    <2>2. CASE StopRecording
      BY <2>2 DEF StopRecording, SameSave, InTime
    <2>3. CASE BeginFragment
      <3>1. save.begun \in Nat
        BY <1>1 DEF SaveRecord
      <3>2. /\ save'.pc = save.pc /\ save'.known = save.known
            /\ save'.todo = save.todo /\ save'.was = save.was
            /\ save'.from = save.from /\ save'.selected = save.selected
            /\ save'.staged = save.staged /\ save'.looked = save.looked
            /\ save'.clip = save.clip /\ save'.failure = save.failure
            /\ save'.cleaned = save.cleaned
            /\ save'.begun \in {save.begun, save.begun + 1}
        BY <1>1, <2>3 DEF BeginFragment, SaveRecord
      <3>3. InTime' => InTime
        BY <3>1, <3>2, Numbers DEF InTime
      <3> QED
        BY <3>2, <3>3 DEF SameSave
    <2>4. CASE Finalize
      BY <2>4 DEF Finalize, SameSave, InTime
    <2> QED
      BY <2>1, <2>2, <2>3, <2>4
  <1>3. CASE SameSave
    BY <1>3, SameStory
  <1>4. CASE save' = NoSave
    BY <1>4, NewStory DEF NoSave
  <1> QED
    BY <1>2, <1>3, <1>4

LEMMA BeginStory ==
  ASSUME IInv, BeginSave PROVE Story' /\ Outcome'
  <1>1. /\ save'.pc \in {"wait", "select"} /\ save'.selected = 0
        /\ save'.todo = {} /\ save'.staged = {} /\ save'.failure = ""
        /\ ~save'.clip
    BY DEF BeginSave, NoSave
  <1> QED
    BY <1>1, NewStory

\* Going on, giving up and ending with a clip change nothing that was selected.
LEMMA MovingStory ==
  ASSUME Story, save.pc # "copy",
         save'.pc \in {"idle", "select", "compose"},
         save'.known = save.known, save'.from = save.from,
         save'.was = save.was, save'.looked = save.looked,
         save'.selected = save.selected, save'.staged = save.staged,
         save'.todo = save.todo, InTime' => InTime,
         save'.pc = "select" => save.pc = "wait",
         save'.pc = "compose" \/ save'.clip => save.pc \in {"look", "compose"},
         save'.pc # "idle" => ~save'.clip /\ save'.failure = ""
  PROVE  Story'
  <1>1. Quiet'
    BY DEF Story, Quiet
  <1>2. Unselected'
    BY DEF Story, Unselected
  <1>3. CopiedOnce'
    BY DEF Story, CopiedOnce
  <1>4. Chosen'
    <2>1. CASE save'.pc = "compose" \/ save'.clip
      <3>1. SameChoice
        BY <2>1 DEF SameChoice, Touched
      <3> QED
        BY <2>1, <3>1, ChoiceStays DEF Story
    <2>2. CASE ~(save'.pc = "compose" \/ save'.clip)
      BY <2>2 DEF Chosen
    <2> QED
      BY <2>1, <2>2
  <1> QED
    BY <1>1, <1>2, <1>3, <1>4 DEF Story

\* While a save goes on it has no outcome.
LEMMA NoOutcome ==
  ASSUME ~save'.clip, save'.failure # "invalid"
  PROVE  Outcome'
  BY DEF Outcome, NoSilentLoss, RefusalExplained

LEMMA WaitStory ==
  ASSUME IInv, Story, WaitForAnyFinalizedSegment \/ StagingDone
  PROVE  Story' /\ Outcome'
  <1>1. save \in SaveRecord
    BY DEF IInv, TypeOK
  <1>2. ~save.clip /\ save.failure = ""
    BY DEF Story, Quiet, WaitForAnyFinalizedSegment, StagingDone
  <1>3. /\ save'.known = save.known /\ save'.was = save.was
        /\ save'.from = save.from /\ save'.looked = save.looked
        /\ save'.selected = save.selected /\ save'.staged = save.staged
        /\ save'.todo = save.todo
    BY <1>1
    DEF WaitForAnyFinalizedSegment, StagingDone, Goto, Fail, SaveRecord
  <1>b. InTime' => InTime
    BY <1>1
    DEF WaitForAnyFinalizedSegment, StagingDone, Goto, Fail, SaveRecord, InTime
  <1>c. ~save'.clip
    BY <1>1, <1>2
    DEF WaitForAnyFinalizedSegment, StagingDone, Goto, Fail, SaveRecord
  <1>4. /\ save'.pc \in {"idle", "select", "compose"}
        /\ save.pc \in {"wait", "look"}
        /\ save'.pc = "select" => save.pc = "wait"
        /\ save'.pc = "compose" => save.pc = "look"
    BY <1>1
    DEF WaitForAnyFinalizedSegment, StagingDone, Goto, Fail, SaveRecord
  <1>5. /\ save'.failure \in {save.failure, "no segment", "no usable segment"}
        /\ save'.pc # "idle" => save'.failure = save.failure
    BY <1>1
    DEF WaitForAnyFinalizedSegment, StagingDone, Goto, Fail, SaveRecord
  <1>6. Story'
    BY <1>2, <1>3, <1>b, <1>c, <1>4, <1>5, MovingStory
  <1> QED
    BY <1>2, <1>c, <1>5, <1>6, NoOutcome

\* Nothing that was selected is known of a save that still reads.
LEMMA ScanStory ==
  ASSUME IInv, Story, BeginScan \/ ScanLook \/ ScanStamp
  PROVE  Story' /\ Outcome'
  <1>1. save \in SaveRecord
    BY DEF IInv, TypeOK
  <1>2. /\ save.pc \in {"select", "scan", "stamp"}
        /\ ~save.clip /\ save.failure = ""
        /\ save.selected = 0 /\ save.staged = {}
    BY DEF Story, Quiet, Unselected, BeginScan, ScanLook, ScanStamp
  <1>3. /\ save'.pc \in {"scan", "stamp"} /\ save'.clip = save.clip
        /\ save'.failure = "" /\ save'.selected = 0 /\ save'.staged = {}
    <2>1. CASE BeginScan
      BY <1>1, <1>2, <2>1 DEF BeginScan, SaveRecord
    <2>2. CASE ScanLook
      BY <1>1, <1>2, <2>2 DEF ScanLook, SaveRecord
    <2>3. CASE ScanStamp
      BY <1>1, <1>2, <2>3 DEF ScanStamp, SaveRecord
    <2> QED
      BY <2>1, <2>2, <2>3
  <1>4. CopiedOnce'
    BY <1>3, FS_EmptySet DEF CopiedOnce
  <1>5. ~save'.clip
    BY <1>2, <1>3
  <1>6. Quiet' /\ Unselected' /\ Chosen'
    BY <1>3, <1>5 DEF Quiet, Unselected, Chosen
  <1> QED
    BY <1>3, <1>4, <1>5, <1>6, NoOutcome DEF Story

LEMMA SelectStory ==
  ASSUME IInv, Story, Select PROVE Story' /\ Outcome'
  <1>1. save \in SaveRecord
    BY DEF IInv, TypeOK
  <1>2. /\ save.pc = "scan" /\ save.todo = {} /\ save.staged = {}
        /\ ~save.clip /\ save.failure = ""
    BY DEF Select, Story, Quiet, Unselected
  <1>3. CASE save.seen = {}
    <2>1. save' = [save EXCEPT !.pc = "idle", !.failure = "no usable segment"]
      BY <1>3 DEF Select, Fail
    <2>2. /\ save'.known = save.known /\ save'.was = save.was
          /\ save'.from = save.from /\ save'.looked = save.looked
          /\ save'.selected = save.selected /\ save'.staged = save.staged
          /\ save'.todo = save.todo /\ save'.clip = save.clip
          /\ save'.pc = "idle" /\ save'.failure = "no usable segment"
          /\ InTime' => InTime
      BY <1>1, <2>1 DEF SaveRecord, InTime
    <2>3. ~save'.clip
      BY <1>2, <2>2
    <2>4. Story'
      BY <1>2, <2>2, <2>3, MovingStory
    <2> QED
      BY <2>2, <2>3, <2>4, NoOutcome
  <1>4. CASE save.seen # {}
    <2>1. PICK names \in SUBSET save.seen :
            /\ SelectRecent(names) /\ save' \in SaveRecord
            /\ save'.pc = "look" /\ save'.todo = names
            /\ \A k \in names : save'.was[k] = save.was[k]
            /\ save'.selected = Cardinality(names)
            /\ save'.known = save.known /\ save'.from = save.from
            /\ save'.staged = save.staged /\ save'.begun = save.begun
            /\ save'.cleaned = save.cleaned /\ save'.clip = save.clip
            /\ save'.failure = save.failure
      BY <1>1, <1>4, Selecting
    <2>2. save'.staged = {} /\ ~save'.clip /\ save'.failure = ""
      BY <1>2, <2>1
    <2>3. CopiedOnce'
      BY <2>1, <2>2, FS_EmptySet DEF CopiedOnce
    <2>4. Quiet' /\ Unselected'
      BY <2>1, <2>2 DEF Quiet, Unselected
    <2>5. save'.selected > 0
      <3>1. /\ IsFiniteSet(save.seen) /\ Cardinality(save.seen) \in Nat
            /\ Cardinality(save.seen) # 0
        BY <1>1, <1>4, FiniteNames, FS_Subset, FS_CardinalityType, FS_EmptySet
        DEF SaveRecord
      <3>2. Cardinality(names) = IF SelectedCount < Cardinality(save.seen)
                                 THEN SelectedCount ELSE Cardinality(save.seen)
        BY <2>1 DEF SelectRecent, Least
      <3> QED
        BY <2>1, <3>1, <3>2, Numbers
    <2>6. InTime' => Read
      BY <1>2, <2>1 DEF InTime, Read
    <2>7. ASSUME Read PROVE Choice(names)'
      <3>1. Touched' = names
        BY <2>1, <2>2 DEF Touched
      <3>2. ASSUME NEW k \in names, NEW u \in save.was[k].number..save.known
            PROVE  \E j \in names : save.was[j].number = u
        <4>1. /\ save.was[k].number \in Nat /\ save.was[k].number > first
          BY <2>7, WhenRead DEF Scan, Stamped, Times
        <4>2. CASE u = save.was[k].number
          BY <4>2
        <4>3. CASE u # save.was[k].number
          <5>1. save.was[k].number > save.known - SelectedCount
            BY <2>1, <2>7, SelectsRecent
          <5>2. /\ u \in Int /\ save.was[k].number < u /\ u <= save.known
                /\ u > save.known - SelectedCount /\ first < u
            BY <2>7, <4>1, <4>3, <5>1, WhenRead, Numbers
          <5>3. NameOf(u) \in names
            BY <2>1, <2>7, <5>2, SelectsNewer
          <5>4. save.was[NameOf(u)].number = u
            BY <2>7, <5>2, WindowRead
          <5> QED
            BY <5>3, <5>4
        <4> QED
          BY <4>2, <4>3
      <3>3. ASSUME Cardinality(names) < SelectedCount,
                   NEW u \in (save.from + 1)..save.known
            PROVE  \E j \in names : save.was[j].number = u
        <4>1. u \in Int /\ first < u /\ u <= save.known
          BY <2>7, WhenRead DEF Scan
        <4>2. NameOf(u) \in names /\ save.was[NameOf(u)].number = u
          BY <2>1, <2>7, <3>3, <4>1, SelectsAll
        <4> QED
          BY <4>2
      <3>4. \A k \in names : (Has(names, save.was[k].number..save.known))'
        BY <2>1, <3>2 DEF Has
      <3>5. save'.selected < SelectedCount
              => (Has(names, (save.from + 1)..save.known))'
        BY <2>1, <3>3 DEF Has
      <3> QED
        BY <2>1, <3>1, <3>4, <3>5 DEF Choice
    <2>8. Chosen'
      <3>1. names \in SUBSET Names
        BY <1>1 DEF SaveRecord
      <3> QED
        BY <2>5, <2>6, <2>7, <3>1 DEF Chosen
    <2> QED
      BY <2>1, <2>2, <2>3, <2>4, <2>8, NoOutcome DEF Story
  <1> QED
    BY <1>3, <1>4

LEMMA LookStory ==
  ASSUME IInv, Story, StageLook PROVE Story' /\ Outcome'
  <1>1. save \in SaveRecord
    BY DEF IInv, TypeOK
  <1>2. save.pc = "look" /\ ~save.clip /\ save.failure = ""
    BY DEF Story, Quiet, StageLook
  <1>3. PICK k \in Names :
          /\ k \in save.todo
          /\ save' = [save EXCEPT !.todo = @ \ {k}, !.looked = k,
                        !.pc = IF IsFinalizedMp4Segment(k)
                               THEN "copy" ELSE "look"]
    BY DEF StageLook, Oldest
  <1>4. /\ save'.known = save.known /\ save'.was = save.was
        /\ save'.from = save.from /\ save'.selected = save.selected
        /\ save'.begun = save.begun /\ save'.cleaned = save.cleaned
        /\ save'.staged = save.staged /\ save'.todo = save.todo \ {k}
        /\ save'.looked = k /\ save'.failure = save.failure
        /\ save'.pc \in {"look", "copy"}
    BY <1>1, <1>3 DEF SaveRecord
  <1>5. ~save'.clip
    BY <1>1, <1>2, <1>3 DEF SaveRecord
  <1>6. SameChoice
    BY <1>3, <1>4 DEF SameChoice, Touched, InTime
  <1>7. Chosen'
    BY <1>2, <1>6, ChoiceStays DEF Story
  <1>8. CopiedOnce'
    BY <1>3, <1>4 DEF Story, CopiedOnce
  <1>9. Quiet' /\ Unselected'
    BY <1>2, <1>4, <1>5 DEF Quiet, Unselected
  <1> QED
    BY <1>2, <1>4, <1>5, <1>7, <1>8, <1>9, NoOutcome DEF Story

LEMMA CopyStory ==
  ASSUME IInv, Story, StageCopy PROVE Story' /\ Outcome'
  <1> DEFINE k == save.looked
             copy == [path |-> k, number |-> file[k].number,
                      length |-> file[k].length,
                      whole |-> IsFinalizedMp4Segment(k)]
  <1>1. save \in SaveRecord
    BY DEF IInv, TypeOK
  <1>2. save.pc = "copy" /\ ~save.clip /\ save.failure = ""
    BY DEF Story, Quiet, StageCopy
  <1>3. \/ save' = [save EXCEPT !.pc = "look", !.staged = @ \cup {copy}]
        \/ save' = [save EXCEPT !.pc = "look"]
        \/ save' = [save EXCEPT !.pc = "look", !.errors = @ + 1]
    BY DEF StageCopy, Goto
  <1>4. copy.path = k
    OBVIOUS
  <1> HIDE DEF copy
  <1>5. /\ save'.known = save.known /\ save'.was = save.was
        /\ save'.from = save.from /\ save'.selected = save.selected
        /\ save'.begun = save.begun /\ save'.cleaned = save.cleaned
        /\ save'.todo = save.todo /\ save'.failure = save.failure
        /\ save'.pc = "look"
        /\ save'.staged \in {save.staged, save.staged \cup {copy}}
    BY <1>1, <1>3 DEF SaveRecord
  <1>6. ~save'.clip
    BY <1>1, <1>2, <1>3 DEF SaveRecord
  <1>7. SameChoice
    BY <1>2, <1>4, <1>5 DEF SameChoice, Touched, InTime
  <1>8. Chosen'
    BY <1>2, <1>7, ChoiceStays DEF Story
  <1>9. CopiedOnce'
    <2>1. /\ IsFiniteSet(save.staged)
          /\ \A c, d \in save.staged : c.path = d.path => c = d
          /\ \A c \in save.staged : c.path \notin save.todo
          /\ k \notin save.todo
          /\ \A c \in save.staged : c.path # k
      BY <1>2 DEF Story, CopiedOnce
    <2>2. IsFiniteSet(save'.staged)
      BY <1>5, <2>1, FS_AddElement
    <2>3. \A c, d \in save'.staged : c.path = d.path => c = d
      BY <1>4, <1>5, <2>1
    <2>4. \A c \in save'.staged : c.path \notin save'.todo
      BY <1>4, <1>5, <2>1
    <2> QED
      BY <1>5, <2>2, <2>3, <2>4 DEF CopiedOnce
  <1>10. Quiet' /\ Unselected'
    BY <1>2, <1>5, <1>6 DEF Quiet, Unselected
  <1> QED
    BY <1>2, <1>5, <1>6, <1>8, <1>9, <1>10, NoOutcome DEF Story

LEMMA TotalIsCount ==
  ASSUME IsFiniteSet(save.staged)
  PROVE  /\ IsFiniteSet(Whole) /\ Cardinality(Whole) \in Nat /\ Total \in Nat
         /\ (\A c \in Whole : c.length = Second)
              => Total = Second * Cardinality(Whole)
  <1>1. IsFiniteSet(Whole) /\ Cardinality(Whole) \in Nat
    BY FS_Subset, FS_CardinalityType DEF Whole
  <1>2. IsFiniteSet(1..Second) /\ Cardinality(1..Second) = 2
    <2>1. /\ IsFiniteSet(1..2)
          /\ Cardinality(1..2) = IF 1 > 2 THEN 0 ELSE 2 - 1 + 1
      <3>1. 1 \in Int /\ 2 \in Int
        OBVIOUS
      <3> QED
        BY <3>1, FS_Interval, Zenon
    <2> QED
      BY <2>1 DEF Second
  <1>3. /\ IsFiniteSet(Whole \X (1..Second))
        /\ Cardinality(Whole \X (1..Second)) = Cardinality(Whole) * 2
    BY <1>1, <1>2, FS_Product
  <1>4. Total \in Nat
    BY <1>3, FS_Subset, FS_CardinalityType DEF Total, HalfSeconds
  <1>5. ASSUME \A c \in Whole : c.length = Second
        PROVE  Total = Second * Cardinality(Whole)
    <2>1. HalfSeconds = Whole \X (1..Second)
      <3>1. ASSUME NEW p \in Whole \X (1..Second) PROVE p[2] <= p[1].length
        <4>1. p[1] \in Whole /\ p[2] \in 1..Second
          OBVIOUS
        <4>2. p[1].length = Second
          BY <1>5, <4>1
        <4>3. p[2] <= Second
          BY <4>1 DEF Second
        <4> QED
          BY <4>2, <4>3, Zenon
      <3> QED
        BY <3>1 DEF HalfSeconds
    <2> QED
      BY <1>1, <1>3, <2>1 DEF Total, Second
  <1> QED
    BY <1>1, <1>4, <1>5

\* Both directions of the validation, for a concatenation of whole copies.
LEMMA Validation ==
  ASSUME NEW s \in Nat \ {0}, s = save.selected, Total \in Nat,
         NEW length, length = Least(Export, Greatest(Total - Trim, 0))
  PROVE  /\ TrustedFinalClipLooksUsable(length) => Total + Second >= Second * s
         /\ Total >= Second * s => TrustedFinalClipLooksUsable(length)
  <1>1. ClipLength \in Nat \ {0}
    BY BufferParameters DEF BufferParameters
  <1>2. PICK t \in Nat : t = Total
    OBVIOUS
  <1>3. /\ Available = 2 * s
        /\ Export = IF 2 * s < 2 * ClipLength THEN 2 * s ELSE 2 * ClipLength
    BY DEF Available, Export, Least, Second
  <1>4. PICK e \in Nat : e = Export /\ e > 0 /\ e <= 2 * s
    BY <1>1, <1>3
  <1>5. Trim = 2 * s - e
    BY <1>3, <1>4 DEF Trim, Greatest
  <1>6. Tolerance \in {1, 2}
    BY DEF Tolerance
  <1>7. length = IF t - (2 * s - e) < 0 THEN 0
                 ELSE IF e < t - (2 * s - e) THEN e ELSE t - (2 * s - e)
    BY <1>2, <1>4, <1>5 DEF Least, Greatest
  <1>8. TrustedFinalClipLooksUsable(length)
          <=> length > 0 /\ length + Tolerance >= e /\ length - e <= Tolerance
    BY <1>4 DEF TrustedFinalClipLooksUsable
  <1> QED
    BY <1>2, <1>4, <1>6, <1>7, <1>8 DEF Second

LEMMA ComposeStory ==
  ASSUME IInv, Story, Compose PROVE Story' /\ Outcome'
  <1>1. save \in SaveRecord
    BY DEF IInv, TypeOK
  <1>2. save.pc = "compose" /\ ~save.clip /\ save.failure = ""
    BY DEF Story, Quiet, Compose
  <1>3. \/ save' = [save EXCEPT !.pc = "idle", !.failure = "compose"]
        \/ \E length \in Outputs :
             /\ ~TrustedFinalClipLooksUsable(length)
             /\ save' = [save EXCEPT !.pc = "idle", !.failure = "invalid"]
        \/ \E length \in Outputs :
             /\ TrustedFinalClipLooksUsable(length)
             /\ save' = [save EXCEPT !.pc = "idle", !.clip = TRUE]
    BY DEF Compose, Fail
  <1>4. /\ save'.known = save.known /\ save'.was = save.was
        /\ save'.from = save.from /\ save'.selected = save.selected
        /\ save'.begun = save.begun /\ save'.cleaned = save.cleaned
        /\ save'.staged = save.staged /\ save'.todo = save.todo
        /\ save'.looked = save.looked /\ save'.pc = "idle"
    BY <1>1, <1>3 DEF SaveRecord
  <1>5. InTime' => InTime
    BY <1>4 DEF InTime
  <1>6. Story'
    BY <1>2, <1>4, <1>5, MovingStory
  <1>7. IsFiniteSet(save.staged) /\ save.selected \in Nat \ {0}
    <2>1. IsFiniteSet(save.staged)
      BY DEF Story, CopiedOnce
    <2>2. save.selected > 0
      BY <1>2 DEF Story, Chosen
    <2>3. save.selected \in Nat
      BY <1>1 DEF SaveRecord
    <2> QED
      BY <2>1, <2>2, <2>3
  <1>8. Whole' = Whole
    BY <1>4 DEF Whole
  <1>9. Total' = Total
    BY <1>8 DEF Total, HalfSeconds
  <1>10. Whole = save.staged =>
           \A length \in Outputs :
             length = Least(Export, Greatest(Total - Trim, 0))
    BY DEF Outputs
  <1>11. NoSilentLoss'
    <2> SUFFICES ASSUME save'.clip, Whole = save.staged
                 PROVE  Total + Second >= Second * save.selected
      BY <1>4, <1>8, <1>9 DEF NoSilentLoss
    <2>1. PICK length \in Outputs : TrustedFinalClipLooksUsable(length)
      BY <1>1, <1>2, <1>3 DEF SaveRecord
    <2> QED
      BY <1>7, <1>10, <2>1, TotalIsCount, Validation
  <1>12. RefusalExplained'
    <2> SUFFICES ASSUME save'.failure = "invalid", Whole = save.staged,
                        ~(Cardinality(Whole) < save.selected),
                        ~(\E c \in Whole : c.length < Second)
                 PROVE  FALSE
      BY <1>4, <1>8 DEF RefusalExplained
    <2>1. PICK length \in Outputs : ~TrustedFinalClipLooksUsable(length)
      BY <1>1, <1>2, <1>3 DEF SaveRecord
    <2>2. \A c \in Whole : c.length = Second
      <3>1. \A c \in Whole : c.length \in 0..Second /\ ~(c.length < Second)
        BY <1>1 DEF SaveRecord, Copies, Whole
      <3> QED
        BY <3>1 DEF Second
    <2>3. Total = Second * Cardinality(Whole) /\ Cardinality(Whole) \in Nat
      BY <1>7, <2>2, TotalIsCount
    <2>4. Total >= Second * save.selected
      BY <1>7, <2>3 DEF Second
    <2> QED
      BY <1>7, <1>10, <2>1, <2>4, TotalIsCount, Validation
  <1> QED
    BY <1>6, <1>11, <1>12 DEF Outcome

LEMMA StepStory ==
  IInv /\ Story /\ Outcome /\ [Next]_vars => Story' /\ Outcome'
  <1> SUFFICES ASSUME IInv, Story, Outcome, [Next]_vars
               PROVE  Story' /\ Outcome'
    OBVIOUS
  <1>1. CASE UNCHANGED vars
    <2>1. SameSave
      BY <1>1 DEF vars, recordingVars, SameSave, InTime
    <2> QED
      BY <2>1, SameStory
  <1>2. CASE Next
    BY <1>2, RecordingStory, BeginStory, WaitStory, ScanStory, SelectStory,
       LookStory, CopyStory, ComposeStory
    DEF Next, SaveStep
  <1> QED
    BY <1>1, <1>2

\* When as many files were staged as were selected, they are those selected.
LEMMA StoryTellsClip ==
  ASSUME IInv, Story PROVE ClipIsRecent
  <1> SUFFICES ASSUME save.clip, InTime,
                      Cardinality(save.staged) = save.selected
               PROVE  /\ \A n \in Selected : n..save.known \subseteq Selected
                      /\ save.selected < SelectedCount =>
                           (save.from + 1)..save.known \subseteq Selected
    BY DEF ClipIsRecent
  <1>1. PICK S \in SUBSET Names : Choice(S)
    BY DEF Story, Chosen
  <1>2. /\ Cardinality(S) = Cardinality(save.staged) /\ IsFiniteSet(S)
        /\ \A c \in save.staged : c.path \in S
    BY <1>1, FiniteNames, FS_Subset DEF Choice, Touched
  <1> DEFINE f == [c \in save.staged |-> c.path]
  <1>3. f \in Injection(save.staged, S)
    <2>1. f \in [save.staged -> S]
      BY <1>2
    <2>2. \A c, d \in save.staged : f[c] = f[d] => c = d
      BY DEF Story, CopiedOnce
    <2> HIDE DEF f
    <2> QED
      BY <2>1, <2>2 DEF Injection, IsInjective
  <1>4. f \in Surjection(save.staged, S)
    <2> HIDE DEF f
    <2> QED
      BY <1>2, <1>3, FS_Injection
  <1>5. \A j \in S : \E c \in save.staged : c.path = j
    BY <1>4 DEF Surjection
  <1>6. \A c \in save.staged : c.number = save.was[c.path].number
    BY DEF IInv, StagedAsSelected
  <1>7. ASSUME NEW numbers, Has(S, numbers) PROVE numbers \subseteq Selected
    <2> SUFFICES ASSUME NEW u \in numbers
                 PROVE  \E c \in save.staged : c.number = u
      BY DEF Selected
    <2>1. PICK j \in S : save.was[j].number = u
      BY <1>7 DEF Has
    <2>2. PICK c \in save.staged : c.path = j
      BY <1>5
    <2> QED
      BY <1>6, <2>1, <2>2
  <1>8. ASSUME NEW n \in Selected PROVE n..save.known \subseteq Selected
    <2>1. PICK c \in save.staged : n = c.number
      BY DEF Selected
    <2>2. c.path \in S /\ save.was[c.path].number = n
      BY <1>2, <1>6, <2>1
    <2>3. Has(S, n..save.known)
      BY <1>1, <2>2 DEF Choice
    <2> QED
      BY <1>7, <2>3
  <1>9. save.selected < SelectedCount =>
          (save.from + 1)..save.known \subseteq Selected
    BY <1>1, <1>7 DEF Choice
  <1> QED
    BY <1>8, <1>9

LEMMA Told == Spec => [](IInv /\ Story /\ Outcome)
  BY InitIInv, StepIInv, InitStory, StepStory, PTL DEF Spec

\* Whatever the length, the safety, the lag and the order of the listing are, a
\* clip whose files were all staged in time has no hole in what was finalized
\* when its directory was read, back to the clip's length and its safety, or to
\* the beginning of the recording: what is begun and finalized while the names
\* are read cannot hide it (segment_file.cpp:111-125, 226-246).
THEOREM ClipsAreRecent == Spec => []ClipIsRecent
  BY Told, StoryTellsClip, PTL

\* A published clip misses at most one second of what its segments should have
\* held (clip_muxer.cpp:70-75, 594-602).
THEOREM LosesNothingSilently == Spec => []NoSilentLoss
  <1>1. Outcome => NoSilentLoss
    BY DEF Outcome
  <1> QED
    BY <1>1, Told, PTL

\* A save is refused as invalid only when segments are lost or short.
THEOREM RefusesOnlyLoss == Spec => []RefusalExplained
  <1>1. Outcome => RefusalExplained
    BY DEF Outcome
  <1> QED
    BY <1>1, Told, PTL
=============================================================================
