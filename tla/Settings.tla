------------------------------- MODULE Settings -------------------------------
(***************************************************************************)
(* The settings file (settings_store.cpp) and the commands that change it  *)
(* (the setters of ClipDeckCore, core.cpp).  Every command is a process of *)
(* its own: it loads the whole file, changes one setting in memory and     *)
(* writes the whole file again, without a lock and in place.               *)
(*                                                                         *)
(* One setting stands for each way of reading a value: clip_length for the *)
(* seven positive integers, keybind for the two keybinds, audio for the    *)
(* two booleans.  Values are strings that name what the parsers tell apart.*)
(* None of them holds a newline, which no setter refuses (commands.cpp:283 *)
(* to 321) and which would end its line in the file.                       *)
(***************************************************************************)
EXTENDS Naturals, Sequences, SequencesExt

CONSTANTS
  Procs,             \* shells that run commands
  HandWritten,       \* files a user may write: sequences of lines
  DefaultDirectory,  \* <directory of the settings file>/clips
  MaxBegun,          \* bound: commands altogether
  MaxFaults          \* bound: crashes, full disks and edits altogether

\* A line is a key and a value.  The default directory is a relative path when
\* CLIPDECK_OUTPUT_DIR is one.
ASSUME SettingsParameters ==
  /\ \A lines \in HandWritten :
       /\ lines \in Seq(Range(lines))
       /\ \A i \in DOMAIN lines : Len(lines[i]) = 2
  /\ DefaultDirectory # ""
  /\ MaxBegun \in Nat /\ MaxFaults \in Nat

\* In the order of the file.
Keys == <<"clip_length", "keybind", "directory", "video", "audio",
          "audio_source", "encoder", "sound_path", "volume">>
Key == Range(Keys)

VARIABLES
  file,      \* the lines of the file; no line also when it is not there
  proc,      \* per shell: the command, its settings in memory and its answer
  begun, faults,   \* commands begun; crashes, full disks and edits
  wanted,    \* history: the settings the user has asked for
  lost       \* history: a command was interrupted, crossed or ran out of disk

settingsVars == <<file, proc, begun, faults, wanted, lost>>

-----------------------------------------------------------------------------
(* Reading and writing values.                                             *)

Default == [clip_length |-> "30", keybind |-> "Ctrl+Z+P",
            directory |-> DefaultDirectory, video |-> "portal",
            audio |-> "true", audio_source |-> "auto",
            encoder |-> "openh264", sound_path |-> "", volume |-> "0.5"]

\* A relative path is taken from the project's root.
Root == [clips |-> "/root/clips", out |-> "/root/out"]
Resolve(path) == IF path \in DOMAIN Root THEN Root[path] ELSE path

Booleans == [true |-> "true", on |-> "true", false |-> "false", off |-> "false"]

\* A value that a key cannot have leaves the setting as it was.
Understood(key, value) ==
  /\ key = "clip_length" => value \in {"30", "60"}
  /\ key = "audio" => value \in DOMAIN Booleans
  /\ key = "volume" => value \in {"0.5", "0.123457", "0.1234567"}
  /\ key \in {"keybind", "directory", "video", "encoder"} => value # ""

Meaning(key, value) ==
  IF key = "audio" THEN Booleans[value]
  ELSE IF key = "audio_source" /\ value = "" THEN "auto"
  ELSE IF key \in {"directory", "sound_path"} THEN Resolve(value)
  ELSE IF key = "video" THEN "portal"
  ELSE value

\* The line gives key a value.
Gives(line, key) == line[1] = key /\ Understood(key, line[2])

\* The last line that gives key a value, if any does.
Counts(lines, key) ==
  {i \in DOMAIN lines :
     /\ Gives(lines[i], key)
     /\ \A j \in DOMAIN lines : Gives(lines[j], key) => j <= i}

Load(lines) ==
  [key \in Key |->
     IF Counts(lines, key) = {} THEN Default[key]
     ELSE LET i == CHOOSE i \in Counts(lines, key) : TRUE
          IN  Meaning(key, lines[i][2])]

\* A stream prints six digits of a double.
Printed(key, value) ==
  IF key = "volume" /\ value = "0.1234567" THEN "0.123457" ELSE value

\* Defect: the settings that no command changes are not written.
LinesWithoutSound(settings) ==
  [i \in 1..7 |-> <<Keys[i], Printed(Keys[i], settings[Keys[i]])>>]

Lines(settings) ==
  [i \in 1..Len(Keys) |-> <<Keys[i], Printed(Keys[i], settings[Keys[i]])>>]

\* What the next command makes of settings that are written: the volume loses
\* digits, and a default directory that is relative, and so was looked up where
\* the command ran, moves to the project's root.
AsRead(settings) ==
  [key \in Key |->
     IF key = "directory" /\ settings[key] = DefaultDirectory
     THEN Resolve(DefaultDirectory)
     ELSE Printed(key, settings[key])]

-----------------------------------------------------------------------------

AtRest == [pc |-> "idle", settings |-> Load(<<>>), result |-> "none"]

SettingsTypeOK ==
  /\ \A i \in DOMAIN file : Len(file[i]) = 2
  /\ \A p \in Procs :
       /\ proc[p].pc \in {"idle", "loaded", "open", "close"}
       /\ proc[p].result \in {"none", "saved", "failed"}
       /\ DOMAIN proc[p].settings = Key
       /\ proc[p].settings.video = "portal"
       /\ proc[p].settings.audio \in {"true", "false"}
       /\ proc[p].settings.audio_source # ""
  /\ DOMAIN wanted = Key /\ lost \in BOOLEAN
  /\ begun \in 0..MaxBegun /\ faults \in 0..MaxFaults

SettingsInit ==
  /\ file \in HandWritten
  /\ proc = [p \in Procs |-> AtRest]
  /\ wanted = Load(file)
  /\ lost = FALSE
  /\ begun = 0 /\ faults = 0

Reached(p, pc) == proc[p].pc = pc
Advance(p, pc) == proc' = [proc EXCEPT ![p].pc = pc]
Running(p) == ~Reached(p, "idle")

\* Every command loads the settings when it starts.
LoadSettings(p) ==
  /\ Reached(p, "idle") /\ begun < MaxBegun
  /\ begun' = begun + 1
  /\ proc' = [proc EXCEPT ![p] = [pc |-> "loaded", settings |-> Load(file),
                                  result |-> "none"]]
  /\ lost' = (lost \/ \E o \in Procs \ {p} : Running(o))
  /\ UNCHANGED <<file, faults, wanted>>

\* A setter sets its fields and goes on to SaveSettings.
Set(p, changes) ==
  /\ Reached(p, "loaded")
  /\ proc' = [proc EXCEPT ![p].pc = "open",
       ![p].settings = [key \in Key |->
          IF key \in DOMAIN changes THEN changes[key] ELSE @[key]]]
  /\ wanted' = [key \in Key |->
       IF key \in DOMAIN changes THEN changes[key] ELSE wanted[key]]
  /\ UNCHANGED <<file, begun, faults, lost>>

SetClipLength(p) == Set(p, [clip_length |-> "60"])

SetSaveKeybind(p) == Set(p, [keybind |-> "Ctrl+Alt+K"])

\* Defect: the directory is stored as it was typed.
SetRelativeDirectory(p) ==
  \E path \in {"clips", "/clips"} : Set(p, [directory |-> path])

SetClipDirectory(p) ==
  \E path \in {"clips", "/clips"} : Set(p, [directory |-> Resolve(path)])

SetCaptureAudioEnabled(p) ==
  \E enabled \in {"true", "false"} : Set(p, [audio |-> enabled])

SetCaptureAudioAuto(p) == Set(p, [audio |-> "true", audio_source |-> "auto"])

SetCaptureAudioSource(p) ==
  \E source \in {"", "mic"} :
    Set(p, [audio |-> "true",
            audio_source |-> IF source = "" THEN "auto" ELSE source])

SetEncoder(p) ==
  \E encoder \in {"openh264", "x264"} : Set(p, [encoder |-> encoder])

\* A setup, and a video source, which can only be "portal": nothing changes,
\* the file is written all the same.
Rewrite(p) == Set(p, <<>>)

\* A video source or an encoder is refused, the clip directory or the
\* directory of the settings cannot be created, the file cannot be opened, or
\* the command shows or uses the settings and changes none.
Refuse(p) ==
  /\ Reached(p, "loaded")
  /\ proc' = [proc EXCEPT ![p].pc = "idle", ![p].result = "failed"]
  /\ UNCHANGED <<file, begun, faults, wanted, lost>>

-----------------------------------------------------------------------------
(* SettingsStore::Save: the file is emptied when it is opened; the lines   *)
(* fill a buffer, the answer is taken, and the buffer is written when the  *)
(* stream is destroyed.                                                    *)

Open(p) ==
  /\ Reached(p, "open")
  /\ file' = <<>>
  /\ proc' = [proc EXCEPT ![p].pc = "close", ![p].result = "saved"]
  /\ UNCHANGED <<begun, faults, wanted, lost>>

\* Another process may have written since the file was emptied: what of its
\* text is longer stays behind this one's.
Close(p) ==
  /\ Reached(p, "close")
  /\ \E rest \in {<<>>} \cup (Suffixes(file) \ {file}) :
       file' = Lines(proc[p].settings) \o rest
  /\ Advance(p, "idle")
  /\ UNCHANGED <<begun, faults, wanted, lost>>

Fault == faults < MaxFaults /\ faults' = faults + 1

\* The disk is full: some of the text is written, and nobody looks.
CloseOnFullDisk(p) ==
  /\ Reached(p, "close") /\ Fault
  /\ \E start \in Prefixes(Lines(proc[p].settings)) :
       file' = start \o SubSeq(file, Len(start) + 1, Len(file))
  /\ Advance(p, "idle")
  /\ lost' = TRUE
  /\ UNCHANGED <<begun, wanted>>

\* Ctrl+C, or a stop in another shell, which ends every other command.
Interrupt(p) ==
  /\ Running(p) /\ Fault
  /\ proc' = [proc EXCEPT ![p] = AtRest]
  /\ lost' = TRUE
  /\ UNCHANGED <<file, begun, wanted>>

\* The user edits the file between two commands.
Edit ==
  /\ \A p \in Procs : ~Running(p)
  /\ Fault
  /\ file' \in HandWritten
  /\ wanted' = Load(file') /\ lost' = FALSE
  /\ proc' = [p \in Procs |-> AtRest]
  /\ UNCHANGED begun

Setter(p) ==
  \/ SetClipLength(p) \/ SetSaveKeybind(p) \/ SetClipDirectory(p)
  \/ SetCaptureAudioEnabled(p) \/ SetCaptureAudioAuto(p)
  \/ SetCaptureAudioSource(p) \/ SetEncoder(p) \/ Rewrite(p)

SettingsNext ==
  \/ \E p \in Procs :
       \/ LoadSettings(p) \/ Setter(p) \/ Refuse(p) \/ Open(p) \/ Close(p)
       \/ CloseOnFullDisk(p) \/ Interrupt(p)
  \/ Edit

SettingsSpec == SettingsInit /\ [][SettingsNext]_settingsVars

-----------------------------------------------------------------------------
(* Properties.                                                             *)

\* What a command is about to write is what the next one will read, for every
\* file it may have started from, also one that two commands have mixed up
\* (settings_store.cpp:223-242, 77-201).  Two values change on the way: the
\* volume, and the default directory when it is relative (AsRead).
WrittenIsRead ==
  \A p \in Procs :
    Reached(p, "open") =>
      Load(Lines(proc[p].settings)) = AsRead(proc[p].settings)

\* As long as no two commands overlap, none is interrupted and the disk has
\* room, a command changes its own setting and keeps all the others: between
\* commands the file holds every change ever asked for (core.cpp:855-1002), but
\* for the digits and the move of AsRead, which happen once.
ChangesSurvive ==
  (~lost /\ \A p \in Procs : ~Running(p)) =>
    AsRead(Load(file)) = AsRead(wanted)
=============================================================================
