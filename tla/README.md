# Verification of clipdeck

clipdeck keeps the last seconds of the screen in rolling segment files and
writes them out as a clip when a key combination is pressed or `clipdeck save`
is run. A daemon process holds the recorder, the keyboard listener and the save
controller; short-lived command-line processes start, stop and signal it and
change its settings. This directory models the parts of the program where
threads, processes, signals, devices and failures meet, checks them with TLC
and proves the central results with TLAPS. Line numbers refer to `src/src/`.

## The system

| component | state | operations | talks to |
| --- | --- | --- | --- |
| save controller (`save_request_controller`) | `state_`, active and pending source, time of the last keybind, stop flag; one mutex, one condition variable | `RequestSave`, `WorkerLoop`, `Stop`, `Status` | called by main and listener thread, calls the save callback on its worker |
| daemon (`core.cpp` `RunListener`) | three signal flags, the recorder pointer, the status files | start-up, the 250 ms loop, reselection, shutdown | everything below, through callbacks and shared objects |
| native recorder (`gstreamer_recorder`) | D-Bus reference, portal session, PipeWire descriptor, pipeline, health, last failure | `Start`, `MonitorBus`, `Stop`, `SaveClip`, `Status` | desktop portal, GStreamer bus, the muxer |
| clip muxer (`clip_muxer`) | a staging directory per call, the clip directory | `WriteClipFromSegments` | ffmpeg and ffprobe, other processes through the directories |
| keybind listener (`daemon_listener`) | open devices, keys down, armed actions, debounce | scan, poll, read, remove, `Stop` | the kernel's input devices, the controller through a callback |
| process lifecycle (`core.cpp`, `utils/process.cpp`) | pid file, status files, process table | start, stop, restart, save, choose, status | daemons by signals, other commands by files and signals |
| settings (`settings_store`, setters of `core.cpp`) | `settings.conf` | load, set, save | every command and the daemon through the file |
| save command (`core.cpp` `Save`) | time of the request, deadline | signal the daemon, poll for a clip or a failure; without a daemon, save from the retained segments | the daemon by SIGUSR1, status file, clip directory, the muxer |
| segment ring (`splitmuxsink`, `segment_file`) | the files `clipdeck-00000.mp4` ..., of which the last is open and some wait for their end to be written | rotate, finalize; list, select by name and time | written by the recorder's pipeline, read by saves of the daemon and of commands |
| child processes (`media_probe`, `clip_muxer`, `command_runner`, `feedback_notifier`) | process ids, pipes, time limits, the rate limit of the sound | probe, compose with a limit, play a sound | ffprobe, ffmpeg, `sh`, a player; the terminal's or the daemon's process group |
| ring buffer class, keybind parser, capture of keys from a terminal, setup and diagnosis, logger, paths, dispatch | little or none | | |

What is hard, and what must hold:

* Controller: requests come from two threads while the worker sleeps, takes a
  request, or runs a callback of minutes, and while another thread stops it.
  No accepted request may be lost or served twice, no wakeup missed, no callback
  outlive `Stop`.
* Daemon: signals coalesce in flags that the loop clears; status is read and
  written later; the recorder is replaced while a save may use it; three things
  are stopped in an order that matters.
* Recorder: four resources are obtained one by one from a portal that may
  refuse, fail or time out; stream errors arrive from before the monitor runs.
* Muxer: several processes share directories whose names they match by a prefix;
  any of them can be killed at any step; ffmpeg may produce anything that fits.
* Listener: devices vanish while keys are held on them and come back under the
  same name; key state is shared by all devices.
* Lifecycle: check and act on a pid file by processes that know nothing of one
  another; signals before the handlers exist.
* Settings: whole-file read, change, truncate and write without a lock.
* Save command: it learns the outcome of its request only from the times of
  files that two threads of the daemon write and other saves change.
* Segment ring: a save reads the directory name by name and then holds names,
  while the recorder goes on writing over the oldest of them, and what is finished
  lags behind what is begun.
* Children: they hang, ignore signals, fill their pipes, inherit those of
  others; every process id must be signalled only while it is theirs.

The full list, with the line where each one bites and the properties that
watch it, is under `hazards` in `PROJECT.json`.

## Modules

| module | models | uses |
| --- | --- | --- |
| `SaveQueue` | what the controller promises: a queue of at most two requests, one served at a time, in order | |
| `SaveController` | `SaveRequestController` | refines `SaveQueue` |
| `Daemon` | `RunListener` with its three threads | `INSTANCE SaveController` |
| `Recorder` | one `GStreamerRecorder` | |
| `ClipMuxer` | `WriteClipFromSegments` in several processes | |
| `DaemonListener` | the keybind listener | |
| `Lifecycle` | the commands and the life of daemons | |
| `Settings` | the settings file and the setters | |
| `SegmentBuffer` | the rolling segment files, their selection, staging and the arithmetic of the clip's length | |
| `SaveCommand` | `clipdeck save` against the worker and the main loop of the daemon | |
| `ChildProcess` | every child the program forks besides the daemon, and the threads that wait | |
| `MC...` | the instances for TLC: sets for the constants, symmetry | each `EXTENDS` its module |
| `DaemonProofs` | theorems of the daemon and of its listener | `EXTENDS Daemon, DaemonListener`, `INSTANCE SaveControllerProofs` |
| `CommandLineProofs` | theorems of the commands: pid file and daemons, settings file | `EXTENDS Lifecycle, Settings` |
| `SaveControllerProofs`, `RecorderProofs`, `ChildProcessProofs`, `SegmentBufferProofs`, `SaveCommandProofs`, `ClipMuxerProofs` | theorems | each `EXTENDS` its module |

Definitions commented `Defect:` are mutated forms of the definition after them.
No specification uses them; they show that each property can fail when the code
is wrong in a plausible way (`mutants` in `PROJECT.json`).

### SaveController

One action per critical section of `mutex_`, and one for each thing a thread
does outside it. `SampleTime` is the clock read at the head of `RequestSave`,
before the mutex (line 43), so two callers can enter in the opposite order of
their samples. `TakeRequest`, `CallbackReturns` and the promotion of the pending
request are the critical sections of `WorkerLoop`; the callback runs between
them without the mutex. `Stop` is three steps: mark, request, join. `accepted`,
`served`, `dropped` and `keybinds` are history. The refinement mapping makes the queue from
the request the worker holds or is about to take and the pending one; the
controller's exit, which may discard one request, is the abstract close.

### Daemon

The variables of the controller are those of an instance of `SaveController`;
its callback is given a body (`SaveBegins` ... `SaveWritesStatus`) that runs
`SaveClip` on the recorder the pointer has at that moment and first forgets what
the last save failed with. The main thread goes
through the loop one shared access at a time: three flags, of which
those of a save and of a reselection are cleared before they are acted on, so that
a signal can come in between; the manual request,
the reselection (read of the save status, stop, replace, start, status), the
periodic status (read, then write), and the shutdown in the order listener,
controller, recorder, last status. Using a recorder that was destroyed leads to
the states called crashed. Whether a second has passed since the last periodic
write is a free choice at each iteration.

### Recorder

`open` counts what exists in the system, `temp` what the locals of `Start` own,
`held` what the fields own. Each portal call succeeds, fails, is refused or
times out, and each early return gives back what the code gives back there. The
portal may refuse to close a session (`gstreamer_recorder.cpp:541-546`): the code
warns and drops the handle, and the session is then `unclosed`, which
`EverythingOwned` counts by itself. `StreamFails` puts a message on the bus at any
moment the pipeline exists. The monitor, `Stop` and `SaveClip` on the worker thread
interleave freely: a reselection's `Stop` may release the pipeline under a
`SaveClip` that still uses `splitmux_sink_` without a lock (803-814 against 1083).
What such a use does is undefined; `Crash` is the outcome that ends the process, the
others go on.

### ClipMuxer

One record per process holds the locals of its call; `dirs` and `clips` are the
shared directories. The steps are those of the code: remove stale staging
directories one by one, make the own, stage segment by segment, write the
manifest, compose by copying, probe, re-encode, validate, rename or copy, clean
up. A removal of a directory may fail, which the code does not look at
(`refused` and `stale` keep account). `Kill` may come at any of them. A file is its length in half seconds and
whether it is black; ffmpeg and the probes give any result that fits.

### DaemonListener

`happened` bounds what the world does (press, release, repeat, plug, unplug).
Each open device has the queue of the kernel. The thread polls, reads one event
at a time, finds broken devices, removes them and resets the key state, scans,
sleeps. `seen` and `fresh` are history: what each device last said, and whether
a key of the combination went up since the last call.

### Lifecycle

A shell runs one command at a time; each file access, fork and signal is a
step. A daemon is young (no handlers yet), up, leaving, past the return of
`RunListener`, exiting, which is between the removal of the pid file and `_Exit`
(`core.cpp:425-426`), or dead. Process ids are not used again. `Stop` ends the
process of the pid file and then every process of the same executable, which
includes commands in other shells.

What these steps return is mostly ignored by the code, so they may fail here: the
pid file may not be written (`process.cpp:47-61`, `core.cpp:411`), a signal may not
be sent, a daemon may outlive the five seconds and be killed or outlive that too
(`core.cpp:351-374`), and an executable that was replaced reads as `(deleted)` and is
found by no one (`process.cpp:171-215`). `astray` is history: the daemons that no
pid file names because of one of these; `spared` and `swept` say what a stop could
not end and whether it removed the status. Executables are replaced between
commands only.

### Settings

A command loads the whole file, sets its fields and writes the whole file:
`Open` truncates, `Close` is the destructor of the stream, which writes the
buffer. Text of another process that is longer stays behind. One key stands for
each way of reading a value (positive integer, required text, path, boolean,
`portal`, optional text, double). `Load` says what the loop over the lines comes
to: a key has the meaning of the last line that gives it a value it can have
(`Gives`, `Counts`), or its default. The names differ from those of `Lifecycle`
because one module proves about both. `wanted` is history: every change ever asked
for; `lost` says that commands overlapped, were interrupted or ran out of disk.
The default clip directory is relative when `CLIPDECK_OUTPUT_DIR` is
(`runtime_paths.cpp:31-33`); it is then looked up where the command runs, written
as it is and read back below the project's root (`settings_store.cpp:27-34, 61`).
`AsRead` names this change and that of a volume with more than six digits; nothing
else may change on the way through the file, and these change once.

### SegmentBuffer

Fragments are numbered as they are recorded; `file` maps each of the
`RetainedSegmentCount` names to the fragment it holds. `BeginFragment` ends the
open one, full or cut short, and writes the next over the oldest name;
`Finalize` may lag behind by `MaxLag` fragments, which is `async-finalize`. A
new recording empties the directory. A save waits for any finalized segment and
reads the directory one name after the other in the order `Rank` gives, first
whether the file has its `moov` (`ScanLook`), then its time (`ScanStamp`);
`SegmentModifiedTimes` says what that time tells of the fragments. So a fragment
that is finalized after its name was passed is missed although a later one may be
seen: the selection then has a hole of a second near its end
(`segment_file.cpp:111-125`), and a file that is written over between the two looks
counts as the newest. `ClipIsRecent` says what remains true: nothing is missing of
what was finalized when the reading began (`known`). The save then selects by time
and looks at and copies each file in two steps, so that a name can change its
content before and between them. `Outputs` is what ffmpeg
makes of the staged files with `-ss` and `-t`; the probe's tolerances decide
whether that is published. Lengths count half seconds, which makes the
tolerances integers. The save of `clipdeck save` without a daemon is the same
without the wait and may meet a recording that starts.

### SaveCommand

The daemon is reduced to what a command can observe: health, last failure, the
three states of the controller, the status file, the clip directory. A command
takes its threshold, reads the health and sends the signal in three steps
(`core.cpp:673-687`), and is told when the signal could not be sent. Worker and
main loop each read the recorder into a snapshot and write it later, so an older
snapshot can replace a newer one. A writer truncates first, so a reader may see
an empty file (`Readings`). A tick is a second: the main loop writes the status
in every tick, and a waiting command has looked in every tick before it ends.
The saved clip keeps the time at which composing ended when it is renamed and
gets a new one when it is copied. The default staging directory is below the
runtime directory and usually on another file system than the clips, so the copy
is the common case; then `clipdeck save` may report a clip that is still being
copied, because it passes over empty files only (`core.cpp:225`). `asked` and
`alone` are history: how many saves had begun, and whether anything else went on
when the command asked. A reselection of the source meanwhile, which rewrites the
status with a new recorder (`core.cpp:537-548`), and the end of the daemon during
the wait are left out.

### ChildProcess

Call i has child i and, when it reads output, pipe i. The kinds of call are
ways through the same steps: pipe, fork, close the write end, read, wait; or
setpgid, poll, SIGTERM, grace, SIGKILL, reap. A capture (`RunCommandCapture`) is a
probe that ignores how its child ended: the list of encoders it reads may be
partial, and `SuccessIsComplete` promises of it only what the child had written. A child gets every write end
that is open when it is forked, ends, fails, hangs or survives SIGTERM, and is
hit by the SIGTERM of a stop unless it has a group of its own. `RunShellCommand`
is included though the program calls it nowhere at this commit.

## Runs

`tlc -config <cfg> <module>`. The longest, `daemon`, takes about three minutes.

| run | bounds | shows |
| --- | --- | --- |
| `save_controller` | 2 callers that pass either source, 3 requests, debounce of 2 in 4 instants | no request is lost, doubled or served after the stop; keybinds that become saves were pressed a debounce apart and are accepted in that order; fairness serves each and lets `Stop` return; implements `SaveQueue` |
| `daemon` | 2 save signals, 2 reselections and 1 keybind, of which 3 happen, shutdown at any moment | threads are gone before the recorder; only a keybind can make a save meet the replacement of the recorder; the last status is final; signals are answered, reselections honoured, outcomes reach the file |
| `recorder` | 3 starts, 3 saves | nothing leaks but sessions the portal withholds, nothing is released twice, the bus outlives its monitor; an ended stream is noticed and never reported healthy; failures are explained; calls return |
| `clip_muxer` | 2 processes, 2 calls, selections of one and two segments, target of one second | nothing unvalidated is published or reported, leftovers are owned or found |
| `segments` | clip of 5 seconds with 1 of safety, lag of 1, 11 fragments in a ring of 9, at most 3 begun during a save, pairs of names listed in either order, 2 recordings, 1 early end, 1 failed copy | what is staged is what was sorted; nothing that was finalized when the directory was read is missing; at most a second is lost; nothing complete is refused |
| `daemon_listener` | 2 keyboards, combination of two keys, 4 events, debounce of 1 | no ghost keys, one call per press, found again, stops |
| `lifecycle` | 2 shells, 3 commands of which 1 may overlap another, 3 daemons that may crash at any moment | the pid file names the daemon that lives unless a write, a stop or a daemon gone astray failed it; a completed stop ended every daemon there was that it could find and end |
| `lifecycle_young` (violation) | start, save | the save's signal ends a daemon without handlers |
| `settings` | 2 shells, 3 commands, 1 fault, 4 hand-written files, a relative default directory | what is written is read, but for the digits of the volume and the relative directory; changes are lost only by overlap, interruption or a full disk |
| `child_process` | 1 worker and 1 player, 3 calls of all kinds, 2 chunks through a pipe of 1 | signals hit own children, none is left, success is complete except for a capture's, calls return |
| `save_command` | 1 command with a deadline of 4 ticks, 1 keybind, 5 ticks | the reported clip is the own one; giving up means that nothing was ready in time |
| `save_command_stale` (violation) | 1 command, 1 keybind | the failure of an earlier save is reported as the own one |

Why the bounds are enough to meet the interesting cases: three requests fill
the two places of the controller and refuse one; four clock instants allow
samples in the opposite order on both sides of the debounce. Two signals of a
save coalesce in the flag or arrive on both sides of its clearing, and with the
keybind they fill the controller and are refused; two of a reselection let the
second arrive while the recorder of the first is replaced. Three events in all
keep the product of these within reach. Three starts let one `Start` fail after
another has succeeded and been stopped. Two processes are enough for one to remove the other's directory, and
a killed slot is reused by a new call. Five seconds reach the longer tolerance
of the validation, which is where a loss could hide, and eleven fragments go
once round the ring of nine, so that selected names are written over; three
fragments begun during a save are one more than `InTime` allows; pairs in either
order let a name be passed before its fragment is finalized and the name of the
next be seen after, and reach every pair of neighbours; the second recording can
empty the directory under a save of a command. Four listener
events are press, press, release, press. Three daemons and three commands are a
start, a second start while the first is gone unnoticed or could not write its pid
file, and a stop or a save by the other shell, with any two commands overlapping. Three settings
commands let a third read what two have mixed. Three calls let a player inherit
a probe's pipe while a second probe or a timeout goes on. Four ticks are a
deadline that a save, and the failure of a save of the keybind, can meet or
miss; a command may ask in any tick, and with the fifth one that asks after a
tick of the daemon can still give up.

Two runs have a `CONSTRAINT`, which cuts off states that no property looks at:
`UntilLastSave` ends a behaviour of `segments` when the last save has ended,
`UntilAnswered` one of `save_command` when every command has its answer. Both
runs check invariants only.

Deadlock is not checked: every model stops when its bounds are used up, and the
daemon, the commands and the calls really end. The liveness properties are what
says that nothing stops too early.

Type invariants are stated as `TypeOK` (`ListenerTypeOK`, `SettingsTypeOK`) for
every component and are theorems, those of the daemon and its listener as parts of
`DaemonInvariant` and `ListenerInvariant`. No run repeats them.

Fairness. The threads of the daemon are weakly fair: they run and every wait of
theirs has a time limit (condition variable with a stop token, poll with a
timeout, portal calls and child processes with deadlines). The environment is
not fair: no key, signal, error or command has to come. The monitor of the
recorder is strongly fair in popping a message, because it polls every 250 ms
whatever else happens; the periodic status write is strongly fair, because each
iteration of the loop sleeps and so the second passes. A callback of the
controller is assumed to return. In `ChildProcess` a child that is not hung goes
on writing and ends; a hung one may stay for ever, and `CallsReturn` names the
only calls that then stay with it: a probe has no time limit, and a player that
inherited a probe's pipe holds the probe up.

## Proofs

`tlapm <module>` checks them; no assumption besides the named `ASSUME`s on the
constants, which TLC evaluates in the runs.
That of `Settings` about hand-written files says that they are lines of two
fields, and about the default directory only that it is not empty; that of
`SegmentBuffer` about `Rank` that every name has a rank.

* `SaveControllerProofs`, for any callers, debounce and bounds. `IInv` joins
  the type, the agreement of the three guarded fields with the place of the
  worker (`QueueConsistent`), the account of requests and facts about the
  stopper and the samples in flight. `QueueConsistent` alone is not inductive:
  that the worker finds something to take when it is woken needs the account of
  what is outstanding. From it: type correctness, consistency, accounting,
  quiescence after `Stop`, nothing accepted after the mark, the spacing of
  keybinds (`Spacing`, over the history of all that were accepted, which needs
  that none was sampled after the start of the running interval,
  `IntervalBehind`), and the safety part of the refinement (`Refinement`: every step is a
  step of the queue or a stutter, one lemma for the steps and one for
  stuttering).
* `DaemonProofs`, about the runtime, for any number of signals, reselections
  and keys. `UsesController`: each step of the daemon is a step of its
  `SaveController` or leaves it alone. So the controller's invariant is not
  proved again: the lemmas of `SaveControllerProofs` are cited through an
  instance (`SC`) with the daemon's two callers. To it `IInv` adds where a save
  callback can be (`CallbackConsistent`), what is behind the main thread at each
  point of the shutdown (`ShutdownConsistent`), that there is one recorder more
  for each reselection (`RecorderCounted`), and, while a recorder is stopped and
  replaced, that all the sources the controller holds are the keybind
  (`RestartGuarded`). The last one needs `QueueConsistent` of the controller: the
  main thread goes on to the restart only when the controller was idle, an idle
  controller holds no request, and meanwhile only the listener thread can ask.
  From it: `StopsThreadsFirst`, `LeavesFinalStatus`, `ReplacesUnderKeybindOnly`.
* `DaemonProofs`, about the listener, for any devices, keys, actions and
  requirements. `Armed`: `was_down_` always equals what the keys down say, by the
  fact that every step that changes the keys recomputes or resets it. `Once`: a
  callback needs a key of the combination that went up since the last one; the
  invariant adds that a combination that is armed and not fresh is down.
  `NoGhosts`: each key that is down was last seen down on some open device
  (`KeysSeen`). A device is closed only in the step that forgets all keys, and a
  device that a scan opens was not open before, so the empty history it starts
  with takes nothing away (`Opened`). That the removal keeps the others and each
  of them once (`Erased`) is a counting argument on the sequence `input_devices_`;
  for its sake `EraseBroken` says by positions what `SelectSeq` would compute.
* `CommandLineProofs`, about the daemons, for any shells, commands and daemons. `StopsAll`: a stop
  that came to its end has ended every daemon there was when it began. Two
  facts carry it: a process id never returns to life (`NobodyReturns`), and at
  each point of `Stop` those left of the daemons it found are among those it
  still has to end (`OnTrack`). `OnTrack` speaks of one shell and only gets
  easier as daemons die, so a step is checked for the shell that takes it.
  `PidFileFollows`: while commands come one at a time there is at most one
  daemon that is neither astray nor exiting, and the shell under way knows at each
  of its lines whether it is the one of the pid file, the one of its own variable,
  or none (`Near`).
* `CommandLineProofs`, about the settings, for any shells, commands, faults and
  hand-written files. A value is `Stable` when writing and reading it gives what
  is printed of it; everything in memory was read or set, and so is stable
  (`Shape`), even when the file it came from is a mixture of two writers. So
  `ReadsWhatIsWritten`. While nothing overlaps or is cut short, the file reads
  as the settings asked for, and at each point of a command its memory does
  (`Faithful`); hence `KeepsChanges`.
  Both hold for a relative default directory as well as for an absolute one:
  `AsRead` is a fixed point after one passage through the file, which is what the
  proof uses of it.
* `RecorderProofs`, for any number of starts and saves. `NothingLeaks`: every
  connection, session, descriptor and pipeline is counted by exactly one owner, or
  is a session the portal withholds, and the pipeline whose bus the monitor reads
  is there as long as the monitor.
  The invariant adds which locals and fields are filled at each line of `Start`
  and `Stop` (`Filled`). `EndStaysVisible`: the monitor runs only after health
  was announced, and leaves its loop by itself only after it has taken health
  back (`Watching`). `Explained`: no way out of `SaveClip` is without a reason.
* `ChildProcessProofs`, for any threads, kinds, outputs and capacities.
  `NoStraySignal`, `ChildrenCollected`, `SuccessComplete`. The invariant speaks
  of one call (`CallOK`: what was read, lies in the pipe and is still to come
  add up to the output) and of one thread (`ThreadOK`), and no two threads run
  the same call, so a step is checked for its own call only. `SuccessComplete`
  says less of a capture than of a probe, as the code does.
* `SegmentBufferProofs`, for any clip length, safety, lag and order of listing.
  `Ring` says which fragment each name holds from its distance to the open one.
  `Scan` is the invariant of the reading: every name that was passed and holds one
  of the newest `SelectedCount` fragments that were known was taken with that
  fragment's time, because what the recorder begins and finalizes meanwhile has
  higher numbers. So when the reading is over all of these were seen
  (`WindowRead`), whatever else was; a name with an older fragment cannot be
  selected, since that many newer ones have names of their own (`Pigeons`,
  `SelectsRecent`). What is selected therefore survives until the recording has
  come round, which `Spare` fragments allow for (`StagesWhatItSelected`); this is
  why the buffer's size is compared with the selection's. `ClipsAreRecent`: what
  is selected has everything known from its oldest fragment on (`Choice`), each
  name is staged once at most (`CopiedOnce`), and as many copies as names were
  selected are copies of all of them. `LosesNothingSilently` and `RefusesOnlyLoss` are
  the validation read in both directions (lemma `Validation`): what ffmpeg can
  make of the staged files, the length it is compared with and the tolerance,
  for every clip length and safety. The sum of the lengths is the number of the
  half seconds in the files (`Total`), so that bounds on it are facts about
  cardinalities.
* `SaveCommandProofs`, for any commands, times and keybinds. `ReportsItsOwn`:
  while no save has begun since the request the worker rests and the directory
  does not change, and what was there then is older than the threshold.
  `GivesUpOnSlow`: each of the two writers of the status file holds a snapshot
  for less than a tick, so two ticks after a save has ended the file tells of it
  (`FailureWritten`) or its clip is there (`LeavesClip`), and a command that looks
  once in every tick has seen it (`OutcomeSeen`) before its deadline.
* `ClipMuxerProofs`, for any processes, calls, selections and target. The call
  of one process is `Sound` by itself: what it holds at the point of publishing
  has been validated as it is now, or was lost with its directory
  (`Validated`); none of the actions of other processes changes it otherwise.
  Between processes it is enough that names are given once (`Names`), and that
  a call has before it what it has not yet removed of the killed (`Cleaning`).
  From it all four invariants of the run.

Every invariant and action property of the passing runs is a theorem. Only
model-checked is what needs fairness: the liveness properties of
`save_controller`, `daemon`, `recorder`, `daemon_listener` and `child_process`,
and the fairness of `SaveQueue` within `ImplementsQueue`, whose safety part is
`Refinement`. Liveness under fairness is beyond the prover. So is induction over
data; the models have none left, because `Load`, `Total` and `EraseBroken` say
by positions and cardinalities what the code computes in a loop.

## Where the code differs from what it says

* `core.cpp:434`: `clipdeck save` right after `clipdeck start` sends SIGUSR1 to
  a daemon that has no handler yet and ends it (`lifecycle_young`).
* `core.cpp:317`: a save after a failed one is told the failure of the earlier
  one, because the status file that carries it is rewritten every second and so
  always looks new (`save_command_stale`).
* `core.cpp:529`: a keybind between the test of the save status and the restart
  makes a save run on a recorder that is being destroyed, although the message
  at line 533 says that the active save is waited for. `ReplacedUnderKeybindOnly`
  shows how far this goes: no other request can get into that gap.
* `gstreamer_recorder.cpp:541-546`: a portal session whose `Close` fails is
  forgotten with a warning and stays open (`unclosed` in `Recorder`).
* `process.cpp:47-61`, `core.cpp:411`: `clipdeck start` does not look whether the
  pid file could be written and then leaves a daemon that no command names;
  `core.cpp:351-374`: `clipdeck stop` removes the file of a daemon it could not end
  (`astray` in `Lifecycle`, which `PidFileNamesDaemon` names as the exceptions).
* `clip_muxer.cpp:307-309`: the list of ffmpeg's encoders is used however ffmpeg
  ended (`StatusIgnored` in `ChildProcess`).
* `segment_file.cpp:111-125`: the directory is read while fragments are finalized,
  so that a clip may lack a second shortly before its end, see `SegmentBuffer`.
* `settings_store.cpp:243`: the answer of `Save` is taken before the stream
  writes; on a full disk the truncated file stays empty and the command says
  that the setting is saved. `CloseOnFullDisk` models it, and `ChangesSurvive`
  excludes what it loses.

Noted while modelling and kept as hazards without a run of their own: two
starts at once make two daemons; a save removes staging directories of other
processes that are in use; a relative `CLIPDECK_OUTPUT_DIR` moves the clip
directory when any setting is saved; a player that hangs can hold a probe.

## Not modelled

* The condition of the segments' own media data, the pipeline's text, encoders
  and the arguments of ffmpeg: no control of the program depends on them but
  through results that are left open.
* `SelectRecentSegmentsForDuration` and the summaries of segments for the
  status: they list and probe and change nothing.
* SYN_DROPPED, reuse of process ids, the arithmetic of very long clips.
* Values of settings with a newline, which no setter refuses
  (`commands.cpp:283-321`) and which would end their line in the file; a
  reselection of the source and the end of the daemon while `clipdeck save` waits.
* Keybind parsing, capture of keys from a terminal, setup, diagnosis, printing,
  logging, paths, dispatch: no state, or the input and output of one process.
  `EncodedRingBuffer` is used by its unit test only.

## Plan

Done: `SaveQueue`, `SaveController`, `Daemon`, `Recorder`, `ClipMuxer`,
`DaemonListener`, `Lifecycle`, `Settings`, `ChildProcess`, `SegmentBuffer`,
`SaveCommand`, and the theorems above. Left:

1. A model of SYN_DROPPED in `DaemonListener`, which needs the kernel's key state
   next to the events.
2. In `SaveCommand`, the reselection that rewrites the status with a new recorder.
