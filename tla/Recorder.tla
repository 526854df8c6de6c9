------------------------------- MODULE Recorder -------------------------------
(***************************************************************************)
(* One GStreamerRecorder object (gstreamer_recorder.cpp): Start with the   *)
(* screen-cast handshake of the desktop portal, the thread that watches    *)
(* the GStreamer bus, Stop, and SaveClip on another thread.                *)
(*                                                                         *)
(* Four things have to be given back: the reference to the D-Bus           *)
(* connection, the portal session, the PipeWire descriptor and the         *)
(* pipeline.  `open` counts them in the system, `temp` are those the       *)
(* local variables of Start own, `held` those the fields of the object own.*)
(***************************************************************************)
EXTENDS Integers

CONSTANTS MaxStarts,    \* bound: calls of Start
          MaxSaves      \* bound: calls of SaveClip

Resources == {"connection", "session", "fd", "pipeline"}
Portal == {"connection", "session", "fd"}

ASSUME RecorderBounds == MaxStarts \in Nat /\ MaxSaves \in Nat

VARIABLES
  main,          \* where the thread that calls Start and Stop is
  open,          \* per resource: how many exist
  orphans,       \* sessions the portal created for a request given up
  unclosed,      \* sessions whose Close the portal refused; nobody has the
                 \* handle any more
  temp, held,
  running,       \* running_
  healthy,       \* healthy_
  message,       \* message_, by what it says
  source_type,   \* capture_source_type_
  bus,           \* an ERROR or EOS message waits on the bus
  monitor,       \* where MonitorBus is
  stop_requested,\* the stop token of bus_thread_
  save,          \* where SaveClip is
  failure,       \* last_save_failure_
  clip,          \* last_saved_clip_ is that of the last successful save
  result,        \* what the last SaveClip returned
  starts, saves  \* how often Start and SaveClip were called

portalVars == <<open, orphans, unclosed, temp, held>>
healthVars == <<healthy, message>>
busVars == <<bus, monitor, stop_requested>>
saveVars == <<save, failure, clip, result>>
vars == <<main, portalVars, running, healthVars, source_type, busVars,
          saveVars, starts, saves>>

StartPCs == {"connect", "create", "select", "stream", "remote", "fields",
             "parse", "sink", "play", "publish", "announce", "monitor"}
MainPCs == {"out", "join", "teardown", "clear", "stopped", "crashed"}
             \cup StartPCs
SavePCs == {"out", "check", "split", "emit", "stale", "wait", "select", "mux",
            "crashed"}
Failures == {"", "unhealthy", "no segment", "unusable", "muxer"}

TypeOK ==
  /\ main \in MainPCs
  /\ open \in [Resources -> Nat]
  /\ orphans \in Nat /\ unclosed \in Nat
  /\ temp \subseteq Resources /\ held \subseteq Resources
  /\ running \in BOOLEAN /\ healthy \in BOOLEAN
  /\ message \in {"not started", "start failed", "recording", "stream error",
                  "stopped"}
  /\ source_type \in {"", "monitor", "window"}
  /\ bus \in BOOLEAN
  /\ monitor \in {"none", "poll", "pop", "failing", "exited"}
  /\ stop_requested \in BOOLEAN
  /\ save \in SavePCs
  /\ failure \in Failures
  /\ clip \in BOOLEAN
  /\ result \in {"none", "true", "false"}
  /\ starts \in Nat /\ saves \in Nat

Init ==
  /\ main = "out"
  /\ open = [r \in Resources |-> 0]
  /\ orphans = 0 /\ unclosed = 0
  /\ temp = {} /\ held = {}
  /\ running = FALSE /\ healthy = FALSE
  /\ message = "not started"
  /\ source_type = ""
  /\ bus = FALSE /\ monitor = "none" /\ stop_requested = FALSE
  /\ save = "out" /\ failure = "" /\ clip = FALSE /\ result = "none"
  /\ starts = 0 /\ saves = 0

SetMessage(m, h) == message' = m /\ healthy' = h

Acquire(r) == open' = [open EXCEPT ![r] = @ + 1]

Released(S) == [r \in Resources |-> IF r \in S THEN open[r] - 1 ELSE open[r]]

\* close, g_object_unref and gst_object_unref do not fail.  ClosePortalSession
\* asks the portal: an error is logged, and the handle is dropped all the same.
GivesBack(S) ==
  \/ open' = Released(S) /\ UNCHANGED unclosed
  \/ /\ "session" \in S
     /\ open' = Released(S \ {"session"})
     /\ unclosed' = unclosed + 1

-----------------------------------------------------------------------------
(* Start: the portal handshake (OpenPortalScreenCastSession).              *)

StartVars == <<running, source_type, busVars, saveVars, starts, saves>>

\* Start of an object that was never started, failed to start or was stopped.
Start ==
  /\ main = "out"
  /\ held = {} /\ ~running
  /\ starts < MaxStarts
  /\ starts' = starts + 1
  /\ main' = "connect"
  /\ UNCHANGED <<portalVars, running, healthVars, source_type, busVars,
                 saveVars, saves>>

\* Defect: the session is left open when a later step fails.
FailWithoutClosing ==
  /\ GivesBack(temp \ {"session"})
  /\ temp' = {}
  /\ SetMessage("start failed", FALSE)
  /\ main' = "out"

\* Whatever step fails, Start gives back what it has and returns false.
Fail ==
  /\ GivesBack(temp)
  /\ temp' = {}
  /\ SetMessage("start failed", FALSE)
  /\ main' = "out"

Advance(r, next) ==
  /\ Acquire(r)
  /\ temp' = temp \cup {r}
  /\ main' = next
  /\ UNCHANGED <<unclosed, healthVars>>

\* g_bus_get_sync
Connect ==
  /\ main = "connect"
  /\ Advance("connection", "create") \/ Fail
  /\ UNCHANGED <<orphans, held, StartVars>>

\* The answer may be a refusal, or come after the two minutes of
\* WaitForPortalResponse: the portal may then have created a session whose
\* handle nobody knows.
CreateSession ==
  /\ main = "create"
  /\ Advance("session", "select") \/ Fail
  /\ UNCHANGED <<orphans, held, StartVars>>

CreateSessionTimesOut ==
  /\ main = "create"
  /\ open' = [Released(temp) EXCEPT !["session"] = @ + 1]
  /\ orphans' = orphans + 1
  /\ temp' = {}
  /\ SetMessage("start failed", FALSE)
  /\ main' = "out"
  /\ UNCHANGED <<unclosed, held, StartVars>>

Proceed(next) == main' = next /\ UNCHANGED <<open, unclosed, temp, healthVars>>

\* SelectSources and the user's choice: refused, cancelled or too late.
SelectSources ==
  /\ main = "select"
  /\ Proceed("stream") \/ Fail
  /\ UNCHANGED <<orphans, held, StartVars>>

\* Start of the stream; a source that is neither monitor nor window or has
\* no target is refused.
StartStream ==
  /\ main = "stream"
  /\ Proceed("remote") \/ Fail
  /\ UNCHANGED <<orphans, held, StartVars>>

OpenPipeWireRemote ==
  /\ main = "remote"
  /\ Advance("fd", "fields") \/ Fail
  /\ UNCHANGED <<orphans, held, StartVars>>

-----------------------------------------------------------------------------
(* Start: the pipeline.                                                    *)

\* The fields take over what the handshake obtained.
SetPortalFields ==
  /\ main = "fields"
  /\ held' = temp
  /\ temp' = {}
  /\ source_type' \in {"monitor", "window"}
  /\ main' = "parse"
  /\ UNCHANGED <<open, orphans, unclosed, running, healthVars, busVars, saveVars,
                 starts, saves>>

\* The error path of each of the three steps: what the fields hold goes, and
\* the local pipeline, if there is one.
AbandonStart ==
  /\ GivesBack(held \cup temp)
  /\ held' = {} /\ temp' = {}
  /\ source_type' = ""
  /\ SetMessage("start failed", FALSE)
  /\ main' = "out"

ParsePipeline ==
  /\ main = "parse"
  /\ \/ Advance("pipeline", "sink") /\ UNCHANGED <<held, source_type>>
     \/ AbandonStart
  /\ UNCHANGED <<orphans, running, busVars, saveVars, starts, saves>>

FindSink ==
  /\ main = "sink"
  /\ \/ Proceed("play") /\ UNCHANGED <<held, source_type>>
     \/ AbandonStart
  /\ UNCHANGED <<orphans, running, busVars, saveVars, starts, saves>>

\* From here on the stream may fail and post a message on the bus.
Play ==
  /\ main = "play"
  /\ \/ Proceed("publish") /\ UNCHANGED <<held, source_type>>
     \/ AbandonStart
  /\ UNCHANGED <<orphans, running, busVars, saveVars, starts, saves>>

\* Defect: the monitor is started before the state is announced.
PublishAndMonitor ==
  /\ main = "publish"
  /\ held' = held \cup temp
  /\ temp' = {}
  /\ running' = TRUE
  /\ monitor' = "poll"
  /\ stop_requested' = FALSE
  /\ main' = "announce"
  /\ UNCHANGED <<open, orphans, unclosed, healthVars, source_type, bus, saveVars,
                 starts, saves>>

\* pipeline_, splitmux_sink_, bus_, and running_
PublishPipeline ==
  /\ main = "publish"
  /\ held' = held \cup temp
  /\ temp' = {}
  /\ running' = TRUE
  /\ main' = "announce"
  /\ UNCHANGED <<open, orphans, unclosed, healthVars, source_type, busVars,
                 saveVars, starts, saves>>

Announce ==
  /\ main = "announce"
  /\ SetMessage("recording", TRUE)
  /\ main' = "monitor"
  /\ UNCHANGED <<portalVars, running, source_type, busVars, saveVars, starts,
                 saves>>

StartMonitor ==
  /\ main = "monitor"
  /\ monitor' = "poll"
  /\ stop_requested' = FALSE
  /\ main' = "out"
  /\ UNCHANGED <<portalVars, running, healthVars, source_type, bus, saveVars,
                 starts, saves>>

Handshake == \/ Connect \/ CreateSession \/ CreateSessionTimesOut
             \/ SelectSources \/ StartStream \/ OpenPipeWireRemote
Pipeline == \/ SetPortalFields \/ ParsePipeline \/ FindSink \/ Play
            \/ PublishPipeline \/ Announce \/ StartMonitor

-----------------------------------------------------------------------------
(* The bus and MonitorBus.                                                 *)

\* The stream fails or ends (external).
StreamFails ==
  /\ ~bus
  /\ "pipeline" \in held
  /\ main \notin {"teardown", "crashed"}
  /\ bus' = TRUE
  /\ UNCHANGED <<main, portalVars, running, healthVars, source_type, monitor,
                 stop_requested, saveVars, starts, saves>>

\* while (running_ && !stop_token.stop_requested())
MonitorTest ==
  /\ monitor = "poll"
  /\ monitor' = IF running /\ ~stop_requested THEN "pop" ELSE "exited"
  /\ UNCHANGED <<main, portalVars, running, healthVars, source_type, bus,
                 stop_requested, saveVars, starts, saves>>

\* gst_bus_timed_pop_filtered: nothing for 250 ms, or a warning.
MonitorFindsNothing ==
  /\ monitor = "pop"
  /\ monitor' = "poll"
  /\ UNCHANGED <<main, portalVars, running, healthVars, source_type, bus,
                 stop_requested, saveVars, starts, saves>>

\* Defect: the end of the stream is recorded but its message is not.
MonitorPopsSilently ==
  /\ monitor = "pop"
  /\ bus
  /\ bus' = FALSE
  /\ monitor' = "failing"
  /\ UNCHANGED <<main, portalVars, running, healthVars, source_type,
                 stop_requested, saveVars, starts, saves>>

MonitorPops ==
  /\ monitor = "pop"
  /\ bus
  /\ bus' = FALSE
  /\ SetMessage("stream error", FALSE)
  /\ monitor' = "failing"
  /\ UNCHANGED <<main, portalVars, running, source_type, stop_requested,
                 saveVars, starts, saves>>

MonitorFails ==
  /\ monitor = "failing"
  /\ running' = FALSE
  /\ monitor' = "poll"
  /\ UNCHANGED <<main, portalVars, healthVars, source_type, bus,
                 stop_requested, saveVars, starts, saves>>

Monitor == MonitorTest \/ MonitorFindsNothing \/ MonitorPops \/ MonitorFails

-----------------------------------------------------------------------------
(* Stop.                                                                   *)

StopNothing ==
  /\ main = "out"
  /\ ~running /\ held = {}
  /\ UNCHANGED vars

\* Defect: Stop does not tell the monitor.
StopWithoutRequest ==
  /\ main = "out"
  /\ running \/ held # {}
  /\ main' = "join"
  /\ UNCHANGED <<portalVars, running, healthVars, source_type, busVars, saveVars,
                 starts, saves>>

\* At shutdown the worker is joined before; a reselection stops the recorder
\* without asking whether SaveClip is running on it.
Stop ==
  /\ main = "out"
  /\ running \/ held # {}
  /\ running' = FALSE
  /\ stop_requested' = TRUE
  /\ main' = "join"
  /\ UNCHANGED <<portalVars, healthVars, source_type, bus, monitor, saveVars,
                 starts, saves>>

JoinMonitor ==
  /\ main = "join"
  /\ monitor \in {"none", "exited"}
  /\ monitor' = "none"
  /\ main' = "teardown"
  /\ UNCHANGED <<portalVars, running, healthVars, source_type, bus,
                 stop_requested, saveVars, starts, saves>>

\* The pipeline, its sink and its bus are released, with the messages that
\* wait.  The fields still point to them, and so does a SaveClip that has just
\* read the sink.
ReleasePipeline ==
  /\ main = "teardown"
  /\ open' = Released({"pipeline"})
  /\ held' = held \ {"pipeline"}
  /\ bus' = FALSE
  /\ save' = IF save = "emit" THEN "stale" ELSE save
  /\ main' = "clear"
  /\ UNCHANGED <<orphans, unclosed, temp, running, healthVars, source_type,
                 monitor, stop_requested, failure, clip, result, starts, saves>>

\* The pointers are cleared; descriptor, session and connection follow.
ReleasePortal ==
  /\ main = "clear"
  /\ GivesBack(held)
  /\ held' = {}
  /\ source_type' = ""
  /\ main' = "stopped"
  /\ UNCHANGED <<orphans, temp, running, healthVars, busVars, saveVars, starts,
                 saves>>

StopReturns ==
  /\ main = "stopped"
  /\ SetMessage("stopped", FALSE)
  /\ main' = "out"
  /\ UNCHANGED <<portalVars, running, source_type, busVars, saveVars, starts,
                 saves>>

-----------------------------------------------------------------------------
(* SaveClip: save_mutex_ lets one thread in.                               *)

SaveUnchanged == UNCHANGED <<main, portalVars, running, healthVars, source_type,
                             busVars, starts>>

SaveClip ==
  /\ save = "out"
  /\ saves < MaxSaves
  /\ saves' = saves + 1
  /\ failure' = ""
  /\ save' = "check"
  /\ SaveUnchanged /\ UNCHANGED <<clip, result>>

\* Defect: a failure of the muxer leaves no reason.
ReturnsUnexplained(reason) ==
  /\ failure' = IF reason = "muxer" THEN "" ELSE reason
  /\ result' = IF reason = "" THEN "true" ELSE "false"
  /\ clip' = (clip \/ reason = "")
  /\ save' = "out"

Returns(reason) ==
  /\ failure' = reason
  /\ result' = IF reason = "" THEN "true" ELSE "false"
  /\ clip' = (clip \/ reason = "")
  /\ save' = "out"

SaveUnhealthy ==
  /\ save = "check"
  /\ ~healthy
  /\ Returns("unhealthy")
  /\ SaveUnchanged /\ UNCHANGED saves

SaveHealthy ==
  /\ save = "check"
  /\ healthy
  /\ save' = "split"
  /\ SaveUnchanged /\ UNCHANGED <<failure, clip, result, saves>>

\* SplitCurrentSegment reads splitmux_sink_, which a Stop may have cleared or
\* be about to clear ...
ReadSink ==
  /\ save = "split"
  /\ save' = IF "pipeline" \in held THEN "emit"
             ELSE IF main = "clear" THEN "stale" ELSE "wait"
  /\ SaveUnchanged /\ UNCHANGED <<failure, clip, result, saves>>

\* ... and sends split-now to it.  Undefined behaviour if the sink is released
\* by then: the call returns, or the process dies.
SplitNow ==
  /\ save \in {"emit", "stale"}
  /\ save' = "wait"
  /\ SaveUnchanged /\ UNCHANGED <<failure, clip, result, saves>>

Crash ==
  /\ save = "stale"
  /\ save' = "crashed" /\ main' = "crashed" /\ monitor' = "none"
  /\ UNCHANGED <<portalVars, running, healthVars, source_type, bus,
                 stop_requested, failure, clip, result, starts, saves>>

\* Up to two seconds for a segment.
WaitForSegment ==
  /\ save = "wait"
  /\ \/ save' = "select" /\ UNCHANGED <<failure, clip, result>>
     \/ Returns("no segment")
  /\ SaveUnchanged /\ UNCHANGED saves

Select ==
  /\ save = "select"
  /\ \/ save' = "mux" /\ UNCHANGED <<failure, clip, result>>
     \/ Returns("unusable")
  /\ SaveUnchanged /\ UNCHANGED saves

Mux ==
  /\ save = "mux"
  /\ Returns("muxer") \/ Returns("")
  /\ SaveUnchanged /\ UNCHANGED saves

Save == \/ SaveClip \/ SaveUnhealthy \/ SaveHealthy \/ ReadSink \/ SplitNow
        \/ Crash \/ WaitForSegment \/ Select \/ Mux

Main == \/ Handshake \/ Pipeline \/ JoinMonitor \/ ReleasePipeline
        \/ ReleasePortal \/ StopReturns

Next == Start \/ Stop \/ StopNothing \/ Main \/ StreamFails \/ Monitor \/ Save

SafeSpec == Init /\ [][Next]_vars

\* Start and Stop that have begun go on: portal calls have a time limit.  The
\* monitor polls every 250 ms and finds a message that waits.
Fairness == WF_vars(Main) /\ WF_vars(Monitor) /\ SF_vars(MonitorPops)

Spec == SafeSpec /\ Fairness

-----------------------------------------------------------------------------
(* Properties.                                                             *)

OneOwner ==
  /\ held \cap temp = {}
  /\ \A r \in Resources :
       open[r] = (IF r \in held \cup temp THEN 1 ELSE 0)
                   + (IF r = "session" THEN orphans + unclosed ELSE 0)

BusOutlivesMonitor == monitor # "none" => "pipeline" \in held

\* Everything that exists has exactly one owner, a local of Start or a field
\* of the object: no error path and no order of Start, Stop and stream errors
\* leaks or releases twice.  The only sessions left without an owner are those
\* the portal itself withholds: created for a request whose answer did not come
\* in time, or not closed when the portal was asked to.  And the monitor's
\* bus, which goes with the pipeline, is there as long as the monitor is.
EverythingOwned == OneOwner /\ BusOutlivesMonitor

\* A stream that has ended is never reported as healthy again, however early
\* the error came; and the kind of the source stays known until Stop, which is
\* how the daemon recognises that a captured window was closed.
StreamEndVisible ==
  monitor = "exited" /\ main = "out" =>
    ~healthy /\ ~running /\ message = "stream error" /\ source_type # ""

\* A save that fails says why and a save that succeeds does not: the status
\* file shows the reason to a command line that waits for the outcome.
SavesExplained ==
  save = "out" => /\ result = "true" => failure = "" /\ clip
                  /\ result = "false" => failure # ""

\* An error on the bus makes the recorder unhealthy.
StreamEndNoticed == bus ~> (~healthy \/ main = "crashed")

\* A Start or a Stop that has begun returns, unless a save that it ran into
\* ends the process.
CallsReturn == main # "out" ~> main \in {"out", "crashed"}
=============================================================================
