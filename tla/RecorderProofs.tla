---------------------------- MODULE RecorderProofs ----------------------------
(***************************************************************************)
(* For any number of calls: what a recorder obtains has one owner at every *)
(* step, the end of a stream stays visible, and a save that fails says why.*)
(*                                                                         *)
(* EverythingOwned needs to know which locals and fields are filled at     *)
(* each step of Start and Stop (Filled), and StreamEndVisible when the     *)
(* monitor can be running at all and why it left its loop (Watching).      *)
(***************************************************************************)
EXTENDS Recorder, TLAPS

Before == {"connect", "create", "select", "stream", "remote", "fields"}

\* What the local variables of Start own, and the fields of the object.
Filled ==
  /\ main = "create" => temp = {"connection"}
  /\ main \in {"select", "stream", "remote"} => temp = {"connection", "session"}
  /\ main = "fields" => temp = Portal
  /\ main \in {"sink", "play", "publish"} => temp = {"pipeline"}
  /\ main \in {"connect", "parse", "announce", "monitor", "out", "join",
               "teardown", "stopped"} => temp = {}
  /\ main = "clear" => temp = {} /\ held = Portal
  /\ main \in Before \cup {"stopped"} => held = {}
  /\ main \in {"parse", "sink", "play", "publish"} => held = Portal
  /\ main \in {"announce", "monitor", "join", "teardown"} => held = Resources
  /\ main = "out" => held \in {{}, Resources}

\* When the object records, and what the monitor has to do with it.
Watching ==
  /\ running => /\ main \in {"announce", "monitor", "out", "crashed"}
                /\ main # "crashed" => held = Resources
  /\ main \in {"announce", "monitor"} => running
  /\ monitor # "none" => main \in {"out", "join"} /\ held = Resources
  /\ main \in {"parse", "sink", "play", "publish", "announce", "monitor"} =>
       source_type # ""
  /\ main = "out" /\ monitor # "none" =>
       /\ ~stop_requested /\ source_type # ""
       /\ monitor = "pop" => running
       /\ monitor = "exited" => ~running
       /\ monitor = "failing" \/ ~running =>
            ~healthy /\ message = "stream error"

\* TypeOK in four parts: the Boolean fields, the places and texts, the calls, and
\* what is owned.
Switches ==
  /\ running \in BOOLEAN /\ healthy \in BOOLEAN
  /\ bus \in BOOLEAN /\ stop_requested \in BOOLEAN /\ clip \in BOOLEAN

Counted ==
  /\ open \in [Resources -> Nat] /\ orphans \in Nat /\ unclosed \in Nat
  /\ temp \subseteq Resources /\ held \subseteq Resources

Places ==
  /\ main \in MainPCs
  /\ message \in {"not started", "start failed", "recording", "stream error",
                  "stopped"}
  /\ source_type \in {"", "monitor", "window"}
  /\ monitor \in {"none", "poll", "pop", "failing", "exited"}
  /\ save \in SavePCs
  /\ failure \in Failures
  /\ result \in {"none", "true", "false"}

Called == starts \in Nat /\ saves \in Nat

Owned == Counted /\ OneOwner

IInv == /\ Switches /\ Places /\ Called /\ Owned 
        /\ Filled /\ Watching /\ SavesExplained

-----------------------------------------------------------------------------
(* The three ways in which a step treats what is owned.                    *)

LEMMA KeepsOwned ==
  ASSUME Owned, UNCHANGED <<open, orphans, unclosed>>,
         temp' \cup held' = temp \cup held,
         held' \cap temp' = {}
  PROVE  Owned'
  BY DEF Owned, Counted, OneOwner

LEMMA AcquiresOwned ==
  ASSUME Owned, NEW r \in Resources, r \notin temp \cup held, Acquire(r),
         temp' = temp \cup {r}, UNCHANGED <<orphans, unclosed, held>>
  PROVE  Owned'
  <1>1. open' = [open EXCEPT ![r] = open[r] + 1]
    BY DEF Acquire
  <1>2. Counted'
    BY <1>1 DEF Owned, Counted
  <1>3. \A q \in Resources : open'[q] = IF q = r THEN open[q] + 1 ELSE open[q]
    BY <1>1 DEF Owned, Counted
  <1>4. open[r] = IF r = "session" THEN orphans + unclosed ELSE 0
    BY DEF Owned, Counted, OneOwner
  <1> QED
    BY <1>2, <1>3, <1>4 DEF Owned, Counted, OneOwner

LEMMA ReleasesOwned ==
  ASSUME Owned, NEW S, S \subseteq temp \cup held, GivesBack(S),
         temp' \cup held' = (temp \cup held) \ S, held' \cap temp' = {},
         UNCHANGED orphans
  PROVE  Owned'
  <1>1. \A q \in S : open[q] \in Nat /\ open[q] >= 1
    BY DEF Owned, Counted, OneOwner
  <1>2. CASE open' = Released(S) /\ UNCHANGED unclosed
    <2>1. \A q \in Resources :
            open'[q] = IF q \in S THEN open[q] - 1 ELSE open[q]
      BY <1>2 DEF Released
    <2>2. Counted'
      BY <1>1, <1>2 DEF Released, Owned, Counted
    <2> QED
      BY <1>2, <2>1, <2>2 DEF Owned, Counted, OneOwner
  <1>3. CASE /\ "session" \in S
             /\ open' = Released(S \ {"session"})
             /\ unclosed' = unclosed + 1
    <2>1. \A q \in Resources :
            open'[q] = IF q \in S \ {"session"} THEN open[q] - 1 ELSE open[q]
      BY <1>3 DEF Released
    <2>2. Counted'
      BY <1>1, <1>3 DEF Released, Owned, Counted
    <2>3. ASSUME NEW q \in Resources
          PROVE  open'[q] = (IF q \in held' \cup temp' THEN 1 ELSE 0)
                   + (IF q = "session" THEN orphans' + unclosed' ELSE 0)
      <3>1. /\ open[q] = (IF q \in held \cup temp THEN 1 ELSE 0)
                   + (IF q = "session" THEN orphans + unclosed ELSE 0)
            /\ orphans \in Nat /\ unclosed \in Nat
        BY DEF Owned, Counted, OneOwner
      <3>2. q \in held' \cup temp' <=> q \in held \cup temp /\ q \notin S
        OBVIOUS
      <3>3. CASE q = "session"
        <4>1. q \in held \cup temp /\ q \notin held' \cup temp'
          BY <1>3, <3>2, <3>3
        <4>2. open'[q] = open[q] /\ open[q] = 1 + (orphans + unclosed)
          BY <2>1, <3>1, <3>3, <4>1
        <4> QED
          BY <1>3, <3>1, <3>3, <4>1, <4>2
      <3>4. CASE q # "session"
        BY <2>1, <3>1, <3>2, <3>4
      <3> QED
        BY <3>3, <3>4
    <2> QED
      BY <2>2, <2>3 DEF Owned, OneOwner
  <1> QED
    BY <1>2, <1>3 DEF GivesBack

-----------------------------------------------------------------------------

LEMMA InitIInv == Init => IInv
  <1> SUFFICES ASSUME Init PROVE IInv
    OBVIOUS
  <1>1. Switches
    BY Zenon DEF Init, Switches
  <1>2. Places /\ Called
    <2>1. Places
      BY Zenon DEF Init, Places, MainPCs, SavePCs, Failures
    <2>2. starts = 0 /\ saves = 0
      BY Zenon DEF Init
    <2> QED
      BY <2>1, <2>2 DEF Called
  <1>3. Owned
    <2>1. /\ open = [r \in Resources |-> 0] /\ orphans = 0 /\ unclosed = 0
          /\ temp = {} /\ held = {}
      BY Zenon DEF Init
    <2> QED
      BY <2>1 DEF Owned, Counted, OneOwner
  <1>4. Filled /\ Watching /\ SavesExplained
    BY DEF Init, Filled, Watching, SavesExplained, Before
  <1> QED
    BY <1>1, <1>2, <1>3, <1>4 DEF IInv

LEMMA HandshakeStep == IInv /\ Handshake => IInv'
  <1> SUFFICES ASSUME IInv, Handshake PROVE IInv'
    OBVIOUS
  <1>1. CASE Connect
    <2>1. Switches'
      BY <1>1, Zenon DEF IInv, Switches, Connect, Advance, Fail, healthVars,
        StartVars, SetMessage, busVars, saveVars
    <2>2. Places'
      <3>1. /\ main' \in {"create", "out"}
            /\ message' \in {message, "start failed"}
            /\ UNCHANGED <<source_type, monitor, save, failure, result>>
        BY <1>1, Zenon DEF Connect, Advance, Fail, healthVars, StartVars,
          SetMessage, busVars, saveVars
      <3> QED
        BY <3>1 DEF IInv, Places, MainPCs, StartPCs
    <2>7. Called'
      BY <1>1, Zenon DEF IInv, Called, Connect, Advance, Fail, healthVars,
        StartVars, SetMessage, busVars, saveVars
    <2>3. Owned'
      <3>1. CASE Advance("connection", "create")
        <4>1. main = "connect"
          BY <1>1 DEF Connect
        <4>2. /\ Acquire("connection") /\ temp' = temp \cup {"connection"}
              /\ UNCHANGED <<orphans, unclosed, held>>
          BY <1>1, <3>1, Zenon DEF Connect, Advance, Fail, healthVars,
            StartVars, SetMessage, busVars, saveVars
        <4>3. "connection" \in Resources /\ "connection" \notin temp \cup held
          BY <4>1 DEF IInv, Filled, Before, Resources, Portal
        <4> QED
          BY <4>2, <4>3, AcquiresOwned DEF IInv
      <3>2. CASE Fail
        BY <1>1, <3>2, ReleasesOwned DEF IInv, Owned, Counted,
          OneOwner, Filled, Before, Resources, Portal, Connect, Fail,
          healthVars, StartVars, SetMessage, busVars, saveVars
      <3> QED
        BY <1>1, <3>1, <3>2 DEF Connect
    <2>4. Filled'
      BY <1>1 DEF IInv, Filled, Watching, Before, Portal, Resources, Connect,
        Advance, Fail, healthVars, StartVars, SetMessage, busVars, saveVars
    <2>5. Watching'
      BY <1>1 DEF IInv, Places, Filled, Watching, Portal, Resources, Before,
        Connect, Advance, Fail, healthVars, StartVars, SetMessage, busVars,
        saveVars
    <2>6. SavesExplained'
      BY <1>1 DEF IInv, SavesExplained, Connect, Advance, Fail, healthVars,
        StartVars, SetMessage, busVars, saveVars
    <2> QED
      BY <2>1, <2>2, <2>3, <2>4, <2>5, <2>6, <2>7 DEF IInv
  <1>2. CASE CreateSession
    <2>1. Switches'
      BY <1>2, Zenon DEF IInv, Switches, CreateSession, Advance, Fail,
        healthVars, StartVars, SetMessage, busVars, saveVars
    <2>2. Places'
      <3>1. /\ main' \in {"select", "out"}
            /\ message' \in {message, "start failed"}
            /\ UNCHANGED <<source_type, monitor, save, failure, result>>
        BY <1>2, Zenon DEF CreateSession, Advance, Fail, healthVars,
          StartVars, SetMessage, busVars, saveVars
      <3> QED
        BY <3>1 DEF IInv, Places, MainPCs, StartPCs
    <2>7. Called'
      BY <1>2, Zenon DEF IInv, Called, CreateSession, Advance, Fail,
        healthVars, StartVars, SetMessage, busVars, saveVars
    <2>3. Owned'
      <3>1. CASE Advance("session", "select")
        <4>1. main = "create"
          BY <1>2 DEF CreateSession
        <4>2. /\ Acquire("session") /\ temp' = temp \cup {"session"}
              /\ UNCHANGED <<orphans, unclosed, held>>
          BY <1>2, <3>1, Zenon DEF CreateSession, Advance, Fail, healthVars,
            StartVars, SetMessage, busVars, saveVars
        <4>3. "session" \in Resources /\ "session" \notin temp \cup held
          BY <4>1 DEF IInv, Filled, Before, Resources, Portal
        <4> QED
          BY <4>2, <4>3, AcquiresOwned DEF IInv
      <3>2. CASE Fail
        BY <1>2, <3>2, ReleasesOwned DEF IInv, Owned, Counted,
          OneOwner, Filled, Before, Resources, Portal, CreateSession,
          Fail, healthVars, StartVars, SetMessage, busVars, saveVars
      <3> QED
        BY <1>2, <3>1, <3>2 DEF CreateSession
    <2>4. Filled'
      BY <1>2 DEF IInv, Filled, Watching, Before, Portal, Resources,
        CreateSession, Advance, Fail, healthVars, StartVars, SetMessage,
        busVars, saveVars
    <2>5. Watching'
      BY <1>2 DEF IInv, Places, Filled, Watching, Portal, Resources, Before,
        CreateSession, Advance, Fail, healthVars, StartVars, SetMessage,
        busVars, saveVars
    <2>6. SavesExplained'
      BY <1>2 DEF IInv, SavesExplained, CreateSession, Advance, Fail,
        healthVars, StartVars, SetMessage, busVars, saveVars
    <2> QED
      BY <2>1, <2>2, <2>3, <2>4, <2>5, <2>6, <2>7 DEF IInv
  <1>3. CASE CreateSessionTimesOut
    <2>1. Switches'
      BY <1>3, Zenon DEF IInv, Switches, CreateSessionTimesOut, StartVars,
        SetMessage, busVars, saveVars
    <2>2. Places'
      BY <1>3, Zenon DEF IInv, Places, MainPCs, StartPCs, Failures,
        CreateSessionTimesOut, StartVars, SetMessage, busVars, saveVars
    <2>7. Called'
      BY <1>3, Zenon DEF IInv, Called, CreateSessionTimesOut, StartVars,
        SetMessage, busVars, saveVars
    <2>3. Owned'
      <3>1. /\ open' = [Released(temp) EXCEPT !["session"] = @ + 1]
            /\ orphans' = orphans + 1 /\ temp' = {}
            /\ UNCHANGED <<held, unclosed>>
            /\ main = "create"
        BY <1>3, Zenon DEF CreateSessionTimesOut, StartVars
      <3>2. temp = {"connection"} /\ held = {}
        BY <3>1 DEF IInv, Filled, Before
      <3>3. \A r \in Resources :
              open'[r] = IF r = "session" THEN open[r] + 1
                         ELSE IF r = "connection" THEN open[r] - 1 ELSE open[r]
        BY <3>1, <3>2 DEF Released
      <3>4. open["connection"] = 1
        BY <3>2 DEF IInv, Owned, OneOwner, Resources
      <3>5. open' \in [Resources -> Nat]
        <4>1. DOMAIN open' = Resources /\ \A r \in Resources : open'[r] \in Nat
          BY <3>1, <3>3, <3>4 DEF IInv, Owned, Counted, Released
        <4> QED
          BY <3>1, <4>1 DEF Released
      <3> QED
        BY <3>1, <3>2, <3>3, <3>4, <3>5
        DEF IInv, Owned, Counted, OneOwner
    <2>4. Filled'
      BY <1>3 DEF IInv, Filled, Watching, Before, Portal, Resources,
        CreateSessionTimesOut, StartVars, SetMessage, busVars, saveVars
    <2>5. Watching'
      BY <1>3 DEF IInv, Places, Filled, Watching, Portal, Resources, Before,
        CreateSessionTimesOut, StartVars, SetMessage, busVars, saveVars
    <2>6. SavesExplained'
      BY <1>3 DEF IInv, SavesExplained, CreateSessionTimesOut, StartVars,
        SetMessage, busVars, saveVars
    <2> QED
      BY <2>1, <2>2, <2>3, <2>4, <2>5, <2>6, <2>7 DEF IInv
  <1>4. CASE SelectSources
    <2>1. Switches'
      BY <1>4, Zenon DEF IInv, Switches, SelectSources, Proceed, Fail,
        healthVars, StartVars, SetMessage, busVars, saveVars
    <2>2. Places'
      BY <1>4, Zenon DEF IInv, Places, MainPCs, StartPCs, Failures,
        SelectSources, Proceed, Fail, healthVars, StartVars, SetMessage,
        busVars, saveVars
    <2>7. Called'
      BY <1>4, Zenon DEF IInv, Called, SelectSources, Proceed, Fail,
        healthVars, StartVars, SetMessage, busVars, saveVars
    <2>3. Owned'
      <3>1. CASE Proceed("stream")
        <4>1. UNCHANGED <<open, temp, held, orphans, unclosed>>
          BY <1>4, <3>1, Zenon DEF SelectSources, Proceed, healthVars,
            StartVars, SetMessage, busVars, saveVars
        <4> QED
          BY <4>1, KeepsOwned DEF IInv, Owned, OneOwner
      <3>2. CASE Fail
        BY <1>4, <3>2, ReleasesOwned DEF IInv, Owned, Counted,
          OneOwner, Filled, Before, Resources, Portal, SelectSources,
          Fail, healthVars, StartVars, SetMessage, busVars, saveVars
      <3> QED
        BY <1>4, <3>1, <3>2 DEF SelectSources
    <2>4. Filled'
      BY <1>4 DEF IInv, Filled, Watching, Before, Portal, Resources,
        SelectSources, Proceed, Fail, healthVars, StartVars, SetMessage,
        busVars, saveVars
    <2>5. Watching'
      BY <1>4 DEF IInv, Places, Filled, Watching, Portal, Resources, Before,
        SelectSources, Proceed, Fail, healthVars, StartVars, SetMessage,
        busVars, saveVars
    <2>6. SavesExplained'
      BY <1>4 DEF IInv, SavesExplained, SelectSources, Proceed, Fail,
        healthVars, StartVars, SetMessage, busVars, saveVars
    <2> QED
      BY <2>1, <2>2, <2>3, <2>4, <2>5, <2>6, <2>7 DEF IInv
  <1>5. CASE StartStream
    <2>1. Switches'
      BY <1>5, Zenon DEF IInv, Switches, StartStream, Proceed, Fail,
        healthVars, StartVars, SetMessage, busVars, saveVars
    <2>2. Places'
      BY <1>5, Zenon DEF IInv, Places, MainPCs, StartPCs, Failures,
        StartStream, Proceed, Fail, healthVars, StartVars, SetMessage,
        busVars, saveVars
    <2>7. Called'
      BY <1>5, Zenon DEF IInv, Called, StartStream, Proceed, Fail, healthVars,
        StartVars, SetMessage, busVars, saveVars
    <2>3. Owned'
      <3>1. CASE Proceed("remote")
        <4>1. UNCHANGED <<open, temp, held, orphans, unclosed>>
          BY <1>5, <3>1, Zenon DEF StartStream, Proceed, healthVars,
            StartVars, SetMessage, busVars, saveVars
        <4> QED
          BY <4>1, KeepsOwned DEF IInv, Owned, OneOwner
      <3>2. CASE Fail
        BY <1>5, <3>2, ReleasesOwned DEF IInv, Owned, Counted,
          OneOwner, Filled, Before, Resources, Portal, StartStream,
          Fail, healthVars, StartVars, SetMessage, busVars, saveVars
      <3> QED
        BY <1>5, <3>1, <3>2 DEF StartStream
    <2>4. Filled'
      BY <1>5 DEF IInv, Filled, Watching, Before, Portal, Resources,
        StartStream, Proceed, Fail, healthVars, StartVars, SetMessage,
        busVars, saveVars
    <2>5. Watching'
      BY <1>5 DEF IInv, Places, Filled, Watching, Portal, Resources, Before,
        StartStream, Proceed, Fail, healthVars, StartVars, SetMessage,
        busVars, saveVars
    <2>6. SavesExplained'
      BY <1>5 DEF IInv, SavesExplained, StartStream, Proceed, Fail,
        healthVars, StartVars, SetMessage, busVars, saveVars
    <2> QED
      BY <2>1, <2>2, <2>3, <2>4, <2>5, <2>6, <2>7 DEF IInv
  <1>6. CASE OpenPipeWireRemote
    <2>1. Switches'
      BY <1>6, Zenon DEF IInv, Switches, OpenPipeWireRemote, Advance, Fail,
        healthVars, StartVars, SetMessage, busVars, saveVars
    <2>2. Places'
      <3>1. /\ main' \in {"fields", "out"}
            /\ message' \in {message, "start failed"}
            /\ UNCHANGED <<source_type, monitor, save, failure, result>>
        BY <1>6, Zenon DEF OpenPipeWireRemote, Advance, Fail, healthVars,
          StartVars, SetMessage, busVars, saveVars
      <3> QED
        BY <3>1 DEF IInv, Places, MainPCs, StartPCs
    <2>7. Called'
      BY <1>6, Zenon DEF IInv, Called, OpenPipeWireRemote, Advance, Fail,
        healthVars, StartVars, SetMessage, busVars, saveVars
    <2>3. Owned'
      <3>1. CASE Advance("fd", "fields")
        <4>1. main = "remote"
          BY <1>6 DEF OpenPipeWireRemote
        <4>2. /\ Acquire("fd") /\ temp' = temp \cup {"fd"}
              /\ UNCHANGED <<orphans, unclosed, held>>
          BY <1>6, <3>1, Zenon DEF OpenPipeWireRemote, Advance, Fail,
            healthVars, StartVars, SetMessage, busVars, saveVars
        <4>3. "fd" \in Resources /\ "fd" \notin temp \cup held
          BY <4>1 DEF IInv, Filled, Before, Resources, Portal
        <4> QED
          BY <4>2, <4>3, AcquiresOwned DEF IInv
      <3>2. CASE Fail
        BY <1>6, <3>2, ReleasesOwned DEF IInv, Owned, Counted,
          OneOwner, Filled, Before, Resources, Portal,
          OpenPipeWireRemote, Fail, healthVars, StartVars, SetMessage,
          busVars, saveVars
      <3> QED
        BY <1>6, <3>1, <3>2 DEF OpenPipeWireRemote
    <2>4. Filled'
      BY <1>6 DEF IInv, Filled, Watching, Before, Portal, Resources,
        OpenPipeWireRemote, Advance, Fail, healthVars, StartVars, SetMessage,
        busVars, saveVars
    <2>5. Watching'
      BY <1>6 DEF IInv, Places, Filled, Watching, Portal, Resources, Before,
        OpenPipeWireRemote, Advance, Fail, healthVars, StartVars, SetMessage,
        busVars, saveVars
    <2>6. SavesExplained'
      BY <1>6 DEF IInv, SavesExplained, OpenPipeWireRemote, Advance, Fail,
        healthVars, StartVars, SetMessage, busVars, saveVars
    <2> QED
      BY <2>1, <2>2, <2>3, <2>4, <2>5, <2>6, <2>7 DEF IInv
  <1> QED
    BY <1>1, <1>2, <1>3, <1>4, <1>5, <1>6 DEF Handshake

LEMMA PipelineStep == IInv /\ Pipeline => IInv'
  <1> SUFFICES ASSUME IInv, Pipeline PROVE IInv'
    OBVIOUS
  <1>1. CASE SetPortalFields
    <2>1. Switches'
      BY <1>1, Zenon DEF IInv, Switches, SetPortalFields, healthVars, busVars,
        saveVars
    <2>2. Places'
      BY <1>1, Zenon DEF IInv, Places, MainPCs, StartPCs, Failures,
        SetPortalFields, healthVars, busVars, saveVars
    <2>7. Called'
      BY <1>1, Zenon DEF IInv, Called, SetPortalFields, healthVars, busVars,
        saveVars
    <2>3. Owned'
      BY <1>1, KeepsOwned DEF IInv, Owned, Counted, OneOwner, Filled,
        Before, Resources, Portal, SetPortalFields, healthVars, busVars,
        saveVars
    <2>4. Filled'
      BY <1>1 DEF IInv, Filled, Watching, Before, Portal, Resources,
        SetPortalFields, healthVars, busVars, saveVars
    <2>5. Watching'
      BY <1>1 DEF IInv, Places, Filled, Watching, Portal, Resources, Before,
        SetPortalFields, healthVars, busVars, saveVars
    <2>6. SavesExplained'
      BY <1>1 DEF IInv, SavesExplained, SetPortalFields, healthVars, busVars,
        saveVars
    <2> QED
      BY <2>1, <2>2, <2>3, <2>4, <2>5, <2>6, <2>7 DEF IInv
  <1>2. CASE ParsePipeline
    <2>1. Switches'
      BY <1>2, Zenon DEF IInv, Switches, ParsePipeline, Advance, AbandonStart,
        healthVars, busVars, saveVars, SetMessage
    <2>2. Places'
      BY <1>2, Zenon DEF IInv, Places, MainPCs, StartPCs, Failures,
        ParsePipeline, Advance, AbandonStart, healthVars, busVars, saveVars,
        SetMessage
    <2>7. Called'
      BY <1>2, Zenon DEF IInv, Called, ParsePipeline, Advance, AbandonStart,
        healthVars, busVars, saveVars, SetMessage
    <2>3. Owned'
      <3>1. CASE Advance("pipeline", "sink")
        <4>1. main = "parse"
          BY <1>2 DEF ParsePipeline
        <4>2. /\ Acquire("pipeline") /\ temp' = temp \cup {"pipeline"}
              /\ UNCHANGED <<orphans, unclosed, held>>
          BY <1>2, <3>1, Zenon DEF ParsePipeline, Advance, AbandonStart,
            healthVars, busVars, saveVars, SetMessage
        <4>3. "pipeline" \in Resources /\ "pipeline" \notin temp \cup held
          BY <4>1 DEF IInv, Filled, Before, Resources, Portal
        <4> QED
          BY <4>2, <4>3, AcquiresOwned DEF IInv
      <3>2. CASE AbandonStart
        BY <1>2, <3>2, ReleasesOwned DEF IInv, Owned, Counted,
          OneOwner, Filled, Before, Resources, Portal, ParsePipeline,
          AbandonStart, healthVars, busVars, saveVars, SetMessage
      <3> QED
        BY <1>2, <3>1, <3>2 DEF ParsePipeline
    <2>4. Filled'
      BY <1>2 DEF IInv, Filled, Watching, Before, Portal, Resources,
        ParsePipeline, Advance, AbandonStart, healthVars, busVars, saveVars,
        SetMessage
    <2>5. Watching'
      BY <1>2 DEF IInv, Places, Filled, Watching, Portal, Resources, Before,
        ParsePipeline, Advance, AbandonStart, healthVars, busVars, saveVars,
        SetMessage
    <2>6. SavesExplained'
      BY <1>2 DEF IInv, SavesExplained, ParsePipeline, Advance, AbandonStart,
        healthVars, busVars, saveVars, SetMessage
    <2> QED
      BY <2>1, <2>2, <2>3, <2>4, <2>5, <2>6, <2>7 DEF IInv
  <1>3. CASE FindSink
    <2>1. Switches'
      BY <1>3, Zenon DEF IInv, Switches, FindSink, Proceed, AbandonStart,
        healthVars, busVars, saveVars, SetMessage
    <2>2. Places'
      BY <1>3, Zenon DEF IInv, Places, MainPCs, StartPCs, Failures, FindSink,
        Proceed, AbandonStart, healthVars, busVars, saveVars, SetMessage
    <2>7. Called'
      BY <1>3, Zenon DEF IInv, Called, FindSink, Proceed, AbandonStart,
        healthVars, busVars, saveVars, SetMessage
    <2>3. Owned'
      <3>1. CASE Proceed("play") /\ UNCHANGED held
        <4>1. UNCHANGED <<open, temp, held, orphans, unclosed>>
          BY <1>3, <3>1, Zenon DEF FindSink, Proceed, healthVars, busVars,
            saveVars, SetMessage
        <4> QED
          BY <4>1, KeepsOwned DEF IInv, Owned, OneOwner
      <3>2. CASE AbandonStart
        BY <1>3, <3>2, ReleasesOwned DEF IInv, Owned, Counted,
          OneOwner, Filled, Before, Resources, Portal, FindSink,
          AbandonStart, healthVars, busVars, saveVars, SetMessage
      <3> QED
        BY <1>3, <3>1, <3>2 DEF FindSink
    <2>4. Filled'
      BY <1>3 DEF IInv, Filled, Watching, Before, Portal, Resources, FindSink,
        Proceed, AbandonStart, healthVars, busVars, saveVars, SetMessage
    <2>5. Watching'
      BY <1>3 DEF IInv, Places, Filled, Watching, Portal, Resources, Before,
        FindSink, Proceed, AbandonStart, healthVars, busVars, saveVars,
        SetMessage
    <2>6. SavesExplained'
      BY <1>3 DEF IInv, SavesExplained, FindSink, Proceed, AbandonStart,
        healthVars, busVars, saveVars, SetMessage
    <2> QED
      BY <2>1, <2>2, <2>3, <2>4, <2>5, <2>6, <2>7 DEF IInv
  <1>4. CASE Play
    <2>1. Switches'
      BY <1>4, Zenon DEF IInv, Switches, Play, Proceed, AbandonStart,
        healthVars, busVars, saveVars, SetMessage
    <2>2. Places'
      BY <1>4, Zenon DEF IInv, Places, MainPCs, StartPCs, Failures, Play,
        Proceed, AbandonStart, healthVars, busVars, saveVars, SetMessage
    <2>7. Called'
      BY <1>4, Zenon DEF IInv, Called, Play, Proceed, AbandonStart,
        healthVars, busVars, saveVars, SetMessage
    <2>3. Owned'
      <3>1. CASE Proceed("publish") /\ UNCHANGED held
        <4>1. UNCHANGED <<open, temp, held, orphans, unclosed>>
          BY <1>4, <3>1, Zenon DEF Play, Proceed, healthVars, busVars,
            saveVars, SetMessage
        <4> QED
          BY <4>1, KeepsOwned DEF IInv, Owned, OneOwner
      <3>2. CASE AbandonStart
        BY <1>4, <3>2, ReleasesOwned DEF IInv, Owned, Counted,
          OneOwner, Filled, Before, Resources, Portal, Play,
          AbandonStart, healthVars, busVars, saveVars, SetMessage
      <3> QED
        BY <1>4, <3>1, <3>2 DEF Play
    <2>4. Filled'
      BY <1>4 DEF IInv, Filled, Watching, Before, Portal, Resources, Play,
        Proceed, AbandonStart, healthVars, busVars, saveVars, SetMessage
    <2>5. Watching'
      BY <1>4 DEF IInv, Places, Filled, Watching, Portal, Resources, Before,
        Play, Proceed, AbandonStart, healthVars, busVars, saveVars, SetMessage
    <2>6. SavesExplained'
      BY <1>4 DEF IInv, SavesExplained, Play, Proceed, AbandonStart,
        healthVars, busVars, saveVars, SetMessage
    <2> QED
      BY <2>1, <2>2, <2>3, <2>4, <2>5, <2>6, <2>7 DEF IInv
  <1>5. CASE PublishPipeline
    <2>1. Switches'
      BY <1>5, Zenon DEF IInv, Switches, PublishPipeline, healthVars, busVars,
        saveVars
    <2>2. Places'
      BY <1>5, Zenon DEF IInv, Places, MainPCs, StartPCs, Failures,
        PublishPipeline, healthVars, busVars, saveVars
    <2>7. Called'
      BY <1>5, Zenon DEF IInv, Called, PublishPipeline, healthVars, busVars,
        saveVars
    <2>3. Owned'
      BY <1>5, KeepsOwned DEF IInv, Owned, Counted, OneOwner, Filled,
        Before, Resources, Portal, PublishPipeline, healthVars, busVars,
        saveVars
    <2>4. Filled'
      BY <1>5 DEF IInv, Filled, Watching, Before, Portal, Resources,
        PublishPipeline, healthVars, busVars, saveVars
    <2>5. Watching'
      BY <1>5 DEF IInv, Places, Filled, Watching, Portal, Resources, Before,
        PublishPipeline, healthVars, busVars, saveVars
    <2>6. SavesExplained'
      BY <1>5 DEF IInv, SavesExplained, PublishPipeline, healthVars, busVars,
        saveVars
    <2> QED
      BY <2>1, <2>2, <2>3, <2>4, <2>5, <2>6, <2>7 DEF IInv
  <1>6. CASE Announce
    <2>1. Switches'
      BY <1>6, Zenon DEF IInv, Switches, Announce, portalVars, busVars,
        saveVars, SetMessage
    <2>2. Places'
      BY <1>6, Zenon DEF IInv, Places, MainPCs, StartPCs, Failures, Announce,
        portalVars, busVars, saveVars, SetMessage
    <2>7. Called'
      BY <1>6, Zenon DEF IInv, Called, Announce, portalVars, busVars,
        saveVars, SetMessage
    <2>3. Owned'
      BY <1>6, KeepsOwned DEF IInv, Owned, Counted, OneOwner, Filled,
        Before, Resources, Portal, Announce, portalVars, busVars, saveVars,
        SetMessage
    <2>4. Filled'
      BY <1>6 DEF IInv, Filled, Watching, Before, Portal, Resources, Announce,
        portalVars, busVars, saveVars, SetMessage
    <2>5. Watching'
      BY <1>6 DEF IInv, Places, Filled, Watching, Portal, Resources, Before,
        Announce, portalVars, busVars, saveVars, SetMessage
    <2>6. SavesExplained'
      BY <1>6 DEF IInv, SavesExplained, Announce, portalVars, busVars,
        saveVars, SetMessage
    <2> QED
      BY <2>1, <2>2, <2>3, <2>4, <2>5, <2>6, <2>7 DEF IInv
  <1>7. CASE StartMonitor
    <2>1. Switches'
      BY <1>7, Zenon DEF IInv, Switches, StartMonitor, portalVars, healthVars,
        saveVars
    <2>2. Places'
      BY <1>7, Zenon DEF IInv, Places, MainPCs, StartPCs, Failures,
        StartMonitor, portalVars, healthVars, saveVars
    <2>7. Called'
      BY <1>7, Zenon DEF IInv, Called, StartMonitor, portalVars, healthVars,
        saveVars
    <2>3. Owned'
      BY <1>7, KeepsOwned DEF IInv, Owned, Counted, OneOwner, Filled,
        Before, Resources, Portal, StartMonitor, portalVars, healthVars,
        saveVars
    <2>4. Filled'
      BY <1>7 DEF IInv, Filled, Watching, Before, Portal, Resources,
        StartMonitor, portalVars, healthVars, saveVars
    <2>5. Watching'
      BY <1>7 DEF IInv, Places, Filled, Watching, Portal, Resources, Before,
        StartMonitor, portalVars, healthVars, saveVars
    <2>6. SavesExplained'
      BY <1>7 DEF IInv, SavesExplained, StartMonitor, portalVars, healthVars,
        saveVars
    <2> QED
      BY <2>1, <2>2, <2>3, <2>4, <2>5, <2>6, <2>7 DEF IInv
  <1> QED
    BY <1>1, <1>2, <1>3, <1>4, <1>5, <1>6, <1>7 DEF Pipeline

LEMMA MonitorStep == IInv /\ Monitor => IInv'
  <1> SUFFICES ASSUME IInv, Monitor PROVE IInv'
    OBVIOUS
  <1>1. CASE MonitorTest
    <2>1. Switches'
      BY <1>1, Zenon DEF IInv, Switches, MonitorTest, portalVars, healthVars,
        saveVars
    <2>2. Places'
      <3>1. /\ monitor' \in {"pop", "exited"}
            /\ UNCHANGED <<main, message, source_type, save, failure, result>>
        BY <1>1, Zenon DEF MonitorTest, portalVars, healthVars, saveVars
      <3> QED
        BY <3>1 DEF IInv, Places
    <2>7. Called'
      BY <1>1, Zenon DEF IInv, Called, MonitorTest, portalVars, healthVars,
        saveVars
    <2>3. Owned'
      BY <1>1, KeepsOwned DEF IInv, Owned, Counted, OneOwner, Filled,
        Before, Resources, Portal, MonitorTest, portalVars, healthVars,
        saveVars
    <2>4. Filled'
      BY <1>1 DEF IInv, Filled, Watching, Before, Portal, Resources,
        MonitorTest, portalVars, healthVars, saveVars
    <2>5. Watching'
      BY <1>1 DEF IInv, Places, Filled, Watching, Portal, Resources, Before,
        MonitorTest, portalVars, healthVars, saveVars
    <2>6. SavesExplained'
      BY <1>1 DEF IInv, SavesExplained, MonitorTest, portalVars, healthVars,
        saveVars
    <2> QED
      BY <2>1, <2>2, <2>3, <2>4, <2>5, <2>6, <2>7 DEF IInv
  <1>2. CASE MonitorFindsNothing
    <2>1. Switches'
      BY <1>2, Zenon DEF IInv, Switches, MonitorFindsNothing, portalVars,
        healthVars, saveVars
    <2>2. Places'
      <3>1. /\ monitor' = "poll"
            /\ UNCHANGED <<main, message, source_type, save, failure, result>>
        BY <1>2, Zenon DEF MonitorFindsNothing, portalVars, healthVars,
          saveVars
      <3> QED
        BY <3>1 DEF IInv, Places
    <2>7. Called'
      BY <1>2, Zenon DEF IInv, Called, MonitorFindsNothing, portalVars,
        healthVars, saveVars
    <2>3. Owned'
      BY <1>2, KeepsOwned DEF IInv, Owned, Counted, OneOwner, Filled,
        Before, Resources, Portal, MonitorFindsNothing, portalVars,
        healthVars, saveVars
    <2>4. Filled'
      BY <1>2 DEF IInv, Filled, Watching, Before, Portal, Resources,
        MonitorFindsNothing, portalVars, healthVars, saveVars
    <2>5. Watching'
      BY <1>2 DEF IInv, Places, Filled, Watching, Portal, Resources, Before,
        MonitorFindsNothing, portalVars, healthVars, saveVars
    <2>6. SavesExplained'
      BY <1>2 DEF IInv, SavesExplained, MonitorFindsNothing, portalVars,
        healthVars, saveVars
    <2> QED
      BY <2>1, <2>2, <2>3, <2>4, <2>5, <2>6, <2>7 DEF IInv
  <1>3. CASE MonitorPops
    <2>1. Switches'
      BY <1>3, Zenon DEF IInv, Switches, MonitorPops, portalVars, saveVars,
        SetMessage
    <2>2. Places'
      BY <1>3, Zenon DEF IInv, Places, MainPCs, StartPCs, Failures,
        MonitorPops, portalVars, saveVars, SetMessage
    <2>7. Called'
      BY <1>3, Zenon DEF IInv, Called, MonitorPops, portalVars, saveVars,
        SetMessage
    <2>3. Owned'
      BY <1>3, KeepsOwned DEF IInv, Owned, Counted, OneOwner, Filled,
        Before, Resources, Portal, MonitorPops, portalVars, saveVars,
        SetMessage
    <2>4. Filled'
      BY <1>3 DEF IInv, Filled, Watching, Before, Portal, Resources,
        MonitorPops, portalVars, saveVars, SetMessage
    <2>5. Watching'
      BY <1>3 DEF IInv, Places, Filled, Watching, Portal, Resources, Before,
        MonitorPops, portalVars, saveVars, SetMessage
    <2>6. SavesExplained'
      BY <1>3 DEF IInv, SavesExplained, MonitorPops, portalVars, saveVars,
        SetMessage
    <2> QED
      BY <2>1, <2>2, <2>3, <2>4, <2>5, <2>6, <2>7 DEF IInv
  <1>4. CASE MonitorFails
    <2>1. Switches'
      BY <1>4, Zenon DEF IInv, Switches, MonitorFails, portalVars, healthVars,
        saveVars
    <2>2. Places'
      <3>1. /\ monitor' = "poll"
            /\ UNCHANGED <<main, message, source_type, save, failure, result>>
        BY <1>4, Zenon DEF MonitorFails, portalVars, healthVars, saveVars
      <3> QED
        BY <3>1 DEF IInv, Places
    <2>7. Called'
      BY <1>4, Zenon DEF IInv, Called, MonitorFails, portalVars, healthVars,
        saveVars
    <2>3. Owned'
      BY <1>4, KeepsOwned DEF IInv, Owned, Counted, OneOwner, Filled,
        Before, Resources, Portal, MonitorFails, portalVars, healthVars,
        saveVars
    <2>4. Filled'
      BY <1>4 DEF IInv, Filled, Watching, Before, Portal, Resources,
        MonitorFails, portalVars, healthVars, saveVars
    <2>5. Watching'
      BY <1>4 DEF IInv, Places, Filled, Watching, Portal, Resources, Before,
        MonitorFails, portalVars, healthVars, saveVars
    <2>6. SavesExplained'
      BY <1>4 DEF IInv, SavesExplained, MonitorFails, portalVars, healthVars,
        saveVars
    <2> QED
      BY <2>1, <2>2, <2>3, <2>4, <2>5, <2>6, <2>7 DEF IInv
  <1> QED
    BY <1>1, <1>2, <1>3, <1>4 DEF Monitor

LEMMA CallStep ==
  ASSUME IInv, \/ Start \/ Stop \/ JoinMonitor
               \/ ReleasePipeline \/ ReleasePortal \/ StopReturns \/ StreamFails
  PROVE  IInv'
  <1>1. CASE Start
    <2>1. Switches'
      BY <1>1, Zenon DEF IInv, Switches, Start, portalVars, healthVars,
        busVars, saveVars
    <2>2. Places'
      BY <1>1, Zenon DEF IInv, Places, MainPCs, StartPCs, Failures, Start,
        portalVars, healthVars, busVars, saveVars
    <2>7. Called'
      <3>1. starts' = starts + 1 /\ saves' = saves
        BY <1>1, Zenon DEF Start, portalVars, healthVars, busVars, saveVars
      <3> QED
        BY <3>1 DEF IInv, Called
    <2>3. Owned'
      BY <1>1, KeepsOwned DEF IInv, Owned, Counted, OneOwner, Filled,
        Before, Resources, Portal, Start, portalVars, healthVars, busVars,
        saveVars
    <2>4. Filled'
      BY <1>1 DEF IInv, Filled, Watching, Before, Portal, Resources, Start,
        portalVars, healthVars, busVars, saveVars
    <2>5. Watching'
      BY <1>1 DEF IInv, Places, Filled, Watching, Portal, Resources, Before,
        Start, portalVars, healthVars, busVars, saveVars
    <2>6. SavesExplained'
      BY <1>1 DEF IInv, SavesExplained, Start, portalVars, healthVars,
        busVars, saveVars
    <2> QED
      BY <2>1, <2>2, <2>3, <2>4, <2>5, <2>6, <2>7 DEF IInv
  <1>2. CASE Stop
    <2>1. Switches'
      BY <1>2, Zenon DEF IInv, Switches, Stop, portalVars, healthVars,
        saveVars
    <2>2. Places'
      BY <1>2, Zenon DEF IInv, Places, MainPCs, StartPCs, Failures, Stop,
        portalVars, healthVars, saveVars
    <2>7. Called'
      BY <1>2, Zenon DEF IInv, Called, Stop, portalVars, healthVars, saveVars
    <2>3. Owned'
      BY <1>2, KeepsOwned DEF IInv, Owned, Counted, OneOwner, Filled,
        Before, Resources, Portal, Stop, portalVars, healthVars, saveVars
    <2>4. Filled'
      BY <1>2 DEF IInv, Filled, Watching, Before, Portal, Resources, Stop,
        portalVars, healthVars, saveVars
    <2>5. Watching'
      BY <1>2 DEF IInv, Places, Filled, Watching, Portal, Resources, Before,
        Stop, portalVars, healthVars, saveVars
    <2>6. SavesExplained'
      BY <1>2 DEF IInv, SavesExplained, Stop, portalVars, healthVars, saveVars
    <2> QED
      BY <2>1, <2>2, <2>3, <2>4, <2>5, <2>6, <2>7 DEF IInv
  <1>3. CASE JoinMonitor
    <2>1. Switches'
      BY <1>3, Zenon DEF IInv, Switches, JoinMonitor, portalVars, healthVars,
        saveVars
    <2>2. Places'
      BY <1>3, Zenon DEF IInv, Places, MainPCs, StartPCs, Failures,
        JoinMonitor, portalVars, healthVars, saveVars
    <2>7. Called'
      BY <1>3, Zenon DEF IInv, Called, JoinMonitor, portalVars, healthVars,
        saveVars
    <2>3. Owned'
      BY <1>3, KeepsOwned DEF IInv, Owned, Counted, OneOwner, Filled,
        Before, Resources, Portal, JoinMonitor, portalVars, healthVars,
        saveVars
    <2>4. Filled'
      BY <1>3 DEF IInv, Filled, Watching, Before, Portal, Resources,
        JoinMonitor, portalVars, healthVars, saveVars
    <2>5. Watching'
      BY <1>3 DEF IInv, Places, Filled, Watching, Portal, Resources, Before,
        JoinMonitor, portalVars, healthVars, saveVars
    <2>6. SavesExplained'
      BY <1>3 DEF IInv, SavesExplained, JoinMonitor, portalVars, healthVars,
        saveVars
    <2> QED
      BY <2>1, <2>2, <2>3, <2>4, <2>5, <2>6, <2>7 DEF IInv
  <1>4. CASE ReleasePipeline
    <2>1. Switches'
      BY <1>4, Zenon DEF IInv, Switches, ReleasePipeline, healthVars
    <2>2. Places'
      BY <1>4, Zenon DEF IInv, Places, MainPCs, SavePCs, StartPCs,
        ReleasePipeline,
        healthVars
    <2>7. Called'
      BY <1>4, Zenon DEF IInv, Called, ReleasePipeline, healthVars
    <2>3. Owned'
      <3>1. /\ open' = Released({"pipeline"}) /\ unclosed' = unclosed
            /\ held' = held \ {"pipeline"} /\ main = "teardown"
            /\ UNCHANGED <<orphans, temp>>
        BY <1>4, Zenon DEF ReleasePipeline
      <3>2. GivesBack({"pipeline"})
        BY <3>1 DEF GivesBack
      <3>3. temp = {} /\ held = Resources
        BY <3>1 DEF IInv, Filled
      <3> QED
        BY <3>1, <3>2, <3>3, ReleasesOwned DEF IInv, Resources
    <2>4. Filled'
      BY <1>4 DEF IInv, Filled, Watching, Before, Portal, Resources,
        ReleasePipeline,
        healthVars
    <2>5. Watching'
      BY <1>4 DEF IInv, Places, Filled, Watching, Portal, Resources, Before,
        ReleasePipeline, healthVars
    <2>6. SavesExplained'
      BY <1>4 DEF IInv, SavesExplained, ReleasePipeline, healthVars
    <2> QED
      BY <2>1, <2>2, <2>3, <2>4, <2>5, <2>6, <2>7 DEF IInv
  <1>7. CASE ReleasePortal
    <2>1. Switches'
      BY <1>7, Zenon DEF IInv, Switches, ReleasePortal, healthVars, busVars,
        saveVars
    <2>2. Places'
      BY <1>7, Zenon DEF IInv, Places, MainPCs, StartPCs, Failures,
        ReleasePortal,
        healthVars, busVars, saveVars
    <2>7. Called'
      BY <1>7, Zenon DEF IInv, Called, ReleasePortal, healthVars, busVars,
        saveVars
    <2>3. Owned'
      BY <1>7, ReleasesOwned DEF IInv, Owned, Counted, OneOwner,
        Filled, Before, Resources, Portal, ReleasePortal, healthVars, busVars,
        saveVars
    <2>4. Filled'
      BY <1>7 DEF IInv, Filled, Watching, Before, Portal, Resources,
        ReleasePortal,
        healthVars, busVars, saveVars
    <2>5. Watching'
      BY <1>7 DEF IInv, Places, Filled, Watching, Portal, Resources, Before,
        ReleasePortal, healthVars, busVars, saveVars
    <2>6. SavesExplained'
      BY <1>7 DEF IInv, SavesExplained, ReleasePortal, healthVars, busVars,
        saveVars
    <2> QED
      BY <2>1, <2>2, <2>3, <2>4, <2>5, <2>6, <2>7 DEF IInv
  <1>5. CASE StopReturns
    <2>1. Switches'
      BY <1>5, Zenon DEF IInv, Switches, StopReturns, portalVars, busVars,
        saveVars, SetMessage
    <2>2. Places'
      BY <1>5, Zenon DEF IInv, Places, MainPCs, StartPCs, Failures,
        StopReturns, portalVars, busVars, saveVars, SetMessage
    <2>7. Called'
      BY <1>5, Zenon DEF IInv, Called, StopReturns, portalVars, busVars,
        saveVars, SetMessage
    <2>3. Owned'
      BY <1>5, KeepsOwned DEF IInv, Owned, Counted, OneOwner, Filled,
        Before, Resources, Portal, StopReturns, portalVars, busVars, saveVars,
        SetMessage
    <2>4. Filled'
      BY <1>5 DEF IInv, Filled, Watching, Before, Portal, Resources,
        StopReturns, portalVars, busVars, saveVars, SetMessage
    <2>5. Watching'
      BY <1>5 DEF IInv, Places, Filled, Watching, Portal, Resources, Before,
        StopReturns, portalVars, busVars, saveVars, SetMessage
    <2>6. SavesExplained'
      BY <1>5 DEF IInv, SavesExplained, StopReturns, portalVars, busVars,
        saveVars, SetMessage
    <2> QED
      BY <2>1, <2>2, <2>3, <2>4, <2>5, <2>6, <2>7 DEF IInv
  <1>6. CASE StreamFails
    <2>1. Switches'
      BY <1>6, Zenon DEF IInv, Switches, StreamFails, portalVars, healthVars,
        saveVars
    <2>2. Places'
      <3>1. UNCHANGED <<main, message, source_type, monitor, save, failure, result>>
        BY <1>6, Zenon DEF StreamFails, portalVars, healthVars, saveVars
      <3> QED
        BY <3>1 DEF IInv, Places
    <2>7. Called'
      BY <1>6, Zenon DEF IInv, Called, StreamFails, portalVars, healthVars,
        saveVars
    <2>3. Owned'
      BY <1>6, KeepsOwned DEF IInv, Owned, Counted, OneOwner, Filled,
        Before, Resources, Portal, StreamFails, portalVars, healthVars,
        saveVars
    <2>4. Filled'
      BY <1>6 DEF IInv, Filled, Watching, Before, Portal, Resources,
        StreamFails, portalVars, healthVars, saveVars
    <2>5. Watching'
      BY <1>6 DEF IInv, Places, Filled, Watching, Portal, Resources, Before,
        StreamFails, portalVars, healthVars, saveVars
    <2>6. SavesExplained'
      BY <1>6 DEF IInv, SavesExplained, StreamFails, portalVars, healthVars,
        saveVars
    <2> QED
      BY <2>1, <2>2, <2>3, <2>4, <2>5, <2>6, <2>7 DEF IInv
  <1> QED
    BY <1>1, <1>2, <1>3, <1>4, <1>5, <1>6, <1>7

LEMMA SaveStep == IInv /\ Save => IInv'
  <1> SUFFICES ASSUME IInv, Save PROVE IInv'
    OBVIOUS
  <1>1. CASE SaveClip
    <2>1. Switches'
      BY <1>1, Zenon DEF IInv, Switches, SaveClip, SaveUnchanged, portalVars,
        healthVars, busVars
    <2>2. Places'
      BY <1>1, Zenon DEF IInv, Places, MainPCs, SavePCs, StartPCs, Failures,
        SaveClip,
        SaveUnchanged, portalVars, healthVars, busVars
    <2>7. Called'
      <3>1. saves' = saves + 1 /\ starts' = starts
        BY <1>1, Zenon DEF SaveClip, SaveUnchanged, portalVars, healthVars,
          busVars
      <3> QED
        BY <3>1 DEF IInv, Called
    <2>3. Owned'
      BY <1>1, KeepsOwned DEF IInv, Owned, Counted, OneOwner, Filled,
        Before, Resources, Portal, SaveClip, SaveUnchanged, portalVars,
        healthVars, busVars
    <2>4. Filled'
      BY <1>1 DEF IInv, Filled, Watching, Before, Portal, Resources, SaveClip,
        SaveUnchanged, portalVars, healthVars, busVars
    <2>5. Watching'
      BY <1>1 DEF IInv, Places, Filled, Watching, Portal, Resources, Before,
        SaveClip, SaveUnchanged, portalVars, healthVars, busVars
    <2>6. SavesExplained'
      BY <1>1 DEF IInv, SavesExplained, SaveClip, SaveUnchanged, portalVars,
        healthVars, busVars
    <2> QED
      BY <2>1, <2>2, <2>3, <2>4, <2>5, <2>6, <2>7 DEF IInv
  <1>2. CASE SaveUnhealthy
    <2>1. Switches'
      BY <1>2, Zenon DEF IInv, Switches, SaveUnhealthy, Returns,
        SaveUnchanged, portalVars, healthVars, busVars
    <2>2. Places'
      BY <1>2, Zenon DEF IInv, Places, MainPCs, SavePCs, StartPCs, Failures,
        SaveUnhealthy, Returns, SaveUnchanged, portalVars, healthVars, busVars
    <2>7. Called'
      BY <1>2, Zenon DEF IInv, Called, SaveUnhealthy, Returns, SaveUnchanged,
        portalVars, healthVars, busVars
    <2>3. Owned'
      BY <1>2, KeepsOwned DEF IInv, Owned, Counted, OneOwner, Filled,
        Before, Resources, Portal, SaveUnhealthy, Returns, SaveUnchanged,
        portalVars, healthVars, busVars
    <2>4. Filled'
      BY <1>2 DEF IInv, Filled, Watching, Before, Portal, Resources,
        SaveUnhealthy, Returns, SaveUnchanged, portalVars, healthVars, busVars
    <2>5. Watching'
      BY <1>2 DEF IInv, Places, Filled, Watching, Portal, Resources, Before,
        SaveUnhealthy, Returns, SaveUnchanged, portalVars, healthVars, busVars
    <2>6. SavesExplained'
      BY <1>2 DEF IInv, SavesExplained, SaveUnhealthy, Returns, SaveUnchanged,
        portalVars, healthVars, busVars
    <2> QED
      BY <2>1, <2>2, <2>3, <2>4, <2>5, <2>6, <2>7 DEF IInv
  <1>3. CASE SaveHealthy
    <2>1. Switches'
      BY <1>3, Zenon DEF IInv, Switches, SaveHealthy, SaveUnchanged,
        portalVars, healthVars, busVars
    <2>2. Places'
      <3>1. /\ save' = "split"
            /\ UNCHANGED <<main, message, source_type, monitor, failure, result>>
        BY <1>3, Zenon DEF SaveHealthy, SaveUnchanged, portalVars, healthVars,
          busVars
      <3> QED
        BY <3>1 DEF IInv, Places, SavePCs
    <2>7. Called'
      BY <1>3, Zenon DEF IInv, Called, SaveHealthy, SaveUnchanged, portalVars,
        healthVars, busVars
    <2>3. Owned'
      BY <1>3, KeepsOwned DEF IInv, Owned, Counted, OneOwner, Filled,
        Before, Resources, Portal, SaveHealthy, SaveUnchanged, portalVars,
        healthVars, busVars
    <2>4. Filled'
      BY <1>3 DEF IInv, Filled, Watching, Before, Portal, Resources,
        SaveHealthy, SaveUnchanged, portalVars, healthVars, busVars
    <2>5. Watching'
      BY <1>3 DEF IInv, Places, Filled, Watching, Portal, Resources, Before,
        SaveHealthy, SaveUnchanged, portalVars, healthVars, busVars
    <2>6. SavesExplained'
      BY <1>3 DEF IInv, SavesExplained, SaveHealthy, SaveUnchanged,
        portalVars, healthVars, busVars
    <2> QED
      BY <2>1, <2>2, <2>3, <2>4, <2>5, <2>6, <2>7 DEF IInv
  <1>4. CASE WaitForSegment
    <2>1. Switches'
      BY <1>4, Zenon DEF IInv, Switches, WaitForSegment, Returns, SaveUnchanged,
        portalVars, healthVars, busVars
    <2>2. Places'
      BY <1>4, Zenon DEF IInv, Places, MainPCs, SavePCs, StartPCs, Failures,
        WaitForSegment,
        Returns, SaveUnchanged, portalVars, healthVars, busVars
    <2>7. Called'
      BY <1>4, Zenon DEF IInv, Called, WaitForSegment, Returns, SaveUnchanged,
        portalVars, healthVars, busVars
    <2>3. Owned'
      BY <1>4, KeepsOwned DEF IInv, Owned, Counted, OneOwner, Filled,
        Before, Resources, Portal, WaitForSegment, Returns, SaveUnchanged,
        portalVars,
        healthVars, busVars
    <2>4. Filled'
      BY <1>4 DEF IInv, Filled, Watching, Before, Portal, Resources,
        WaitForSegment,
        Returns, SaveUnchanged, portalVars, healthVars, busVars
    <2>5. Watching'
      BY <1>4 DEF IInv, Places, Filled, Watching, Portal, Resources, Before,
        WaitForSegment, Returns, SaveUnchanged, portalVars, healthVars, busVars
    <2>6. SavesExplained'
      BY <1>4 DEF IInv, SavesExplained, WaitForSegment, Returns, SaveUnchanged,
        portalVars, healthVars, busVars
    <2> QED
      BY <2>1, <2>2, <2>3, <2>4, <2>5, <2>6, <2>7 DEF IInv
  <1>7. CASE ReadSink
    <2>1. Switches'
      BY <1>7, Zenon DEF IInv, Switches, ReadSink, SaveUnchanged,
        portalVars, healthVars, busVars
    <2>2. Places'
      <3>1. /\ save' \in {"emit", "stale", "wait"}
            /\ UNCHANGED <<main, message, source_type, monitor, failure, result>>
        BY <1>7, Zenon DEF ReadSink, SaveUnchanged, portalVars, healthVars,
          busVars
      <3> QED
        BY <3>1 DEF IInv, Places, SavePCs
    <2>7. Called'
      BY <1>7, Zenon DEF IInv, Called, ReadSink, SaveUnchanged,
        portalVars, healthVars, busVars
    <2>3. Owned'
      BY <1>7, KeepsOwned DEF IInv, Owned, Counted, OneOwner, Filled,
        Before, Resources, Portal, ReadSink, SaveUnchanged, portalVars,
        healthVars, busVars
    <2>4. Filled'
      BY <1>7 DEF IInv, Filled, Watching, Before, Portal, Resources,
        ReadSink, SaveUnchanged, portalVars, healthVars, busVars
    <2>5. Watching'
      BY <1>7 DEF IInv, Places, Filled, Watching, Portal, Resources, Before,
        ReadSink, SaveUnchanged, portalVars, healthVars, busVars
    <2>6. SavesExplained'
      BY <1>7 DEF IInv, SavesExplained, ReadSink, SaveUnchanged,
        portalVars, healthVars, busVars
    <2> QED
      BY <2>1, <2>2, <2>3, <2>4, <2>5, <2>6, <2>7 DEF IInv
  <1>8. CASE SplitNow
    <2>1. Switches'
      BY <1>8, Zenon DEF IInv, Switches, SplitNow, SaveUnchanged,
        portalVars, healthVars, busVars
    <2>2. Places'
      <3>1. /\ save' \in {"wait"}
            /\ UNCHANGED <<main, message, source_type, monitor, failure, result>>
        BY <1>8, Zenon DEF SplitNow, SaveUnchanged, portalVars, healthVars,
          busVars
      <3> QED
        BY <3>1 DEF IInv, Places, SavePCs
    <2>7. Called'
      BY <1>8, Zenon DEF IInv, Called, SplitNow, SaveUnchanged,
        portalVars, healthVars, busVars
    <2>3. Owned'
      BY <1>8, KeepsOwned DEF IInv, Owned, Counted, OneOwner, Filled,
        Before, Resources, Portal, SplitNow, SaveUnchanged, portalVars,
        healthVars, busVars
    <2>4. Filled'
      BY <1>8 DEF IInv, Filled, Watching, Before, Portal, Resources, SplitNow,
        SaveUnchanged, portalVars, healthVars, busVars
    <2>5. Watching'
      BY <1>8 DEF IInv, Places, Filled, Watching, Portal, Resources, Before,
        SplitNow, SaveUnchanged, portalVars, healthVars, busVars
    <2>6. SavesExplained'
      BY <1>8 DEF IInv, SavesExplained, SplitNow, SaveUnchanged,
        portalVars, healthVars, busVars
    <2> QED
      BY <2>1, <2>2, <2>3, <2>4, <2>5, <2>6, <2>7 DEF IInv
  <1>9. CASE Crash
    <2>1. Switches'
      BY <1>9, Zenon DEF IInv, Switches, Crash,
        portalVars, healthVars, busVars
    <2>2. Places'
      BY <1>9, Zenon DEF IInv, Places, MainPCs, SavePCs, StartPCs, Failures,
        Crash, portalVars, healthVars, busVars
    <2>7. Called'
      BY <1>9, Zenon DEF IInv, Called, Crash,
        portalVars, healthVars, busVars
    <2>3. Owned'
      BY <1>9, KeepsOwned DEF IInv, Owned, Counted, OneOwner, Filled,
        Before, Resources, Portal, Crash, portalVars,
        healthVars, busVars
    <2>4. Filled'
      BY <1>9 DEF IInv, Filled, Watching, Before, Portal, Resources, Crash,
        portalVars, healthVars, busVars
    <2>5. Watching'
      BY <1>9 DEF IInv, Places, Filled, Watching, Portal, Resources, Before,
        Crash, portalVars, healthVars, busVars
    <2>6. SavesExplained'
      BY <1>9 DEF IInv, SavesExplained, Crash,
        portalVars, healthVars, busVars
    <2> QED
      BY <2>1, <2>2, <2>3, <2>4, <2>5, <2>6, <2>7 DEF IInv
  <1>5. CASE Select
    <2>1. Switches'
      BY <1>5, Zenon DEF IInv, Switches, Select, Returns, SaveUnchanged,
        portalVars, healthVars, busVars
    <2>2. Places'
      BY <1>5, Zenon DEF IInv, Places, MainPCs, SavePCs, StartPCs, Failures,
        Select,
        Returns, SaveUnchanged, portalVars, healthVars, busVars
    <2>7. Called'
      BY <1>5, Zenon DEF IInv, Called, Select, Returns, SaveUnchanged,
        portalVars, healthVars, busVars
    <2>3. Owned'
      BY <1>5, KeepsOwned DEF IInv, Owned, Counted, OneOwner, Filled,
        Before, Resources, Portal, Select, Returns, SaveUnchanged, portalVars,
        healthVars, busVars
    <2>4. Filled'
      BY <1>5 DEF IInv, Filled, Watching, Before, Portal, Resources, Select,
        Returns, SaveUnchanged, portalVars, healthVars, busVars
    <2>5. Watching'
      BY <1>5 DEF IInv, Places, Filled, Watching, Portal, Resources, Before,
        Select, Returns, SaveUnchanged, portalVars, healthVars, busVars
    <2>6. SavesExplained'
      BY <1>5 DEF IInv, SavesExplained, Select, Returns, SaveUnchanged,
        portalVars, healthVars, busVars
    <2> QED
      BY <2>1, <2>2, <2>3, <2>4, <2>5, <2>6, <2>7 DEF IInv
  <1>6. CASE Mux
    <2>1. Switches'
      BY <1>6, Zenon DEF IInv, Switches, Mux, Returns, SaveUnchanged,
        portalVars, healthVars, busVars
    <2>2. Places'
      BY <1>6, Zenon DEF IInv, Places, MainPCs, SavePCs, StartPCs, Failures,
        Mux,
        Returns, SaveUnchanged, portalVars, healthVars, busVars
    <2>7. Called'
      BY <1>6, Zenon DEF IInv, Called, Mux, Returns, SaveUnchanged,
        portalVars, healthVars, busVars
    <2>3. Owned'
      BY <1>6, KeepsOwned DEF IInv, Owned, Counted, OneOwner, Filled,
        Before, Resources, Portal, Mux, Returns, SaveUnchanged, portalVars,
        healthVars, busVars
    <2>4. Filled'
      BY <1>6 DEF IInv, Filled, Watching, Before, Portal, Resources, Mux,
        Returns, SaveUnchanged, portalVars, healthVars, busVars
    <2>5. Watching'
      BY <1>6 DEF IInv, Places, Filled, Watching, Portal, Resources, Before,
        Mux, Returns, SaveUnchanged, portalVars, healthVars, busVars
    <2>6. SavesExplained'
      BY <1>6 DEF IInv, SavesExplained, Mux, Returns, SaveUnchanged,
        portalVars, healthVars, busVars
    <2> QED
      BY <2>1, <2>2, <2>3, <2>4, <2>5, <2>6, <2>7 DEF IInv
  <1> QED
    BY <1>1, <1>2, <1>3, <1>4, <1>5, <1>6, <1>7, <1>8, <1>9 DEF Save

-----------------------------------------------------------------------------

\* The invariant is inductive.
LEMMA Inductive == SafeSpec => []IInv
  <1>1. IInv /\ [Next]_vars => IInv'
    <2> SUFFICES ASSUME IInv, [Next]_vars PROVE IInv'
      OBVIOUS
    <2>1. CASE UNCHANGED vars
      <3>1. Switches' /\ Called' /\ Owned'
        BY <2>1, Zenon
        DEF vars, portalVars, healthVars, busVars, saveVars, IInv, Switches,
            Called, Owned, Counted, OneOwner
      <3>2. Places'
        BY <2>1 DEF vars, healthVars, busVars, saveVars, IInv, Places
      <3>3. Filled'
        BY <2>1 DEF vars, portalVars, IInv, Filled
      <3>4. Watching'
        BY <2>1, Zenon
        DEF vars, portalVars, healthVars, busVars, saveVars, IInv, Watching
      <3>5. SavesExplained'
        BY <2>1, Zenon DEF vars, saveVars, IInv, SavesExplained
      <3> QED
        BY <3>1, <3>2, <3>3, <3>4, <3>5 DEF IInv
    <2>2. CASE StopNothing
      <3>1. UNCHANGED vars
        BY <2>2 DEF StopNothing
      <3> QED
        BY <2>1, <3>1
    <2>3. CASE Next /\ ~StopNothing
      BY <2>3, HandshakeStep, PipelineStep, MonitorStep, CallStep, SaveStep
      DEF Next, Main
    <2> QED
      BY <2>1, <2>2, <2>3
  <1> QED
    BY InitIInv, <1>1, PTL DEF SafeSpec

LEMMA Safe == Spec => SafeSpec
  BY DEF Spec

\* Every field keeps its type.
THEOREM TypeCorrect == Spec => []TypeOK
  <1>1. IInv => TypeOK
    BY Zenon DEF IInv, Switches, Places, Called, Owned, Counted, TypeOK
  <1> QED
    BY Safe, Inductive, <1>1, PTL

\* Connection, session, descriptor and pipeline: each has one owner at every
\* step of any number of Starts and Stops, and none is released twice
\* (gstreamer_recorder.cpp:640-825).
THEOREM NothingLeaks == Spec => []EverythingOwned
  <1>1. IInv => EverythingOwned
    BY DEF IInv, Owned, Watching, Resources, EverythingOwned,
           BusOutlivesMonitor
  <1> QED
    BY Safe, Inductive, <1>1, PTL

\* A recorder whose stream ended says so until it is stopped, however early in
\* the recording that was (gstreamer_recorder.cpp:1006-1056).
THEOREM EndStaysVisible == Spec => []StreamEndVisible
  <1>1. IInv => StreamEndVisible
    BY DEF IInv, Watching, StreamEndVisible
  <1> QED
    BY Safe, Inductive, <1>1, PTL

\* Whatever way SaveClip returns, the reason fits the result
\* (gstreamer_recorder.cpp:835-929).
THEOREM Explained == Spec => []SavesExplained
  <1>1. IInv => SavesExplained
    BY DEF IInv
  <1> QED
    BY Safe, Inductive, <1>1, PTL
=============================================================================
