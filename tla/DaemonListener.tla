---------------------------- MODULE DaemonListener ----------------------------
(***************************************************************************)
(* The global keybind listener (daemon_listener.cpp): one thread polls the *)
(* input devices it could open, keeps the keys that are down on all of     *)
(* them together, and calls back when a key combination goes down; devices *)
(* come and go while keys are held on them.                                *)
(*                                                                         *)
(* Time is a clock the environment advances.  The pause between two device *)
(* scans is not timed: a scan may become due at any moment.                *)
(*                                                                         *)
(* The names of its specification are its own (ListenerSpec, listenerVars) *)
(* so that a module may extend this one and Daemon's together.             *)
(***************************************************************************)
EXTENDS Integers, Sequences, FiniteSets

CONSTANTS
  Devices,      \* names below config_.input_directory
  Keyboards,    \* the devices that have the configured keys
  Keys,         \* key codes
  Actions,      \* what is configured: save and stop
  Requires,     \* per action: its requirements, each a set of alternatives;
                \* none when the keybind is not supported
  Debounce,     \* config_.keybind_debounce
  MaxTime,      \* bound: the clock
  MaxEvents,    \* bound: what happens to keys and devices
  MaxQueue      \* bound: events the kernel keeps for one reader

Never == -1

ASSUME ListenerParameters ==
  /\ Keyboards \subseteq Devices
  /\ Requires \in [Actions -> SUBSET SUBSET Keys]
  /\ Debounce \in Nat /\ MaxTime \in Nat /\ MaxEvents \in Nat

VARIABLES
  now, happened,   \* bounded environment
  plugged,           \* devices that exist
  held,              \* per device: keys that are down
  queue,             \* per device: events not read yet by the listener
  hung,              \* open devices that were unplugged
  input_devices,     \* input_devices_
  loop,              \* where ListenLoop is
  todo,              \* directory entries the scan has not looked at
  found,             \* status counts the scan has so far
  due,               \* the next scan is due
  revents,           \* per open device: what poll said and is not handled
  broken,            \* broken_indices, as devices
  pressed,           \* pressed_key_codes_
  was_down, last_detected_at,  \* KeybindActionState, per action
  running, thread_stop_requested,
  status,            \* status_: the three counts
  seen,              \* history: keys down on a device by the events read
  fresh              \* history: a key went down since the action was detected

keyVars == <<pressed, was_down, last_detected_at, fresh>>
worldVars == <<happened, plugged, held>>
deviceVars == <<queue, hung, input_devices, seen>>
scanVars == <<todo, found, due>>
pollVars == <<revents, broken>>
stopVars == <<running, thread_stop_requested>>
listenerVars == <<now, worldVars, deviceVars, loop, scanVars, pollVars,
                  keyVars, stopVars, status>>

Counts == [scanned : Nat, readable : Nat, accepted : Nat]
NoCounts == [scanned |-> 0, readable |-> 0, accepted |-> 0]
Open == {input_devices[i] : i \in DOMAIN input_devices}

Events == [key : Keys, value : 0..2]

\* No device is open twice.
DevicesOK ==
  /\ plugged \subseteq Devices /\ todo \subseteq Devices
  /\ input_devices \in Seq(Keyboards)
  /\ \A i, j \in DOMAIN input_devices :
       input_devices[i] = input_devices[j] => i = j
  /\ hung \subseteq Open /\ broken \subseteq Open

EventsOK ==
  /\ held \in [Devices -> SUBSET Keys]
  /\ queue \in [Devices -> Seq(Events)]
  /\ seen \in [Devices -> SUBSET Keys]
  /\ revents \in [Devices -> {"none", "in", "hup"}]

KeysOK ==
  /\ pressed \subseteq Keys
  /\ was_down \in [Actions -> BOOLEAN]
  /\ last_detected_at \in [Actions -> {Never} \cup 0..MaxTime]

LoopOK ==
  /\ now \in 0..MaxTime
  /\ loop \in {"top", "scan", "poll", "read", "remove", "exited"}
  /\ found \in Counts /\ status \in Counts

ListenerTypeOK == DevicesOK /\ EventsOK /\ KeysOK /\ LoopOK

ListenerInit ==
  /\ now = 0 /\ happened = 0
  /\ plugged \in SUBSET Devices
  /\ held = [d \in Devices |-> {}]
  /\ queue = [d \in Devices |-> <<>>]
  /\ hung = {} /\ input_devices = <<>>
  /\ loop = "top"
  /\ todo = {} /\ found = NoCounts /\ due = TRUE
  /\ revents = [d \in Devices |-> "none"] /\ broken = {}
  /\ pressed = {}
  /\ was_down = [a \in Actions |-> FALSE]
  /\ last_detected_at = [a \in Actions |-> Never]
  /\ running = TRUE /\ thread_stop_requested = FALSE
  /\ status = NoCounts
  /\ seen = [d \in Devices |-> {}]
  /\ fresh = [a \in Actions |-> TRUE]

-----------------------------------------------------------------------------
(* The keyboard, the kernel and the clock.                                 *)

Happen == happened < MaxEvents /\ happened' = happened + 1

\* The kernel keeps an event for whoever has the device open.
Emit(d, k, value) ==
  queue' = IF d \in Open \ hung
           THEN [queue EXCEPT ![d] = Append(@, [key |-> k, value |-> value])]
           ELSE queue

Key(d) ==
  /\ Happen
  /\ d \in plugged /\ Len(queue[d]) < MaxQueue
  /\ \E k \in Keys :
       \/ /\ k \notin held[d]
          /\ held' = [held EXCEPT ![d] = @ \cup {k}]
          /\ Emit(d, k, 1)
       \/ /\ k \in held[d]
          /\ held' = [held EXCEPT ![d] = @ \ {k}]
          /\ Emit(d, k, 0)
       \/ /\ k \in held[d]   \* auto-repeat
          /\ held' = held
          /\ Emit(d, k, 2)
  /\ UNCHANGED <<now, plugged, hung, input_devices, seen, loop, scanVars,
                 pollVars, keyVars, stopVars, status>>

Unplug(d) ==
  /\ Happen
  /\ d \in plugged
  /\ plugged' = plugged \ {d}
  /\ held' = [held EXCEPT ![d] = {}]
  /\ hung' = IF d \in Open THEN hung \cup {d} ELSE hung
  /\ UNCHANGED <<now, queue, input_devices, seen, loop, scanVars, pollVars,
                 keyVars, stopVars, status>>

Plug(d) ==
  /\ Happen
  /\ d \notin plugged
  /\ plugged' = plugged \cup {d}
  /\ UNCHANGED <<now, held, deviceVars, loop, scanVars, pollVars, keyVars,
                 stopVars, status>>

Tick ==
  /\ now < MaxTime
  /\ now' = now + 1
  /\ UNCHANGED <<worldVars, deviceVars, loop, scanVars, pollVars, keyVars,
                 stopVars, status>>

ScanDue ==
  /\ ~due
  /\ due' = TRUE
  /\ UNCHANGED <<now, worldVars, deviceVars, loop, todo, found, pollVars,
                 keyVars, stopVars, status>>

-----------------------------------------------------------------------------
(* RescanInputDevices.                                                     *)

Supported == \A a \in Actions : Requires[a] # {}
Listening == running /\ ~thread_stop_requested

\* With an unsupported keybind nothing is scanned.
StartScan ==
  /\ loop = "top"
  /\ Listening /\ due
  /\ IF Supported
     THEN /\ todo' = plugged
          /\ found' = [scanned |-> 0, readable |-> Len(input_devices),
                       accepted |-> Len(input_devices)]
          /\ loop' = "scan"
          /\ UNCHANGED <<due, status>>
     ELSE /\ status' = [scanned |-> 0, readable |-> Len(input_devices),
                        accepted |-> Len(input_devices)]
          /\ loop' = "poll" /\ due' = FALSE
          /\ UNCHANGED <<todo, found>>
  /\ UNCHANGED <<now, worldVars, deviceVars, pollVars, keyVars, stopVars>>

\* A name that is open already is passed over, also when its device is gone
\* and another has its name.  The keys that are down on a device when it is
\* opened are not asked for.
ScanOne ==
  /\ loop = "scan"
  /\ \E d \in todo :
     LET readable == d \in plugged \ Open
         accepted == readable /\ d \in Keyboards
     IN  /\ todo' = todo \ {d}
         /\ found' = [found EXCEPT
              !.scanned = @ + 1,
              !.readable = @ + (IF readable THEN 1 ELSE 0),
              !.accepted = @ + (IF accepted THEN 1 ELSE 0)]
         /\ IF accepted
            THEN /\ input_devices' = Append(input_devices, d)
                 /\ queue' = [queue EXCEPT ![d] = <<>>]
                 /\ seen' = [seen EXCEPT ![d] = {}]
            ELSE UNCHANGED <<input_devices, queue, seen>>
  /\ UNCHANGED <<now, worldVars, hung, loop, due, pollVars, keyVars,
                 stopVars, status>>

ScanDone ==
  /\ loop = "scan"
  /\ todo = {}
  /\ status' = found
  /\ due' = FALSE
  /\ loop' = "poll"
  /\ UNCHANGED <<now, worldVars, deviceVars, todo, found, pollVars, keyVars,
                 stopVars>>

NoScan ==
  /\ loop = "top"
  /\ Listening /\ ~due
  /\ loop' = "poll"
  /\ UNCHANGED <<now, worldVars, deviceVars, scanVars, pollVars, keyVars,
                 stopVars, status>>

-----------------------------------------------------------------------------
(* ListenLoop: poll, one event from each device that has some, and the     *)
(* removal of the devices that failed.                                     *)

Ready(d) == IF d \in hung THEN "hup"
            ELSE IF queue[d] # <<>> THEN "in" ELSE "none"

\* Nothing to poll, or the poll times out.
PollNothing ==
  /\ loop = "poll"
  /\ \A d \in Open : Ready(d) = "none"
  /\ loop' = "top"
  /\ UNCHANGED <<now, worldVars, deviceVars, scanVars, pollVars, keyVars,
                 stopVars, status>>

Poll ==
  /\ loop = "poll"
  /\ \E d \in Open : Ready(d) # "none"
  /\ revents' = [d \in Devices |-> IF d \in Open THEN Ready(d) ELSE "none"]
  /\ broken' = {}
  /\ loop' = "read"
  /\ UNCHANGED <<now, worldVars, deviceVars, scanVars, keyVars, stopVars,
                 status>>

\* The descriptors are looked at in the order of input_devices_.
Turn(d) ==
  /\ loop = "read"
  /\ d \in Open /\ revents[d] # "none"
  /\ \A i, j \in DOMAIN input_devices :
       input_devices[i] = d /\ j < i => revents[input_devices[j]] = "none"
  /\ revents' = [revents EXCEPT ![d] = "none"]

KeybindIsPressed(a, down) ==
  /\ Requires[a] # {}
  /\ \A alternatives \in Requires[a] : alternatives \cap down # {}

KeybindDebouncePassed(a) ==
  \/ last_detected_at[a] = Never
  \/ now - last_detected_at[a] >= Debounce

\* Defect: a combination that is down counts, whether or not it was before.
DetectsHeld(down) ==
  {a \in Actions : KeybindIsPressed(a, down) /\ KeybindDebouncePassed(a)}

\* The actions for which the callback is called.
Detects(down) ==
  {a \in Actions : /\ KeybindIsPressed(a, down) /\ ~was_down[a]
                   /\ KeybindDebouncePassed(a)}

NextWasDown(down) == [a \in Actions |-> KeybindIsPressed(a, down)]

\* What the event makes of pressed_key_codes_; a key that goes up on one
\* device is up, also when another device still holds it.
Down(event) == IF event.value = 0 THEN pressed \ {event.key}
                                  ELSE pressed \cup {event.key}

HandleInputEvent(event) ==
  IF event.value = 2
  THEN UNCHANGED keyVars
  ELSE LET down == Down(event)
       IN  /\ pressed' = down
           /\ last_detected_at' = [a \in Actions |->
                IF a \in Detects(down) THEN now ELSE last_detected_at[a]]
           /\ was_down' = NextWasDown(down)
           /\ fresh' = [a \in Actions |->
                IF a \in Detects(down) THEN FALSE
                ELSE fresh[a] \/ (event.value = 0
                                   /\ event.key \in UNION Requires[a])]

ReadEvent(d) ==
  /\ Turn(d)
  /\ revents[d] = "in" /\ d \notin hung
  /\ HandleInputEvent(Head(queue[d]))
  /\ seen' = [seen EXCEPT ![d] =
       LET e == Head(queue[d])
       IN  IF e.value = 0 THEN @ \ {e.key} ELSE @ \cup {e.key}]
  /\ queue' = [queue EXCEPT ![d] = Tail(@)]
  /\ UNCHANGED <<now, worldVars, hung, input_devices, loop, scanVars, broken,
                 stopVars, status>>

\* Defect: POLLHUP is not looked at.
FindUnreadable(d) ==
  /\ Turn(d)
  /\ revents[d] = "hup" \/ d \in hung
  /\ broken' = IF revents[d] = "hup" THEN broken ELSE broken \cup {d}
  /\ UNCHANGED <<now, worldVars, deviceVars, loop, scanVars, keyVars,
                 stopVars, status>>

\* POLLHUP, or read fails because the device went after the poll.
FindBroken(d) ==
  /\ Turn(d)
  /\ revents[d] = "hup" \/ d \in hung
  /\ broken' = broken \cup {d}
  /\ UNCHANGED <<now, worldVars, deviceVars, loop, scanVars, keyVars,
                 stopVars, status>>

ReadDone ==
  /\ loop = "read"
  /\ \A d \in Open : revents[d] = "none"
  /\ loop' = "remove"
  /\ UNCHANGED <<now, worldVars, deviceVars, scanVars, pollVars, keyVars,
                 stopVars, status>>

\* Defect: the keys stay down that were held on the devices removed.
ResetNothing == UNCHANGED keyVars

\* Defect: the keys are forgotten but not that the combination was down.
ResetKeysOnly ==
  /\ pressed' = {}
  /\ UNCHANGED <<was_down, last_detected_at, fresh>>

\* All keys of all devices, also of those that stay.
ResetKeyState ==
  /\ pressed' = {}
  /\ was_down' = [a \in Actions |-> FALSE]
  /\ fresh' = [a \in Actions |-> TRUE]
  /\ UNCHANGED last_detected_at

\* The positions of the devices that stay.
Kept == {i \in DOMAIN input_devices : input_devices[i] \notin broken}

\* The devices that stay keep their order.
EraseBroken ==
  \E order \in [1..Cardinality(Kept) -> Kept] :
    /\ \A m, n \in DOMAIN order : m < n => order[m] < order[n]
    /\ input_devices' = [n \in DOMAIN order |-> input_devices[order[n]]]

RemoveBrokenDevices ==
  /\ loop = "remove"
  /\ loop' = "top"
  /\ IF broken = {}
     THEN UNCHANGED <<deviceVars, broken, keyVars, status>>
     ELSE /\ EraseBroken
          /\ hung' = hung \ broken
          /\ queue' = [d \in Devices |->
                         IF d \in broken THEN <<>> ELSE queue[d]]
          /\ seen' = [d \in Devices |-> IF d \in broken THEN {} ELSE seen[d]]
          /\ broken' = {}
          /\ ResetKeyState
          /\ status' = [status EXCEPT !.readable = Len(input_devices'),
                                      !.accepted = Len(input_devices')]
  /\ UNCHANGED <<now, worldVars, scanVars, revents, stopVars>>

-----------------------------------------------------------------------------
(* Stop: running_ is cleared, the thread is asked to stop and joined.      *)

StopClears ==
  /\ running
  /\ running' = FALSE
  /\ UNCHANGED <<now, worldVars, deviceVars, loop, scanVars, pollVars,
                 keyVars, thread_stop_requested, status>>

StopRequests ==
  /\ ~running /\ ~thread_stop_requested
  /\ thread_stop_requested' = TRUE
  /\ UNCHANGED <<now, worldVars, deviceVars, loop, scanVars, pollVars,
                 keyVars, running, status>>

\* Defect: the thread ends only when every event has been read.
LoopEndsWhenQuiet ==
  /\ loop = "top"
  /\ ~Listening
  /\ \A d \in Open : Ready(d) = "none"
  /\ loop' = "exited"
  /\ running' = FALSE
  /\ UNCHANGED <<now, worldVars, deviceVars, scanVars, pollVars, keyVars,
                 thread_stop_requested, status>>

LoopEnds ==
  /\ loop = "top"
  /\ ~Listening
  /\ loop' = "exited"
  /\ running' = FALSE
  /\ UNCHANGED <<now, worldVars, deviceVars, scanVars, pollVars, keyVars,
                 thread_stop_requested, status>>

World == \E d \in Devices : Key(d) \/ Unplug(d) \/ Plug(d)
Read == \E d \in Devices : ReadEvent(d) \/ FindBroken(d)

Thread ==
  \/ StartScan \/ ScanOne \/ ScanDone \/ NoScan
  \/ PollNothing \/ Poll \/ Read \/ ReadDone
  \/ RemoveBrokenDevices \/ LoopEnds

ListenerNext == World \/ Tick \/ ScanDue \/ Thread \/ StopClears \/ StopRequests

ListenerSpec ==
  /\ ListenerInit /\ [][ListenerNext]_listenerVars
  /\ WF_listenerVars(Thread) /\ WF_listenerVars(ScanDue)

-----------------------------------------------------------------------------
(* Properties.                                                             *)

\* A key counts as down only while some open device last said so: what was
\* held on a device that was pulled out is not down for ever and completes no
\* combination later (daemon_listener.cpp:317-345, 385).
NoGhostKeys ==
  loop # "remove" /\ broken = {} =>
    \A k \in pressed : \E d \in Open : k \in seen[d]

\* was_down is what pressed_key_codes_ says, whatever sequence of presses,
\* refusals and resets led there: an action is neither armed while its keys are
\* down nor deaf while they are up (daemon_listener.cpp:364-382, 385-390).
ArmedIffUp ==
  \A a \in Actions : was_down[a] <=> KeybindIsPressed(a, pressed)

\* The callback comes once each time the combination goes down: between two
\* calls a key of it was released, or the state was reset.
OncePerPress ==
  [][\A a \in Actions :
       last_detected_at'[a] # last_detected_at[a] => fresh[a]]_listenerVars

\* A keyboard that stays is listened to, also when it took the name of one
\* that was pulled out and whose descriptor is still open.
KeyboardFound ==
  \A d \in Keyboards :
    []<>(\/ d \in Open \ hung \/ d \notin plugged
         \/ ~running \/ thread_stop_requested)

\* Stop's join returns: no state of the loop waits for an event without limit.
StopEnds == (~running /\ thread_stop_requested) ~> loop = "exited"
=============================================================================
