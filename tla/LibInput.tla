------------------------------ MODULE LibInput ------------------------------
(***************************************************************************)
(* Input: libinput.c and the half of sdl_backend.m that feeds it.  The     *)
(* main thread runs the compositor: between two rounds of its loop the     *)
(* hooked poll() pumps SDL events and injects them; in a round it empties  *)
(* the wake-up pipe and takes the events.  The tap thread injects the      *)
(* mouse on its own, once the main thread has managed to start it.         *)
(*                                                                         *)
(* An event is put into the queue under ev_lock and its byte is written    *)
(* after the lock is given up.  Before there is a context neither exists:  *)
(* ev_lock is no mutex yet and pipe_w is 0, the standard input.            *)
(*                                                                         *)
(* calls is what the main thread has still to do before it is back in its  *)
(* loop.  Motion and axis events carry no state and are one kind; the      *)
(* accessors of events and devices, which read only, are left out.         *)
(***************************************************************************)
EXTENDS Integers, Sequences, FiniteSets

CONSTANTS Keys, Buttons,   \* evdev codes, after hid_to_evdev
          None,            \* no code
          PipeCapacity,    \* bytes the pipe holds before write() blocks
          MaxQueue         \* bound: events alive when input arrives

ASSUME CodesAssumption == Keys \cap Buttons = {} /\ None \notin Keys \cup Buttons
ASSUME BoundsAssumption == {PipeCapacity, MaxQueue} \subseteq Nat \ {0}

Main == "main"
Tap == "tap"
Injectors == {Main, Tap}
Devices == {"keyboard", "pointer"}
Calls == {"sdl_backend_init", "start_raw_mouse_capture", "libinput_dispatch",
          "libinput_get_event"}

VARIABLES
  connected,           \* a context was created once; ev_lock is a mutex
  num_devices,         \* 0, or 2 from the first ensure_devices on
  ev,                  \* the queue from ev_head to ev_tail
  pipe,                \* "zero" (never made), "open" or "closed"
  bytes,               \* what is in it
  key_state_map, pressed_keys,
  button_state_mask, pressed_buttons,
  g_inited, g_raw_mouse_active,
  calls,
  todo,                \* per thread, events it has made and not yet queued
  pc,                  \* per thread, where it is in queue_event
  seen,                \* per thread, the queue as an unlocked append found it
  raced,               \* an unlocked append has undone somebody's work
  client               \* what the events taken so far told the client

inputVars == <<connected, num_devices, ev, pipe, bytes, key_state_map, pressed_keys,
          button_state_mask, pressed_buttons, g_inited, g_raw_mouse_active,
          calls, todo, pc, seen, raced, client>>
stateVars == <<key_state_map, pressed_keys, button_state_mask, pressed_buttons>>
queueVars == <<ev, pipe, bytes, pc, seen, raced>>
lifeVars == <<connected, g_inited, g_raw_mouse_active>>

Event(type, device, code, count) ==
  [type |-> type, device |-> device, code |-> code, count |-> count]

Added(device) == Event("DEVICE_ADDED", device, None, 0)

InputInit ==
  /\ connected = FALSE
  /\ num_devices = 0
  /\ ev = << >>
  /\ pipe = "zero"
  /\ bytes = 0
  /\ key_state_map = {}
  /\ pressed_keys = 0
  /\ button_state_mask = {}
  /\ pressed_buttons = 0
  /\ g_inited = FALSE
  /\ g_raw_mouse_active = FALSE
  /\ calls = << >>
  /\ todo = [t \in Injectors |-> << >>]
  /\ pc = [t \in Injectors |-> "append"]
  /\ seen = [t \in Injectors |-> << >>]
  /\ raced = FALSE
  /\ client = [told |-> {}, pressed |-> {}, sane |-> TRUE]

Idle(t) == todo[t] = << >>
InLoop == Idle(Main) /\ calls = << >>

-----------------------------------------------------------------------------
(* queue_event.  Events are made before the call and wait in todo.          *)

\* The event is in the queue; the byte comes after the unlock.
Append1(t, queue) ==
  /\ ev' = Append(queue, Head(todo[t]))
  /\ pc' = [pc EXCEPT ![t] = "write"]

\* With the lock, once there is one.
QueueEvent(t) ==
  /\ ~Idle(t) /\ pc[t] = "append" /\ connected
  /\ Append1(t, ev)
  /\ UNCHANGED <<num_devices, pipe, bytes, stateVars, lifeVars, calls, todo,
                 seen, raced, client>>

\* Without: ev_lock is all zeros, pthread_mutex_lock() fails and is not heeded.
QueueEventUnlocked(t) ==
  /\ ~Idle(t) /\ pc[t] = "append" /\ ~connected
  /\ seen' = [seen EXCEPT ![t] = ev]
  /\ pc' = [pc EXCEPT ![t] = "overwrite"]
  /\ UNCHANGED <<num_devices, ev, pipe, bytes, stateVars, lifeVars, calls, todo,
                 raced, client>>

Overwrite(t) ==
  /\ pc[t] = "overwrite"
  /\ Append1(t, seen[t])
  /\ raced' = (raced \/ seen[t] # ev)
  /\ seen' = [seen EXCEPT ![t] = << >>]
  /\ UNCHANGED <<num_devices, pipe, bytes, stateVars, lifeVars, calls, todo,
                 client>>

\* A slip: a byte only for the first event of the queue, to save writes, though
\* whoever takes events may be past the read that emptied the pipe.
WriteByteFirst(t) ==
  /\ pc[t] = "write"
  /\ pipe = "open" => bytes < PipeCapacity
  /\ bytes' = IF pipe = "open" /\ Len(ev) < 2 THEN bytes + 1 ELSE bytes
  /\ pc' = [pc EXCEPT ![t] = "append"]
  /\ todo' = [todo EXCEPT ![t] = Tail(@)]
  /\ UNCHANGED <<num_devices, ev, pipe, stateVars, lifeVars, calls, seen, raced,
                 client>>

\* pipe_w is 0 before the first context and -1 after libinput_unref; write()
\* blocks while the pipe is full.
WriteByte(t) ==
  /\ pc[t] = "write"
  /\ pipe = "open" => bytes < PipeCapacity
  /\ bytes' = IF pipe = "open" THEN bytes + 1 ELSE bytes
  /\ pc' = [pc EXCEPT ![t] = "append"]
  /\ todo' = [todo EXCEPT ![t] = Tail(@)]
  /\ UNCHANGED <<num_devices, ev, pipe, stateVars, lifeVars, calls, seen, raced,
                 client>>

-----------------------------------------------------------------------------
(* Making events.                                                           *)

\* The events of ensure_devices, which makes both devices the first time.
NewDevices ==
  IF num_devices = 0 THEN <<Added("keyboard"), Added("pointer")>> ELSE << >>

\* libinput_sdl_inject_device_added, and the start of every injection.
EnsureDevices(t, then) ==
  /\ num_devices' = 2
  /\ todo' = [todo EXCEPT ![t] = NewDevices \o then]

\* libinput_sdl_inject_key: without a change of state there is no event.
InjectKey(t, key, pressed) ==
  LET changed == (key \in key_state_map) # pressed
      count == CASE ~changed -> pressed_keys
                 [] changed /\ pressed -> pressed_keys + 1
                 [] changed /\ ~pressed -> pressed_keys - 1
      type == IF pressed THEN "PRESSED" ELSE "RELEASED"
  IN /\ key_state_map' = IF pressed THEN key_state_map \cup {key}
                                   ELSE key_state_map \ {key}
     /\ pressed_keys' = count
     /\ EnsureDevices(t, IF changed THEN <<Event(type, "keyboard", key, count)>>
                                    ELSE << >>)
     /\ UNCHANGED <<button_state_mask, pressed_buttons>>

\* libinput_sdl_inject_button, likewise.
InjectButton(t, button, pressed) ==
  LET changed == (button \in button_state_mask) # pressed
      count == CASE ~changed -> pressed_buttons
                 [] changed /\ pressed -> pressed_buttons + 1
                 [] changed /\ ~pressed -> pressed_buttons - 1
      type == IF pressed THEN "PRESSED" ELSE "RELEASED"
  IN /\ button_state_mask' = IF pressed THEN button_state_mask \cup {button}
                                       ELSE button_state_mask \ {button}
     /\ pressed_buttons' = count
     /\ EnsureDevices(t, IF changed
                           THEN <<Event(type, "pointer", button, count)>>
                           ELSE << >>)
     /\ UNCHANGED <<key_state_map, pressed_keys>>

\* libinput_sdl_inject_motion and libinput_sdl_inject_axis.
InjectMotion(t) ==
  /\ EnsureDevices(t, <<Event("MOTION", "pointer", None, 0)>>)
  /\ UNCHANGED stateVars

InjectMouse(t) ==
  \/ InjectMotion(t)
  \/ \E b \in Buttons, pressed \in BOOLEAN : InjectButton(t, b, pressed)

\* Bound: input arrives while there is room for it in queue and pipe.
Room ==
  LET alive == Len(ev) + Len(todo[Main]) + Len(todo[Tap])
  IN alive < MaxQueue /\ bytes + Len(todo[Main]) + Len(todo[Tap]) < PipeCapacity

\* A slip: the SDL mouse is injected along with the raw one.
HandleSdlEventBoth ==
  /\ InLoop /\ g_inited /\ Room
  /\ \/ \E k \in Keys, pressed \in BOOLEAN : InjectKey(Main, k, pressed)
     \/ InjectMouse(Main)
  /\ UNCHANGED <<queueVars, lifeVars, calls, client>>

\* The pump of a hooked poll(), select() or kevent() finds an event of SDL
\* (handle_sdl_event); SDL's mouse counts only without the raw one.
HandleSdlEvent ==
  /\ InLoop /\ g_inited /\ Room
  /\ \/ \E k \in Keys, pressed \in BOOLEAN : InjectKey(Main, k, pressed)
     \/ ~g_raw_mouse_active /\ InjectMouse(Main)
  /\ UNCHANGED <<queueVars, lifeVars, calls, client>>

\* raw_mouse_tap_cb, from the tap's run loop.
RawMouseTap ==
  /\ g_raw_mouse_active /\ Idle(Tap) /\ Room
  /\ InjectMouse(Tap)
  /\ UNCHANGED <<queueVars, lifeVars, calls, client>>

-----------------------------------------------------------------------------
(* The main thread's calls.                                                 *)

Return(label) == Idle(Main) /\ calls # << >> /\ Head(calls) = label

\* libinput_udev_create_context.  The client then dispatches and takes what
\* there is, as it does after every wake-up.
CreateContext ==
  LET drain == <<"libinput_dispatch", "libinput_get_event">>
  IN /\ InLoop /\ pipe # "open"
     /\ pipe' = "open"
     /\ bytes' = 0
     /\ connected' = TRUE
     /\ IF connected
          THEN /\ calls' = drain
               /\ UNCHANGED <<num_devices, todo>>
          ELSE /\ EnsureDevices(Main, << >>)
               /\ calls' = <<"sdl_backend_init">> \o drain
     /\ UNCHANGED <<ev, stateVars, g_inited, g_raw_mouse_active, pc, seen,
                    raced, client>>

\* libinput_unref: the queue, the devices and their state stay.
Unref ==
  /\ InLoop /\ pipe = "open"
  /\ pipe' = "closed"
  /\ bytes' = 0
  /\ UNCHANGED <<num_devices, ev, stateVars, lifeVars, calls, todo, pc, seen,
                 raced, client>>

\* sdl_backend_init when it has something to do: from libinput or from a
\* program that presents a surface first.
SdlBackendInit ==
  /\ \/ InLoop /\ calls' = <<"start_raw_mouse_capture">>
     \/ Return("sdl_backend_init")
        /\ calls' = <<"start_raw_mouse_capture">> \o Tail(calls)
  /\ ~g_inited
  /\ g_inited' = TRUE
  /\ EnsureDevices(Main, << >>)
  /\ UNCHANGED <<queueVars, stateVars, connected, g_raw_mouse_active, client>>

\* There is nothing to do, or SDL_Init fails.
SdlBackendInitNot ==
  /\ Return("sdl_backend_init")
  /\ calls' = Tail(calls)
  /\ UNCHANGED <<queueVars, stateVars, lifeVars, num_devices, todo, client>>

\* start_raw_mouse_capture: without permission there is no tap.
StartRawMouseCapture ==
  /\ Return("start_raw_mouse_capture")
  /\ calls' = Tail(calls)
  /\ g_raw_mouse_active' \in BOOLEAN
  /\ UNCHANGED <<queueVars, stateVars, connected, g_inited, num_devices, todo,
                 client>>

\* poll() finds the pipe readable: the client will dispatch.
Readable == pipe = "open" /\ bytes > 0

Wake ==
  /\ InLoop /\ Readable
  /\ calls' = <<"libinput_dispatch", "libinput_get_event">>
  /\ UNCHANGED <<queueVars, stateVars, lifeVars, num_devices, todo, client>>

\* libinput_dispatch
Dispatch ==
  /\ Return("libinput_dispatch")
  /\ bytes' = 0
  /\ calls' = Tail(calls)
  /\ UNCHANGED <<ev, pipe, pc, seen, raced, stateVars, lifeVars, num_devices,
                 todo, client>>

\* What an event tells the client, and whether it makes sense to it.
Pressed(c, e) == CASE e.type = "PRESSED"  -> c.pressed \cup {e.code}
                   [] e.type = "RELEASED" -> c.pressed \ {e.code}
                   [] OTHER               -> c.pressed
Kind(device) == IF device = "keyboard" THEN Keys ELSE Buttons
MakesSense(c, e) ==
  CASE e.type = "DEVICE_ADDED" -> e.device \notin c.told
    [] e.type = "MOTION"       -> e.device \in c.told
    [] OTHER -> /\ e.device \in c.told
                /\ Pressed(c, e) # c.pressed
                /\ e.count = Cardinality(Pressed(c, e) \cap Kind(e.device))
Takes(c, e) ==
  [told |-> IF e.type = "DEVICE_ADDED" THEN c.told \cup {e.device} ELSE c.told,
   pressed |-> Pressed(c, e),
   sane |-> c.sane /\ MakesSense(c, e)]

\* libinput_get_event, until it returns NULL.
GetEvent ==
  /\ Return("libinput_get_event")
  /\ IF ev = << >>
       THEN calls' = Tail(calls) /\ UNCHANGED <<ev, client>>
       ELSE /\ client' = Takes(client, Head(ev))
            /\ ev' = Tail(ev)
            /\ UNCHANGED calls
  /\ UNCHANGED <<pipe, bytes, pc, seen, raced, stateVars, lifeVars, num_devices,
                 todo>>

-----------------------------------------------------------------------------
QueueStep(t) ==
  QueueEvent(t) \/ QueueEventUnlocked(t) \/ Overwrite(t) \/ WriteByte(t)

MainStep ==
  \/ SdlBackendInitNot
  \/ StartRawMouseCapture
  \/ Dispatch
  \/ GetEvent

InputNext ==
  \/ \E t \in Injectors : QueueStep(t)
  \/ HandleSdlEvent
  \/ RawMouseTap
  \/ CreateContext
  \/ Unref
  \/ SdlBackendInit
  \/ Wake
  \/ MainStep

InputSpec == InputInit /\ [][InputNext]_inputVars

\* Threads go on with what they are in, and every round of the main loop polls:
\* a pipe that is readable again and again is read.  Nobody has to press a key.
InputFairness ==
  /\ \A t \in Injectors : WF_inputVars(QueueStep(t))
  /\ WF_inputVars(MainStep)
  /\ SF_inputVars(Wake)

InputFairSpec == InputSpec /\ InputFairness

-----------------------------------------------------------------------------
Codes == Keys \cup Buttons
Types == {"DEVICE_ADDED", "PRESSED", "RELEASED", "MOTION"}
EventType == [type : Types, device : Devices, code : Codes \cup {None}, count : Int]

\* The types of libinput.c's static state and of the threads in it; the counters
\* of pressed keys and buttons are those of their bit maps.
InputTypeOK ==
  /\ connected \in BOOLEAN
  /\ num_devices \in {0, 2}
  /\ ev \in Seq(EventType)
  /\ pipe \in {"zero", "open", "closed"}
  /\ bytes \in 0 .. PipeCapacity
  /\ key_state_map \subseteq Keys /\ pressed_keys = Cardinality(key_state_map)
  /\ button_state_mask \subseteq Buttons
  /\ pressed_buttons = Cardinality(button_state_mask)
  /\ {g_inited, g_raw_mouse_active, raced} \subseteq BOOLEAN
  /\ calls \in Seq(Calls)
  /\ todo \in [Injectors -> Seq(EventType)]
  /\ pc \in [Injectors -> {"append", "overwrite", "write"}]
  /\ seen \in [Injectors -> Seq(EventType)]
  /\ client.told \subseteq Devices /\ client.pressed \subseteq Codes
  /\ client.sane \in BOOLEAN

\* What thread t has made and not yet put into the queue.
Unqueued(t) == IF pc[t] = "write" THEN Tail(todo[t]) ELSE todo[t]

\* What a client that knows c learns from the events q, one after the other.
Known(q, c) ==
  LET known[i \in 0 .. Len(q)] == IF i = 0 THEN c ELSE Takes(known[i - 1], q[i])
  IN  known
Learnt(q, c) == Known(q, c)[Len(q)]

\* What the client will know when it has taken all events that are under way.
WillKnow == Learnt(Unqueued(Tap), Learnt(Unqueued(Main), Learnt(ev, client)))

\* After the events that are under way the client will know exactly the keys and
\* buttons that are down, each event having told a change, with the right count
\* for its seat, of a device the client knew: though key_state_map and
\* button_state_mask are read and written without a lock by whichever thread
\* injects, and events are queued later still.  (Before there is a context there
\* is no lock either and events may be overwritten.)
ClientInStep ==
  raced \/ (WillKnow.sane /\ WillKnow.pressed = key_state_map \cup button_state_mask)

\* What libinput.c keeps of keys, buttons and its queue, and of what the client
\* believes of them.
InputInv == InputTypeOK /\ ClientInStep

\* While the compositor sleeps in poll() on an open pipe, whatever is in the queue
\* has a byte in the pipe or a thread about to write one (queue_event writes
\* after its unlock, libinput_dispatch empties the pipe before the first event
\* is taken): no key press waits for the next one to be noticed.
NoLostWakeup ==
  (/\ calls = << >> /\ pipe = "open" /\ ev # << >>
   /\ \A t \in Injectors : pc[t] # "write") => bytes > 0

\* An event in the queue is noticed: the compositor comes to take events, or has
\* closed the context.
WokenUp == ev # << >> ~> (Return("libinput_get_event") \/ pipe # "open")
=============================================================================
