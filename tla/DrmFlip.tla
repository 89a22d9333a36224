------------------------------ MODULE DrmFlip ------------------------------
(***************************************************************************)
(* Page-flip completion in shims/drm/drm/src/drm_linux.c.  A flip or an    *)
(* atomic commit puts one event per CRTC into a ring and then writes one   *)
(* byte into the pipe whose read end is the virtual DRM fd;                *)
(* drmHandleEvent reads one byte and reports every event it then finds.    *)
(* Ring and pipe are two pieces of state that no common lock covers.       *)
(*                                                                         *)
(* An event is the id of its CRTC: the user_data pointer sits in the same  *)
(* slot and goes with it.  The pipe exists (wayland_mac_load creates it    *)
(* before main), so g_drm_event_pipe_write >= 0.                           *)
(***************************************************************************)
EXTENDS Integers, Sequences

CONSTANTS Threads,          \* threads that flip or commit
          Loops,            \* those among them that run drmHandleEvent
          NCrtcs,           \* get_display_count()
          MAX_FLIP_EVENTS,  \* 64 in the code
          PipeCapacity      \* bytes the kernel buffers before write() blocks

ASSUME LoopsAssumption    == Loops \subseteq Threads
ASSUME CrtcsAssumption    == NCrtcs \in Nat \ {0}
ASSUME RingAssumption     == MAX_FLIP_EVENTS \in Nat \ {0, 1}
ASSUME PipeAssumption     == PipeCapacity \in Nat \ {0}

Crtcs == 1 .. NCrtcs

VARIABLES
  g_flip_events,  \* the ring
  head,           \* g_flip_ev_head, the next slot to fill
  tail,           \* g_flip_ev_tail, the oldest event
  bytes,          \* unread bytes in the pipe
  pc,             \* where each thread is
  back,           \* where it goes on when its flip or commit returns
  todo,           \* the CRTCs it has still to enqueue an event for
  crtc_id         \* the event drmHandleEvent reports (its local), or 0

flipVars == <<g_flip_events, head, tail, bytes, pc, back, todo, crtc_id>>

Slots == 0 .. MAX_FLIP_EVENTS - 1

Labels == {"idle",     \* outside these functions
           "enqueue",  \* in drmModePageFlip or drmModeAtomicCommit
           "write",    \* there, before the write to the pipe
           "drain",    \* in drmHandleEvent, before dequeue_flip_event
           "handler"}  \* in drmHandleEvent, in the client's handler

Init ==
  /\ g_flip_events \in [Slots -> {0}]
  /\ head = 0
  /\ tail = 0
  /\ bytes = 0
  /\ pc = [t \in Threads |-> "idle"]
  /\ back = [t \in Threads |-> "idle"]
  /\ todo = [t \in Threads |-> << >>]
  /\ crtc_id = [t \in Threads |-> 0]

After(i) == (i + 1) % MAX_FLIP_EVENTS

\* A call that will enqueue events for the CRTCs of s; a handler may make one.
Submit(t, s) ==
  /\ pc[t] \in {"idle", "handler"}
  /\ pc' = [pc EXCEPT ![t] = "enqueue"]
  /\ back' = [back EXCEPT ![t] = pc[t]]
  /\ todo' = [todo EXCEPT ![t] = s]
  /\ UNCHANGED <<g_flip_events, head, tail, bytes, crtc_id>>

\* drmModePageFlip: its flags are ignored, every flip is signalled.
PageFlip(t, c) == Submit(t, <<c>>)

\* drmModeAtomicCommit with DRM_MODE_PAGE_FLIP_EVENT: one event per CRTC whose
\* FB_ID is in the request, in the order of the request, or one for CRTC 1.
AtomicCommit(t, flip_crtcs) ==
  Submit(t, IF flip_crtcs = << >> THEN <<1>> ELSE flip_crtcs)

\* A slip: a full ring is not noticed.
EnqueueNoDrop(t) ==
  /\ pc[t] = "enqueue"
  /\ g_flip_events' = [g_flip_events EXCEPT ![head] = Head(todo[t])]
  /\ head' = After(head)
  /\ todo' = [todo EXCEPT ![t] = Tail(@)]
  /\ pc' = [pc EXCEPT ![t] = IF Tail(todo[t]) = << >> THEN "write" ELSE @]
  /\ UNCHANGED <<tail, bytes, back, crtc_id>>

\* enqueue_flip_event, under g_flip_ev_lock.
Enqueue(t) ==
  /\ pc[t] = "enqueue"
  /\ tail' = IF After(head) = tail THEN After(tail) ELSE tail
  /\ g_flip_events' = [g_flip_events EXCEPT ![head] = Head(todo[t])]
  /\ head' = After(head)
  /\ todo' = [todo EXCEPT ![t] = Tail(@)]
  /\ pc' = [pc EXCEPT ![t] = IF Tail(todo[t]) = << >> THEN "write" ELSE @]
  /\ UNCHANGED <<bytes, back, crtc_id>>

\* The write of one byte: it blocks while the pipe is full.
WriteByte(t) ==
  /\ pc[t] = "write"
  /\ bytes < PipeCapacity
  /\ bytes' = bytes + 1
  /\ pc' = [pc EXCEPT ![t] = back[t]]
  /\ UNCHANGED <<g_flip_events, head, tail, back, todo, crtc_id>>

\* drmHandleEvent: the blocking read of one byte.
ReadByte(t) ==
  /\ pc[t] = "idle"
  /\ bytes > 0
  /\ bytes' = bytes - 1
  /\ pc' = [pc EXCEPT ![t] = "drain"]
  /\ UNCHANGED <<g_flip_events, head, tail, back, todo, crtc_id>>

\* A slip: drmHandleEvent reports one event per byte and returns.
DequeueOne(t) ==
  /\ pc[t] = "drain"
  /\ pc' = [pc EXCEPT ![t] = "idle"]
  /\ tail' = IF head = tail THEN tail ELSE After(tail)
  /\ UNCHANGED <<g_flip_events, head, bytes, back, todo, crtc_id>>

\* A slip: every event is reported as CRTC 1's.
DequeueAsFirst(t) ==
  /\ pc[t] = "drain"
  /\ IF head = tail
       THEN /\ pc' = [pc EXCEPT ![t] = "idle"]
            /\ UNCHANGED <<tail, crtc_id>>
       ELSE /\ pc' = [pc EXCEPT ![t] = "handler"]
            /\ crtc_id' = [crtc_id EXCEPT ![t] = 1]
            /\ tail' = After(tail)
  /\ UNCHANGED <<g_flip_events, head, bytes, back, todo>>

\* dequeue_flip_event, under g_flip_ev_lock: an event goes to the handler, an
\* empty ring ends drmHandleEvent.
Dequeue(t) ==
  /\ pc[t] = "drain"
  /\ IF head = tail
       THEN /\ pc' = [pc EXCEPT ![t] = "idle"]
            /\ UNCHANGED <<tail, crtc_id>>
       ELSE /\ pc' = [pc EXCEPT ![t] = "handler"]
            /\ crtc_id' = [crtc_id EXCEPT ![t] = g_flip_events[tail]]
            /\ tail' = After(tail)
  /\ UNCHANGED <<g_flip_events, head, bytes, back, todo>>

\* The client's handler returns to the loop of drmHandleEvent.
HandlerReturn(t) ==
  /\ pc[t] = "handler"
  /\ pc' = [pc EXCEPT ![t] = "drain"]
  /\ crtc_id' = [crtc_id EXCEPT ![t] = 0]
  /\ UNCHANGED <<g_flip_events, head, tail, bytes, back, todo>>

\* Requests name a CRTC once (the code drops repetitions).
Requests == {s \in UNION {[1 .. n -> Crtcs] : n \in 0 .. NCrtcs} :
               \A i, j \in DOMAIN s : s[i] = s[j] => i = j}

Next ==
  \/ \E t \in Threads :
       \/ \E c \in Crtcs : PageFlip(t, c)
       \/ \E s \in Requests : AtomicCommit(t, s)
       \/ Enqueue(t)
       \/ WriteByte(t)
  \/ \E t \in Loops : ReadByte(t) \/ Dequeue(t) \/ HandlerReturn(t)

Spec == Init /\ [][Next]_flipVars

-----------------------------------------------------------------------------
\* The events of the ring, oldest first.
Pending ==
  [i \in 1 .. (head - tail) % MAX_FLIP_EVENTS |->
     g_flip_events[(tail + i - 1) % MAX_FLIP_EVENTS]]

\* The ring, the pipe and the threads of drm_linux.c hold what they may hold.
TypeOK ==
  /\ g_flip_events \in [Slots -> 0 .. NCrtcs]
  /\ head \in Slots
  /\ tail \in Slots
  /\ bytes \in 0 .. PipeCapacity
  /\ pc \in [Threads -> Labels]
  /\ back \in [Threads -> {"idle", "handler"}]
  /\ todo \in [Threads -> Seq(Crtcs)]
  /\ crtc_id \in [Threads -> 0 .. NCrtcs]
  /\ \A t \in Threads : pc[t] = "enqueue" => todo[t] # << >>

\* No wake-up of drmHandleEvent is lost: while events wait in the ring there
\* is a byte in the pipe, a byte about to be written, or a drmHandleEvent that
\* will look at the ring again.
NoLostWakeup ==
  \/ head = tail
  \/ bytes > 0
  \/ \E t \in Threads : pc[t] # "idle"

\* The ring behaves as a bounded queue that gives up its oldest event: flips
\* are reported in the order they were made, whatever thread made them.
FlipQueue == INSTANCE AbstractFlipQueue
               WITH queue <- Pending, Capacity <- MAX_FLIP_EVENTS - 1

RingIsQueue == FlipQueue!Spec

=============================================================================
