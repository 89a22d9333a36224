----------------------------- MODULE SdlBackend -----------------------------
(***************************************************************************)
(* Presenting surfaces (sdl_backend.m) and the pump that the hooked calls  *)
(* of wayland-mac.c run.  Any thread may present; only the main thread     *)
(* renders, initialises and shuts down, and other threads hand it a block  *)
(* with dispatch_sync() and wait.  The main thread has no run loop of its  *)
(* own here: it gets at blocks only inside SDL_PollEvent(), that is, in a  *)
(* pump, and a pump does something only when SDL is initialised.  Hooked   *)
(* calls come from epoll-shim too, which makes them with the mutex of an   *)
(* epoll descriptor held, on the main thread as on any other.              *)
(*                                                                         *)
(* A surface is shown when a window's layer has it.  Windows and sizes are *)
(* left out, and a window is always created; events that a pump translates *)
(* are in LibInput, flips in DrmFlip.                                      *)
(***************************************************************************)
EXTENDS Integers, FiniteSets

CONSTANTS Workers,       \* threads other than the main thread
          Surfaces,
          CrtcIds,       \* ids of CRTCs; 1 is one of them
          Owner,         \* per CRTC, the thread that presents to it
          MAX_CRTCS,     \* 16 in the code
          Epfds, epfd,   \* epoll descriptors, and the one each thread waits on
          None

Main == "main"
Threads == Workers \cup {Main}

ASSUME ThreadsAssumption == Main \notin Workers /\ None \notin Threads \cup Surfaces
ASSUME OwnersAssumption == 1 \in CrtcIds /\ Owner \in [CrtcIds -> Threads]
ASSUME EpfdsAssumption == epfd \in [Threads -> Epfds]
ASSUME MaxCrtcsAssumption == MAX_CRTCS \in Nat

Slots == 1 .. MAX_CRTCS

VARIABLES
  g_inited,
  g_crtcs, g_crtc_count,
  g_pending_surface,
  refs,              \* per surface, how often this module has retained it
  pc, arg,           \* per thread, where it is and what it presents where
  block,             \* per thread, the block it waits for: None, "init", ...
  serving,           \* the thread whose pump the main thread runs, or None
  mutex,             \* per epoll descriptor, the thread in epoll-shim that has
                     \* its desc->mutex, or None
  latest,            \* per CRTC, the last surface its owner presented
  behind,            \* CRTCs whose last surface had to wait for SDL, or that
                     \* show one that had waited
  late               \* a shutdown has taken a slot that a thread was about to fill

sdlVars == <<g_inited, g_crtcs, g_crtc_count, g_pending_surface, refs, pc, arg,
          block, serving, mutex, latest, behind, late>>
crtcVars == <<g_crtcs, g_crtc_count, g_pending_surface, refs, late>>

NoSlot == [crtc_id |-> None, surface |-> None, dirty |-> FALSE,
           has_window |-> FALSE, shown |-> None]
NoArg == [surface |-> None, crtc_id |-> None, slot |-> None, pump |-> FALSE]

SdlInit ==
  /\ g_inited = FALSE
  /\ g_crtcs = [i \in Slots |-> NoSlot]
  /\ g_crtc_count = 0
  /\ g_pending_surface = None
  /\ refs = [s \in Surfaces |-> 0]
  /\ pc = [t \in Threads |-> "idle"]
  /\ arg = [t \in Threads |-> NoArg]
  /\ block = [t \in Threads |-> None]
  /\ serving = None
  /\ mutex = [e \in Epfds |-> None]
  /\ latest = [c \in CrtcIds |-> None]
  /\ behind = {}
  /\ late = FALSE

Goto(t, label) == pc' = [pc EXCEPT ![t] = label]

\* The retain counts after releasing one surface and retaining another.
Exchanged(old, new) ==
  [s \in Surfaces |-> refs[s] - (IF s = old THEN 1 ELSE 0)
                              + (IF s = new THEN 1 ELSE 0)]

-----------------------------------------------------------------------------
(* Rendering, under g_crtc_lock.                                            *)

\* A slip: only CRTCs that have no window yet are rendered.
NeedsWindow(c) == c.surface # None /\ ~c.has_window

NeedsRender(c) == c.surface # None /\ (c.dirty \/ ~c.has_window)

\* render_dirty_crtcs_locked and render_crtc_locked
Rendered ==
  [i \in Slots |->
     IF i <= g_crtc_count /\ NeedsRender(g_crtcs[i])
       THEN [g_crtcs[i] EXCEPT !.has_window = TRUE, !.dirty = FALSE,
                               !.shown = g_crtcs[i].surface]
       ELSE g_crtcs[i]]

-----------------------------------------------------------------------------
(* sdl_present_iosurface_for_crtc                                           *)

\* Bound: when a surface has been late once, no more are presented.
Present(t, s, c) ==
  /\ pc[t] = "idle" /\ Owner[c] = t /\ ~late
  /\ arg' = [arg EXCEPT ![t] = [NoArg EXCEPT !.surface = s, !.crtc_id = c]]
  /\ latest' = [latest EXCEPT ![c] = s]
  /\ Goto(t, IF g_inited THEN "get" ELSE "init")
  /\ UNCHANGED <<g_inited, crtcVars, block, serving, mutex, behind>>

\* sdl_backend_init on the main thread, for itself; SDL_Init may fail.
InitMain ==
  /\ pc[Main] = "init"
  /\ g_inited' \in BOOLEAN
  /\ Goto(Main, IF g_inited' THEN "get" ELSE "pend")
  /\ UNCHANGED <<crtcVars, arg, block, serving, mutex, latest, behind>>

\* The same from libinput_udev_create_context, with nothing to present.
InitAlone ==
  /\ pc[Main] = "idle" /\ ~g_inited
  /\ g_inited' = TRUE
  /\ UNCHANGED <<crtcVars, pc, arg, block, serving, mutex, latest, behind>>

\* On another thread it hands the main thread a block and waits.
InitWorker(w) ==
  /\ pc[w] = "init"
  /\ IF g_inited THEN Goto(w, "get") /\ UNCHANGED block
     ELSE /\ block' = [block EXCEPT ![w] = "init"]
          /\ Goto(w, "initialised")
  /\ UNCHANGED <<g_inited, crtcVars, arg, serving, mutex, latest, behind>>

Initialised(w) ==
  /\ pc[w] = "initialised" /\ block[w] = None
  /\ Goto(w, IF g_inited THEN "get" ELSE "pend")
  /\ UNCHANGED <<g_inited, crtcVars, arg, block, serving, mutex, latest, behind>>

\* Where a thread goes on that has presented its surface, or left it waiting: a
\* pump has still to release the one it took.
CallEnds(t) ==
  IF arg[t].pump THEN Goto(t, "drained") /\ UNCHANGED arg
  ELSE Goto(t, "idle") /\ arg' = [arg EXCEPT ![t] = NoArg]

\* Without SDL the surface waits for whoever pumps first.
Pend(t) ==
  /\ pc[t] = "pend"
  /\ g_pending_surface' = arg[t].surface
  /\ refs' = Exchanged(g_pending_surface, arg[t].surface)
  /\ behind' = IF arg[t].pump THEN behind ELSE behind \cup {arg[t].crtc_id}
  /\ CallEnds(t)
  /\ UNCHANGED <<g_inited, g_crtcs, g_crtc_count, late, block, serving, mutex,
                 latest>>

\* A slip: the first slot is taken for the CRTC's without a look at its id.
SlotsOfAny(crtc_id) == {i \in Slots : i <= g_crtc_count}

SlotsOf(crtc_id) == {i \in Slots : i <= g_crtc_count /\ g_crtcs[i].crtc_id = crtc_id}

\* get_or_create_crtc, which gives g_crtc_lock up again; without room there is
\* nothing to present to.
GetOrCreateCrtc(t) ==
  /\ pc[t] = "get"
  /\ LET found == SlotsOf(arg[t].crtc_id)
         new == g_crtc_count + 1
     IN \/ /\ found # {}
           /\ arg' = [arg EXCEPT ![t] = [arg[t] EXCEPT !.slot = CHOOSE i \in found : TRUE]]
           /\ Goto(t, "set")
           /\ UNCHANGED <<g_crtcs, g_crtc_count>>
        \/ /\ found = {} /\ g_crtc_count < MAX_CRTCS
           /\ g_crtcs' = [g_crtcs EXCEPT ![new] = [NoSlot EXCEPT !.crtc_id = arg[t].crtc_id]]
           /\ g_crtc_count' = new
           /\ arg' = [arg EXCEPT ![t] = [arg[t] EXCEPT !.slot = new]]
           /\ Goto(t, "set")
        \/ /\ found = {} /\ g_crtc_count = MAX_CRTCS
           /\ Goto(t, "presented")
           /\ UNCHANGED <<g_crtcs, g_crtc_count, arg>>
  /\ UNCHANGED <<g_inited, g_pending_surface, refs, late, block, serving, mutex,
                 latest, behind>>

Assigned(c, s) == [c EXCEPT !.surface = s, !.dirty = TRUE]

\* g_crtc_lock is taken again; the slot may have been given up since.
SetSurface(t) ==
  /\ pc[t] = "set"
  /\ LET i == arg[t].slot
         c == g_crtcs[i]
     IN /\ g_crtcs' = [g_crtcs EXCEPT ![i] = Assigned(c, arg[t].surface)]
        /\ refs' = Exchanged(c.surface, arg[t].surface)
  /\ behind' = IF arg[t].pump THEN behind \cup {arg[t].crtc_id}
                              ELSE behind \ {arg[t].crtc_id}
  /\ Goto(t, "presented")
  /\ UNCHANGED <<g_inited, g_crtc_count, g_pending_surface, late, arg, block,
                 serving, mutex, latest>>

\* On the main thread every dirty CRTC is rendered at once; elsewhere it waits for
\* the next pump.
Presented(t) ==
  /\ pc[t] = "presented"
  /\ g_crtcs' = IF t = Main THEN Rendered ELSE g_crtcs
  /\ CallEnds(t)
  /\ UNCHANGED <<g_inited, g_crtc_count, g_pending_surface, refs, late, block,
                 serving, mutex, latest, behind>>

-----------------------------------------------------------------------------
(* sdl_backend_pump_events on the main thread, before and after each hooked *)
(* poll(), select() or kevent().                                            *)

\* A hooked call pumps before and after it waits.  Epoll-shim's own calls, of
\* epoll_wait() and epoll_ctl(), are made with the descriptor's mutex.
HookedCall ==
  /\ pc[Main] = "idle" /\ g_inited
  /\ \E label \in {"poll", "lock"} : Goto(Main, label)
  /\ UNCHANGED <<g_inited, crtcVars, arg, block, serving, mutex, latest, behind>>

LockMain ==
  /\ pc[Main] = "lock" /\ mutex[epfd[Main]] = None
  /\ mutex' = [mutex EXCEPT ![epfd[Main]] = Main]
  /\ Goto(Main, "poll")
  /\ UNCHANGED <<g_inited, crtcVars, arg, block, serving, latest, behind>>

\* Inside SDL_PollEvent() a block of the main queue runs, unless this pump is
\* itself such a block: SDL is initialised, which may fail, if a shutdown came
\* first; or a pump is run for the thread that asked, unless SDL is down.
Serve(w) ==
  /\ pc[Main] = "poll" /\ serving = None
  /\ \/ /\ block[w] = "init"
        /\ IF g_inited THEN UNCHANGED g_inited ELSE g_inited' \in BOOLEAN
        /\ block' = [block EXCEPT ![w] = None]
        /\ UNCHANGED serving
     \/ /\ block[w] = "pump" /\ g_inited
        /\ serving' = w
        /\ UNCHANGED <<g_inited, block>>
     \/ /\ block[w] = "pump" /\ ~g_inited
        /\ block' = [block EXCEPT ![w] = None]
        /\ UNCHANGED <<g_inited, serving>>
  /\ UNCHANGED <<crtcVars, pc, arg, mutex, latest, behind>>

\* SDL has no more events; is there anything to render or to drain?
PollEnds ==
  /\ pc[Main] = "poll"
  /\ IF g_pending_surface # None
        \/ \E i \in Slots : i <= g_crtc_count /\ NeedsRender(g_crtcs[i])
       THEN Goto(Main, "flush") ELSE Goto(Main, "pumped")
  /\ UNCHANGED <<g_inited, crtcVars, arg, block, serving, mutex, latest, behind>>

Flush ==
  /\ pc[Main] = "flush"
  /\ g_crtcs' = Rendered
  /\ Goto(Main, "drain")
  /\ UNCHANGED <<g_inited, g_crtc_count, g_pending_surface, refs, late, arg, block,
                 serving, mutex, latest, behind>>

\* A surface that came before SDL was up is presented to CRTC 1, by the call that
\* presents any other: it initialises SDL if a shutdown came in between.
Drain ==
  /\ pc[Main] = "drain"
  /\ g_pending_surface' = None
  /\ IF g_pending_surface = None
       THEN Goto(Main, "pumped") /\ UNCHANGED arg
       ELSE /\ arg' = [arg EXCEPT ![Main] = [surface |-> g_pending_surface,
                                            crtc_id |-> 1, slot |-> None,
                                            pump |-> TRUE]]
            /\ Goto(Main, IF g_inited THEN "get" ELSE "init")
  /\ UNCHANGED <<g_inited, g_crtcs, g_crtc_count, refs, late, block, serving,
                 mutex, latest, behind>>

Drained ==
  /\ pc[Main] = "drained"
  /\ refs' = Exchanged(arg[Main].surface, None)
  /\ arg' = [arg EXCEPT ![Main] = NoArg]
  /\ Goto(Main, "pumped")
  /\ UNCHANGED <<g_inited, g_crtcs, g_crtc_count, g_pending_surface, late, block,
                 serving, mutex, latest, behind>>

\* The mutexes when a thread gives up its descriptor's, if it has it.
Unlocked(t) == [mutex EXCEPT ![epfd[t]] = IF mutex[epfd[t]] = t THEN None ELSE @]

\* A pump that was a block returns into the pump that ran it.
Pumped ==
  /\ pc[Main] = "pumped"
  /\ serving' = None
  /\ IF serving = None
       THEN /\ mutex' = Unlocked(Main)
            /\ Goto(Main, "idle")
            /\ UNCHANGED block
       ELSE /\ block' = [block EXCEPT ![serving] = None]
            /\ Goto(Main, "poll")
            /\ UNCHANGED mutex
  /\ UNCHANGED <<g_inited, crtcVars, arg, latest, behind>>

-----------------------------------------------------------------------------
(* Hooked calls of other threads, and sdl_backend_shutdown.                 *)

\* kevent() is hooked for epoll-shim too, which calls it with desc->mutex held.
WorkerCall(w, locked) ==
  /\ pc[w] = "idle" /\ g_inited
  /\ locked => mutex[epfd[w]] = None
  /\ mutex' = IF locked THEN [mutex EXCEPT ![epfd[w]] = w] ELSE mutex
  /\ block' = [block EXCEPT ![w] = "pump"]
  /\ Goto(w, "called")
  /\ UNCHANGED <<g_inited, crtcVars, arg, serving, latest, behind>>

WorkerReturns(w) ==
  /\ pc[w] = "called" /\ block[w] = None
  /\ mutex' = Unlocked(w)
  /\ Goto(w, "idle")
  /\ UNCHANGED <<g_inited, crtcVars, arg, block, serving, latest, behind>>

\* Every slot gives up its surface and its window, and then there is none.
ShutDown ==
  /\ g_inited' = FALSE
  /\ g_crtcs' = [i \in Slots |->
                   IF i > g_crtc_count THEN g_crtcs[i]
                   ELSE [g_crtcs[i] EXCEPT !.surface = None, !.shown = None,
                                           !.has_window = FALSE]]
  /\ g_crtc_count' = 0
  /\ g_pending_surface' = None
  /\ refs' = [s \in Surfaces |->
                refs[s] - Cardinality({i \in 1 .. g_crtc_count : g_crtcs[i].surface = s})
                        - (IF g_pending_surface = s THEN 1 ELSE 0)]
  /\ late' = (late \/ \E w \in Workers : pc[w] = "set")

\* sdl_backend_shutdown on the main thread.
Shutdown ==
  /\ pc[Main] = "idle" /\ g_inited
  /\ ShutDown
  /\ UNCHANGED <<pc, arg, block, serving, mutex, latest, behind>>

\* Elsewhere it is a block, which runs inside a pump of the main thread.
WorkerShutdown(w) ==
  /\ pc[w] = "idle" /\ g_inited
  /\ block' = [block EXCEPT ![w] = "shutdown"]
  /\ Goto(w, "called")
  /\ UNCHANGED <<g_inited, crtcVars, arg, serving, mutex, latest, behind>>

ServeShutdown(w) ==
  /\ pc[Main] = "poll" /\ serving = None /\ block[w] = "shutdown"
  /\ IF g_inited THEN ShutDown ELSE UNCHANGED <<g_inited, crtcVars>>
  /\ block' = [block EXCEPT ![w] = None]
  /\ UNCHANGED <<pc, arg, serving, mutex, latest, behind>>

-----------------------------------------------------------------------------
MainStep ==
  \/ InitMain \/ Pend(Main) \/ GetOrCreateCrtc(Main) \/ SetSurface(Main)
  \/ Presented(Main) \/ PollEnds \/ Flush \/ Drain \/ Drained \/ Pumped

WorkerStep(w) ==
  \/ InitWorker(w) \/ Initialised(w) \/ Pend(w) \/ GetOrCreateCrtc(w)
  \/ SetSurface(w) \/ Presented(w) \/ WorkerReturns(w)

SdlNext ==
  \/ MainStep
  \/ \E w \in Workers : WorkerStep(w)
  \/ \E t \in Threads, s \in Surfaces, c \in CrtcIds : Present(t, s, c)
  \/ InitAlone
  \/ HookedCall \/ LockMain
  \/ \E w \in Workers : Serve(w) \/ ServeShutdown(w) \/ WorkerShutdown(w)
  \/ \E w \in Workers, locked \in BOOLEAN : WorkerCall(w, locked)
  \/ Shutdown

SdlSpec == SdlInit /\ [][SdlNext]_sdlVars

\* Threads go on with what they are in; the main loop makes a hooked call in every
\* round, but may have to wait for a mutex then; a mutex that is free again and
\* again is got; and SDL_PollEvent() runs what is in the main queue.
Fairness ==
  /\ WF_sdlVars(MainStep)
  /\ \A w \in Workers : WF_sdlVars(WorkerStep(w)) /\ SF_sdlVars(Serve(w) \/ ServeShutdown(w))
  /\ SF_sdlVars(HookedCall) /\ SF_sdlVars(LockMain)

FairSpec == SdlSpec /\ Fairness

-----------------------------------------------------------------------------
\* The types of sdl_backend.m's static state and of the threads in it.
SdlTypeOK ==
  /\ {g_inited, late} \subseteq BOOLEAN
  /\ g_crtc_count \in 0 .. MAX_CRTCS
  /\ \A i \in Slots :
       g_crtcs[i] \in [crtc_id : CrtcIds \cup {None}, surface : Surfaces \cup {None},
                       dirty : BOOLEAN, has_window : BOOLEAN,
                       shown : Surfaces \cup {None}]
  /\ \A i, j \in 1 .. g_crtc_count : g_crtcs[i].crtc_id = g_crtcs[j].crtc_id => i = j
  /\ g_pending_surface \in Surfaces \cup {None}
  /\ refs \in [Surfaces -> Nat]
  /\ block \in [Threads -> {None, "init", "pump", "shutdown"}]
  /\ serving \in Workers \cup {None}
  /\ mutex \in [Epfds -> Threads \cup {None}]
  /\ behind \subseteq CrtcIds
  /\ latest \in [CrtcIds -> Surfaces \cup {None}]

\* Who holds a surface: a slot, whether counted or not, the place for the pending
\* one, and a pump that is presenting it.
Held(s) ==
  Cardinality({i \in Slots : g_crtcs[i].surface = s})
    + (IF g_pending_surface = s THEN 1 ELSE 0)
    + (IF arg[Main].pump /\ arg[Main].surface = s THEN 1 ELSE 0)

\* Each surface is retained once for each place that holds it, so that none is
\* freed while a CRTC is about to render it and none outlives all of them,
\* whichever threads present it.  (A surface that is late, its slot given up by
\* a shutdown, is leaked when the slot is used again.)
RetainsMatch == late \/ \A s \in Surfaces : refs[s] = Held(s)

\* What a CRTC shows is its surface as soon as it is not dirty, so that nothing
\* presented is forgotten between the thread that presents and the one that
\* renders.
CleanIsShown ==
  \A i \in 1 .. g_crtc_count :
    LET c == g_crtcs[i]
    IN c.surface # None /\ ~c.dirty /\ c.has_window => c.shown = c.surface

\* A CRTC shows what its owner presented last, not another CRTC's surface and not
\* an older one, also after SDL could not be initialised for a while.  (A CRTC is
\* behind from when its surface had to wait, or a pump presented one to it that
\* had, until its owner presents again.)
ShowsLatest ==
  \A i \in 1 .. g_crtc_count :
    LET c == g_crtcs[i]
    IN (c.surface # None /\ c.crtc_id \in CrtcIds \ behind
          /\ pc[Owner[c.crtc_id]] \in {"idle", "called"})
         => c.surface = latest[c.crtc_id]

\* The same while no shutdown has taken a slot that was about to be filled: such a
\* slot may have become another CRTC's by then.
LatestIsShown == late \/ ShowsLatest

\* A surface presented by any thread is rendered by the next pump, or SDL is shut
\* down.
PresentedIsShown ==
  \A i \in Slots : (g_crtcs[i].dirty /\ i <= g_crtc_count)
                     ~> (~g_crtcs[i].dirty \/ ~g_inited)

\* A thread that hands the main thread a block gets it back, be it inside epoll-shim
\* with a descriptor's mutex held, as long as SDL is up.  (Before it is, the main
\* thread's pump serves nothing.  It holds when the main thread waits on a
\* descriptor of its own: the hooked kevent() of wayland-mac.c pumps with the
\* descriptor's mutex held.)
BlocksServed ==
  \A w \in Workers : (block[w] # None /\ g_inited) ~> (block[w] = None \/ ~g_inited)

\* What sdl_backend.m keeps of its CRTCs between any two steps of its callers: who
\* holds a surface, what was rendered of it, and whose it is.
CrtcsInv ==
  /\ SdlTypeOK
  /\ RetainsMatch
  /\ CleanIsShown
  /\ LatestIsShown

\* What a thread hands to the main thread, a surface or a block, is served.
HandedOverIsServed == PresentedIsShown /\ BlocksServed

=============================================================================
