----------------------------- MODULE DrmFrames -----------------------------
(***************************************************************************)
(* The uses a client may make of DrmFlip.  One is a compositor's frame     *)
(* loop, as in test/kmscube.c: submit a frame to some displays, then call  *)
(* drmHandleEvent until each of its flips has been reported, then the next *)
(* frame.  One thread does it all, and submits the frame either as one     *)
(* atomic commit or, like kmscube -a, as one drmModePageFlip per display.  *)
(* The other is free: any thread flips whenever it likes.                  *)
(*                                                                         *)
(* kmscube counts the flips it waits for; here the client keeps the set of *)
(* displays, as a compositor with one repaint loop per output does.  An    *)
(* atomic client draws each display's frame through a gbm_surface of its   *)
(* own; kmscube has one for all, and shows each frame on all of them.  A   *)
(* swap that fails leaves the surface alone, and no frame is submitted.    *)
(***************************************************************************)
EXTENDS DrmFlip, GbmSurface, FiniteSets

VARIABLES
  use,      \* "atomic" or "flips", the two frame loops, or "free", all along
  phase,    \* "render", "submit" or "wait"
  left,     \* the displays the frame has still to be submitted to, in order
  waiting,  \* the displays whose flip has not been reported yet
  gbm,      \* the gbm_surfaces
  bo,       \* the buffer of each the client has locked last, or NoBo
  shown     \* the buffer each display shows, or NoBo

frameVars == <<phase, left, waiting, gbm, bo, shown>>
vars == <<flipVars, use, frameVars>>

\* kmscube draws a first frame and shows it with drmModeSetCrtc.
FramesInit ==
  /\ Init
  /\ use \in {"atomic", "flips", "free"}
  /\ phase = "render"
  /\ left = << >>
  /\ waiting = {}
  /\ IF use = "flips"
       THEN /\ gbm = [c \in Crtcs |-> LockFrontBuffer(SwapBuffers(NewSurface))]
            /\ bo = [c \in Crtcs |-> FrontBo(SwapBuffers(NewSurface))]
            /\ shown = bo
       ELSE /\ gbm = [c \in Crtcs |-> NewSurface]
            /\ bo = [c \in Crtcs |-> NoBo]
            /\ shown = bo

\* The surface the frames of display c are drawn through.
SurfaceFor(c) == IF use = "flips" THEN 1 ELSE c

\* A new frame for some of the displays: eglSwapBuffers on their surfaces, and
\* gbm_surface_lock_front_buffer for what it has drawn.
BeginFrame(t, displays) ==
  LET names == {displays[i] : i \in DOMAIN displays}
      drawn == {SurfaceFor(c) : c \in names}
  IN /\ phase = "render"
     /\ pc[t] = "idle"
     /\ use = "flips" => displays = [c \in Crtcs |-> c]
     /\ phase' = "submit"
     /\ left' = displays
     /\ waiting' = names
     /\ gbm' = [c \in Crtcs |->
                  IF c \in drawn THEN LockFrontBuffer(SwapBuffers(gbm[c]))
                  ELSE gbm[c]]
     /\ bo' = [c \in Crtcs |->
                 IF c \in drawn THEN FrontBo(SwapBuffers(gbm[c]))
                 ELSE bo[c]]
     /\ UNCHANGED <<flipVars, shown>>

\* The displays of s show the buffers the client has locked for them.
Shows(s) ==
  [c \in Crtcs |-> IF \E i \in DOMAIN s : s[i] = c THEN bo[SurfaceFor(c)]
                   ELSE shown[c]]

\* drmModePageFlip for the next display, or one commit for all of them.
SubmitFrame(t) ==
  /\ phase = "submit"
  /\ pc[t] = "idle"
  /\ left # << >>
  /\ IF use = "atomic"
       THEN /\ AtomicCommit(t, left)
            /\ left' = << >>
            /\ shown' = Shows(left)
       ELSE /\ PageFlip(t, Head(left))
            /\ left' = Tail(left)
            /\ shown' = Shows(<<Head(left)>>)
  /\ UNCHANGED <<phase, waiting, gbm, bo>>

\* The frame is out; select() has found the fd readable: drmHandleEvent.
HandleEvent(t) ==
  /\ phase \in {"submit", "wait"} /\ left = << >>
  /\ waiting # {}
  /\ ReadByte(t)
  /\ phase' = "wait"
  /\ UNCHANGED <<left, waiting, gbm, bo, shown>>

\* page_flip_handler: one flip less to wait for.
Handler(t) ==
  /\ HandlerReturn(t)
  /\ waiting' = waiting \ {crtc_id[t]}
  /\ UNCHANGED <<phase, left, gbm, bo, shown>>

\* Every flip was reported and drmHandleEvent has returned: the buffer of the
\* frame before is released, which does nothing, and the next frame begins.
FrameDone(t) ==
  /\ phase = "wait"
  /\ pc[t] = "idle"
  /\ waiting = {}
  /\ phase' = "render"
  /\ UNCHANGED <<flipVars, left, waiting, gbm, bo, shown>>

\* The steps inside the library's functions.
Library(t) ==
  /\ Enqueue(t) \/ WriteByte(t) \/ Dequeue(t)
  /\ UNCHANGED frameVars

\* The loop's thread is also the one that runs drmHandleEvent.
FrameLoop ==
  /\ use # "free"
  /\ UNCHANGED use
  /\ \E t \in Loops :
       \/ \E displays \in Requests \ {<< >>} : BeginFrame(t, displays)
       \/ SubmitFrame(t)
       \/ HandleEvent(t)
       \/ Handler(t)
       \/ FrameDone(t)
       \/ Library(t)

FreeUse ==
  /\ use = "free"
  /\ Next
  /\ UNCHANGED <<use, frameVars>>

\* The loop's thread keeps running while its next step is possible; a blocked
\* read or write is not.  Nothing makes a free client go on.
FramesSpec ==
  FramesInit /\ [][FrameLoop \/ FreeUse]_vars /\ WF_vars(FrameLoop)

-----------------------------------------------------------------------------
\* The displays a frame loop waits for are exactly those whose flip is still to
\* be submitted, in the ring, or being reported: no flip is dropped, none is
\* reported twice, and each is reported for its own display.
FlipsAccounted ==
  LET reported == {crtc_id[t] : t \in {u \in Threads : pc[u] = "handler"}}
      submitted == UNION {{todo[t][i] : i \in DOMAIN todo[t]} : t \in Threads}
      pending == {Pending[i] : i \in DOMAIN Pending}
      ahead == {left[i] : i \in DOMAIN left}
  IN use # "free" =>
       /\ waiting = ahead \cup submitted \cup pending \cup reported
       /\ Len(Pending) = Cardinality(pending)

\* Between two frames of an atomic client the pipe holds no wake-up of an
\* earlier frame, by which drmHandleEvent would later find nothing to report.
NoStaleWakeup == use = "atomic" /\ phase = "render" => bytes = 0

\* eglSwapBuffers never copies into a buffer that is on a display, though
\* releasing a buffer tells the surface nothing.
NoTearing ==
  [][\A c \in Crtcs :
       gbm'[SurfaceFor(c)] # gbm[SurfaceFor(c)] =>
         shown[c] # gbm[SurfaceFor(c)].write_idx]_vars

\* While a frame's flips are waited for, each of its displays shows the buffer
\* the last swap has drawn, not an older one.
NewestShown ==
  phase = "wait" =>
    \A c \in waiting :
      shown[c] = (gbm[SurfaceFor(c)].write_idx - 1) % GBM_NUM_BUFFERS

\* An atomic client's frame loop goes on: every flip is reported and no call
\* blocks for ever.
FramesGoOn == use = "atomic" => []<>(phase = "render")

\* What a frame loop finds between any two of its steps: the flips still to come,
\* the pipe between two frames and the buffers on the displays are what it
\* believes them to be.
FramesInv ==
  /\ TypeOK
  /\ FlipsAccounted
  /\ NoStaleWakeup
  /\ NewestShown

=============================================================================
