----------------------------- MODULE DrmBuffers -----------------------------
(***************************************************************************)
(* What backs a framebuffer: dumb buffers, GBM buffer objects, the table   *)
(* in which drmModeAddFB finds the latter, framebuffers and the surface    *)
(* each display shows (drm_linux.c, gbm.m, sdl_backend.m).  All of them    *)
(* share IOSurfaces, which CFRetain and CFRelease count.                   *)
(*                                                                         *)
(* A surface is its IOSurfaceID, which the system may give again to a new  *)
(* surface when the old one is gone; it is also the GBM handle of its      *)
(* buffer.  The arrays of dumb buffers and of framebuffers are sets of     *)
(* bounded size, for ids are never used twice; the GBM table, whose        *)
(* entries move, is a sequence.                                            *)
(***************************************************************************)
EXTENDS Integers, Sequences, FiniteSets

CONSTANTS SurfaceIds,     \* the IOSurfaceIDs the system gives
          NCrtcs,         \* displays
          MAX_DUMB_BUFS,  \* 64 in the code
          MAX_GBM_BUFS,   \* 64 in the code
          MAX_FBS,        \* 64 in the code
          MaxDumbHandle,  \* bound: how many dumb buffers are ever created
          MaxFbId         \* bound: how many framebuffers are ever added

ASSUME SurfacesAssumption == SurfaceIds \subseteq Nat \ {0}
ASSUME SizesAssumption ==
  {NCrtcs, MAX_DUMB_BUFS, MAX_GBM_BUFS, MAX_FBS, MaxDumbHandle, MaxFbId}
    \subseteq Nat \ {0}

NoSurface == 0
Crtcs == 1 .. NCrtcs

VARIABLES
  g_dumb,              \* the dumb buffers
  g_next_dumb_handle,
  bos,                 \* the surfaces of the live GBM buffer objects
  g_gbm_bufs,          \* the table of GBM handles
  g_fbs,               \* the framebuffers
  g_next_fb_id,
  displays,            \* g_crtcs[].surface of sdl_backend.m
  retains              \* the retain count of each surface; 0 if it is gone

vars == <<g_dumb, g_next_dumb_handle, bos, g_gbm_bufs, g_fbs, g_next_fb_id,
          displays, retains>>

Init ==
  /\ g_dumb = {}
  /\ g_next_dumb_handle = 1
  /\ bos = {}
  /\ g_gbm_bufs = << >>
  /\ g_fbs = {}
  /\ g_next_fb_id = 1
  /\ displays = [c \in Crtcs |-> NoSurface]
  /\ retains = [s \in SurfaceIds |-> 0]

-----------------------------------------------------------------------------
(* Dumb buffers.                                                            *)

\* drmModeCreateDumbBuffer; without a free slot or a surface it is ENOMEM.
CreateDumbBuffer(s) ==
  /\ Cardinality(g_dumb) < MAX_DUMB_BUFS
  /\ g_next_dumb_handle <= MaxDumbHandle
  /\ retains[s] = 0
  /\ retains' = [retains EXCEPT ![s] = 1]
  /\ g_dumb' = g_dumb \cup {[handle |-> g_next_dumb_handle, surface |-> s]}
  /\ g_next_dumb_handle' = g_next_dumb_handle + 1
  /\ UNCHANGED <<bos, g_gbm_bufs, g_fbs, g_next_fb_id, displays>>

\* drmModeDestroyDumbBuffer; an unknown handle is ENOENT.
DestroyDumbBuffer(d) ==
  /\ g_dumb' = g_dumb \ {d}
  /\ retains' = [retains EXCEPT ![d.surface] = @ - 1]
  /\ UNCHANGED <<g_next_dumb_handle, bos, g_gbm_bufs, g_fbs, g_next_fb_id,
                 displays>>

-----------------------------------------------------------------------------
(* GBM buffer objects.                                                      *)

\* drm_register_gbm_buffer: without room the buffer is left out.
Registered(handle, s) ==
  IF \E i \in DOMAIN g_gbm_bufs : g_gbm_bufs[i].handle = handle
    THEN [i \in DOMAIN g_gbm_bufs |->
            IF g_gbm_bufs[i].handle = handle
              THEN [handle |-> handle, surface |-> s]
              ELSE g_gbm_bufs[i]]
  ELSE IF Len(g_gbm_bufs) >= MAX_GBM_BUFS THEN g_gbm_bufs
  ELSE Append(g_gbm_bufs, [handle |-> handle, surface |-> s])

\* A slip: the last entry is dropped and not moved into the gap.
UnregisteredTruncate(handle) ==
  IF \E i \in DOMAIN g_gbm_bufs : g_gbm_bufs[i].handle = handle
    THEN SubSeq(g_gbm_bufs, 1, Len(g_gbm_bufs) - 1)
    ELSE g_gbm_bufs

\* drm_unregister_gbm_buffer: the last entry takes the place of the one removed.
Unregistered(handle) ==
  LET last == Len(g_gbm_bufs)
      At == {i \in DOMAIN g_gbm_bufs : g_gbm_bufs[i].handle = handle}
  IN IF At = {} THEN g_gbm_bufs
     ELSE LET gap == CHOOSE i \in At : \A j \in At : i <= j
          IN SubSeq([g_gbm_bufs EXCEPT ![gap] = g_gbm_bufs[last]], 1, last - 1)

\* gbm_bo_create, and each buffer of gbm_surface_create.
BoCreate(s) ==
  /\ retains[s] = 0
  /\ retains' = [retains EXCEPT ![s] = 1]
  /\ bos' = bos \cup {s}
  /\ g_gbm_bufs' = Registered(s, s)
  /\ UNCHANGED <<g_dumb, g_next_dumb_handle, g_fbs, g_next_fb_id, displays>>

\* A slip: the object goes but its handle stays in the table.
BoDestroyRegistered(s) ==
  /\ bos' = bos \ {s}
  /\ retains' = [retains EXCEPT ![s] = @ - 1]
  /\ UNCHANGED <<g_dumb, g_next_dumb_handle, g_gbm_bufs, g_fbs, g_next_fb_id,
                 displays>>

\* gbm_bo_destroy, and each buffer of gbm_surface_destroy.
BoDestroy(s) ==
  /\ g_gbm_bufs' = Unregistered(s)
  /\ bos' = bos \ {s}
  /\ retains' = [retains EXCEPT ![s] = @ - 1]
  /\ UNCHANGED <<g_dumb, g_next_dumb_handle, g_fbs, g_next_fb_id, displays>>

-----------------------------------------------------------------------------
(* Framebuffers and displays.                                               *)

\* The surface drmModeAddFB finds for a handle: dumb buffers come first.
SurfaceOf(handle) ==
  LET dumb == {d.surface : d \in {e \in g_dumb : e.handle = handle}}
      gbm == {g_gbm_bufs[i].surface :
                i \in {j \in DOMAIN g_gbm_bufs :
                         g_gbm_bufs[j].handle = handle}}
  IN CASE dumb # {}            -> CHOOSE s \in dumb : TRUE
       [] dumb = {} /\ gbm # {} -> CHOOSE s \in gbm : TRUE
       [] OTHER                -> NoSurface

\* A slip: the framebuffer does not retain its surface.
AddFBUnretained(handle) ==
  /\ SurfaceOf(handle) # NoSurface
  /\ Cardinality(g_fbs) < MAX_FBS
  /\ g_next_fb_id <= MaxFbId
  /\ g_fbs' = g_fbs \cup {[fb_id |-> g_next_fb_id, handle |-> handle,
                           surface |-> SurfaceOf(handle)]}
  /\ g_next_fb_id' = g_next_fb_id + 1
  /\ UNCHANGED <<g_dumb, g_next_dumb_handle, bos, g_gbm_bufs, displays, retains>>

\* drmModeAddFB; ENOENT for an unknown handle, ENOMEM without a free slot.
AddFB(handle) ==
  /\ SurfaceOf(handle) # NoSurface
  /\ Cardinality(g_fbs) < MAX_FBS
  /\ g_next_fb_id <= MaxFbId
  /\ g_fbs' = g_fbs \cup {[fb_id |-> g_next_fb_id, handle |-> handle,
                           surface |-> SurfaceOf(handle)]}
  /\ g_next_fb_id' = g_next_fb_id + 1
  /\ retains' = [retains EXCEPT ![SurfaceOf(handle)] = @ + 1]
  /\ UNCHANGED <<g_dumb, g_next_dumb_handle, bos, g_gbm_bufs, displays>>

\* drmModeRmFB; ENOENT for an unknown id.
RmFB(fb) ==
  /\ g_fbs' = g_fbs \ {fb}
  /\ retains' = [retains EXCEPT ![fb.surface] = @ - 1]
  /\ UNCHANGED <<g_dumb, g_next_dumb_handle, bos, g_gbm_bufs, g_next_fb_id,
                 displays>>

\* sdl_present_iosurface_for_crtc, for drmModeSetCrtc, drmModePageFlip or a
\* commit that finds the framebuffer: the display releases what it showed, then
\* retains what it shows.
PresentOn(c, fb) ==
  LET old == displays[c]
      released == IF old = NoSurface THEN retains
                  ELSE [retains EXCEPT ![old] = @ - 1]
  IN /\ retains' = [released EXCEPT ![fb.surface] = @ + 1]
     /\ displays' = [displays EXCEPT ![c] = fb.surface]
     /\ UNCHANGED <<g_dumb, g_next_dumb_handle, bos, g_gbm_bufs, g_fbs,
                    g_next_fb_id>>

\* The handles a client may pass: those of its dumb buffers and its objects.
Handles == {d.handle : d \in g_dumb} \cup bos

Next ==
  \/ \E s \in SurfaceIds : CreateDumbBuffer(s) \/ BoCreate(s)
  \/ \E d \in g_dumb : DestroyDumbBuffer(d)
  \/ \E s \in bos : BoDestroy(s)
  \/ \E h \in Handles : AddFB(h)
  \/ \E fb \in g_fbs : RmFB(fb)
  \/ \E c \in Crtcs, fb \in g_fbs : PresentOn(c, fb)

Spec == Init /\ [][Next]_vars

-----------------------------------------------------------------------------
(* Properties.                                                              *)

\* The tables of drm_linux.c are of their types and within their sizes.
TypeOK ==
  /\ g_dumb \subseteq [handle : 1 .. MaxDumbHandle, surface : SurfaceIds]
  /\ Cardinality(g_dumb) <= MAX_DUMB_BUFS
  /\ g_next_dumb_handle \in 1 .. MaxDumbHandle + 1
  /\ bos \subseteq SurfaceIds
  /\ g_gbm_bufs \in Seq([handle : SurfaceIds, surface : SurfaceIds])
  /\ Len(g_gbm_bufs) <= MAX_GBM_BUFS
  /\ g_fbs \subseteq [fb_id : 1 .. MaxFbId, surface : SurfaceIds,
                      handle : SurfaceIds \cup 1 .. MaxDumbHandle]
  /\ Cardinality(g_fbs) <= MAX_FBS
  /\ g_next_fb_id \in 1 .. MaxFbId + 1
  /\ displays \in [Crtcs -> SurfaceIds \cup {NoSurface}]
  /\ retains \in [SurfaceIds -> Nat]

\* Every surface is retained exactly once by each of its owners, whatever the
\* order in which buffers, objects and framebuffers go: it is freed neither
\* early (under a framebuffer or a display that uses it) nor never.
RefsAccounted ==
  \A s \in SurfaceIds :
    retains[s] = Cardinality({d \in g_dumb : d.surface = s})
                + Cardinality(bos \cap {s})
                + Cardinality({fb \in g_fbs : fb.surface = s})
                + Cardinality({c \in Crtcs : displays[c] = s})

\* The table of GBM handles, which retains nothing, has no entry whose buffer
\* object is gone: drmModeAddFB cannot retain a freed surface.
TableIsLive ==
  \A i \in DOMAIN g_gbm_bufs : g_gbm_bufs[i].surface \in bos

\* "When kmscube passes those handles to drmModeAddFB, we need to find the
\* IOSurface": the handle of a buffer object leads to its own surface.
BoIsFound == \A s \in bos : SurfaceOf(s) = s

\* What makes these inductive: ids are given in order, and an entry of the GBM
\* table is found under the id of its own surface and is the only such entry.
FreshInv ==
  /\ IsFiniteSet(g_dumb) /\ IsFiniteSet(g_fbs)
  /\ \A d \in g_dumb : d.handle < g_next_dumb_handle
  /\ \A fb \in g_fbs : fb.fb_id < g_next_fb_id

TableInv ==
  /\ \A i \in DOMAIN g_gbm_bufs :
       g_gbm_bufs[i].handle = g_gbm_bufs[i].surface
  /\ \A i, j \in DOMAIN g_gbm_bufs :
       g_gbm_bufs[i].handle = g_gbm_bufs[j].handle => i = j
  /\ TableIsLive

IInv == TypeOK /\ FreshInv /\ TableInv /\ RefsAccounted

=============================================================================
