----------------------------- MODULE DrmAtomic -----------------------------
(***************************************************************************)
(* Mode setting in shims/drm/drm/src/drm_linux.c (drmModeSetCrtc,          *)
(* drmModePageFlip, drmModeAtomicCommit) and the DRM_IOCTL_MODE_ATOMIC     *)
(* handler of drm_ioctl.c, which builds its request in a pool.             *)
(*                                                                         *)
(* Objects are CRTCs 1 .. NCrtcs and the planes and connectors of the same *)
(* ids.  A commit looks a property record up by obj_id alone and           *)
(* ensure_obj_properties creates the CRTC's first, so one record per id is *)
(* all a commit ever writes.  Of its properties CRTC_X is kept, standing   *)
(* for both coordinates: a commit reads no other one back.  All 15 names   *)
(* of properties fit a record (MAX_PROPS_PER_OBJ is 16).                   *)
(***************************************************************************)
EXTENDS Integers, Sequences

CONSTANTS NCrtcs,            \* get_display_count()
          MAX_ATOMIC_PROPS,  \* 64 in the code
          Positions,         \* the coordinates clients use
          MaxFb,             \* bound: how many framebuffers are ever added
          Clients            \* the kinds of clients: the interfaces each uses

ASSUME CrtcsAssumption     == NCrtcs \in Nat \ {0}
ASSUME RequestAssumption   == MAX_ATOMIC_PROPS \in Nat \ {0}
ASSUME MaxFbAssumption     == MaxFb \in Nat
ASSUME PositionsAssumption == Positions \subseteq Nat /\ 0 \in Positions
ASSUME ClientsAssumption   ==
  Clients \subseteq SUBSET {"legacy", "libdrm", "ioctl"}

VARIABLES
  paths,         \* the interfaces the client uses, all along
  crtc_x,        \* CRTC_X in the property record of each id
  g_state,       \* per CRTC: the framebuffer and position it reports
  shown,         \* per CRTC: what sdl_present_iosurface_for_crtc got last
  live,          \* the framebuffers whose fb_id finds a surface
  g_next_fb_id,
  req,           \* the request the client is filling in
  pool,          \* pool[0] of handle_atomic, the one a single thread is given
  flip_crtcs     \* the flips the call just made has put into the ring

vars == <<paths, crtc_x, g_state, shown, live, g_next_fb_id, req, pool,
          flip_crtcs>>

Crtcs == 1 .. NCrtcs
Unset == -1
FbIds == 0 .. MaxFb

Entries == [obj : Crtcs, prop : {"FB_ID"}, val : FbIds]
             \cup [obj : Crtcs, prop : {"CRTC_X"}, val : Positions]

Init ==
  /\ paths \in Clients
  /\ crtc_x = [c \in Crtcs |-> Unset]
  /\ g_state = [c \in Crtcs |-> [fb |-> 0, x |-> 0]]
  /\ shown = [c \in Crtcs |-> [fb |-> 0, x |-> 0]]
  /\ live = {}
  /\ g_next_fb_id = 1
  /\ req = << >>
  /\ pool = << >>
  /\ flip_crtcs = {}

-----------------------------------------------------------------------------
(* Framebuffers: ids are never used twice.  DrmBuffers has what backs them. *)

AddFB ==
  /\ g_next_fb_id <= MaxFb
  /\ live' = live \cup {g_next_fb_id}
  /\ g_next_fb_id' = g_next_fb_id + 1
  /\ flip_crtcs' = {}
  /\ UNCHANGED <<crtc_x, g_state, shown, req, pool>>

RmFB(fb) ==
  /\ fb \in live
  /\ live' = live \ {fb}
  /\ flip_crtcs' = {}
  /\ UNCHANGED <<crtc_x, g_state, shown, g_next_fb_id, req, pool>>

\* The ids a client may hold: 0 for none, and whatever AddFB has returned.
KnownFbs == 0 .. g_next_fb_id - 1

Show(c, fb, x) ==
  IF fb \in live THEN [shown EXCEPT ![c] = [fb |-> fb, x |-> x]] ELSE shown

SetCrtc(c, fb, x) ==
  /\ g_state' = [g_state EXCEPT ![c] = [fb |-> fb, x |-> x]]
  /\ shown' = Show(c, fb, x)
  /\ flip_crtcs' = {}
  /\ UNCHANGED <<crtc_x, live, g_next_fb_id, req, pool>>

PageFlip(c, fb) ==
  /\ g_state' = [g_state EXCEPT ![c].fb = fb]
  /\ shown' = Show(c, fb, g_state[c].x)
  /\ flip_crtcs' = {c}
  /\ UNCHANGED <<crtc_x, live, g_next_fb_id, req, pool>>

-----------------------------------------------------------------------------
(* Atomic requests.                                                         *)

\* drmModeAtomicAddProperty: ENOMEM leaves the request alone.
AppendEntry(r, e) == IF Len(r) >= MAX_ATOMIC_PROPS THEN r ELSE Append(r, e)

\* The client adds a property (of an ioctl, an element of its arrays).
AddProperty(e) ==
  /\ e.prop = "FB_ID" => e.val \in KnownFbs
  /\ req' = AppendEntry(req, e)
  /\ flip_crtcs' = {}
  /\ UNCHANGED <<crtc_x, g_state, shown, live, g_next_fb_id, pool>>

AtomicFree ==
  /\ req # << >>
  /\ req' = << >>
  /\ flip_crtcs' = {}
  /\ UNCHANGED <<crtc_x, g_state, shown, live, g_next_fb_id, pool>>

\* What drmModeAtomicCommit works on: the state and its locals.
Start == [crtc_x |-> crtc_x, state |-> g_state, shown |-> shown,
          new_fb |-> 0, new_plane |-> 0, flips |-> {}]

SetObjProp(old, val) == val

\* A slip: only the first output that flips is remembered.
NoteFirstFlip(flips, c) == IF flips = {} THEN {c} ELSE flips

NoteFlip(flips, c) == flips \cup {c}

\* FB_ID: the frame is presented at the position the record holds by now.
ApplyFb(s, c, fb) ==
  LET x == IF s.crtc_x[c] = Unset THEN s.state[c].x ELSE s.crtc_x[c]
      noted == [s EXCEPT !.new_fb = fb, !.new_plane = c,
                         !.flips = NoteFlip(s.flips, c)]
  IN IF fb \in live
       THEN [noted EXCEPT !.shown[c] = [fb |-> fb, x |-> x],
                          !.state[c].fb = fb]
       ELSE noted

\* One round of the loop over the properties of the request.
ApplyEntry(s, e) ==
  IF e.prop = "FB_ID"
    THEN ApplyFb(s, e.obj, e.val)
    ELSE [s EXCEPT !.crtc_x[e.obj] = SetObjProp(@, e.val),
                   !.state[e.obj].x = e.val]

\* The loop: what it has made of Start after each number of properties of r.
Rounds(r) ==
  LET s[i \in 0 .. Len(r)] ==
        IF i = 0 THEN Start ELSE ApplyEntry(s[i - 1], r[i])
  IN s

\* A slip: the block after the loop takes CRTC 1 for the plane.
ReportFlipFirst(s) ==
  IF s.new_fb > 0 THEN [s EXCEPT !.state[1].fb = s.new_fb] ELSE s

\* The block after the loop: the last FB_ID of the request, if it is not 0, is
\* what that plane's CRTC reports, presented or not.
ReportFlip(s) ==
  IF s.new_fb > 0 THEN [s EXCEPT !.state[s.new_plane].fb = s.new_fb] ELSE s

\* drmModeAtomicCommit of r.  Of the flags it looks at PAGE_FLIP_EVENT only.
Apply(r, flags) ==
  LET s == ReportFlip(Rounds(r)[Len(r)])
  IN /\ crtc_x' = s.crtc_x
     /\ g_state' = s.state
     /\ shown' = s.shown
     /\ flip_crtcs' = IF "PAGE_FLIP_EVENT" \notin flags THEN {}
                      ELSE IF s.flips = {} THEN {1} ELSE s.flips
     /\ UNCHANGED <<live, g_next_fb_id>>

\* The client commits the request it has built and keeps it.
AtomicCommit(flags) ==
  /\ UNCHANGED <<req, pool>>
  /\ Apply(req, flags)

\* What the pooled request has become after each number of the call's properties.
Pooled ==
  LET p[i \in 0 .. Len(req)] ==
        IF i = 0 THEN pool ELSE AppendEntry(p[i - 1], req[i])
  IN p

\* A slip: the pooled request goes out before the call's properties are added.
HandleAtomicLate(flags) ==
  /\ req # << >>
  /\ pool' = Pooled[Len(req)]
  /\ Apply(pool, flags)
  /\ UNCHANGED req

\* handle_atomic: the properties are added to a pooled request that still has
\* those of every earlier call, and all of it is committed.  What the request
\* has no room for is left out, and the call succeeds.
HandleAtomic(flags) ==
  /\ req # << >>
  /\ pool' = Pooled[Len(req)]
  /\ Apply(pool', flags)
  /\ UNCHANGED req

FlagSets == {{}, {"PAGE_FLIP_EVENT"}, {"TEST_ONLY"}}

\* A request under construction is the client's own and commutes with every
\* other call, so the calls that do not build one come before it.
Next ==
  /\ UNCHANGED paths
  /\ \/ req = << >> /\ AddFB
     \/ req = << >> /\ \E fb \in live : RmFB(fb)
     \/ /\ "legacy" \in paths
        /\ req = << >>
        /\ \E c \in Crtcs, fb \in KnownFbs :
             \/ PageFlip(c, fb)
             \/ \E x \in Positions : SetCrtc(c, fb, x)
     \/ \E e \in Entries : AddProperty(e)
     \/ AtomicFree
     \/ \E flags \in FlagSets :
          \/ "libdrm" \in paths /\ AtomicCommit(flags)
          \/ "ioctl" \in paths /\ HandleAtomic(flags)

Spec == Init /\ [][Next]_vars

-----------------------------------------------------------------------------
(* Properties.                                                              *)

\* The values drm_linux.c and drm_ioctl.c keep are of their types, and no
\* request outgrows its arrays.
TypeOK ==
  /\ paths \in Clients
  /\ crtc_x \in [Crtcs -> Positions \cup {Unset}]
  /\ g_state \in [Crtcs -> [fb : FbIds, x : Positions]]
  /\ shown \in [Crtcs -> [fb : FbIds, x : Positions]]
  /\ live \subseteq FbIds \ {0}
  /\ g_next_fb_id \in 1 .. MaxFb + 1
  /\ flip_crtcs \subseteq Crtcs
  /\ \A r \in {req, pool} :
       r \in Seq(Entries) /\ Len(r) <= MAX_ATOMIC_PROPS

\* drmModeGetCrtc never names a framebuffer that is not on the screen: what a
\* CRTC reports is what was last presented there, as long as it exists, by
\* whichever of the interfaces it got there.
ReportIsShown ==
  \A c \in Crtcs : g_state[c].fb \in live => shown[c].fb = g_state[c].fb

\* What request r asks last for property p of object c, where, and whether it does.
Asks(r, c, p) == \E i \in DOMAIN r : r[i].obj = c /\ r[i].prop = p
LastAsk(r, c, p) ==
  CHOOSE i \in DOMAIN r :
    /\ r[i].obj = c /\ r[i].prop = p
    /\ \A j \in DOMAIN r : r[j].obj = c /\ r[j].prop = p => j <= i
Asked(r, c, p) == r[LastAsk(r, c, p)].val

\* The commit gives c a framebuffer that exists.
Flips(c) == Asks(req, c, "FB_ID") /\ Asked(req, c, "FB_ID") \in live

\* It gives c a position before the framebuffer.
MovesFirst(c) ==
  /\ Asks(req, c, "CRTC_X")
  /\ LastAsk(req, c, "CRTC_X") < LastAsk(req, c, "FB_ID")

\* Each property of the request now has the value asked for, and each output
\* given a framebuffer that exists shows it, at the position that the request
\* gave before it, if it did.  (If it did not, the frame is where an earlier commit
\* put the plane, and that may not be where drmModeSetCrtc has moved the CRTC.)
Applied ==
  \A c \in Crtcs :
    /\ Asks(req, c, "CRTC_X") =>
         /\ crtc_x'[c] = Asked(req, c, "CRTC_X")
         /\ g_state'[c].x = Asked(req, c, "CRTC_X")
    /\ Flips(c) => shown'[c].fb = Asked(req, c, "FB_ID")
    /\ Flips(c) /\ MovesFirst(c) => shown'[c].x = Asked(req, c, "CRTC_X")

\* A commit that is not for a test: of those see TestChangesNothing.
Commits(flags) == "TEST_ONLY" \notin flags

\* DRM_IOCTL_MODE_ATOMIC does what its caller asks, with the leftovers of earlier
\* calls before the caller's properties, as long as the pooled request has room
\* for both.  (It is never emptied, and what it has no room for is not done: the
\* pool is not "always enough", as drm_ioctl.c:408 has it.)
IoctlAppliesWithRoom ==
  [][\A flags \in FlagSets :
       Len(pool) + Len(req) <= MAX_ATOMIC_PROPS =>
         (Commits(flags) /\ HandleAtomic(flags) => Applied)]_vars

\* "Test-only atomic commit (no real changes)" (test_drm_system_ties.c:477): a
\* commit with that flag leaves every output as it is, by either interface.
TestChangesNothing ==
  [][AtomicCommit({"TEST_ONLY"}) \/ HandleAtomic({"TEST_ONLY"})
       => UNCHANGED <<crtc_x, g_state, shown>>]_vars

\* Every output the request does not name is left alone: its position, what it
\* reports and what it shows.
OthersUntouched ==
  \A c \in Crtcs : (\A i \in DOMAIN req : req[i].obj # c) =>
    /\ crtc_x'[c] = crtc_x[c]
    /\ g_state'[c] = g_state[c]
    /\ shown'[c] = shown[c]

\* Each output that gets a new frame has its repaint loop re-armed, and no
\* other one: CRTC 1 alone is signalled when there is none.
SignalsItsFlips ==
  LET named == {c \in Crtcs : Asks(req, c, "FB_ID")}
  IN flip_crtcs' = IF named = {} THEN {1} ELSE named

\* drmModeAtomicCommit does what the request asks for, the last of two entries
\* winning, and nothing else.
CommitApplies ==
  [][\A flags \in FlagSets : Commits(flags) /\ AtomicCommit(flags) =>
       /\ Applied
       /\ OthersUntouched
       /\ "PAGE_FLIP_EVENT" \in flags => SignalsItsFlips]_vars

\* What drm_linux.c keeps: TypeOK, and that its reports are true.
ModeInv == TypeOK /\ ReportIsShown

=============================================================================
