--------------------------- MODULE DisplayProofs ---------------------------
(***************************************************************************)
(* Atomic commits of DrmAtomic for requests of any length, any number of   *)
(* CRTCs, framebuffers and positions.  A commit is a loop, which Rounds    *)
(* has as a function of the number of properties; what holds of it is      *)
(* shown by induction on that number, with the sets of Upwards, since the  *)
(* library's induction rules take operators.                               *)
(*                                                                         *)
(* Presenting to the displays, SdlBackend, for any threads, CRTCs,         *)
(* surfaces and size of the table.  A surface is held by slots, by the one *)
(* that waits for SDL and by threads between two holds of g_crtc_lock; the *)
(* invariant says what each thread has at each place of a call, so that    *)
(* the retain counts and what a CRTC shows can be told from it.            *)
(***************************************************************************)
EXTENDS DrmAtomic, SdlBackend, SequenceTheorems, FiniteSetTheorems,
        WellFoundedInduction, TLAPS

\* What AddFB may be asked to show, and the entries a request has by then.
KnownEntries == [obj : Crtcs, prop : {"FB_ID"}, val : KnownFbs]
                  \cup [obj : Crtcs, prop : {"CRTC_X"}, val : Positions]

\* The locals of drmModeAtomicCommit.
Locals == [crtc_x : [Crtcs -> Positions \cup {Unset}],
           state : [Crtcs -> [fb : KnownFbs, x : Positions]],
           shown : [Crtcs -> [fb : FbIds, x : Positions]],
           new_fb : KnownFbs, new_plane : Crtcs \cup {0}, flips : SUBSET Crtcs]

\* No framebuffer is named that was not added: one that is added later shows
\* nowhere before it is asked for.
OnlyKnown ==
  /\ g_state \in [Crtcs -> [fb : KnownFbs, x : Positions]]
  /\ live \subseteq KnownFbs
  /\ req \in Seq(KnownEntries)
  /\ pool \in Seq(KnownEntries)

IInv == TypeOK /\ ReportIsShown /\ OnlyKnown

-----------------------------------------------------------------------------
\* A set of numbers that is not empty has a least one.
LEMMA Smallest ==
  ASSUME NEW A \in SUBSET Nat, A # {}
  PROVE  \E n \in A : \A m \in A : n <= m
<1>1. IsWellFoundedOn(OpToRel(<, Nat), Nat)
  BY NatLessThanWellFounded
<1>2. PICK n \in A : \A m \in A : ~(<<m, n>> \in OpToRel(<, Nat))
  BY <1>1, WFMin
<1>3. \A m \in A : ~(m < n)
  BY <1>2 DEF OpToRel
<1> QED
  BY <1>3

\* Induction from 0 up to n: what each number passes on to the next holds of all.
LEMMA Upwards ==
  ASSUME NEW n \in Nat, NEW A, 0 \in A, \A i \in 1 .. n : i - 1 \in A => i \in A
  PROVE  \A i \in 0 .. n : i \in A
<1> DEFINE bad == {i \in 0 .. n : i \notin A}
<1> SUFFICES ASSUME bad # {} PROVE FALSE
  OBVIOUS
<1>1. PICK k \in bad : \A m \in bad : k <= m
  <2>1. bad \in SUBSET Nat
    OBVIOUS
  <2> HIDE DEF bad
  <2> QED
    BY <2>1, Smallest
<1>2. k \in 1 .. n
  BY <1>1
<1>3. k - 1 \in 0 .. n /\ k - 1 \notin bad
  BY <1>1, <1>2
<1> QED
  BY <1>1, <1>2, <1>3

\* The rounds of a loop over S, and that it has a result after each of them.
Bodies(n, S) == [1 .. n -> [S -> S]]
HasRun(n, S, base, F) ==
  \E f \in [0 .. n -> S] :
    f[0] = base /\ \A i \in 1 .. n : f[i] = F[i][f[i - 1]]

LEMMA LoopRuns ==
  ASSUME NEW n \in Nat, NEW S, NEW base \in S, NEW F \in Bodies(n, S)
  PROVE  HasRun(n, S, base, F)
<1> DEFINE Upto(k, f) ==
             /\ f \in [0 .. k -> S] /\ f[0] = base
             /\ \A i \in 1 .. k : f[i] = F[i][f[i - 1]]
           A == {k \in 0 .. n : \E f : Upto(k, f)}
<1>1. 0 \in A
  <2>1. Upto(0, [i \in 0 .. 0 |-> base])
    OBVIOUS
  <2>2. \E f : Upto(0, f)
    BY <2>1
  <2> HIDE DEF Upto
  <2> QED
    BY <2>2
<1>2. ASSUME NEW k \in 1 .. n, k - 1 \in A PROVE k \in A
  <2>1. PICK f : Upto(k - 1, f)
    BY <1>2
  <2> DEFINE g == [i \in 0 .. k |-> IF i = k THEN F[k][f[k - 1]] ELSE f[i]]
  <2>2. f[k - 1] \in S /\ F[k][f[k - 1]] \in S
    BY <2>1 DEF Bodies
  <2>3. g \in [0 .. k -> S]
    BY <2>1, <2>2
  <2>4. g[0] = base
    BY <2>1
  <2>5. ASSUME NEW i \in 1 .. k PROVE g[i] = F[i][g[i - 1]]
    <3>1. g[i - 1] = f[i - 1]
      OBVIOUS
    <3>2. CASE i = k
      <4>1. g[k] = F[k][f[k - 1]]
        OBVIOUS
      <4> QED
        BY <3>1, <3>2, <4>1
    <3>3. CASE i # k
      BY <2>1, <3>1, <3>3
    <3> QED
      BY <3>2, <3>3
  <2> HIDE DEF g
  <2>6. Upto(k, g)
    BY <2>3, <2>4, <2>5
  <2> QED
    BY <2>6
<1>3. n \in A
  <2> HIDE DEF A
  <2>1. \A i \in 1 .. n : i - 1 \in A => i \in A
    BY <1>2
  <2>2. \A i \in 0 .. n : i \in A
    BY <1>1, <2>1, Upwards
  <2> QED
    BY <2>2
<1>4. PICK f : Upto(n, f)
  BY <1>3
<1> QED
  BY <1>4 DEF HasRun

-----------------------------------------------------------------------------
\* What a round does for a framebuffer.
LEMMA FbRound ==
  ASSUME live \subseteq KnownFbs, g_next_fb_id \in 1 .. MaxFb + 1,
         NEW s \in Locals, NEW c \in Crtcs, NEW fb \in KnownFbs
  PROVE  LET new == ApplyFb(s, c, fb)
         IN  /\ new \in Locals
             /\ new.crtc_x = s.crtc_x
             /\ new.new_fb = fb /\ new.new_plane = c /\ new.flips = s.flips \cup {c}
             /\ \A d \in Crtcs :
                  /\ new.state[d].x = s.state[d].x
                  /\ new.state[d].fb = IF d = c /\ fb \in live THEN fb ELSE s.state[d].fb
                  /\ d # c => new.shown[d] = s.shown[d] /\ new.state[d] = s.state[d]
                  /\ fb \in live => new.shown[c].fb = fb
                  /\ fb \in live /\ s.crtc_x[c] # Unset => new.shown[c].x = s.crtc_x[c]
                  /\ fb \notin live => new.shown[d] = s.shown[d]
<1> DEFINE x == IF s.crtc_x[c] = Unset THEN s.state[c].x ELSE s.crtc_x[c]
           a == [s EXCEPT !.new_fb = fb]
           b == [a EXCEPT !.new_plane = c]
           noted == [b EXCEPT !.flips = s.flips \cup {c}]
           put == [noted EXCEPT !.shown[c] = [fb |-> fb, x |-> x]]
           new == [put EXCEPT !.state[c].fb = fb]
<1>1. x \in Positions /\ fb \in FbIds
  <2>1. s.crtc_x[c] \in Positions \cup {Unset} /\ s.state[c].x \in Positions
    BY DEF Locals
  <2>2. fb \in FbIds
    BY MaxFbAssumption DEF KnownFbs, FbIds
  <2> QED
    BY <2>1, <2>2
<1>2. a \in Locals /\ a.crtc_x = s.crtc_x /\ a.state = s.state /\ a.shown = s.shown
      /\ a.new_fb = fb /\ a.flips = s.flips
  BY DEF Locals
<1> HIDE DEF a
<1>3. b \in Locals /\ b.crtc_x = s.crtc_x /\ b.state = s.state /\ b.shown = s.shown
      /\ b.new_fb = fb /\ b.new_plane = c /\ b.flips = s.flips
  BY <1>2 DEF Locals
<1> HIDE DEF b
<1>4. /\ noted \in Locals /\ noted.crtc_x = s.crtc_x /\ noted.state = s.state
      /\ noted.shown = s.shown
      /\ noted.new_fb = fb /\ noted.new_plane = c /\ noted.flips = s.flips \cup {c}
  BY <1>3 DEF Locals
<1> HIDE DEF noted
<1>10. s.crtc_x[c] # Unset => x = s.crtc_x[c]
  OBVIOUS
<1> HIDE DEF x
<1>5. /\ put \in Locals /\ put.crtc_x = s.crtc_x /\ put.state = s.state
      /\ put.shown = [s.shown EXCEPT ![c] = [fb |-> fb, x |-> x]]
      /\ put.new_fb = fb /\ put.new_plane = c /\ put.flips = s.flips \cup {c}
  BY <1>1, <1>4 DEF Locals
<1> HIDE DEF put
<1>6. /\ new \in Locals /\ new.crtc_x = s.crtc_x
      /\ new.state = [s.state EXCEPT ![c].fb = fb] /\ new.shown = put.shown
      /\ new.new_fb = fb /\ new.new_plane = c /\ new.flips = s.flips \cup {c}
  <2> DEFINE st == [s.state EXCEPT ![c].fb = fb]
  <2>1. st \in [Crtcs -> [fb : KnownFbs, x : Positions]]
    BY DEF Locals
  <2>2. new = [put EXCEPT !.state = st]
    BY <1>5
  <2> HIDE DEF st, new
  <2>3. /\ new \in Locals /\ new.crtc_x = put.crtc_x /\ new.state = st
        /\ new.shown = put.shown /\ new.new_fb = put.new_fb
        /\ new.new_plane = put.new_plane /\ new.flips = put.flips
    BY <1>5, <2>1, <2>2 DEF Locals
  <2> QED
    BY <1>5, <2>3 DEF st
<1>7. ApplyFb(s, c, fb) = IF fb \in live THEN new ELSE noted
  BY DEF ApplyFb, NoteFlip, a, b, noted, put, x
<1> HIDE DEF new
<1>8. CASE fb \in live
  <2>1. put.shown[c] = [fb |-> fb, x |-> x]
    BY <1>5 DEF Locals
  <2> QED
    BY <1>5, <1>6, <1>7, <1>8, <1>10, <2>1, SMTT(30) DEF Locals
<1>9. CASE fb \notin live
  BY <1>4, <1>7, <1>9
<1> QED
  BY <1>8, <1>9

\* What a round does for a position.
LEMMA XRound ==
  ASSUME NEW s \in Locals, NEW e \in KnownEntries, e.prop = "CRTC_X"
  PROVE  LET new == ApplyEntry(s, e)
         IN  /\ e.obj \in Crtcs /\ e.val \in Positions
             /\ new \in Locals
             /\ new.shown = s.shown /\ new.new_fb = s.new_fb
             /\ new.new_plane = s.new_plane /\ new.flips = s.flips
             /\ \A d \in Crtcs :
                  /\ new.crtc_x[d] = IF d = e.obj THEN e.val ELSE s.crtc_x[d]
                  /\ new.state[d].x = IF d = e.obj THEN e.val ELSE s.state[d].x
                  /\ new.state[d].fb = s.state[d].fb
                  /\ d # e.obj => new.state[d] = s.state[d]
<1> DEFINE a == [s EXCEPT !.crtc_x[e.obj] = e.val]
           new == [a EXCEPT !.state[e.obj].x = e.val]
<1>1. e.obj \in Crtcs /\ e.val \in Positions
  BY DEF KnownEntries
<1>2. /\ a \in Locals /\ a.crtc_x = [s.crtc_x EXCEPT ![e.obj] = e.val]
      /\ a.state = s.state /\ a.shown = s.shown /\ a.new_fb = s.new_fb
      /\ a.new_plane = s.new_plane /\ a.flips = s.flips
  BY <1>1 DEF Locals
<1> HIDE DEF a
<1>3. /\ new \in Locals /\ new.crtc_x = [s.crtc_x EXCEPT ![e.obj] = e.val]
      /\ new.state = [s.state EXCEPT ![e.obj].x = e.val] /\ new.shown = s.shown
      /\ new.new_fb = s.new_fb /\ new.new_plane = s.new_plane /\ new.flips = s.flips
  <2> DEFINE st == [s.state EXCEPT ![e.obj].x = e.val]
  <2>1. st \in [Crtcs -> [fb : KnownFbs, x : Positions]]
    BY <1>1 DEF Locals
  <2>2. new = [a EXCEPT !.state = st]
    BY <1>2
  <2> HIDE DEF st, new
  <2>3. /\ new \in Locals /\ new.crtc_x = a.crtc_x /\ new.state = st
        /\ new.shown = a.shown /\ new.new_fb = a.new_fb
        /\ new.new_plane = a.new_plane /\ new.flips = a.flips
    BY <1>2, <2>1, <2>2 DEF Locals
  <2> QED
    BY <1>2, <2>3 DEF st
<1>4. ApplyEntry(s, e) = new
  BY DEF ApplyEntry, SetObjProp, a
<1> HIDE DEF new
<1> QED
  BY <1>1, <1>3, <1>4 DEF Locals

\* An entry is of one of the two kinds.
LEMMA EntryIs ==
  ASSUME NEW e \in KnownEntries
  PROVE  /\ e.obj \in Crtcs
         /\ \/ e.prop = "CRTC_X" /\ e.val \in Positions
            \/ /\ e.prop = "FB_ID" /\ e.val \in KnownFbs
               /\ \A s : ApplyEntry(s, e) = ApplyFb(s, e.obj, e.val)
BY DEF KnownEntries, ApplyEntry

LEMMA EntryType ==
  ASSUME live \subseteq KnownFbs, g_next_fb_id \in 1 .. MaxFb + 1,
         NEW s \in Locals, NEW e \in KnownEntries
  PROVE  ApplyEntry(s, e) \in Locals
BY EntryIs, XRound, FbRound

\* The loop of drmModeAtomicCommit runs, round by round.
LEMMA RoundsAre ==
  ASSUME IInv, NEW r \in Seq(KnownEntries)
  PROVE  /\ Rounds(r) \in [0 .. Len(r) -> Locals]
         /\ Rounds(r)[0] = Start
         /\ \A i \in 1 .. Len(r) : Rounds(r)[i] = ApplyEntry(Rounds(r)[i - 1], r[i])
<1> DEFINE n == Len(r)
           F == [i \in 1 .. n |-> [s \in Locals |-> ApplyEntry(s, r[i])]]
           Is(f) == f = [i \in 0 .. n |-> IF i = 0 THEN Start
                                          ELSE ApplyEntry(f[i - 1], r[i])]
<1>1. n \in Nat /\ \A i \in 1 .. n : r[i] \in KnownEntries
  BY LenProperties, ElementOfSeq
<1>2. /\ live \subseteq KnownFbs /\ g_next_fb_id \in 1 .. MaxFb + 1
  BY DEF IInv, TypeOK, OnlyKnown
<1>3. Start \in Locals
  <2>1. 0 \in KnownFbs
    BY <1>2, MaxFbAssumption DEF KnownFbs
  <2> QED
    BY <2>1 DEF IInv, TypeOK, OnlyKnown, Start, Locals
<1>4. F \in Bodies(n, Locals)
  <2>1. \A i \in 1 .. n, s \in Locals : ApplyEntry(s, r[i]) \in Locals
    BY <1>1, <1>2, EntryType
  <2> QED
    BY <2>1 DEF Bodies
<1>5. \A s \in Locals, i \in 1 .. n : F[i][s] = ApplyEntry(s, r[i])
  OBVIOUS
<1> HIDE DEF F, n
<1>6. PICK f \in [0 .. n -> Locals] :
        f[0] = Start /\ \A i \in 1 .. n : f[i] = F[i][f[i - 1]]
  <2>1. HasRun(n, Locals, Start, F)
    BY <1>1, <1>3, <1>4, LoopRuns
  <2> QED
    BY <2>1 DEF HasRun
<1>7. \A i \in 0 .. n : f[i] = IF i = 0 THEN Start ELSE ApplyEntry(f[i - 1], r[i])
  <2> SUFFICES ASSUME NEW i \in 0 .. n
               PROVE  f[i] = IF i = 0 THEN Start ELSE ApplyEntry(f[i - 1], r[i])
    OBVIOUS
  <2>1. i # 0 => i - 1 \in 0 .. n /\ i \in 1 .. n
    BY <1>1
  <2> QED
    BY <1>5, <1>6, <2>1
<1>8. Is(f)
  BY <1>7
<1>9. Rounds(r) = CHOOSE g : Is(g)
  BY DEF Rounds, n
<1> HIDE DEF Is
<1>10. Is(Rounds(r))
  BY <1>8, <1>9
<1> USE DEF Is
<1>11. \A i \in 0 .. n : Rounds(r)[i] = IF i = 0 THEN Start
                                        ELSE ApplyEntry(Rounds(r)[i - 1], r[i])
  BY <1>10
<1>12. Rounds(r)[0] = Start
  BY <1>1, <1>11
<1>13. \A i \in 1 .. n : Rounds(r)[i] = ApplyEntry(Rounds(r)[i - 1], r[i])
  BY <1>1, <1>11
<1> DEFINE A == {i \in 0 .. n : Rounds(r)[i] \in Locals}
<1>14. \A i \in 0 .. n : i \in A
  <2>1. 0 \in A
    BY <1>1, <1>3, <1>12
  <2>2. ASSUME NEW i \in 1 .. n, i - 1 \in A PROVE i \in A
    <3>1. Rounds(r)[i] \in Locals
      BY <1>1, <1>2, <1>13, <2>2, EntryType
    <3> QED
      BY <1>1, <3>1
  <2> HIDE DEF A
  <2> QED
    BY <1>1, <2>1, <2>2, Upwards
<1>15. Rounds(r) \in [0 .. n -> Locals]
  BY <1>10, <1>14
<1> QED
  BY <1>12, <1>13, <1>15 DEF n

-----------------------------------------------------------------------------
\* The j-th entry is the last of the first i that ask for property p of object c.
IsLast(r, i, j, c, p) ==
  /\ j \in 1 .. i
  /\ r[j].obj = c /\ r[j].prop = p
  /\ \A k \in 1 .. i : r[k].obj = c /\ r[k].prop = p => k <= j

\* Of these, the last position of c is the j-th, and the last framebuffer, one that
\* exists, the k-th and so presented there.
Placed(r, i, j, k, c) ==
  /\ IsLast(r, i, j, c, "CRTC_X") /\ IsLast(r, i, k, c, "FB_ID")
  /\ j < k /\ r[k].val \in live

\* What each CRTC reports is shown, and what will be reported in the end is.
TrueSoFar(s) ==
  /\ \A c \in Crtcs : s.state[c].fb \in live => s.shown[c].fb = s.state[c].fb
  /\ s.new_fb # 0 =>
       /\ s.new_plane \in Crtcs
       /\ s.new_fb \in live => s.shown[s.new_plane].fb = s.new_fb

\* Only what the first i entries name has changed.
OthersSoFar(s, r, i) ==
  /\ \A c \in Crtcs : (\A j \in 1 .. i : r[j].obj # c) =>
       /\ s.crtc_x[c] = crtc_x[c]
       /\ s.state[c] = g_state[c]
       /\ s.shown[c] = shown[c]
  /\ s.new_fb # 0 => \E j \in 1 .. i : r[j].obj = s.new_plane

\* What the first i entries ask for is done, the last of two winning.
AppliedSoFar(s, r, i) ==
  /\ \A c \in Crtcs : \A j \in 1 .. i :
       IsLast(r, i, j, c, "CRTC_X") =>
         s.crtc_x[c] = r[j].val /\ s.state[c].x = r[j].val
  /\ \A c \in Crtcs : \A j \in 1 .. i :
       IsLast(r, i, j, c, "FB_ID") /\ r[j].val \in live =>
         s.shown[c].fb = r[j].val
  /\ \A c \in Crtcs : \A j, k \in 1 .. i :
       Placed(r, i, j, k, c) => s.shown[c].x = r[j].val

\* The CRTCs the first i entries flip are noted.
FlipsSoFar(s, r, i) ==
  s.flips = {c \in Crtcs : \E j \in 1 .. i : r[j].obj = c /\ r[j].prop = "FB_ID"}

\* Before the first entry.
LEMMA StartSoFar ==
  ASSUME IInv, NEW r
  PROVE  /\ TrueSoFar(Start) /\ OthersSoFar(Start, r, 0)
         /\ AppliedSoFar(Start, r, 0) /\ FlipsSoFar(Start, r, 0)
<1>1. /\ Start.crtc_x = crtc_x /\ Start.state = g_state /\ Start.shown = shown
      /\ Start.new_fb = 0 /\ Start.flips = {}
  BY DEF Start
<1>2. TrueSoFar(Start)
  BY <1>1 DEF IInv, ReportIsShown, TrueSoFar
<1>3. OthersSoFar(Start, r, 0) /\ AppliedSoFar(Start, r, 0) /\ FlipsSoFar(Start, r, 0)
  BY <1>1 DEF OthersSoFar, AppliedSoFar, FlipsSoFar
<1> QED
  BY <1>2, <1>3

\* One more entry: which one is the last then.
LEMMA LastOneMore ==
  ASSUME NEW r, NEW i \in Nat, NEW c, NEW p, NEW j \in 1 .. i + 1,
         IsLast(r, i + 1, j, c, p)
  PROVE  \/ j = i + 1 /\ r[i + 1].obj = c /\ r[i + 1].prop = p
         \/ /\ j \in 1 .. i /\ IsLast(r, i, j, c, p)
            /\ ~(r[i + 1].obj = c /\ r[i + 1].prop = p)
BY DEF IsLast

\* One round of the loop.
LEMMA RoundSoFar ==
  ASSUME IInv, NEW r \in Seq(KnownEntries), NEW i \in Nat, i + 1 \in 1 .. Len(r),
         NEW s \in Locals, TrueSoFar(s), OthersSoFar(s, r, i),
         AppliedSoFar(s, r, i), FlipsSoFar(s, r, i),
         NEW new, new = ApplyEntry(s, r[i + 1])
  PROVE  /\ TrueSoFar(new) /\ OthersSoFar(new, r, i + 1)
         /\ AppliedSoFar(new, r, i + 1) /\ FlipsSoFar(new, r, i + 1)
<1> DEFINE e == r[i + 1]
<1>1. e \in KnownEntries
  BY ElementOfSeq
<1>2. \A j \in 1 .. i + 1 : j \in 1 .. i \/ j = i + 1
  OBVIOUS
<1>3. i + 1 \in 1 .. i + 1 /\ 1 .. i \subseteq 1 .. i + 1
  OBVIOUS
<1>4. /\ live \subseteq KnownFbs /\ g_next_fb_id \in 1 .. MaxFb + 1
  BY DEF IInv, TypeOK, OnlyKnown
<1>5. CASE e.prop = "CRTC_X"
  <2>1. /\ e.obj \in Crtcs
        /\ new.shown = s.shown /\ new.new_fb = s.new_fb
        /\ new.new_plane = s.new_plane /\ new.flips = s.flips
        /\ \A d \in Crtcs :
             /\ new.crtc_x[d] = IF d = e.obj THEN e.val ELSE s.crtc_x[d]
             /\ new.state[d].x = IF d = e.obj THEN e.val ELSE s.state[d].x
             /\ new.state[d].fb = s.state[d].fb
             /\ d # e.obj => new.state[d] = s.state[d]
    BY <1>1, <1>5, XRound
  <2>2. TrueSoFar(new)
    BY <2>1 DEF TrueSoFar
  <2>3. OthersSoFar(new, r, i + 1)
    BY <1>2, <1>3, <2>1 DEF OthersSoFar
  <2>4. ASSUME NEW c \in Crtcs, NEW j \in 1 .. i + 1, IsLast(r, i + 1, j, c, "CRTC_X")
        PROVE  new.crtc_x[c] = r[j].val /\ new.state[c].x = r[j].val
    <3>1. CASE j = i + 1
      <4>1. e.obj = c
        BY <2>4, <3>1 DEF IsLast
      <4> QED
        BY <2>1, <3>1, <4>1
    <3>2. CASE j # i + 1
      <4>1. j \in 1 .. i /\ IsLast(r, i, j, c, "CRTC_X") /\ e.obj # c
        BY <1>5, <2>4, <3>2, LastOneMore
      <4> QED
        BY <2>1, <4>1 DEF AppliedSoFar
    <3> QED
      BY <3>1, <3>2
  <2>5. ASSUME NEW c \in Crtcs, NEW j \in 1 .. i + 1, IsLast(r, i + 1, j, c, "FB_ID"),
               r[j].val \in live
        PROVE  new.shown[c].fb = r[j].val
    <3>1. j \in 1 .. i /\ IsLast(r, i, j, c, "FB_ID")
      BY <1>5, <2>5, LastOneMore
    <3> QED
      BY <2>1, <2>5, <3>1 DEF AppliedSoFar
  <2>8. ASSUME NEW c \in Crtcs, NEW j \in 1 .. i + 1, NEW k \in 1 .. i + 1,
               Placed(r, i + 1, j, k, c)
        PROVE  new.shown[c].x = r[j].val
    <3>1. /\ IsLast(r, i + 1, j, c, "CRTC_X") /\ IsLast(r, i + 1, k, c, "FB_ID")
          /\ j < k /\ r[k].val \in live
      BY <2>8 DEF Placed
    <3>2. k \in 1 .. i /\ IsLast(r, i, k, c, "FB_ID")
      BY <1>5, <3>1, LastOneMore
    <3>3. j # i + 1
      BY <3>1, <3>2
    <3>4. j \in 1 .. i /\ IsLast(r, i, j, c, "CRTC_X")
      BY <3>1, <3>3, LastOneMore
    <3>5. Placed(r, i, j, k, c)
      BY <3>1, <3>2, <3>4 DEF Placed
    <3> QED
      BY <2>1, <3>2, <3>4, <3>5 DEF AppliedSoFar
  <2>6. AppliedSoFar(new, r, i + 1)
    BY <2>4, <2>5, <2>8 DEF AppliedSoFar
  <2>7. FlipsSoFar(new, r, i + 1)
    BY <1>2, <1>3, <1>5, <2>1 DEF FlipsSoFar
  <2> QED
    BY <2>2, <2>3, <2>6, <2>7
<1>6. CASE e.prop # "CRTC_X"
  <2>1. /\ e.obj \in Crtcs /\ e.val \in KnownFbs /\ e.prop = "FB_ID"
        /\ new = ApplyFb(s, e.obj, e.val)
    BY <1>1, <1>6, EntryIs
  <2>2. /\ new.crtc_x = s.crtc_x
        /\ new.new_fb = e.val /\ new.new_plane = e.obj /\ new.flips = s.flips \cup {e.obj}
        /\ \A d \in Crtcs :
             /\ new.state[d].x = s.state[d].x
             /\ new.state[d].fb = IF d = e.obj /\ e.val \in live THEN e.val
                                  ELSE s.state[d].fb
             /\ d # e.obj => new.shown[d] = s.shown[d] /\ new.state[d] = s.state[d]
             /\ e.val \in live => new.shown[e.obj].fb = e.val
             /\ e.val \in live /\ s.crtc_x[e.obj] # Unset =>
                  new.shown[e.obj].x = s.crtc_x[e.obj]
             /\ e.val \notin live => new.shown[d] = s.shown[d]
    BY <1>4, <2>1, FbRound
  <2>3. TrueSoFar(new)
    BY <2>1, <2>2 DEF TrueSoFar
  <2>4. OthersSoFar(new, r, i + 1)
    <3>1. r[i + 1].obj = new.new_plane
      BY <2>1, <2>2
    <3>2. ASSUME NEW c \in Crtcs, \A j \in 1 .. i + 1 : r[j].obj # c
          PROVE  new.crtc_x[c] = crtc_x[c] /\ new.state[c] = g_state[c]
                 /\ new.shown[c] = shown[c]
      <4>1. e.obj # c /\ \A j \in 1 .. i : r[j].obj # c
        BY <1>3, <3>2
      <4> QED
        BY <2>2, <4>1 DEF OthersSoFar
    <3> QED
      BY <1>3, <3>1, <3>2 DEF OthersSoFar
  <2>5. ASSUME NEW c \in Crtcs, NEW j \in 1 .. i + 1, IsLast(r, i + 1, j, c, "CRTC_X")
        PROVE  new.crtc_x[c] = r[j].val /\ new.state[c].x = r[j].val
    <3>1. j \in 1 .. i /\ IsLast(r, i, j, c, "CRTC_X")
      BY <2>1, <2>5, LastOneMore
    <3> QED
      BY <2>2, <3>1 DEF AppliedSoFar
  <2>6. ASSUME NEW c \in Crtcs, NEW j \in 1 .. i + 1, IsLast(r, i + 1, j, c, "FB_ID"),
               r[j].val \in live
        PROVE  new.shown[c].fb = r[j].val
    <3>1. CASE j = i + 1
      <4>1. e.obj = c
        BY <2>6, <3>1 DEF IsLast
      <4> QED
        BY <2>2, <2>6, <3>1, <4>1
    <3>2. CASE j # i + 1
      <4>1. j \in 1 .. i /\ IsLast(r, i, j, c, "FB_ID") /\ e.obj # c
        BY <2>1, <2>6, <3>2, LastOneMore
      <4> QED
        BY <2>2, <2>6, <4>1 DEF AppliedSoFar
    <3> QED
      BY <3>1, <3>2
  <2>9. ASSUME NEW c \in Crtcs, NEW j \in 1 .. i + 1, NEW k \in 1 .. i + 1,
               Placed(r, i + 1, j, k, c)
        PROVE  new.shown[c].x = r[j].val
    <3>1. /\ IsLast(r, i + 1, j, c, "CRTC_X") /\ IsLast(r, i + 1, k, c, "FB_ID")
          /\ j < k /\ r[k].val \in live
      BY <2>9 DEF Placed
    <3>2. j \in 1 .. i /\ IsLast(r, i, j, c, "CRTC_X")
      BY <2>1, <3>1, LastOneMore
    <3>3. CASE k = i + 1
      <4>1. e.obj = c /\ e.val \in live
        BY <3>1, <3>3 DEF IsLast
      <4>2. s.crtc_x[c] = r[j].val
        BY <3>2 DEF AppliedSoFar
      <4>3. r[j].val \in Positions
        <5>1. r[j] \in KnownEntries
          BY <3>2, LenProperties, ElementOfSeq
        <5> QED
          BY <3>2, <5>1, EntryIs DEF IsLast
      <4>4. s.crtc_x[c] # Unset
        BY <4>2, <4>3, PositionsAssumption DEF Unset
      <4> QED
        BY <2>2, <4>1, <4>2, <4>4
    <3>4. CASE k # i + 1
      <4>1. k \in 1 .. i /\ IsLast(r, i, k, c, "FB_ID") /\ e.obj # c
        BY <2>1, <3>1, <3>4, LastOneMore
      <4>2. Placed(r, i, j, k, c)
        BY <3>1, <3>2, <4>1 DEF Placed
      <4>3. s.shown[c].x = r[j].val
        BY <3>2, <4>1, <4>2 DEF AppliedSoFar
      <4> QED
        BY <2>2, <4>1, <4>3
    <3> QED
      BY <3>3, <3>4
  <2>7. AppliedSoFar(new, r, i + 1)
    BY <2>5, <2>6, <2>9 DEF AppliedSoFar
  <2>8. FlipsSoFar(new, r, i + 1)
    BY <1>2, <1>3, <2>1, <2>2 DEF FlipsSoFar
  <2> QED
    BY <2>3, <2>4, <2>7, <2>8
<1> QED
  BY <1>5, <1>6

\* After the last round, and so for every request however long.
LEMMA LoopDone ==
  ASSUME IInv, NEW r \in Seq(KnownEntries)
  PROVE  LET s == Rounds(r)[Len(r)]
         IN  /\ s \in Locals
             /\ TrueSoFar(s) /\ OthersSoFar(s, r, Len(r))
             /\ AppliedSoFar(s, r, Len(r)) /\ FlipsSoFar(s, r, Len(r))
<1> DEFINE n == Len(r)
           s == Rounds(r)
           Good(i) == /\ TrueSoFar(s[i]) /\ OthersSoFar(s[i], r, i)
                      /\ AppliedSoFar(s[i], r, i) /\ FlipsSoFar(s[i], r, i)
           A == {i \in 0 .. n : Good(i)}
<1>1. n \in Nat
  BY LenProperties
<1>2. /\ s \in [0 .. n -> Locals] /\ s[0] = Start
      /\ \A i \in 1 .. n : s[i] = ApplyEntry(s[i - 1], r[i])
  BY RoundsAre
<1>3. 0 \in A
  BY <1>1, <1>2, StartSoFar
<1>4. ASSUME NEW i \in 1 .. n, i - 1 \in A PROVE i \in A
  <2>1. /\ s[i - 1] \in Locals /\ s[i] = ApplyEntry(s[i - 1], r[(i - 1) + 1])
        /\ i - 1 \in Nat /\ (i - 1) + 1 \in 1 .. n /\ (i - 1) + 1 = i
    BY <1>1, <1>2
  <2>2. Good(i - 1)
    BY <1>4
  <2>3. Good((i - 1) + 1)
    <3>1. s[(i - 1) + 1] = ApplyEntry(s[i - 1], r[(i - 1) + 1])
      BY <2>1
    <3> HIDE DEF s
    <3> QED
      BY <2>1, <2>2, <3>1, RoundSoFar
  <2> HIDE DEF Good
  <2> QED
    BY <2>1, <2>3
<1>5. n \in A
  <2> HIDE DEF A
  <2>1. \A i \in 1 .. n : i - 1 \in A => i \in A
    BY <1>4
  <2>2. \A i \in 0 .. n : i \in A
    BY <1>1, <1>3, <2>1, Upwards
  <2> QED
    BY <1>1, <2>2
<1> QED
  BY <1>1, <1>2, <1>5

-----------------------------------------------------------------------------
\* The block after the loop.
LEMMA ReportFlipIs ==
  ASSUME g_next_fb_id \in 1 .. MaxFb + 1, NEW s \in Locals, TrueSoFar(s)
  PROVE  LET new == ReportFlip(s)
         IN  /\ new \in Locals
             /\ new.crtc_x = s.crtc_x /\ new.shown = s.shown /\ new.flips = s.flips
             /\ \A d \in Crtcs :
                  /\ new.state[d].x = s.state[d].x
                  /\ new.state[d].fb = IF s.new_fb # 0 /\ d = s.new_plane THEN s.new_fb
                                       ELSE s.state[d].fb
                  /\ s.new_fb = 0 \/ d # s.new_plane => new.state[d] = s.state[d]
<1>1. s.new_fb \in KnownFbs /\ KnownFbs \subseteq Nat
  BY DEF Locals, KnownFbs
<1>2. CASE s.new_fb = 0
  <2>1. ReportFlip(s) = s
    BY <1>2 DEF ReportFlip
  <2> QED
    BY <1>2, <2>1
<1>3. CASE s.new_fb # 0
  <2> DEFINE c == s.new_plane
             st == [s.state EXCEPT ![c].fb = s.new_fb]
             new == [s EXCEPT !.state = st]
  <2>1. c \in Crtcs /\ s.new_fb > 0
    BY <1>1, <1>3 DEF TrueSoFar
  <2>2. /\ st \in [Crtcs -> [fb : KnownFbs, x : Positions]]
        /\ \A d \in Crtcs :
             /\ st[d].x = s.state[d].x
             /\ st[d].fb = IF d = c THEN s.new_fb ELSE s.state[d].fb
             /\ d # c => st[d] = s.state[d]
    BY <1>1, <2>1 DEF Locals
  <2>3. ReportFlip(s) = new
    BY <2>1 DEF ReportFlip
  <2> HIDE DEF st
  <2>4. /\ new \in Locals /\ new.crtc_x = s.crtc_x /\ new.shown = s.shown
        /\ new.flips = s.flips /\ new.state = st
    BY <2>2 DEF Locals
  <2> HIDE DEF new
  <2> QED
    BY <1>3, <2>2, <2>3, <2>4
<1> QED
  BY <1>2, <1>3

\* What request r asks for is done, and nothing else.
Done(r, flags) ==
  LET named == {c \in Crtcs : \E j \in 1 .. Len(r) : r[j].obj = c /\ r[j].prop = "FB_ID"}
  IN  /\ \A c \in Crtcs : (\A j \in 1 .. Len(r) : r[j].obj # c) =>
           crtc_x'[c] = crtc_x[c] /\ g_state'[c] = g_state[c] /\ shown'[c] = shown[c]
      /\ \A c \in Crtcs : \A j \in 1 .. Len(r) :
           IsLast(r, Len(r), j, c, "CRTC_X") =>
             crtc_x'[c] = r[j].val /\ g_state'[c].x = r[j].val
      /\ \A c \in Crtcs : \A j \in 1 .. Len(r) :
           IsLast(r, Len(r), j, c, "FB_ID") /\ r[j].val \in live =>
             shown'[c].fb = r[j].val
      /\ \A c \in Crtcs : \A j, k \in 1 .. Len(r) :
           Placed(r, Len(r), j, k, c) => shown'[c].x = r[j].val
      /\ "PAGE_FLIP_EVENT" \in flags =>
           flip_crtcs' = IF named = {} THEN {1} ELSE named

\* A commit keeps the types, reports what is shown and does what it is asked for.
LEMMA ApplyDoes ==
  ASSUME IInv, NEW r \in Seq(KnownEntries), NEW flags, Apply(r, flags)
  PROVE  /\ crtc_x' \in [Crtcs -> Positions \cup {Unset}]
         /\ g_state' \in [Crtcs -> [fb : KnownFbs, x : Positions]]
         /\ shown' \in [Crtcs -> [fb : FbIds, x : Positions]]
         /\ flip_crtcs' \subseteq Crtcs
         /\ UNCHANGED <<live, g_next_fb_id>>
         /\ ReportIsShown'
         /\ Done(r, flags)
<1> DEFINE s == Rounds(r)[Len(r)]
           new == ReportFlip(s)
           n == Len(r)
<1>1. n \in Nat /\ g_next_fb_id \in 1 .. MaxFb + 1
  BY LenProperties DEF IInv, TypeOK
<1>2. /\ s \in Locals
      /\ TrueSoFar(s) /\ OthersSoFar(s, r, n)
      /\ AppliedSoFar(s, r, n) /\ FlipsSoFar(s, r, n)
  BY LoopDone
<1>3. /\ crtc_x' = new.crtc_x /\ g_state' = new.state /\ shown' = new.shown
      /\ flip_crtcs' = IF "PAGE_FLIP_EVENT" \notin flags THEN {}
                       ELSE IF new.flips = {} THEN {1} ELSE new.flips
      /\ UNCHANGED <<live, g_next_fb_id>>
  BY DEF Apply
<1> HIDE DEF s, n
<1>4. /\ new \in Locals
      /\ new.crtc_x = s.crtc_x /\ new.shown = s.shown /\ new.flips = s.flips
      /\ \A d \in Crtcs :
           /\ new.state[d].x = s.state[d].x
           /\ new.state[d].fb = IF s.new_fb # 0 /\ d = s.new_plane THEN s.new_fb
                                ELSE s.state[d].fb
           /\ s.new_fb = 0 \/ d # s.new_plane => new.state[d] = s.state[d]
  BY <1>1, <1>2, ReportFlipIs
<1> HIDE DEF new
<1>5. /\ new.crtc_x \in [Crtcs -> Positions \cup {Unset}]
      /\ new.state \in [Crtcs -> [fb : KnownFbs, x : Positions]]
      /\ new.shown \in [Crtcs -> [fb : FbIds, x : Positions]]
      /\ new.flips \subseteq Crtcs
  BY <1>4 DEF Locals
<1>6. flip_crtcs' \subseteq Crtcs
  <2>1. 1 \in Crtcs
    BY CrtcsAssumption DEF Crtcs
  <2> QED
    BY <1>3, <1>5, <2>1
<1>7. ReportIsShown'
  <2> SUFFICES ASSUME NEW c \in Crtcs, g_state'[c].fb \in live
               PROVE  shown'[c].fb = g_state'[c].fb
    BY <1>3 DEF ReportIsShown
  <2>1. CASE s.new_fb # 0 /\ c = s.new_plane
    BY <1>2, <1>3, <1>4, <2>1 DEF TrueSoFar
  <2>2. CASE ~(s.new_fb # 0 /\ c = s.new_plane)
    BY <1>2, <1>3, <1>4, <2>2 DEF TrueSoFar
  <2> QED
    BY <2>1, <2>2
<1>8. ASSUME NEW c \in Crtcs, \A j \in 1 .. n : r[j].obj # c
      PROVE  crtc_x'[c] = crtc_x[c] /\ g_state'[c] = g_state[c] /\ shown'[c] = shown[c]
  BY <1>2, <1>3, <1>4, <1>8 DEF OthersSoFar
<1>9. ASSUME NEW c \in Crtcs, NEW j \in 1 .. n, IsLast(r, n, j, c, "CRTC_X")
      PROVE  crtc_x'[c] = r[j].val /\ g_state'[c].x = r[j].val
  BY <1>2, <1>3, <1>4, <1>9 DEF AppliedSoFar
<1>10. ASSUME NEW c \in Crtcs, NEW j \in 1 .. n, IsLast(r, n, j, c, "FB_ID"),
              r[j].val \in live
       PROVE  shown'[c].fb = r[j].val
  BY <1>2, <1>3, <1>4, <1>10 DEF AppliedSoFar
<1>11. new.flips = {c \in Crtcs : \E j \in 1 .. n : r[j].obj = c /\ r[j].prop = "FB_ID"}
  BY <1>2, <1>4 DEF FlipsSoFar
<1>13. ASSUME NEW c \in Crtcs, NEW j \in 1 .. n, NEW k \in 1 .. n,
              Placed(r, n, j, k, c)
       PROVE  shown'[c].x = r[j].val
  BY <1>2, <1>3, <1>4, <1>13 DEF AppliedSoFar
<1>12. Done(r, flags)
  BY <1>3, <1>8, <1>9, <1>10, <1>11, <1>13 DEF Done, n
<1> QED
  BY <1>3, <1>5, <1>6, <1>7, <1>12

-----------------------------------------------------------------------------
\* A set of numbers up to n that is not empty has a greatest one.
LEMMA Greatest ==
  ASSUME NEW n \in Nat, NEW A \in SUBSET (1 .. n), A # {}
  PROVE  \E k \in A : \A m \in A : m <= k
<1> DEFINE B == {n - i : i \in A}
<1>1. B \in SUBSET Nat /\ B # {}
  <2>1. PICK k \in A : TRUE
    OBVIOUS
  <2>2. n - k \in B
    BY <2>1
  <2>3. \A i \in A : n - i \in Nat
    OBVIOUS
  <2> QED
    BY <2>2, <2>3
<1> HIDE DEF B
<1>2. PICK b \in B : \A m \in B : b <= m
  BY <1>1, Smallest
<1>3. PICK k \in A : b = n - k
  BY DEF B
<1>4. \A m \in A : n - m \in B
  BY DEF B
<1>5. \A m \in A : n - k <= n - m
  BY <1>2, <1>3, <1>4
<1> QED
  BY <1>5

\* What a request asks for is its last entry's value.
LEMMA AskedIs ==
  ASSUME NEW r \in Seq(KnownEntries), NEW c, NEW p, Asks(r, c, p)
  PROVE  LET j == LastAsk(r, c, p)
         IN  j \in 1 .. Len(r) /\ IsLast(r, Len(r), j, c, p) /\ Asked(r, c, p) = r[j].val
<1> DEFINE A == {i \in 1 .. Len(r) : r[i].obj = c /\ r[i].prop = p}
           Last(i) == /\ r[i].obj = c /\ r[i].prop = p
                      /\ \A j \in DOMAIN r : r[j].obj = c /\ r[j].prop = p => j <= i
<1>1. Len(r) \in Nat /\ DOMAIN r = 1 .. Len(r)
  BY LenProperties
<1>2. A # {} /\ A \in SUBSET (1 .. Len(r))
  BY <1>1 DEF Asks
<1>3. PICK k \in A : \A m \in A : m <= k
  <2> HIDE DEF A
  <2> QED
    BY <1>1, <1>2, Greatest
<1>4. k \in DOMAIN r /\ Last(k)
  BY <1>1, <1>3
<1> DEFINE i == CHOOSE x \in DOMAIN r : Last(x)
<1>5. i \in DOMAIN r /\ Last(i)
  <2> HIDE DEF Last
  <2> QED
    BY <1>4
<1>6. LastAsk(r, c, p) = i /\ Asked(r, c, p) = r[i].val
  BY DEF Asked, LastAsk
<1> HIDE DEF i
<1> QED
  BY <1>1, <1>5, <1>6 DEF IsLast

-----------------------------------------------------------------------------
\* A sequence over a set is one over any larger set.
LEMMA MoreEntries ==
  ASSUME NEW S, NEW T, S \subseteq T, NEW r \in Seq(S)
  PROVE  r \in Seq(T)
<1>1. Len(r) \in Nat /\ r \in [1 .. Len(r) -> S]
  BY LenProperties
<1>2. r \in [1 .. Len(r) -> T]
  BY <1>1
<1> QED
  BY <1>1, <1>2, SeqDef

\* drmModeAtomicAddProperty.
LEMMA AppendIs ==
  ASSUME NEW S, NEW r \in Seq(S), NEW e \in S, Len(r) <= MAX_ATOMIC_PROPS
  PROVE  LET new == AppendEntry(r, e)
         IN  /\ new \in Seq(S) /\ Len(new) <= MAX_ATOMIC_PROPS
             /\ Len(r) < MAX_ATOMIC_PROPS =>
                  /\ Len(new) = Len(r) + 1 /\ new[Len(r) + 1] = e
                  /\ \A i \in 1 .. Len(r) : new[i] = r[i]
<1>1. Len(r) \in Nat /\ MAX_ATOMIC_PROPS \in Nat
  BY LenProperties, RequestAssumption
<1>2. CASE Len(r) >= MAX_ATOMIC_PROPS
  <2>1. AppendEntry(r, e) = r /\ ~(Len(r) < MAX_ATOMIC_PROPS)
    BY <1>1, <1>2 DEF AppendEntry
  <2> QED
    BY <2>1
<1>3. CASE ~(Len(r) >= MAX_ATOMIC_PROPS)
  <2>1. AppendEntry(r, e) = Append(r, e)
    BY <1>3 DEF AppendEntry
  <2>2. /\ Append(r, e) \in Seq(S) /\ Len(Append(r, e)) = Len(r) + 1
        /\ Append(r, e)[Len(r) + 1] = e
        /\ \A i \in 1 .. Len(r) : Append(r, e)[i] = r[i]
    BY AppendProperties
  <2> QED
    BY <1>1, <1>3, <2>1, <2>2
<1> QED
  BY <1>2, <1>3

\* The loop of handle_atomic runs, and no round of it leaves the pool too long.
LEMMA PooledAre ==
  ASSUME IInv
  PROVE  /\ Pooled \in [0 .. Len(req) -> Seq(KnownEntries)]
         /\ Pooled[0] = pool
         /\ \A i \in 1 .. Len(req) : Pooled[i] = AppendEntry(Pooled[i - 1], req[i])
         /\ \A i \in 0 .. Len(req) : Len(Pooled[i]) <= MAX_ATOMIC_PROPS
<1> DEFINE n == Len(req)
           S == {r \in Seq(KnownEntries) : Len(r) <= MAX_ATOMIC_PROPS}
           F == [i \in 1 .. n |-> [r \in S |-> AppendEntry(r, req[i])]]
           Is(f) == f = [i \in 0 .. n |-> IF i = 0 THEN pool
                                          ELSE AppendEntry(f[i - 1], req[i])]
<1>1. n \in Nat /\ (\A i \in 1 .. n : req[i] \in KnownEntries) /\ pool \in S
  BY LenProperties, ElementOfSeq DEF IInv, TypeOK, OnlyKnown
<1>2. \A i \in 1 .. n, r \in S : AppendEntry(r, req[i]) \in S
  BY <1>1, AppendIs
<1> HIDE DEF S
<1>3. F \in Bodies(n, S)
  BY <1>2 DEF Bodies
<1>4. \A r \in S, i \in 1 .. n : F[i][r] = AppendEntry(r, req[i])
  OBVIOUS
<1> HIDE DEF F, n
<1>5. PICK f \in [0 .. n -> S] :
        f[0] = pool /\ \A i \in 1 .. n : f[i] = F[i][f[i - 1]]
  <2>1. HasRun(n, S, pool, F)
    BY <1>1, <1>3, LoopRuns
  <2> QED
    BY <2>1 DEF HasRun
<1>6. \A i \in 0 .. n : f[i] = IF i = 0 THEN pool ELSE AppendEntry(f[i - 1], req[i])
  <2> SUFFICES ASSUME NEW i \in 0 .. n
               PROVE  f[i] = IF i = 0 THEN pool ELSE AppendEntry(f[i - 1], req[i])
    OBVIOUS
  <2>1. i # 0 => i - 1 \in 0 .. n /\ i \in 1 .. n
    BY <1>1
  <2> QED
    BY <1>4, <1>5, <2>1
<1>7. Is(f)
  BY <1>6
<1>8. Pooled = CHOOSE g : Is(g)
  BY DEF Pooled, n
<1> HIDE DEF Is
<1>9. Is(Pooled)
  BY <1>7, <1>8
<1> USE DEF Is
<1>10. \A i \in 0 .. n : Pooled[i] = IF i = 0 THEN pool
                                     ELSE AppendEntry(Pooled[i - 1], req[i])
  BY <1>9
<1>11. Pooled[0] = pool
  BY <1>1, <1>10
<1>12. \A i \in 1 .. n : Pooled[i] = AppendEntry(Pooled[i - 1], req[i])
  BY <1>1, <1>10
<1> DEFINE A == {i \in 0 .. n : Pooled[i] \in S}
<1>13. \A i \in 0 .. n : i \in A
  <2>1. 0 \in A
    BY <1>1, <1>11
  <2>2. ASSUME NEW i \in 1 .. n, i - 1 \in A PROVE i \in A
    <3>1. Pooled[i] \in S
      BY <1>1, <1>2, <1>12, <2>2
    <3> QED
      BY <1>1, <3>1
  <2> HIDE DEF A
  <2> QED
    BY <1>1, <2>1, <2>2, Upwards
<1>14. Pooled \in [0 .. n -> S]
  BY <1>9, <1>13
<1> QED
  BY <1>11, <1>12, <1>14 DEF n, S

\* While there is room, every property of the call is added after the pool's.
LEMMA PooledHas ==
  ASSUME IInv, Len(pool) + Len(req) <= MAX_ATOMIC_PROPS
  PROVE  LET r == Pooled[Len(req)]
         IN  /\ Len(r) = Len(pool) + Len(req)
             /\ \A j \in 1 .. Len(req) : r[Len(pool) + j] = req[j]
<1> DEFINE n == Len(req)
           l == Len(pool)
           p == Pooled
           Good(i) == Len(p[i]) = l + i /\ \A j \in 1 .. i : p[i][l + j] = req[j]
           A == {i \in 0 .. n : Good(i)}
<1>1. n \in Nat /\ l \in Nat /\ MAX_ATOMIC_PROPS \in Nat
      /\ \A i \in 1 .. n : req[i] \in KnownEntries
  BY LenProperties, ElementOfSeq, RequestAssumption DEF IInv, OnlyKnown
<1>2. /\ p \in [0 .. n -> Seq(KnownEntries)] /\ p[0] = pool
      /\ \A i \in 1 .. n : p[i] = AppendEntry(p[i - 1], req[i])
      /\ \A i \in 0 .. n : Len(p[i]) <= MAX_ATOMIC_PROPS
  BY PooledAre
<1> HIDE DEF p
<1>3. 0 \in A
  BY <1>1, <1>2
<1>4. ASSUME NEW i \in 1 .. n, i - 1 \in A PROVE i \in A
  <2> DEFINE old == p[i - 1]
  <2>1. /\ i - 1 \in 0 .. n /\ old \in Seq(KnownEntries) /\ Len(old) = l + (i - 1)
        /\ \A j \in 1 .. i - 1 : old[l + j] = req[j]
    BY <1>1, <1>2, <1>4
  <2>2. /\ Len(old) < MAX_ATOMIC_PROPS /\ Len(old) <= MAX_ATOMIC_PROPS
        /\ Len(old) + 1 = l + i /\ req[i] \in KnownEntries
    BY <1>1, <2>1
  <2> HIDE DEF old
  <2>3. /\ Len(AppendEntry(old, req[i])) = Len(old) + 1
        /\ AppendEntry(old, req[i])[Len(old) + 1] = req[i]
        /\ \A j \in 1 .. Len(old) : AppendEntry(old, req[i])[j] = old[j]
    <3>1. \A s \in Seq(KnownEntries), e \in KnownEntries :
            LET new == AppendEntry(s, e)
            IN  Len(s) < MAX_ATOMIC_PROPS /\ Len(s) <= MAX_ATOMIC_PROPS =>
                  /\ Len(new) = Len(s) + 1 /\ new[Len(s) + 1] = e
                  /\ \A j \in 1 .. Len(s) : new[j] = s[j]
      BY AppendIs
    <3> QED
      BY <2>1, <2>2, <3>1
  <2>4. p[i] = AppendEntry(old, req[i])
    BY <1>2 DEF old
  <2>5. ASSUME NEW j \in 1 .. i PROVE p[i][l + j] = req[j]
    <3>1. CASE j = i
      BY <2>2, <2>3, <2>4, <3>1
    <3>2. CASE j # i
      <4>1. j \in 1 .. i - 1 /\ l + j \in 1 .. Len(old)
        BY <1>1, <2>1, <3>2
      <4> QED
        BY <2>1, <2>3, <2>4, <4>1
    <3> QED
      BY <3>1, <3>2
  <2>6. i \in 0 .. n /\ Good(i)
    BY <1>1, <2>2, <2>3, <2>4, <2>5
  <2> QED
    BY <2>6
<1>5. n \in A
  <2> HIDE DEF A
  <2>1. \A i \in 1 .. n : i - 1 \in A => i \in A
    BY <1>4
  <2>2. \A i \in 0 .. n : i \in A
    BY <1>1, <1>3, <2>1, Upwards
  <2> QED
    BY <1>1, <2>2
<1> QED
  BY <1>5 DEF p

-----------------------------------------------------------------------------
\* Initially nothing is reported, nothing shown and nothing asked for.
LEMMA InitIInv == Init => IInv
<1> SUFFICES ASSUME Init PROVE IInv
  OBVIOUS
<1> USE DEF Init
<1>1. 0 \in FbIds /\ 0 \in KnownFbs /\ 0 \in Positions /\ 1 \in 1 .. MaxFb + 1
  BY MaxFbAssumption, PositionsAssumption DEF FbIds, KnownFbs
<1>2. << >> \in Seq(Entries) /\ << >> \in Seq(KnownEntries) /\ Len(<< >>) <= MAX_ATOMIC_PROPS
  BY EmptySeq, RequestAssumption
<1>3. TypeOK
  BY <1>1, <1>2 DEF TypeOK
<1>4. ReportIsShown
  BY DEF ReportIsShown
<1>5. OnlyKnown
  BY <1>1, <1>2 DEF OnlyKnown
<1> QED
  BY <1>3, <1>4, <1>5 DEF IInv

\* What is known by now is what the types allow.
LEMMA KnownIsTyped ==
  ASSUME g_next_fb_id \in 1 .. MaxFb + 1
  PROVE  /\ KnownFbs \subseteq FbIds /\ 0 \in KnownFbs
         /\ \A r \in Seq(KnownEntries) : r \in Seq(Entries)
<1>1. KnownFbs \subseteq FbIds /\ 0 \in KnownFbs
  BY MaxFbAssumption DEF KnownFbs, FbIds
<1>2. KnownEntries \subseteq Entries
  BY <1>1 DEF KnownEntries, Entries
<1> QED
  BY <1>1, <1>2, MoreEntries

\* What is left to show of a step that adds no framebuffer and keeps requests.
LEMMA KeptBy ==
  ASSUME IInv, paths' = paths, g_next_fb_id' = g_next_fb_id, live' \subseteq live,
         crtc_x' \in [Crtcs -> Positions \cup {Unset}],
         g_state' \in [Crtcs -> [fb : KnownFbs, x : Positions]],
         shown' \in [Crtcs -> [fb : FbIds, x : Positions]],
         flip_crtcs' \subseteq Crtcs,
         req' \in Seq(KnownEntries), Len(req') <= MAX_ATOMIC_PROPS,
         pool' \in Seq(KnownEntries), Len(pool') <= MAX_ATOMIC_PROPS,
         ReportIsShown'
  PROVE  IInv'
<1>1. /\ KnownFbs' = KnownFbs /\ KnownEntries' = KnownEntries
  BY DEF KnownFbs, KnownEntries
<1>2. KnownFbs \subseteq FbIds /\ req' \in Seq(Entries) /\ pool' \in Seq(Entries)
  <2>1. g_next_fb_id \in 1 .. MaxFb + 1
    BY DEF IInv, TypeOK
  <2> QED
    BY <2>1, KnownIsTyped
<1>3. g_state' \in [Crtcs -> [fb : FbIds, x : Positions]]
  BY <1>2
<1>4. TypeOK'
  BY <1>2, <1>3 DEF IInv, TypeOK
<1>5. OnlyKnown'
  BY <1>1 DEF IInv, OnlyKnown
<1> QED
  BY <1>4, <1>5 DEF IInv

\* What is presented, and that it is of its type.
LEMMA ShowIs ==
  ASSUME IInv, NEW c \in Crtcs, NEW fb \in KnownFbs, NEW x \in Positions
  PROVE  /\ Show(c, fb, x) \in [Crtcs -> [fb : FbIds, x : Positions]]
         /\ \A d \in Crtcs : d # c => Show(c, fb, x)[d] = shown[d]
         /\ fb \in live => Show(c, fb, x)[c].fb = fb
<1>1. fb \in FbIds /\ shown \in [Crtcs -> [fb : FbIds, x : Positions]]
  BY KnownIsTyped DEF IInv, TypeOK
<1>2. CASE fb \in live
  BY <1>1, <1>2 DEF Show
<1>3. CASE fb \notin live
  BY <1>1, <1>3 DEF Show
<1> QED
  BY <1>2, <1>3

\* drmModeAddFB2: the new framebuffer is reported and asked for nowhere yet.
LEMMA AddFBKeeps ==
  ASSUME IInv, AddFB, paths' = paths PROVE IInv'
<1>1. /\ g_next_fb_id \in 1 .. MaxFb + 1 /\ g_next_fb_id <= MaxFb
      /\ live' = live \cup {g_next_fb_id} /\ g_next_fb_id' = g_next_fb_id + 1
      /\ UNCHANGED <<crtc_x, g_state, shown, req, pool>> /\ flip_crtcs' = {}
  BY DEF AddFB, IInv, TypeOK
<1>2. /\ g_next_fb_id' \in 1 .. MaxFb + 1 /\ g_next_fb_id \in FbIds \ {0}
      /\ KnownFbs \subseteq KnownFbs' /\ g_next_fb_id \in KnownFbs' /\ g_next_fb_id \notin KnownFbs
  BY <1>1, MaxFbAssumption DEF FbIds, KnownFbs
<1>3. KnownEntries \subseteq KnownEntries'
  BY <1>2 DEF KnownEntries
<1>4. TypeOK'
  BY <1>1, <1>2 DEF IInv, TypeOK
<1>5. ReportIsShown'
  <2> SUFFICES ASSUME NEW c \in Crtcs, g_state[c].fb \in live'
               PROVE  shown[c].fb = g_state[c].fb
    BY <1>1 DEF ReportIsShown
  <2>1. g_state[c].fb \in KnownFbs
    BY DEF IInv, OnlyKnown
  <2>2. g_state[c].fb \in live
    BY <1>1, <1>2, <2>1
  <2> QED
    BY <2>2 DEF IInv, ReportIsShown
<1>6. OnlyKnown'
  <2>1. g_state \in [Crtcs -> [fb : KnownFbs', x : Positions]]
    BY <1>2 DEF IInv, OnlyKnown
  <2>2. live' \subseteq KnownFbs'
    BY <1>1, <1>2 DEF IInv, OnlyKnown
  <2>3. req \in Seq(KnownEntries') /\ pool \in Seq(KnownEntries')
    BY <1>3, MoreEntries DEF IInv, OnlyKnown
  <2> QED
    BY <1>1, <2>1, <2>2, <2>3 DEF OnlyKnown
<1> QED
  BY <1>4, <1>5, <1>6 DEF IInv

\* The types IInv gives, as the steps below use them.
LEMMA TypesOf ==
  ASSUME IInv
  PROVE  /\ g_next_fb_id \in 1 .. MaxFb + 1
         /\ crtc_x \in [Crtcs -> Positions \cup {Unset}]
         /\ g_state \in [Crtcs -> [fb : KnownFbs, x : Positions]]
         /\ shown \in [Crtcs -> [fb : FbIds, x : Positions]]
         /\ flip_crtcs \subseteq Crtcs
         /\ req \in Seq(KnownEntries) /\ Len(req) <= MAX_ATOMIC_PROPS
         /\ pool \in Seq(KnownEntries) /\ Len(pool) <= MAX_ATOMIC_PROPS
BY DEF IInv, TypeOK, OnlyKnown

\* drmModeRmFB.
LEMMA RmFBKeeps ==
  ASSUME IInv, paths' = paths, NEW fb \in live, RmFB(fb) PROVE IInv'
<1>1. /\ live' \subseteq live /\ flip_crtcs' = {}
      /\ UNCHANGED <<crtc_x, g_state, shown, g_next_fb_id, req, pool>>
  BY DEF RmFB
<1>2. ReportIsShown'
  BY <1>1 DEF IInv, ReportIsShown
<1> QED
  BY <1>1, <1>2, TypesOf, KeptBy

\* drmModeSetCrtc.
LEMMA SetCrtcKeeps ==
  ASSUME IInv, paths' = paths, NEW c \in Crtcs, NEW fb \in KnownFbs,
         NEW x \in Positions, SetCrtc(c, fb, x)
  PROVE  IInv'
<1>1. /\ g_state' = [g_state EXCEPT ![c] = [fb |-> fb, x |-> x]]
      /\ shown' = Show(c, fb, x) /\ flip_crtcs' = {}
      /\ UNCHANGED <<crtc_x, live, g_next_fb_id, req, pool>>
  BY DEF SetCrtc
<1>2. g_state' \in [Crtcs -> [fb : KnownFbs, x : Positions]]
  BY <1>1, TypesOf
<1>3. ReportIsShown'
  <2>1. ASSUME NEW d \in Crtcs, g_state'[d].fb \in live
        PROVE  shown'[d].fb = g_state'[d].fb
    <3>1. CASE d = c
      BY <1>1, <2>1, <3>1, TypesOf, ShowIs
    <3>2. CASE d # c
      <4>1. g_state'[d] = g_state[d] /\ shown'[d] = shown[d]
        BY <1>1, <3>2, TypesOf, ShowIs
      <4> QED
        BY <2>1, <4>1 DEF IInv, ReportIsShown
    <3> QED
      BY <3>1, <3>2
  <2> QED
    BY <1>1, <2>1 DEF ReportIsShown
<1>4. shown' \in [Crtcs -> [fb : FbIds, x : Positions]]
  BY <1>1, ShowIs
<1> QED
  BY <1>1, <1>2, <1>3, <1>4, TypesOf, KeptBy

\* drmModePageFlip.
LEMMA PageFlipKeeps ==
  ASSUME IInv, paths' = paths, NEW c \in Crtcs, NEW fb \in KnownFbs, PageFlip(c, fb)
  PROVE  IInv'
<1> DEFINE x == g_state[c].x
<1>1. /\ g_state' = [g_state EXCEPT ![c].fb = fb]
      /\ shown' = Show(c, fb, x) /\ flip_crtcs' = {c}
      /\ UNCHANGED <<crtc_x, live, g_next_fb_id, req, pool>>
  BY DEF PageFlip
<1>2. x \in Positions
  BY TypesOf
<1> HIDE DEF x
<1>3. /\ g_state' \in [Crtcs -> [fb : KnownFbs, x : Positions]]
      /\ g_state'[c].fb = fb
      /\ \A d \in Crtcs : d # c => g_state'[d] = g_state[d]
  BY <1>1, TypesOf
<1>4. ReportIsShown'
  <2>1. ASSUME NEW d \in Crtcs, g_state'[d].fb \in live
        PROVE  shown'[d].fb = g_state'[d].fb
    <3>1. CASE d = c
      BY <1>1, <1>2, <1>3, <2>1, <3>1, ShowIs
    <3>2. CASE d # c
      <4>1. g_state'[d] = g_state[d] /\ shown'[d] = shown[d]
        BY <1>1, <1>2, <1>3, <3>2, ShowIs
      <4> QED
        BY <2>1, <4>1 DEF IInv, ReportIsShown
    <3> QED
      BY <3>1, <3>2
  <2> QED
    BY <1>1, <2>1 DEF ReportIsShown
<1>5. shown' \in [Crtcs -> [fb : FbIds, x : Positions]]
  BY <1>1, <1>2, ShowIs
<1> QED
  BY <1>1, <1>3, <1>4, <1>5, TypesOf, KeptBy

\* drmModeAtomicAddProperty.
LEMMA AddPropertyKeeps ==
  ASSUME IInv, paths' = paths, NEW e \in Entries, AddProperty(e) PROVE IInv'
<1>1. e \in KnownEntries
  <2>1. CASE e.prop = "FB_ID"
    BY <2>1 DEF AddProperty, Entries, KnownEntries
  <2>2. CASE e.prop # "FB_ID"
    BY <2>2 DEF Entries, KnownEntries
  <2> QED
    BY <2>1, <2>2
<1>2. req' \in Seq(KnownEntries) /\ Len(req') <= MAX_ATOMIC_PROPS
  BY <1>1, TypesOf, AppendIs DEF AddProperty
<1>3. UNCHANGED <<crtc_x, g_state, shown, live, g_next_fb_id, pool>> /\ flip_crtcs' = {}
  BY DEF AddProperty
<1>4. ReportIsShown'
  BY <1>3 DEF IInv, ReportIsShown
<1> QED
  BY <1>2, <1>3, <1>4, TypesOf, KeptBy

\* drmModeAtomicFree.
LEMMA AtomicFreeKeeps ==
  ASSUME IInv, paths' = paths, AtomicFree PROVE IInv'
<1>1. req' \in Seq(KnownEntries) /\ Len(req') <= MAX_ATOMIC_PROPS
  BY EmptySeq, RequestAssumption DEF AtomicFree
<1>2. UNCHANGED <<crtc_x, g_state, shown, live, g_next_fb_id, pool>> /\ flip_crtcs' = {}
  BY DEF AtomicFree
<1>3. ReportIsShown'
  BY <1>2 DEF IInv, ReportIsShown
<1> QED
  BY <1>1, <1>2, <1>3, TypesOf, KeptBy

\* drmModeAtomicCommit.
LEMMA AtomicCommitKeeps ==
  ASSUME IInv, paths' = paths, NEW flags, AtomicCommit(flags) PROVE IInv'
<1>1. Apply(req, flags) /\ UNCHANGED <<req, pool>>
  BY DEF AtomicCommit
<1> QED
  BY <1>1, TypesOf, ApplyDoes, KeptBy

\* handle_atomic.
LEMMA HandleAtomicKeeps ==
  ASSUME IInv, paths' = paths, NEW flags, HandleAtomic(flags) PROVE IInv'
<1> DEFINE r == Pooled[Len(req)]
<1>1. pool' = r /\ Apply(r, flags) /\ UNCHANGED req
  BY DEF HandleAtomic, Apply
<1>2. r \in Seq(KnownEntries) /\ Len(r) <= MAX_ATOMIC_PROPS
  <2>1. Len(req) \in Nat
    BY TypesOf, LenProperties
  <2> QED
    BY <2>1, PooledAre
<1> HIDE DEF r
<1> QED
  BY <1>1, <1>2, TypesOf, ApplyDoes, KeptBy

\* Every step keeps the invariant.
LEMMA StepIInv == IInv /\ [Next]_vars => IInv'
<1> SUFFICES ASSUME IInv, [Next]_vars PROVE IInv'
  OBVIOUS
<1>1. CASE UNCHANGED vars
  BY <1>1 DEF vars, IInv, TypeOK, ReportIsShown, OnlyKnown, KnownFbs, KnownEntries
<1>2. CASE Next
  <2>1. paths' = paths
    BY <1>2 DEF Next
  <2>2. \/ AddFB
        \/ \E fb \in live : RmFB(fb)
        \/ \E c \in Crtcs, fb \in KnownFbs : PageFlip(c, fb)
        \/ \E c \in Crtcs, fb \in KnownFbs, x \in Positions : SetCrtc(c, fb, x)
        \/ \E e \in Entries : AddProperty(e)
        \/ AtomicFree
        \/ \E flags \in FlagSets : AtomicCommit(flags)
        \/ \E flags \in FlagSets : HandleAtomic(flags)
    BY <1>2 DEF Next
  <2> QED
    BY <2>1, <2>2, AddFBKeeps, RmFBKeeps, PageFlipKeeps, SetCrtcKeeps,
       AddPropertyKeeps, AtomicFreeKeeps, AtomicCommitKeeps, HandleAtomicKeeps
<1> QED
  BY <1>1, <1>2

\* The inductive invariant holds in every state.
THEOREM Invariance == Spec => []IInv
BY InitIInv, StepIInv, PTL DEF Spec

\* drmModeGetCrtc never names a framebuffer that exists and is not on the screen,
\* by whichever of SetCrtc, PageFlip, AtomicCommit and the ioctl it got there,
\* and no request outgrows its arrays.
THEOREM ModeKept == Spec => []ModeInv
<1>1. IInv => ModeInv
  BY DEF IInv, ModeInv
<1> QED
  BY <1>1, Invariance, PTL

\* What the request's last entries for each property have become is Applied.
LEMMA LastsApplied ==
  ASSUME NEW n \in Nat, req \in Seq(KnownEntries), n = Len(req),
         \A c \in Crtcs, j \in 1 .. n : IsLast(req, n, j, c, "CRTC_X") =>
           crtc_x'[c] = req[j].val /\ g_state'[c].x = req[j].val,
         \A c \in Crtcs, j \in 1 .. n :
           IsLast(req, n, j, c, "FB_ID") /\ req[j].val \in live =>
             shown'[c].fb = req[j].val,
         \A c \in Crtcs, j \in 1 .. n, k \in 1 .. n :
           Placed(req, n, j, k, c) => shown'[c].x = req[j].val
  PROVE  Applied
<1>1. ASSUME NEW c \in Crtcs, Asks(req, c, "CRTC_X")
      PROVE  /\ crtc_x'[c] = Asked(req, c, "CRTC_X")
             /\ g_state'[c].x = Asked(req, c, "CRTC_X")
  BY <1>1, AskedIs
<1>2. ASSUME NEW c \in Crtcs, Flips(c)
      PROVE  shown'[c].fb = Asked(req, c, "FB_ID")
  BY <1>2, AskedIs DEF Flips
<1>3. ASSUME NEW c \in Crtcs, Flips(c), MovesFirst(c)
      PROVE  shown'[c].x = Asked(req, c, "CRTC_X")
  <2> DEFINE j == LastAsk(req, c, "CRTC_X")
             k == LastAsk(req, c, "FB_ID")
  <2>1. /\ j \in 1 .. n /\ IsLast(req, n, j, c, "CRTC_X")
        /\ Asked(req, c, "CRTC_X") = req[j].val
    BY <1>3, AskedIs DEF MovesFirst
  <2>2. /\ k \in 1 .. n /\ IsLast(req, n, k, c, "FB_ID")
        /\ Asked(req, c, "FB_ID") = req[k].val
    BY <1>3, AskedIs DEF Flips
  <2>3. j < k /\ req[k].val \in live
    BY <1>3, <2>2 DEF MovesFirst, Flips
  <2> HIDE DEF j, k
  <2>4. Placed(req, n, j, k, c)
    BY <2>1, <2>2, <2>3 DEF Placed
  <2> QED
    BY <2>1, <2>2, <2>4
<1> QED
  BY <1>1, <1>2, <1>3 DEF Applied

\* drmModeAtomicCommit does what its request asks for, the last of two entries
\* winning, leaves every other output alone and signals the flips it has made.
THEOREM CommitDoes == Spec => CommitApplies
<1>1. ASSUME IInv, NEW flags \in FlagSets, Commits(flags), AtomicCommit(flags)
      PROVE  /\ Applied
             /\ OthersUntouched
             /\ "PAGE_FLIP_EVENT" \in flags => SignalsItsFlips
  <2> DEFINE n == Len(req)
  <2>1. req \in Seq(KnownEntries) /\ n \in Nat /\ DOMAIN req = 1 .. n
    BY <1>1, TypesOf, LenProperties
  <2>2. Done(req, flags)
    BY <1>1, <2>1, ApplyDoes DEF AtomicCommit
  <2>5. Applied
    BY <2>1, <2>2, LastsApplied DEF Done
  <2>6. OthersUntouched
    BY <2>1, <2>2 DEF Done, OthersUntouched
  <2>7. "PAGE_FLIP_EVENT" \in flags => SignalsItsFlips
    BY <2>1, <2>2 DEF Done, SignalsItsFlips, Asks
  <2> QED
    BY <2>5, <2>6, <2>7
<1> DEFINE A == \A flags \in FlagSets : Commits(flags) /\ AtomicCommit(flags) =>
                  /\ Applied
                  /\ OthersUntouched
                  /\ "PAGE_FLIP_EVENT" \in flags => SignalsItsFlips
<1>2. IInv /\ [Next]_vars => [A]_vars
  BY <1>1
<1>3. Spec => [][A]_vars
  <2> HIDE DEF A
  <2> QED
    BY <1>2, Invariance, PTL DEF Spec
<1> QED
  BY <1>3 DEF CommitApplies

\* DRM_IOCTL_MODE_ATOMIC does what its caller asks for, whatever earlier calls
\* have left in the pooled request, as long as there is room for both.
THEOREM IoctlDoes == Spec => IoctlAppliesWithRoom
<1>1. ASSUME IInv, NEW flags \in FlagSets, Commits(flags), HandleAtomic(flags),
             Len(pool) + Len(req) <= MAX_ATOMIC_PROPS
      PROVE  Applied
  <2> DEFINE n == Len(req)
             l == Len(pool)
             r == Pooled[n]
  <2>1. /\ req \in Seq(KnownEntries) /\ n \in Nat /\ DOMAIN req = 1 .. n
        /\ l \in Nat
    BY <1>1, TypesOf, LenProperties
  <2>2. r \in Seq(KnownEntries) /\ Apply(r, flags)
    BY <1>1, <2>1, PooledAre DEF HandleAtomic, Apply
  <2>3. Len(r) = l + n /\ \A j \in 1 .. n : r[l + j] = req[j]
    BY <1>1, PooledHas
  <2> HIDE DEF r, l
  <2>4. Done(r, flags)
    BY <1>1, <2>2, ApplyDoes
  <2>5. ASSUME NEW c \in Crtcs, NEW p, NEW j \in 1 .. n, IsLast(req, n, j, c, p)
        PROVE  l + j \in 1 .. Len(r) /\ IsLast(r, Len(r), l + j, c, p)
    <3>1. l + j \in 1 .. Len(r) /\ r[l + j].obj = c /\ r[l + j].prop = p
      BY <2>1, <2>3, <2>5 DEF IsLast
    <3>2. ASSUME NEW k \in 1 .. Len(r), r[k].obj = c, r[k].prop = p
          PROVE  k <= l + j
      <4>1. CASE k <= l
        BY <2>1, <4>1
      <4>2. CASE ~(k <= l)
        <5> DEFINE m == k - l
        <5>1. m \in 1 .. n /\ k = l + m
          BY <2>1, <2>3, <4>2
        <5> HIDE DEF m
        <5>2. req[m].obj = c /\ req[m].prop = p
          BY <2>3, <3>2, <5>1
        <5> QED
          BY <2>1, <2>5, <5>1, <5>2 DEF IsLast
      <4> QED
        BY <4>1, <4>2
    <3> QED
      BY <3>1, <3>2 DEF IsLast
  <2>6. ASSUME NEW c \in Crtcs, NEW j \in 1 .. n, IsLast(req, n, j, c, "CRTC_X")
        PROVE  crtc_x'[c] = req[j].val /\ g_state'[c].x = req[j].val
    BY <2>3, <2>4, <2>5, <2>6 DEF Done
  <2>7. ASSUME NEW c \in Crtcs, NEW j \in 1 .. n, IsLast(req, n, j, c, "FB_ID"),
               req[j].val \in live
        PROVE  shown'[c].fb = req[j].val
    BY <2>3, <2>4, <2>5, <2>7 DEF Done
  <2>8. ASSUME NEW c \in Crtcs, NEW j \in 1 .. n, NEW k \in 1 .. n,
               Placed(req, n, j, k, c)
        PROVE  shown'[c].x = req[j].val
    <3>1. IsLast(req, n, j, c, "CRTC_X") /\ IsLast(req, n, k, c, "FB_ID")
          /\ j < k /\ req[k].val \in live
      BY <2>8 DEF Placed
    <3>2. /\ l + j \in 1 .. Len(r) /\ l + k \in 1 .. Len(r) /\ l + j < l + k
          /\ r[l + j] = req[j] /\ r[l + k] = req[k]
      BY <2>1, <2>3, <2>5, <3>1
    <3>3. Placed(r, Len(r), l + j, l + k, c)
      BY <2>5, <3>1, <3>2 DEF Placed
    <3> QED
      BY <2>4, <3>2, <3>3 DEF Done
  <2> QED
    BY <2>1, <2>6, <2>7, <2>8, LastsApplied
<1> DEFINE A == \A flags \in FlagSets :
                  Len(pool) + Len(req) <= MAX_ATOMIC_PROPS =>
                    (Commits(flags) /\ HandleAtomic(flags) => Applied)
<1>2. IInv /\ [Next]_vars => [A]_vars
  BY <1>1
<1>3. Spec => [][A]_vars
  <2> HIDE DEF A
  <2> QED
    BY <1>2, Invariance, PTL DEF Spec
<1> QED
  BY <1>3 DEF IoctlAppliesWithRoom

-----------------------------------------------------------------------------
(* Presenting, SdlBackend.                                                  *)

\* Where a thread may be, and what it has there.
Presenting == {"init", "initialised", "pend", "get", "set"}
Busy == Presenting \cup {"presented", "drained"}
WorkerPcs == Busy \cup {"idle", "called"}
MainPcs == (Busy \ {"initialised"}) \cup {"idle", "lock", "poll", "flush", "drain", "pumped"}

SlotRecords == [crtc_id : CrtcIds \cup {None}, surface : Surfaces \cup {None},
                dirty : BOOLEAN, has_window : BOOLEAN, shown : Surfaces \cup {None}]
ArgRecords == [surface : Surfaces \cup {None}, crtc_id : CrtcIds \cup {None},
               slot : Slots \cup {None}, pump : BOOLEAN]

SdlTypes ==
  /\ g_inited \in BOOLEAN /\ behind \subseteq CrtcIds /\ late \in BOOLEAN
  /\ g_crtcs \in [Slots -> SlotRecords]
  /\ g_crtc_count \in 0 .. MAX_CRTCS
  /\ g_pending_surface \in Surfaces \cup {None}
  /\ refs \in [Surfaces -> Nat]
  /\ block \in [Threads -> {None, "init", "pump", "shutdown"}]
  /\ serving \in Workers \cup {None} /\ mutex \in [Epfds -> Threads \cup {None}]
  /\ latest \in [CrtcIds -> Surfaces \cup {None}]
  /\ pc \in [Threads -> WorkerPcs \cup MainPcs]
  /\ arg \in [Threads -> ArgRecords]

\* A thread that presents has its surface and its CRTC, and its slot once it has
\* been found; only a pump of the main thread presents for another thread.
ArgInv ==
  \A t \in Threads :
    /\ pc[t] \in IF t = Main THEN MainPcs ELSE WorkerPcs
    /\ pc[t] \in Busy => arg[t].surface \in Surfaces /\ arg[t].crtc_id \in CrtcIds
    /\ pc[t] \notin Busy => arg[t] = NoArg
    /\ pc[t] = "set" => arg[t].slot \in Slots
    /\ arg[t].pump => t = Main /\ pc[t] \in Busy
    /\ pc[t] = "drained" => arg[t].pump

\* No two slots are one CRTC's.
OneSlotEach ==
  \A i, j \in 1 .. g_crtc_count : g_crtcs[i].crtc_id = g_crtcs[j].crtc_id => i = j

\* A slot that has been found is still counted and of that CRTC; one that is not
\* counted holds nothing.
SlotInv == ~late =>
  /\ \A t \in Threads : pc[t] = "set" =>
       /\ arg[t].slot <= g_crtc_count
       /\ g_crtcs[arg[t].slot].crtc_id = arg[t].crtc_id
  /\ \A i \in Slots : i > g_crtc_count => g_crtcs[i].surface = None

\* Nothing is freed that is held, and unless a surface was late nothing leaks.
RefInv == \A s \in Surfaces : refs[s] >= Held(s) /\ (~late => refs[s] = Held(s))

\* A thread presents for the CRTC's owner, and not what a pump had waiting.
OwnCall(t) == pc[t] \in Presenting /\ ~arg[t].pump

\* A slot has what was presented to its CRTC last, or the thread that presents it
\* has not got there yet.
FreshInv == late \/
  /\ \A t \in Threads : OwnCall(t) =>
       latest[arg[t].crtc_id] = arg[t].surface /\ Owner[arg[t].crtc_id] = t
  /\ \A i \in 1 .. g_crtc_count :
       LET c == g_crtcs[i]
       IN  c.surface # None /\ c.crtc_id \in CrtcIds \ behind =>
             \/ c.surface = latest[c.crtc_id]
             \/ OwnCall(Owner[c.crtc_id]) /\ arg[Owner[c.crtc_id]].crtc_id = c.crtc_id

SInv == SdlTypes /\ ArgInv /\ OneSlotEach /\ SlotInv /\ RefInv /\ CleanIsShown
        /\ FreshInv

-----------------------------------------------------------------------------
\* How often surfaces are held, as a function of who holds them.
Hold(crtcs, s) == {i \in Slots : crtcs[i].surface = s}
HeldOf(crtcs, pending, a, s) ==
  Cardinality(Hold(crtcs, s)) + (IF pending = s THEN 1 ELSE 0)
    + (IF a.pump /\ a.surface = s THEN 1 ELSE 0)

LEMMA HeldIs ==
  \A s : /\ Held(s) = HeldOf(g_crtcs, g_pending_surface, arg[Main], s)
         /\ Held(s)' = HeldOf(g_crtcs', g_pending_surface', arg'[Main], s)
BY DEF Held, HeldOf, Hold

LEMMA HoldFinite ==
  ASSUME NEW crtcs, NEW s
  PROVE  IsFiniteSet(Hold(crtcs, s)) /\ Cardinality(Hold(crtcs, s)) \in Nat
<1>1. IsFiniteSet(Slots)
  BY MaxCrtcsAssumption, FS_Interval DEF Slots
<1>2. Hold(crtcs, s) \in SUBSET Slots
  BY DEF Hold
<1> QED
  BY <1>1, <1>2, FS_Subset, FS_CardinalityType

\* One slot is given another surface.
LEMMA SlotChange ==
  ASSUME NEW old, NEW new, NEW i \in Slots,
         \A j \in Slots : j # i => new[j].surface = old[j].surface, NEW s
  PROVE  Cardinality(Hold(new, s)) =
           Cardinality(Hold(old, s)) - (IF old[i].surface = s THEN 1 ELSE 0)
                                     + (IF new[i].surface = s THEN 1 ELSE 0)
<1> DEFINE rest == Hold(old, s) \ {i}
<1>1. IsFiniteSet(Hold(old, s)) /\ Cardinality(Hold(old, s)) \in Nat
  BY HoldFinite
<1>2. /\ IsFiniteSet(rest)
      /\ Cardinality(rest) = Cardinality(Hold(old, s)) - (IF old[i].surface = s THEN 1 ELSE 0)
  <2>1. /\ IsFiniteSet(rest)
        /\ Cardinality(rest) = IF i \in Hold(old, s) THEN Cardinality(Hold(old, s)) - 1
                               ELSE Cardinality(Hold(old, s))
    BY <1>1, FS_RemoveElement
  <2>2. i \in Hold(old, s) <=> old[i].surface = s
    BY DEF Hold
  <2> HIDE DEF rest
  <2> QED
    BY <1>1, <2>1, <2>2
<1>3. Hold(new, s) = IF new[i].surface = s THEN rest \cup {i} ELSE rest
  BY DEF Hold
<1>4. i \notin rest
  OBVIOUS
<1> HIDE DEF rest
<1>5. Cardinality(rest \cup {i}) = Cardinality(rest) + 1
  BY <1>2, <1>4, FS_AddElement
<1> QED
  BY <1>1, <1>2, <1>3, <1>5

\* Nothing is held in other places.
LEMMA SameHold ==
  ASSUME NEW old, NEW new, \A j \in Slots : new[j].surface = old[j].surface, NEW s
  PROVE  Hold(new, s) = Hold(old, s)
BY DEF Hold

\* A surface is retained as often more as it is held more, or more often, once one
\* has been late.
LEMMA RefsFollow ==
  ASSUME SInv, late => late', refs' \in [Surfaces -> Int],
         \A s \in Surfaces :
           \/ refs'[s] - refs[s] = Held(s)' - Held(s)
           \/ late' /\ refs'[s] - refs[s] >= Held(s)' - Held(s)
  PROVE  RefInv' /\ refs' \in [Surfaces -> Nat]
<1>1. ASSUME NEW s \in Surfaces
      PROVE  refs'[s] \in Nat /\ refs'[s] >= Held(s)' /\ (~late' => refs'[s] = Held(s)')
  <2>1. Held(s) \in Nat /\ Held(s)' \in Nat
    BY HeldIs, HoldFinite DEF HeldOf
  <2>2. refs[s] \in Nat /\ refs'[s] \in Int /\ refs[s] >= Held(s)
        /\ (~late => refs[s] = Held(s))
    BY DEF SInv, SdlTypes, RefInv
  <2> QED
    BY <2>1, <2>2
<1>2. RefInv'
  BY <1>1 DEF RefInv
<1> QED
  BY <1>1, <1>2

-----------------------------------------------------------------------------
\* Initially no thread presents, and nothing is held.
LEMMA InitSInv == SdlInit => SInv
<1> SUFFICES ASSUME SdlInit PROVE SInv
  OBVIOUS
<1> USE DEF SdlInit
<1>1. Main \in Threads /\ None \notin Surfaces /\ None \notin Threads
  BY ThreadsAssumption DEF Threads
<1>2. SdlTypes
  <2>1. NoSlot \in SlotRecords /\ NoArg \in ArgRecords
    BY DEF NoSlot, NoArg, SlotRecords, ArgRecords
  <2>2. g_crtcs \in [Slots -> SlotRecords] /\ arg \in [Threads -> ArgRecords]
    BY <2>1
  <2>3. 0 \in 0 .. MAX_CRTCS /\ refs \in [Surfaces -> Nat]
    BY MaxCrtcsAssumption
  <2>4. pc \in [Threads -> WorkerPcs \cup MainPcs]
    BY DEF WorkerPcs
  <2> QED
    BY <2>2, <2>3, <2>4 DEF SdlTypes
<1>3. ArgInv
  BY DEF ArgInv, NoArg, Busy, Presenting, WorkerPcs, MainPcs
<1>4. OneSlotEach /\ CleanIsShown
  BY DEF OneSlotEach, CleanIsShown
<1>5. SlotInv
  BY DEF SlotInv, NoSlot
<1>6. RefInv
  <2>1. ASSUME NEW s \in Surfaces PROVE Held(s) = 0
    <3>1. Hold(g_crtcs, s) = {}
      BY <1>1 DEF Hold, NoSlot
    <3>2. ~arg[Main].pump
      BY <1>1 DEF NoArg
    <3> QED
      BY <1>1, <3>1, <3>2, HeldIs, FS_EmptySet DEF HeldOf
  <2> QED
    BY <2>1 DEF RefInv
<1>7. FreshInv
  BY <1>1 DEF FreshInv, OwnCall, NoArg, Presenting
<1> QED
  BY <1>2, <1>3, <1>4, <1>5, <1>6, <1>7 DEF SInv

\* sdl_present_iosurface_for_crtc begins.
LEMMA PresentKeeps ==
  ASSUME SInv, NEW t \in Threads, NEW s \in Surfaces, NEW c \in CrtcIds, Present(t, s, c)
  PROVE  SInv'
<1> DEFINE a == [NoArg EXCEPT !.surface = s, !.crtc_id = c]
<1>1. /\ pc[t] = "idle" /\ Owner[c] = t /\ ~late
      /\ arg' = [arg EXCEPT ![t] = a] /\ latest' = [latest EXCEPT ![c] = s]
      /\ \E l \in {"get", "init"} : pc' = [pc EXCEPT ![t] = l]
      /\ UNCHANGED <<g_inited, g_crtcs, g_crtc_count, g_pending_surface, refs, late,
                     block, serving, mutex, behind>>
  BY DEF Present, Goto, crtcVars
<1>2. a \in ArgRecords /\ a.surface = s /\ a.crtc_id = c /\ a.pump = FALSE
  BY DEF ArgRecords, NoArg
<1> HIDE DEF a
<1>3. SdlTypes'
  BY <1>1, <1>2 DEF SInv, SdlTypes, WorkerPcs, Busy, Presenting
<1>4. ArgInv'
  BY <1>1, <1>2 DEF SInv, SdlTypes, ArgInv, WorkerPcs, MainPcs, Busy, Presenting
<1>5. OneSlotEach' /\ CleanIsShown'
  BY <1>1 DEF SInv, OneSlotEach, CleanIsShown
<1>6. SlotInv'
  BY <1>1, <1>2 DEF SInv, SdlTypes, SlotInv
<1>7. RefInv'
  <2>1. \A x \in Surfaces : Held(x)' = Held(x)
    <3>1. pc[Main] = "idle" => ~arg[Main].pump
      BY DEF SInv, ArgInv, Threads, Busy, Presenting
    <3>2. /\ arg'[Main].pump = arg[Main].pump
          /\ arg[Main].pump => arg'[Main] = arg[Main]
      <4>1. arg \in [Threads -> ArgRecords] /\ Main \in Threads
        BY DEF SInv, SdlTypes, Threads
      <4>2. CASE t = Main
        <5>1. arg'[Main] = a
          BY <1>1, <4>1, <4>2
        <5>2. arg[Main] \in ArgRecords
          BY <4>1
        <5>3. arg[Main].pump \in BOOLEAN /\ ~arg[Main].pump
          BY <1>1, <3>1, <4>2, <5>2 DEF ArgRecords
        <5>4. arg[Main].pump = FALSE
          BY <5>3
        <5>5. arg'[Main].pump = FALSE
          BY <1>2, <5>1
        <5> QED
          BY <5>4, <5>5
      <4>3. CASE t # Main
        <5>1. arg'[Main] = arg[Main]
          BY <1>1, <4>1, <4>3
        <5> QED
          BY <5>1
      <4> QED
        BY <4>2, <4>3
    <3> QED
      BY <1>1, <3>2, HeldIs DEF HeldOf
  <2> QED
    BY <1>1, <2>1 DEF SInv, RefInv
<1>8. FreshInv'
  <2>1. /\ FreshInv /\ pc \in [Threads -> WorkerPcs \cup MainPcs]
        /\ arg \in [Threads -> ArgRecords] /\ latest \in [CrtcIds -> Surfaces \cup {None}]
    BY DEF SInv, SdlTypes
  <2>2. /\ pc'[t] \in Presenting /\ arg'[t] = a /\ latest'[c] = s
        /\ \A u \in Threads \ {t} : pc'[u] = pc[u] /\ arg'[u] = arg[u]
        /\ \A k \in CrtcIds \ {c} : latest'[k] = latest[k]
    BY <1>1, <2>1 DEF Presenting
  <2>3. /\ \A u \in Threads : Owner[arg[u].crtc_id] = u => arg[u].crtc_id # c \/ u = t
        /\ ~OwnCall(t)
    BY <1>1 DEF OwnCall, Presenting
  <2> QED
    BY <1>1, <1>2, <2>1, <2>2, <2>3, OwnersAssumption DEF FreshInv, OwnCall
<1> QED
  BY <1>3, <1>4, <1>5, <1>6, <1>7, <1>8 DEF SInv

\* sdl_backend_init on the main thread.
LEMMA InitMainKeeps ==
  ASSUME SInv, InitMain PROVE SInv'
<1>1. /\ pc[Main] = "init" /\ g_inited' \in BOOLEAN /\ Main \in Threads
      /\ \E l \in {"get", "pend"} : pc' = [pc EXCEPT ![Main] = l]
      /\ UNCHANGED <<g_crtcs, g_crtc_count, g_pending_surface, refs, late, arg,
                     block, serving, mutex, latest, behind>>
  BY DEF InitMain, Goto, crtcVars, Threads
<1>2. SdlTypes'
  BY <1>1 DEF SInv, SdlTypes, WorkerPcs, Busy, Presenting
<1>3. ArgInv'
  BY <1>1 DEF SInv, SdlTypes, ArgInv, WorkerPcs, MainPcs, Busy, Presenting
<1>4. OneSlotEach' /\ CleanIsShown'
  BY <1>1 DEF SInv, OneSlotEach, CleanIsShown
<1>5. SlotInv'
  BY <1>1 DEF SInv, SdlTypes, SlotInv
<1>6. RefInv'
  BY <1>1 DEF SInv, RefInv, Held
<1>7. FreshInv'
  <2>1. /\ FreshInv /\ pc \in [Threads -> WorkerPcs \cup MainPcs]
        /\ arg \in [Threads -> ArgRecords] /\ latest \in [CrtcIds -> Surfaces \cup {None}]
    BY DEF SInv, SdlTypes
  <2>2. \A u \in Threads : pc'[u] \in Presenting <=> pc[u] \in Presenting
    BY <1>1, <2>1 DEF Presenting
  <2> QED
    BY <1>1, <2>1, <2>2, OwnersAssumption DEF FreshInv, OwnCall
<1> QED
  BY <1>2, <1>3, <1>4, <1>5, <1>6, <1>7 DEF SInv

\* The steps of a worker on its way to a slot.
LEMMA WorkerInitKeeps ==
  ASSUME SInv, NEW w \in Workers, InitWorker(w) \/ Initialised(w) PROVE SInv'
<1>1. /\ pc[w] \in {"init", "initialised"} /\ w \in Threads /\ w # Main
      /\ \E l \in {"get", "pend", "initialised"} : pc' = [pc EXCEPT ![w] = l]
      /\ block' = block \/ block' = [block EXCEPT ![w] = "init"]
      /\ UNCHANGED <<g_inited, g_crtcs, g_crtc_count, g_pending_surface, refs, late,
                     arg, serving, mutex, latest, behind>>
  BY ThreadsAssumption DEF InitWorker, Initialised, Goto, crtcVars, Threads
<1>2. SdlTypes'
  BY <1>1 DEF SInv, SdlTypes, WorkerPcs, Busy, Presenting
<1>3. ArgInv'
  BY <1>1 DEF SInv, SdlTypes, ArgInv, WorkerPcs, MainPcs, Busy, Presenting
<1>4. OneSlotEach' /\ CleanIsShown'
  BY <1>1 DEF SInv, OneSlotEach, CleanIsShown
<1>5. SlotInv'
  BY <1>1 DEF SInv, SdlTypes, SlotInv
<1>6. RefInv'
  BY <1>1 DEF SInv, RefInv, Held
<1>7. FreshInv'
  <2>1. /\ FreshInv /\ pc \in [Threads -> WorkerPcs \cup MainPcs]
        /\ arg \in [Threads -> ArgRecords] /\ latest \in [CrtcIds -> Surfaces \cup {None}]
    BY DEF SInv, SdlTypes
  <2>2. \A u \in Threads : pc'[u] \in Presenting <=> pc[u] \in Presenting
    BY <1>1, <2>1 DEF Presenting
  <2> QED
    BY <1>1, <2>1, <2>2, OwnersAssumption DEF FreshInv, OwnCall
<1> QED
  BY <1>2, <1>3, <1>4, <1>5, <1>6, <1>7 DEF SInv

\* The surface that waits is held, and the one that has waited no longer.
LEMMA PendKeeps ==
  ASSUME SInv, NEW t \in Threads, Pend(t) PROVE SInv'
<1>1. /\ pc[t] = "pend" /\ g_pending_surface' = arg[t].surface /\ Main \in Threads
      /\ refs' = [s \in Surfaces |-> refs[s] - (IF s = g_pending_surface THEN 1 ELSE 0)
                                             + (IF s = arg[t].surface THEN 1 ELSE 0)]
      /\ behind' = IF arg[t].pump THEN behind ELSE behind \cup {arg[t].crtc_id}
      /\ UNCHANGED <<g_inited, g_crtcs, g_crtc_count, late, block, serving, mutex,
                     latest>>
  BY DEF Pend, Exchanged, Threads
<1>2. \/ arg[t].pump /\ pc' = [pc EXCEPT ![t] = "drained"] /\ arg' = arg
      \/ ~arg[t].pump /\ pc' = [pc EXCEPT ![t] = "idle"] /\ arg' = [arg EXCEPT ![t] = NoArg]
  BY DEF Pend, CallEnds, Goto
<1>3. /\ NoArg \in ArgRecords /\ NoArg.pump = FALSE
      /\ arg[t].surface \in Surfaces /\ arg[t].crtc_id \in CrtcIds
      /\ pc \in [Threads -> WorkerPcs \cup MainPcs] /\ arg \in [Threads -> ArgRecords]
  BY <1>1 DEF SInv, SdlTypes, ArgRecords, NoArg, ArgInv, Busy, Presenting
<1>4. arg'[Main].pump = arg[Main].pump /\ (arg[Main].pump => arg'[Main] = arg[Main])
  <2>1. CASE arg' = arg
    BY <2>1
  <2>2. CASE ~arg[t].pump /\ arg' = [arg EXCEPT ![t] = NoArg]
    <3>1. CASE t = Main
      <4>1. arg'[Main] = NoArg
        BY <1>1, <1>3, <2>2, <3>1
      <4>2. arg[Main] \in ArgRecords
        BY <1>1, <1>3
      <4>3. arg[Main].pump \in BOOLEAN /\ ~arg[Main].pump
        BY <2>2, <3>1, <4>2 DEF ArgRecords
      <4>4. arg[Main].pump = FALSE
        BY <4>3
      <4>5. arg'[Main].pump = FALSE
        BY <1>3, <4>1
      <4> QED
        BY <4>4, <4>5
    <3>2. CASE t # Main
      <4>1. arg'[Main] = arg[Main]
        BY <1>1, <1>3, <2>2, <3>2
      <4> QED
        BY <4>1
    <3> QED
      BY <3>1, <3>2
  <2> QED
    BY <1>2, <2>1, <2>2
<1>5. RefInv' /\ refs' \in [Surfaces -> Nat]
  <2>1. refs' \in [Surfaces -> Int]
    BY <1>1 DEF SInv, SdlTypes
  <2>2. ASSUME NEW s \in Surfaces PROVE refs'[s] - refs[s] = Held(s)' - Held(s)
    <3>1. Cardinality(Hold(g_crtcs, s)) \in Nat /\ refs[s] \in Nat
      BY HoldFinite DEF SInv, SdlTypes
    <3>2. /\ Held(s) = HeldOf(g_crtcs, g_pending_surface, arg[Main], s)
          /\ Held(s)' = HeldOf(g_crtcs, arg[t].surface, arg'[Main], s)
      BY <1>1, HeldIs
    <3> QED
      BY <1>1, <1>4, <3>1, <3>2 DEF HeldOf
  <2> QED
    BY <1>1, <2>1, <2>2, RefsFollow
<1>6. SdlTypes'
  BY <1>1, <1>2, <1>3, <1>5 DEF SInv, SdlTypes, WorkerPcs, Busy, Presenting
<1>7. ArgInv'
  BY <1>1, <1>2, <1>3 DEF SInv, ArgInv, WorkerPcs, MainPcs, Busy, Presenting
<1>8. OneSlotEach' /\ CleanIsShown'
  BY <1>1 DEF SInv, OneSlotEach, CleanIsShown
<1>9. \A u \in Threads : u # t => pc'[u] = pc[u] /\ arg'[u] = arg[u]
  BY <1>2, <1>3
<1>10. pc'[t] \in {"drained", "idle"}
  BY <1>2, <1>3
<1>11. SlotInv'
  BY <1>1, <1>9, <1>10 DEF SInv, SlotInv
<1>12. FreshInv'
  <2>1. FreshInv /\ ~OwnCall(t)'
    BY <1>10 DEF SInv, OwnCall, Presenting
  <2>2. \A u \in Threads : u # t => (OwnCall(u)' <=> OwnCall(u))
    BY <1>9 DEF OwnCall
  <2>3. OwnCall(t) => behind' = behind \cup {arg[t].crtc_id}
    BY <1>1 DEF OwnCall
  <2>4. behind \subseteq behind'
    BY <1>1
  <2> QED
    BY <1>1, <1>9, <2>1, <2>2, <2>3, <2>4, OwnersAssumption DEF FreshInv
<1> QED
  BY <1>5, <1>6, <1>7, <1>8, <1>11, <1>12 DEF SInv

\* get_or_create_crtc: a slot that is new has been given up by whoever had it.
LEMMA GetKeeps ==
  ASSUME SInv, NEW t \in Threads, GetOrCreateCrtc(t) PROVE SInv'
<1> DEFINE c == arg[t].crtc_id
           new == g_crtc_count + 1
           fresh == [NoSlot EXCEPT !.crtc_id = c]
           taken(i) == [arg[t] EXCEPT !.slot = i]
<1>1. /\ pc[t] = "get" /\ c \in CrtcIds /\ arg[t] \in ArgRecords /\ Main \in Threads
      /\ g_crtc_count \in 0 .. MAX_CRTCS
      /\ UNCHANGED <<g_inited, g_pending_surface, refs, late, block, serving, mutex,
                     latest, behind>>
  BY DEF GetOrCreateCrtc, SInv, SdlTypes, ArgInv, Busy, Presenting, Threads
<1>2. \/ \E i \in SlotsOf(c) :
           /\ arg' = [arg EXCEPT ![t] = taken(i)]
           /\ pc' = [pc EXCEPT ![t] = "set"]
           /\ UNCHANGED <<g_crtcs, g_crtc_count>>
      \/ /\ SlotsOf(c) = {} /\ g_crtc_count < MAX_CRTCS
         /\ g_crtcs' = [g_crtcs EXCEPT ![new] = fresh]
         /\ g_crtc_count' = new
         /\ arg' = [arg EXCEPT ![t] = taken(new)]
         /\ pc' = [pc EXCEPT ![t] = "set"]
      \/ /\ SlotsOf(c) = {}
         /\ pc' = [pc EXCEPT ![t] = "presented"]
         /\ UNCHANGED <<g_crtcs, g_crtc_count, arg>>
  BY DEF GetOrCreateCrtc, Goto
<1>3. \A i \in Slots : /\ taken(i) \in ArgRecords /\ taken(i).surface = arg[t].surface
                       /\ taken(i).crtc_id = c /\ taken(i).slot = i
                       /\ taken(i).pump = arg[t].pump
  BY <1>1 DEF ArgRecords
<1>4. fresh \in SlotRecords /\ fresh.crtc_id = c /\ fresh.surface = None
  BY <1>1 DEF SlotRecords, NoSlot
<1>5. \A i \in SlotsOf(c) : i \in Slots /\ i <= g_crtc_count /\ g_crtcs[i].crtc_id = c
  BY DEF SlotsOf
<1>6. \A i \in 1 .. g_crtc_count : i \in Slots /\ (SlotsOf(c) = {} => g_crtcs[i].crtc_id # c)
  BY <1>1, MaxCrtcsAssumption DEF SlotsOf, Slots
<1> HIDE DEF c, new, fresh, taken
<1>7. CASE \E i \in SlotsOf(c) :
             /\ arg' = [arg EXCEPT ![t] = taken(i)]
             /\ pc' = [pc EXCEPT ![t] = "set"]
             /\ UNCHANGED <<g_crtcs, g_crtc_count>>
  <2> PICK i \in SlotsOf(c) : /\ arg' = [arg EXCEPT ![t] = taken(i)]
                              /\ pc' = [pc EXCEPT ![t] = "set"]
                              /\ UNCHANGED <<g_crtcs, g_crtc_count>>
    BY <1>7
  <2>1. i \in Slots /\ i <= g_crtc_count /\ g_crtcs[i].crtc_id = c
    BY <1>5
  <2>2. SdlTypes'
    BY <1>1, <1>3, <2>1 DEF SInv, SdlTypes, WorkerPcs, Busy, Presenting
  <2>3. ArgInv'
    BY <1>1, <1>3, <2>1 DEF SInv, SdlTypes, ArgInv, WorkerPcs, MainPcs, Busy, Presenting, c
  <2>4. OneSlotEach' /\ CleanIsShown'
    BY <1>1 DEF SInv, OneSlotEach, CleanIsShown
  <2>5. SlotInv'
    BY <1>1, <1>3, <2>1 DEF SInv, SdlTypes, SlotInv, c
  <2>6. RefInv'
    <3>1. \A s \in Surfaces : Held(s)' = Held(s)
      BY <1>1, <1>3, <2>1, HeldIs DEF HeldOf, SInv, SdlTypes
    <3> QED
      BY <1>1, <3>1 DEF SInv, RefInv
  <2>7. FreshInv'
    <3>1. /\ FreshInv /\ pc \in [Threads -> WorkerPcs \cup MainPcs]
          /\ arg \in [Threads -> ArgRecords] /\ latest \in [CrtcIds -> Surfaces \cup {None}]
      BY DEF SInv, SdlTypes
    <3>2. \A u \in Threads : /\ pc'[u] \in Presenting <=> pc[u] \in Presenting
                             /\ arg'[u].crtc_id = arg[u].crtc_id
                             /\ arg'[u].surface = arg[u].surface
                             /\ arg'[u].pump = arg[u].pump
      BY <1>1, <1>3, <2>1, <3>1 DEF Presenting, c
    <3>3. \A u \in Threads : OwnCall(u)' <=> OwnCall(u)
      BY <3>2 DEF OwnCall
    <3> QED
      BY <1>1, <2>1, <3>1, <3>2, <3>3, OwnersAssumption DEF FreshInv
  <2> QED
    BY <2>2, <2>3, <2>4, <2>5, <2>6, <2>7 DEF SInv
<1>8. CASE /\ SlotsOf(c) = {} /\ g_crtc_count < MAX_CRTCS
           /\ g_crtcs' = [g_crtcs EXCEPT ![new] = fresh]
           /\ g_crtc_count' = new
           /\ arg' = [arg EXCEPT ![t] = taken(new)]
           /\ pc' = [pc EXCEPT ![t] = "set"]
  <2>1. /\ new \in Slots /\ new = g_crtc_count + 1 /\ new \in 0 .. MAX_CRTCS
        /\ \A i \in 1 .. new : i = new \/ i \in 1 .. g_crtc_count
        /\ g_crtcs'[new] = fresh /\ \A i \in Slots : i # new => g_crtcs'[i] = g_crtcs[i]
        /\ \A i \in 1 .. g_crtc_count : i \in Slots /\ i # new
    BY <1>1, <1>6, <1>8, MaxCrtcsAssumption DEF SInv, SdlTypes, Slots, new
  <2>2. SdlTypes'
    BY <1>1, <1>3, <1>4, <1>8, <2>1 DEF SInv, SdlTypes, WorkerPcs, Busy, Presenting
  <2>3. ArgInv'
    BY <1>1, <1>3, <1>8, <2>1 DEF SInv, SdlTypes, ArgInv, WorkerPcs, MainPcs, Busy, Presenting, c
  <2>4. OneSlotEach'
    BY <1>4, <1>6, <1>8, <2>1 DEF SInv, OneSlotEach
  <2>5. CleanIsShown'
    BY <1>4, <1>8, <2>1 DEF SInv, CleanIsShown
  <2>6. SlotInv'
    <3> SUFFICES ASSUME ~late PROVE
          /\ \A u \in Threads : pc'[u] = "set" =>
               /\ arg'[u].slot <= g_crtc_count'
               /\ g_crtcs'[arg'[u].slot].crtc_id = arg'[u].crtc_id
          /\ \A i \in Slots : i > g_crtc_count' => g_crtcs'[i].surface = None
      BY <1>1 DEF SlotInv
    <3>1. ASSUME NEW u \in Threads, pc'[u] = "set"
          PROVE  /\ arg'[u].slot <= g_crtc_count'
                 /\ g_crtcs'[arg'[u].slot].crtc_id = arg'[u].crtc_id
      <4>1. CASE u = t
        BY <1>3, <1>4, <1>8, <2>1, <4>1 DEF SInv, SdlTypes, Slots
      <4>2. CASE u # t
        <5>1. /\ arg'[u] = arg[u] /\ pc[u] = "set" /\ arg[u].slot \in Slots
              /\ arg[u].slot <= g_crtc_count
              /\ g_crtcs[arg[u].slot].crtc_id = arg[u].crtc_id
          BY <1>8, <3>1, <4>2 DEF SInv, SdlTypes, SlotInv, ArgInv
        <5> QED
          BY <1>1, <1>8, <2>1, <5>1 DEF Slots
      <4> QED
        BY <4>1, <4>2
    <3>2. ASSUME NEW i \in Slots, i > g_crtc_count' PROVE g_crtcs'[i].surface = None
      BY <1>1, <1>8, <2>1, <3>2 DEF SInv, SlotInv, Slots
    <3> QED
      BY <3>1, <3>2
  <2>7. RefInv'
    <3>1. ASSUME NEW s \in Surfaces
          PROVE  \/ refs'[s] - refs[s] = Held(s)' - Held(s)
                 \/ late' /\ refs'[s] - refs[s] >= Held(s)' - Held(s)
      <4>1. /\ Held(s) = HeldOf(g_crtcs, g_pending_surface, arg[Main], s)
            /\ Held(s)' = HeldOf(g_crtcs', g_pending_surface, arg'[Main], s)
        BY <1>1, HeldIs
      <4>2. arg'[Main].pump = arg[Main].pump /\ arg'[Main].surface = arg[Main].surface
        BY <1>1, <1>3, <1>8, <2>1 DEF SInv, SdlTypes
      <4>3. /\ Cardinality(Hold(g_crtcs', s)) =
                 Cardinality(Hold(g_crtcs, s))
                   - (IF g_crtcs[new].surface = s THEN 1 ELSE 0)
                   + (IF fresh.surface = s THEN 1 ELSE 0)
            /\ Cardinality(Hold(g_crtcs, s)) \in Nat
        BY <2>1, SlotChange, HoldFinite
      <4>4. fresh.surface # s /\ (~late => g_crtcs[new].surface # s) /\ refs'[s] = refs[s]
            /\ refs[s] \in Nat
        BY <1>1, <1>4, <2>1, ThreadsAssumption DEF SInv, SdlTypes, SlotInv
      <4>5. late' = late
        BY <1>1
      <4> QED
        BY <4>1, <4>2, <4>3, <4>4, <4>5 DEF HeldOf
    <3>2. refs' \in [Surfaces -> Int]
      BY <1>1 DEF SInv, SdlTypes
    <3> QED
      BY <1>1, <3>1, <3>2, RefsFollow
  <2>8. FreshInv'
    <3>1. \A u \in Threads : /\ OwnCall(u)' <=> OwnCall(u)
                             /\ arg'[u].crtc_id = arg[u].crtc_id
                             /\ arg'[u].surface = arg[u].surface
      BY <1>1, <1>3, <1>8, <2>1 DEF SInv, SdlTypes, OwnCall, Presenting, c
    <3>2. \A i \in 1 .. g_crtc_count' : g_crtcs'[i].surface # None =>
            i \in 1 .. g_crtc_count /\ g_crtcs'[i] = g_crtcs[i]
      BY <1>4, <1>8, <2>1
    <3>3. FreshInv
      BY DEF SInv
    <3> QED
      BY <1>1, <3>1, <3>2, <3>3, OwnersAssumption DEF FreshInv
  <2> QED
    BY <2>2, <2>3, <2>4, <2>5, <2>6, <2>7, <2>8 DEF SInv
<1>9. CASE /\ SlotsOf(c) = {}
           /\ pc' = [pc EXCEPT ![t] = "presented"]
           /\ UNCHANGED <<g_crtcs, g_crtc_count, arg>>
  <2>1. SdlTypes'
    BY <1>1, <1>9 DEF SInv, SdlTypes, WorkerPcs, Busy
  <2>2. ArgInv'
    BY <1>1, <1>9 DEF SInv, SdlTypes, ArgInv, WorkerPcs, MainPcs, Busy, Presenting
  <2>3. OneSlotEach' /\ CleanIsShown'
    BY <1>1, <1>9 DEF SInv, OneSlotEach, CleanIsShown
  <2>4. SlotInv' /\ RefInv'
    BY <1>1, <1>9 DEF SInv, SdlTypes, SlotInv, RefInv, Held
  <2>5. FreshInv'
    <3>1. \A u \in Threads : u # t => (OwnCall(u)' <=> OwnCall(u))
      BY <1>9 DEF SInv, SdlTypes, OwnCall
    <3>2. ~OwnCall(t)'
      BY <1>9 DEF SInv, SdlTypes, OwnCall, Presenting
    <3>3. \A i \in 1 .. g_crtc_count : g_crtcs[i].crtc_id # arg[t].crtc_id
      BY <1>6, <1>9 DEF c
    <3>4. FreshInv
      BY DEF SInv
    <3> QED
      BY <1>1, <1>9, <3>1, <3>2, <3>3, <3>4, OwnersAssumption DEF FreshInv
  <2> QED
    BY <2>1, <2>2, <2>3, <2>4, <2>5 DEF SInv
<1> QED
  BY <1>2, <1>7, <1>8, <1>9

\* The slot takes the surface, which the next render shows.
LEMMA SetSurfaceKeeps ==
  ASSUME SInv, NEW t \in Threads, SetSurface(t) PROVE SInv'
<1> DEFINE i == arg[t].slot
           old == g_crtcs[i]
           put == Assigned(old, arg[t].surface)
<1>1. /\ pc[t] = "set" /\ i \in Slots /\ g_crtcs' = [g_crtcs EXCEPT ![i] = put]
      /\ refs' = [s \in Surfaces |-> refs[s] - (IF s = old.surface THEN 1 ELSE 0)
                                             + (IF s = arg[t].surface THEN 1 ELSE 0)]
      /\ pc' = [pc EXCEPT ![t] = "presented"]
      /\ behind' = IF arg[t].pump THEN behind \cup {arg[t].crtc_id}
                                  ELSE behind \ {arg[t].crtc_id}
      /\ UNCHANGED <<g_inited, g_crtc_count, g_pending_surface, late, arg, block, serving,
                     mutex, latest>>
  BY DEF SetSurface, Goto, Exchanged, SInv, ArgInv
<1>2. /\ arg[t].surface \in Surfaces /\ arg[t].crtc_id \in CrtcIds
      /\ old \in SlotRecords /\ None \notin Surfaces
  BY <1>1, ThreadsAssumption DEF SInv, SdlTypes, ArgInv, Busy, Presenting
<1> HIDE DEF old
<1>3. /\ put \in SlotRecords /\ put.surface = arg[t].surface /\ put.dirty = TRUE
      /\ put.crtc_id = old.crtc_id
  BY <1>2 DEF Assigned, SlotRecords
<1> HIDE DEF put, i
<1>4. /\ g_crtcs'[i] = put /\ \A j \in Slots : j # i => g_crtcs'[j] = g_crtcs[j]
      /\ \A j \in 1 .. g_crtc_count : j \in Slots
  BY <1>1, MaxCrtcsAssumption DEF SInv, SdlTypes, Slots
<1>5. \A j \in Slots : g_crtcs'[j].crtc_id = g_crtcs[j].crtc_id
  BY <1>3, <1>4 DEF old
<1>6. RefInv' /\ refs' \in [Surfaces -> Nat]
  <2>1. ASSUME NEW s \in Surfaces PROVE refs'[s] - refs[s] = Held(s)' - Held(s)
    <3>1. /\ Held(s) = HeldOf(g_crtcs, g_pending_surface, arg[Main], s)
          /\ Held(s)' = HeldOf(g_crtcs', g_pending_surface, arg[Main], s)
      BY <1>1, HeldIs
    <3>2. /\ Cardinality(Hold(g_crtcs', s)) =
               Cardinality(Hold(g_crtcs, s)) - (IF old.surface = s THEN 1 ELSE 0)
                                             + (IF put.surface = s THEN 1 ELSE 0)
          /\ Cardinality(Hold(g_crtcs, s)) \in Nat
      <4>1. \A j \in Slots : j # i => g_crtcs'[j].surface = g_crtcs[j].surface
        BY <1>4
      <4>2. Cardinality(Hold(g_crtcs', s)) =
              Cardinality(Hold(g_crtcs, s)) - (IF g_crtcs[i].surface = s THEN 1 ELSE 0)
                                            + (IF g_crtcs'[i].surface = s THEN 1 ELSE 0)
        <5>1. i \in Slots
          BY <1>1
        <5> QED
          BY <4>1, <5>1, SlotChange
      <4> QED
        BY <1>4, <4>2, HoldFinite DEF old
    <3>3. refs[s] \in Nat
      BY DEF SInv, SdlTypes
    <3> QED
      BY <1>1, <1>3, <3>1, <3>2, <3>3 DEF HeldOf
  <2>2. refs' \in [Surfaces -> Int]
    BY <1>1 DEF SInv, SdlTypes
  <2> QED
    BY <1>1, <2>1, <2>2, RefsFollow
<1>7. SdlTypes'
  BY <1>1, <1>2, <1>3, <1>6 DEF SInv, SdlTypes, WorkerPcs, Busy
<1>8. ArgInv'
  BY <1>1 DEF SInv, SdlTypes, ArgInv, WorkerPcs, MainPcs, Busy, Presenting
<1>9. OneSlotEach'
  BY <1>1, <1>4, <1>5 DEF SInv, OneSlotEach
<1>10. CleanIsShown'
  BY <1>1, <1>3, <1>4 DEF SInv, CleanIsShown
<1>11. SlotInv'
  <2> SUFFICES ASSUME ~late PROVE
        /\ \A u \in Threads : pc'[u] = "set" =>
             arg[u].slot <= g_crtc_count /\ g_crtcs'[arg[u].slot].crtc_id = arg[u].crtc_id
        /\ \A j \in Slots : j > g_crtc_count => g_crtcs'[j].surface = None
    BY <1>1 DEF SlotInv
  <2>1. \A u \in Threads : pc'[u] = "set" => pc[u] = "set" /\ arg[u].slot \in Slots
    BY <1>1 DEF SInv, SdlTypes, ArgInv
  <2>2. i <= g_crtc_count
    BY <1>1 DEF SInv, SlotInv, i
  <2>3. \A j \in Slots : j > g_crtc_count => j # i
    BY <1>1, <2>2 DEF SInv, SdlTypes, Slots
  <2> QED
    BY <1>4, <1>5, <2>1, <2>3 DEF SInv, SlotInv
<1>12. FreshInv'
  <2> SUFFICES ASSUME ~late PROVE
        /\ \A u \in Threads : OwnCall(u)' =>
             latest[arg[u].crtc_id] = arg[u].surface /\ Owner[arg[u].crtc_id] = u
        /\ \A j \in 1 .. g_crtc_count :
             LET k == g_crtcs'[j]
             IN  k.surface # None /\ k.crtc_id \in CrtcIds \ behind' =>
                   \/ k.surface = latest[k.crtc_id]
                   \/ /\ pc'[Owner[k.crtc_id]] \in Presenting
                      /\ ~arg[Owner[k.crtc_id]].pump
                      /\ arg[Owner[k.crtc_id]].crtc_id = k.crtc_id
    BY <1>1 DEF FreshInv, OwnCall
  <2>1. \A u \in Threads : u # t => (OwnCall(u)' <=> OwnCall(u))
    BY <1>1 DEF SInv, SdlTypes, OwnCall
  <2>2. ~OwnCall(t)' /\ (OwnCall(t) <=> ~arg[t].pump)
    BY <1>1 DEF SInv, SdlTypes, OwnCall, Presenting
  <2>3. i \in 1 .. g_crtc_count /\ old.crtc_id = arg[t].crtc_id
    BY <1>1 DEF SInv, SdlTypes, SlotInv, Slots, i, old
  <2>4. \A u \in Threads : OwnCall(u)' =>
          latest[arg[u].crtc_id] = arg[u].surface /\ Owner[arg[u].crtc_id] = u
    BY <2>1, <2>2 DEF SInv, FreshInv
  <2>5. ASSUME NEW j \in 1 .. g_crtc_count, g_crtcs'[j].surface # None,
               g_crtcs'[j].crtc_id \in CrtcIds \ behind'
        PROVE  LET k == g_crtcs'[j]
               IN  \/ k.surface = latest[k.crtc_id]
                   \/ /\ pc'[Owner[k.crtc_id]] \in Presenting
                      /\ ~arg[Owner[k.crtc_id]].pump
                      /\ arg[Owner[k.crtc_id]].crtc_id = k.crtc_id
    <3>1. CASE j = i
      <4>1. ~arg[t].pump
        BY <1>1, <1>3, <1>4, <2>3, <2>5, <3>1
      <4>2. latest[arg[t].crtc_id] = arg[t].surface
        BY <2>2, <4>1 DEF SInv, FreshInv
      <4> QED
        BY <1>3, <1>4, <2>3, <3>1, <4>2
    <3>2. CASE j # i
      <4>1. g_crtcs'[j] = g_crtcs[j] /\ g_crtcs[j].crtc_id # arg[t].crtc_id
        BY <1>4, <2>3, <3>2 DEF SInv, OneSlotEach, old
      <4>2. /\ Owner[g_crtcs[j].crtc_id] \in Threads
            /\ g_crtcs[j].crtc_id \notin behind
        BY <1>1, <2>5, <4>1, OwnersAssumption
      <4> QED
        BY <1>1, <2>1, <2>5, <4>1, <4>2 DEF SInv, FreshInv, OwnCall
    <3> QED
      BY <3>1, <3>2
  <2> QED
    BY <2>4, <2>5
<1> QED
  BY <1>6, <1>7, <1>8, <1>9, <1>10, <1>11, <1>12 DEF SInv

\* Rendering shows what a slot has and changes nothing else of it.
LEMMA RenderedIs ==
  ASSUME SInv
  PROVE  /\ Rendered \in [Slots -> SlotRecords]
         /\ \A i \in Slots : /\ Rendered[i].crtc_id = g_crtcs[i].crtc_id
                             /\ Rendered[i].surface = g_crtcs[i].surface
                             /\ \/ Rendered[i] = g_crtcs[i]
                                \/ Rendered[i].shown = g_crtcs[i].surface
<1> SUFFICES ASSUME NEW i \in Slots
             PROVE  /\ Rendered[i] \in SlotRecords
                    /\ Rendered[i].crtc_id = g_crtcs[i].crtc_id
                    /\ Rendered[i].surface = g_crtcs[i].surface
                    /\ \/ Rendered[i] = g_crtcs[i]
                       \/ Rendered[i].shown = g_crtcs[i].surface
  BY DEF Rendered
<1> DEFINE c == g_crtcs[i]
           new == [c EXCEPT !.has_window = TRUE, !.dirty = FALSE, !.shown = c.surface]
<1>1. c \in SlotRecords
  BY DEF SInv, SdlTypes
<1>2. Rendered[i] = new \/ Rendered[i] = c
  BY DEF Rendered
<1> HIDE DEF c
<1>3. new \in SlotRecords /\ new.crtc_id = c.crtc_id /\ new.surface = c.surface
      /\ new.shown = c.surface
  BY <1>1 DEF SlotRecords
<1> HIDE DEF new
<1> QED
  BY <1>1, <1>2, <1>3 DEF c

\* What rendering leaves as it is.
LEMMA RenderedKeeps ==
  ASSUME SInv, g_crtcs' = Rendered \/ g_crtcs' = g_crtcs,
         UNCHANGED <<g_crtc_count, late>>
  PROVE  /\ g_crtcs' \in [Slots -> SlotRecords] /\ OneSlotEach' /\ CleanIsShown'
         /\ \A i \in Slots : /\ g_crtcs'[i].crtc_id = g_crtcs[i].crtc_id
                             /\ g_crtcs'[i].surface = g_crtcs[i].surface
         /\ \A s : Hold(g_crtcs', s) = Hold(g_crtcs, s)
<1>1. \A i \in 1 .. g_crtc_count : i \in Slots
  BY MaxCrtcsAssumption DEF SInv, SdlTypes, Slots
<1>2. CASE g_crtcs' = g_crtcs
  BY <1>2 DEF SInv, SdlTypes, OneSlotEach, CleanIsShown
<1>3. CASE g_crtcs' = Rendered
  <2>1. /\ g_crtcs' \in [Slots -> SlotRecords]
        /\ \A i \in Slots : /\ g_crtcs'[i].crtc_id = g_crtcs[i].crtc_id
                            /\ g_crtcs'[i].surface = g_crtcs[i].surface
                            /\ \/ g_crtcs'[i] = g_crtcs[i]
                               \/ g_crtcs'[i].shown = g_crtcs[i].surface
    BY <1>3, RenderedIs
  <2>2. OneSlotEach'
    BY <1>1, <2>1 DEF SInv, OneSlotEach
  <2>3. CleanIsShown'
    BY <1>1, <2>1 DEF SInv, CleanIsShown
  <2>4. \A s : Hold(g_crtcs', s) = Hold(g_crtcs, s)
    BY <2>1, SameHold
  <2> QED
    BY <2>1, <2>2, <2>3, <2>4
<1> QED
  BY <1>2, <1>3

\* The end of a call; the main thread renders, and a pump has still its surface.
LEMMA PresentedKeeps ==
  ASSUME SInv, NEW t \in Threads, Presented(t) PROVE SInv'
<1>1. /\ pc[t] = "presented"
      /\ g_crtcs' = Rendered \/ g_crtcs' = g_crtcs
      /\ Main \in Threads
      /\ UNCHANGED <<g_inited, g_crtc_count, g_pending_surface, refs, late, block,
                     serving, mutex, latest, behind>>
  BY DEF Presented, Threads
<1>2. \/ arg[t].pump /\ pc' = [pc EXCEPT ![t] = "drained"] /\ arg' = arg
      \/ ~arg[t].pump /\ pc' = [pc EXCEPT ![t] = "idle"] /\ arg' = [arg EXCEPT ![t] = NoArg]
  BY DEF Presented, CallEnds, Goto
<1>3. /\ NoArg \in ArgRecords /\ NoArg.pump = FALSE
      /\ pc \in [Threads -> WorkerPcs \cup MainPcs] /\ arg \in [Threads -> ArgRecords]
  BY DEF SInv, SdlTypes, ArgRecords, NoArg
<1>4. /\ g_crtcs' \in [Slots -> SlotRecords] /\ OneSlotEach' /\ CleanIsShown'
      /\ \A i \in Slots : /\ g_crtcs'[i].crtc_id = g_crtcs[i].crtc_id
                          /\ g_crtcs'[i].surface = g_crtcs[i].surface
      /\ \A s : Hold(g_crtcs', s) = Hold(g_crtcs, s)
  BY <1>1, RenderedKeeps
<1>5. \A i \in 1 .. g_crtc_count : i \in Slots
  BY MaxCrtcsAssumption DEF SInv, SdlTypes, Slots
<1>6. arg'[Main].pump = arg[Main].pump /\ (arg[Main].pump => arg'[Main] = arg[Main])
  <2>1. CASE arg' = arg
    BY <2>1
  <2>2. CASE ~arg[t].pump /\ arg' = [arg EXCEPT ![t] = NoArg]
    <3>1. CASE t = Main
      <4>1. arg'[Main] = NoArg
        BY <1>1, <1>3, <2>2, <3>1
      <4>2. arg[Main] \in ArgRecords
        BY <1>1, <1>3
      <4>3. arg[Main].pump \in BOOLEAN /\ ~arg[Main].pump
        BY <2>2, <3>1, <4>2 DEF ArgRecords
      <4>4. arg[Main].pump = FALSE
        BY <4>3
      <4>5. arg'[Main].pump = FALSE
        BY <1>3, <4>1
      <4> QED
        BY <4>4, <4>5
    <3>2. CASE t # Main
      <4>1. arg'[Main] = arg[Main]
        BY <1>1, <1>3, <2>2, <3>2
      <4> QED
        BY <4>1
    <3> QED
      BY <3>1, <3>2
  <2> QED
    BY <1>2, <2>1, <2>2
<1>7. RefInv'
  <2>1. \A s : Held(s)' = Held(s)
    BY <1>1, <1>4, <1>6, HeldIs DEF HeldOf
  <2> QED
    BY <1>1, <2>1 DEF SInv, RefInv
<1>8. SdlTypes'
  BY <1>1, <1>2, <1>3, <1>4 DEF SInv, SdlTypes, WorkerPcs, Busy
<1>9. ArgInv'
  BY <1>1, <1>2, <1>3 DEF SInv, ArgInv, WorkerPcs, MainPcs, Busy, Presenting
<1>10. \A u \in Threads : u # t => pc'[u] = pc[u] /\ arg'[u] = arg[u]
  BY <1>2, <1>3
<1>11. pc'[t] \in {"drained", "idle"}
  BY <1>2, <1>3
<1>12. SlotInv'
  BY <1>1, <1>4, <1>10, <1>11 DEF SInv, SlotInv, ArgInv
<1>13. FreshInv'
  <2>1. \A u \in Threads : (OwnCall(u)' <=> OwnCall(u)) /\ (OwnCall(u) => arg'[u] = arg[u])
    BY <1>1, <1>10, <1>11 DEF OwnCall, Presenting
  <2>2. FreshInv
    BY DEF SInv
  <2> QED
    BY <1>1, <1>4, <1>5, <2>1, <2>2, OwnersAssumption DEF FreshInv
<1> QED
  BY <1>4, <1>7, <1>8, <1>9, <1>12, <1>13 DEF SInv

\* The pump releases the surface that had waited.
LEMMA DrainedKeeps ==
  ASSUME SInv, Drained PROVE SInv'
<1>1. /\ pc[Main] = "drained" /\ Main \in Threads
      /\ refs' = [s \in Surfaces |-> refs[s] - (IF s = arg[Main].surface THEN 1 ELSE 0)
                                             + (IF s = None THEN 1 ELSE 0)]
      /\ pc' = [pc EXCEPT ![Main] = "pumped"] /\ arg' = [arg EXCEPT ![Main] = NoArg]
      /\ UNCHANGED <<g_inited, g_crtcs, g_crtc_count, g_pending_surface, late, block,
                     serving, mutex, latest, behind>>
  BY DEF Drained, Goto, Exchanged, Threads
<1>2. /\ NoArg \in ArgRecords /\ NoArg.pump = FALSE /\ None \notin Surfaces
      /\ pc \in [Threads -> WorkerPcs \cup MainPcs] /\ arg \in [Threads -> ArgRecords]
      /\ arg[Main].pump /\ arg[Main].surface \in Surfaces
  BY <1>1, ThreadsAssumption DEF SInv, SdlTypes, ArgRecords, NoArg, ArgInv, Busy
<1>3. arg'[Main] = NoArg /\ \A u \in Threads : u # Main => pc'[u] = pc[u] /\ arg'[u] = arg[u]
  BY <1>1, <1>2
<1>4. RefInv' /\ refs' \in [Surfaces -> Nat]
  <2>1. ASSUME NEW s \in Surfaces PROVE refs'[s] - refs[s] = Held(s)' - Held(s)
    <3>1. /\ Held(s) = HeldOf(g_crtcs, g_pending_surface, arg[Main], s)
          /\ Held(s)' = HeldOf(g_crtcs, g_pending_surface, NoArg, s)
      BY <1>1, <1>3, HeldIs
    <3>2. Cardinality(Hold(g_crtcs, s)) \in Nat /\ refs[s] \in Nat
      BY HoldFinite DEF SInv, SdlTypes
    <3> QED
      BY <1>1, <1>2, <3>1, <3>2 DEF HeldOf
  <2>2. refs' \in [Surfaces -> Int]
    BY <1>1 DEF SInv, SdlTypes
  <2> QED
    BY <1>1, <2>1, <2>2, RefsFollow
<1>5. SdlTypes'
  BY <1>1, <1>2, <1>4 DEF SInv, SdlTypes, MainPcs
<1>6. ArgInv'
  BY <1>1, <1>2 DEF SInv, ArgInv, MainPcs, Busy, Presenting
<1>7. OneSlotEach' /\ CleanIsShown'
  BY <1>1 DEF SInv, OneSlotEach, CleanIsShown
<1>8. SlotInv'
  BY <1>1, <1>2 DEF SInv, SlotInv
<1>9. FreshInv'
  <2>1. \A u \in Threads : (OwnCall(u)' <=> OwnCall(u)) /\ (OwnCall(u) => arg'[u] = arg[u])
    BY <1>1, <1>2 DEF OwnCall, Presenting
  <2>2. FreshInv
    BY DEF SInv
  <2> QED
    BY <1>1, <2>1, <2>2, OwnersAssumption DEF FreshInv
<1> QED
  BY <1>4, <1>5, <1>6, <1>7, <1>8, <1>9 DEF SInv

\* What is left to show of a step of the main thread that presents nothing, and of
\* a worker's call.
LEMMA OtherKeeps ==
  ASSUME SInv, NEW t \in Threads,
         pc[t] \notin Busy, pc' = [pc EXCEPT ![t] = pc'[t]],
         pc'[t] \in (IF t = Main THEN MainPcs ELSE WorkerPcs) \ Busy,
         g_crtcs' = Rendered \/ g_crtcs' = g_crtcs,
         g_inited' \in BOOLEAN, serving' \in Workers \cup {None},
         mutex' \in [Epfds -> Threads \cup {None}],
         block' \in [Threads -> {None, "init", "pump", "shutdown"}],
         UNCHANGED <<g_crtc_count, g_pending_surface, refs, late, arg, latest, behind>>
  PROVE  SInv'
<1>1. /\ g_crtcs' \in [Slots -> SlotRecords] /\ OneSlotEach' /\ CleanIsShown'
      /\ \A i \in Slots : /\ g_crtcs'[i].crtc_id = g_crtcs[i].crtc_id
                          /\ g_crtcs'[i].surface = g_crtcs[i].surface
      /\ \A s : Hold(g_crtcs', s) = Hold(g_crtcs, s)
  BY RenderedKeeps
<1>2. \A i \in 1 .. g_crtc_count : i \in Slots
  BY MaxCrtcsAssumption DEF SInv, SdlTypes, Slots
<1>3. /\ \A u \in Threads : u # t => pc'[u] = pc[u]
      /\ pc'[t] \notin Busy /\ pc \in [Threads -> WorkerPcs \cup MainPcs]
  BY DEF SInv, SdlTypes
<1>4. SdlTypes'
  BY <1>1 DEF SInv, SdlTypes
<1>5. ArgInv'
  BY <1>3 DEF SInv, ArgInv, Busy, Presenting
<1>6. SlotInv'
  BY <1>1, <1>3 DEF SInv, SlotInv, ArgInv, Busy, Presenting
<1>7. RefInv'
  <2>1. \A s : Held(s)' = Held(s)
    BY <1>1, HeldIs DEF HeldOf
  <2> QED
    BY <2>1 DEF SInv, RefInv
<1>8. FreshInv'
  <2>1. \A u \in Threads : OwnCall(u)' <=> OwnCall(u)
    BY <1>3 DEF OwnCall, Busy, Presenting
  <2>2. FreshInv
    BY DEF SInv
  <2> QED
    BY <1>1, <1>2, <2>1, <2>2, OwnersAssumption DEF FreshInv
<1> QED
  BY <1>1, <1>4, <1>5, <1>6, <1>7, <1>8 DEF SInv

\* The steps of the main thread between hooked call and return.
LEMMA MainKeeps ==
  ASSUME SInv, \/ InitAlone \/ HookedCall \/ LockMain \/ PollEnds \/ Flush \/ Pumped
               \/ \E w \in Workers : Serve(w)
  PROVE  SInv'
<1> DEFINE Blocks == {None, "init", "pump", "shutdown"}
<1>1. /\ Main \in Threads /\ pc \in [Threads -> WorkerPcs \cup MainPcs]
      /\ g_inited \in BOOLEAN /\ serving \in Workers \cup {None}
      /\ mutex \in [Epfds -> Threads \cup {None}] /\ block \in [Threads -> Blocks]
      /\ \A w \in Workers : w \in Threads
  BY DEF Threads, SInv, SdlTypes
<1>2. ASSUME InitAlone PROVE SInv'
  <2>1. /\ pc[Main] = "idle" /\ g_inited' = TRUE /\ pc' = pc
        /\ UNCHANGED <<g_crtcs, serving, mutex, block, g_crtc_count, g_pending_surface,
                       refs, late, arg, latest, behind>>
    BY <1>2 DEF InitAlone, crtcVars
  <2>2. pc' = [pc EXCEPT ![Main] = pc'[Main]] /\ pc'[Main] \in MainPcs \ Busy
        /\ pc[Main] \notin Busy
    BY <1>1, <2>1 DEF MainPcs, Busy, Presenting
  <2> QED
    BY <1>1, <2>1, <2>2, OtherKeeps
<1>3. ASSUME HookedCall PROVE SInv'
  <2>1. /\ pc[Main] = "idle"
        /\ \E l \in {"poll", "lock"} : pc' = [pc EXCEPT ![Main] = l]
        /\ UNCHANGED <<g_inited, g_crtcs, serving, mutex, block, g_crtc_count,
                       g_pending_surface, refs, late, arg, latest, behind>>
    BY <1>3 DEF HookedCall, crtcVars, Goto
  <2>2. pc' = [pc EXCEPT ![Main] = pc'[Main]] /\ pc'[Main] \in MainPcs \ Busy
        /\ pc[Main] \notin Busy
    BY <1>1, <2>1 DEF MainPcs, Busy, Presenting
  <2> QED
    BY <1>1, <2>1, <2>2, OtherKeeps
<1>4. ASSUME PollEnds PROVE SInv'
  <2>1. /\ pc[Main] = "poll"
        /\ \E l \in {"flush", "pumped"} : pc' = [pc EXCEPT ![Main] = l]
        /\ UNCHANGED <<g_inited, g_crtcs, serving, mutex, block, g_crtc_count,
                       g_pending_surface, refs, late, arg, latest, behind>>
    BY <1>4 DEF PollEnds, crtcVars, Goto
  <2>2. pc' = [pc EXCEPT ![Main] = pc'[Main]] /\ pc'[Main] \in MainPcs \ Busy
        /\ pc[Main] \notin Busy
    BY <1>1, <2>1 DEF MainPcs, Busy, Presenting
  <2> QED
    BY <1>1, <2>1, <2>2, OtherKeeps
<1>5. ASSUME Flush PROVE SInv'
  <2>1. /\ pc[Main] = "flush" /\ pc' = [pc EXCEPT ![Main] = "drain"]
        /\ g_crtcs' = Rendered
        /\ UNCHANGED <<g_inited, serving, mutex, block, g_crtc_count,
                       g_pending_surface, refs, late, arg, latest, behind>>
    BY <1>5 DEF Flush, Goto
  <2>2. pc' = [pc EXCEPT ![Main] = pc'[Main]] /\ pc'[Main] \in MainPcs \ Busy
        /\ pc[Main] \notin Busy
    BY <1>1, <2>1 DEF MainPcs, Busy, Presenting
  <2> QED
    BY <1>1, <2>1, <2>2, OtherKeeps
<1>6. ASSUME Pumped PROVE SInv'
  <2>1. /\ pc[Main] = "pumped" /\ serving' = None
        /\ \E l \in {"idle", "poll"} : pc' = [pc EXCEPT ![Main] = l]
        /\ block' = block \/ block' = [block EXCEPT ![serving] = None]
        /\ mutex' = mutex \/ mutex' = Unlocked(Main)
        /\ UNCHANGED <<g_inited, g_crtcs, g_crtc_count,
                       g_pending_surface, refs, late, arg, latest, behind>>
    BY <1>6 DEF Pumped, crtcVars, Goto
  <2>2. pc' = [pc EXCEPT ![Main] = pc'[Main]] /\ pc'[Main] \in MainPcs \ Busy
        /\ pc[Main] \notin Busy
    BY <1>1, <2>1 DEF MainPcs, Busy, Presenting
  <2>3. block' \in [Threads -> Blocks] /\ mutex' \in [Epfds -> Threads \cup {None}]
    BY <1>1, <2>1 DEF Unlocked
  <2> QED
    BY <1>1, <2>1, <2>2, <2>3, OtherKeeps
<1>7. ASSUME NEW w \in Workers, Serve(w) PROVE SInv'
  <2>1. /\ pc[Main] = "poll" /\ serving' \in {serving, w} /\ pc' = pc
        /\ block' = block \/ block' = [block EXCEPT ![w] = None]
        /\ g_inited' \in {g_inited, TRUE, FALSE}
        /\ UNCHANGED <<g_crtcs, mutex, g_crtc_count,
                       g_pending_surface, refs, late, arg, latest, behind>>
    BY <1>7 DEF Serve, crtcVars
  <2>2. pc' = [pc EXCEPT ![Main] = pc'[Main]] /\ pc'[Main] \in MainPcs \ Busy
        /\ pc[Main] \notin Busy
    BY <1>1, <2>1 DEF MainPcs, Busy, Presenting
  <2>3. /\ block' \in [Threads -> Blocks] /\ serving' \in Workers \cup {None}
        /\ g_inited' \in BOOLEAN
    BY <1>1, <1>7, <2>1
  <2> QED
    BY <1>1, <2>1, <2>2, <2>3, OtherKeeps
<1>8. ASSUME LockMain PROVE SInv'
  <2>1. /\ pc[Main] = "lock" /\ pc' = [pc EXCEPT ![Main] = "poll"]
        /\ mutex' = [mutex EXCEPT ![epfd[Main]] = Main]
        /\ UNCHANGED <<g_inited, g_crtcs, serving, block, g_crtc_count,
                       g_pending_surface, refs, late, arg, latest, behind>>
    BY <1>8 DEF LockMain, crtcVars, Goto
  <2>2. pc' = [pc EXCEPT ![Main] = pc'[Main]] /\ pc'[Main] \in MainPcs \ Busy
        /\ pc[Main] \notin Busy
    BY <1>1, <2>1 DEF MainPcs, Busy, Presenting
  <2>3. mutex' \in [Epfds -> Threads \cup {None}]
    BY <1>1, <2>1
  <2> QED
    BY <1>1, <2>1, <2>2, <2>3, OtherKeeps
<1> QED
  BY <1>2, <1>3, <1>4, <1>5, <1>6, <1>7, <1>8

\* Workers' calls.
LEMMA WorkerKeeps ==
  ASSUME SInv, NEW w \in Workers,
         \/ \E locked \in BOOLEAN : WorkerCall(w, locked)
         \/ WorkerReturns(w) \/ WorkerShutdown(w)
  PROVE  SInv'
<1>1. /\ w \in Threads /\ w # Main
      /\ pc[w] \in {"idle", "called"}
      /\ \E l \in {"idle", "called"} : pc' = [pc EXCEPT ![w] = l]
      /\ mutex' \in {mutex, Unlocked(w), [mutex EXCEPT ![epfd[w]] = w]}
      /\ \/ block' = block
         \/ \E b \in {"pump", "shutdown"} : block' = [block EXCEPT ![w] = b]
      /\ UNCHANGED <<g_inited, g_crtcs, serving, g_crtc_count, g_pending_surface,
                     refs, late, arg, latest, behind>>
  BY ThreadsAssumption DEF WorkerCall, WorkerReturns, WorkerShutdown, Goto, crtcVars, Threads
<1>2. /\ pc \in [Threads -> WorkerPcs \cup MainPcs] /\ g_inited \in BOOLEAN
      /\ serving \in Workers \cup {None} /\ mutex \in [Epfds -> Threads \cup {None}]
      /\ block \in [Threads -> {None, "init", "pump", "shutdown"}]
  BY DEF SInv, SdlTypes
<1>3. pc' = [pc EXCEPT ![w] = pc'[w]] /\ pc'[w] \in WorkerPcs \ Busy /\ pc[w] \notin Busy
  BY <1>1, <1>2 DEF WorkerPcs, Busy, Presenting
<1>4. /\ block' \in [Threads -> {None, "init", "pump", "shutdown"}]
      /\ mutex' \in [Epfds -> Threads \cup {None}]
  BY <1>1, <1>2 DEF Unlocked
<1> QED
  BY <1>1, <1>2, <1>3, <1>4, OtherKeeps

\* A surface that has waited goes from one hold to the other.
LEMMA DrainKeeps ==
  ASSUME SInv, Drain PROVE SInv'
<1> DEFINE a == [surface |-> g_pending_surface, crtc_id |-> 1, slot |-> None, pump |-> TRUE]
<1>1. /\ pc[Main] = "drain" /\ g_pending_surface' = None /\ Main \in Threads
      /\ UNCHANGED <<g_inited, g_crtcs, g_crtc_count, refs, late, block, serving,
                     mutex, latest, behind>>
  BY DEF Drain, Threads
<1>2. \/ g_pending_surface = None /\ pc' = [pc EXCEPT ![Main] = "pumped"] /\ arg' = arg
      \/ /\ g_pending_surface # None
         /\ arg' = [arg EXCEPT ![Main] = a]
         /\ \E l \in {"get", "init"} : pc' = [pc EXCEPT ![Main] = l]
  BY DEF Drain, Goto
<1>3. CASE g_pending_surface = None /\ pc' = [pc EXCEPT ![Main] = "pumped"] /\ arg' = arg
  <2>1. pc' = [pc EXCEPT ![Main] = pc'[Main]] /\ pc'[Main] \in MainPcs \ Busy
        /\ pc[Main] \notin Busy
    BY <1>1, <1>3 DEF SInv, SdlTypes, MainPcs, Busy, Presenting
  <2>2. /\ g_inited' \in BOOLEAN /\ serving' \in Workers \cup {None}
        /\ mutex' \in [Epfds -> Threads \cup {None}]
        /\ block' \in [Threads -> {None, "init", "pump", "shutdown"}]
        /\ g_pending_surface' = g_pending_surface
    BY <1>1, <1>3 DEF SInv, SdlTypes
  <2> QED
    BY <1>1, <1>3, <2>1, <2>2, OtherKeeps
<1>4. CASE /\ g_pending_surface # None
           /\ arg' = [arg EXCEPT ![Main] = a]
           /\ \E l \in {"get", "init"} : pc' = [pc EXCEPT ![Main] = l]
  <2>1. /\ a \in ArgRecords /\ a.surface = g_pending_surface /\ a.pump = TRUE
        /\ a.crtc_id = 1 /\ g_pending_surface \in Surfaces /\ 1 \in CrtcIds
    BY <1>4, OwnersAssumption DEF SInv, SdlTypes, ArgRecords
  <2> HIDE DEF a
  <2>2. SdlTypes'
    BY <1>1, <1>4, <2>1 DEF SInv, SdlTypes, WorkerPcs, Busy, Presenting
  <2>3. ArgInv'
    BY <1>1, <1>4, <2>1 DEF SInv, SdlTypes, ArgInv, WorkerPcs, MainPcs, Busy, Presenting
  <2>4. OneSlotEach' /\ CleanIsShown'
    BY <1>1, <2>1 DEF SInv, OneSlotEach, CleanIsShown
  <2>5. SlotInv'
    BY <1>1, <1>4, <2>1 DEF SInv, SdlTypes, SlotInv
  <2>6. RefInv'
    <3>1. ASSUME NEW s \in Surfaces PROVE Held(s)' = Held(s)
      <4>1. /\ Held(s) = HeldOf(g_crtcs, g_pending_surface, arg[Main], s)
            /\ Held(s)' = HeldOf(g_crtcs, None, arg'[Main], s)
        BY <1>1, HeldIs
      <4>2. arg'[Main] = a /\ arg[Main].pump = FALSE
        BY <1>1, <1>4, <2>1 DEF SInv, SdlTypes, ArgInv, NoArg, Busy, Presenting
      <4>3. s # None /\ Cardinality(Hold(g_crtcs, s)) \in Nat
        BY HoldFinite, ThreadsAssumption
      <4> QED
        BY <2>1, <4>1, <4>2, <4>3 DEF HeldOf
    <3> QED
      BY <1>1, <3>1 DEF SInv, RefInv
  <2>7. FreshInv'
    <3>1. \A u \in Threads : (OwnCall(u)' <=> OwnCall(u)) /\ (OwnCall(u) => arg'[u] = arg[u])
      BY <1>1, <1>4, <2>1 DEF SInv, SdlTypes, OwnCall, Presenting
    <3>2. FreshInv
      BY DEF SInv
    <3> QED
      BY <1>1, <3>1, <3>2, OwnersAssumption DEF FreshInv
  <2> QED
    BY <2>2, <2>3, <2>4, <2>5, <2>6, <2>7 DEF SInv
<1> QED
  BY <1>2, <1>3, <1>4

\* A shutdown releases what the counted slots hold, and those not counted hold
\* nothing unless a surface was late.
LEMMA ShutDownKeeps ==
  ASSUME SInv, ShutDown, pc[Main] \in {"idle", "poll"},
         UNCHANGED <<pc, arg, serving, mutex, latest, behind>>,
         block' \in [Threads -> {None, "init", "pump", "shutdown"}]
  PROVE  SInv'
<1> DEFINE Counted(s) == {i \in 1 .. g_crtc_count : g_crtcs[i].surface = s}
           Rest(s) == {i \in Slots : i > g_crtc_count /\ g_crtcs[i].surface = s}
<1>1. /\ g_inited' = FALSE /\ g_crtc_count' = 0 /\ g_pending_surface' = None
      /\ refs' = [s \in Surfaces |-> refs[s] - Cardinality(Counted(s))
                                     - (IF g_pending_surface = s THEN 1 ELSE 0)]
      /\ late' = (late \/ \E w \in Workers : pc[w] = "set")
  BY DEF ShutDown
<1>2. /\ Main \in Threads /\ None \notin Surfaces /\ MAX_CRTCS \in Nat
      /\ g_crtc_count \in 0 .. MAX_CRTCS /\ late \in BOOLEAN
  BY MaxCrtcsAssumption, ThreadsAssumption DEF Threads, SInv, SdlTypes
<1>3. ASSUME NEW i \in Slots
      PROVE  /\ g_crtcs'[i] \in SlotRecords
             /\ IF i > g_crtc_count THEN g_crtcs'[i] = g_crtcs[i]
                ELSE g_crtcs'[i].surface = None
  <2> DEFINE c == g_crtcs[i]
             new == [c EXCEPT !.surface = None, !.shown = None, !.has_window = FALSE]
  <2>1. c \in SlotRecords
    BY DEF SInv, SdlTypes
  <2>2. g_crtcs'[i] = IF i > g_crtc_count THEN c ELSE new
    BY DEF ShutDown
  <2> HIDE DEF c
  <2>3. new \in SlotRecords /\ new.surface = None
    BY <2>1 DEF SlotRecords
  <2> HIDE DEF new
  <2> QED
    BY <2>1, <2>2, <2>3 DEF c
<1>4. g_crtcs' \in [Slots -> SlotRecords]
  BY <1>3 DEF ShutDown
<1>5. RefInv' /\ refs' \in [Surfaces -> Nat]
  <2>1. ASSUME NEW s \in Surfaces
        PROVE  /\ refs'[s] \in Int
               /\ refs'[s] - refs[s] = Held(s)' - Held(s)
    <3>1. /\ Held(s) = HeldOf(g_crtcs, g_pending_surface, arg[Main], s)
          /\ Held(s)' = HeldOf(g_crtcs', None, arg[Main], s)
      BY <1>1, HeldIs
    <3>2. /\ Hold(g_crtcs, s) = Counted(s) \cup Rest(s) /\ Counted(s) \cap Rest(s) = {}
          /\ Hold(g_crtcs', s) = Rest(s)
      <4>1. Hold(g_crtcs', s) = Rest(s)
        BY <1>2, <1>3 DEF Hold
      <4>2. \A i \in Slots : i \in 1 .. g_crtc_count <=> ~(i > g_crtc_count)
        BY <1>2 DEF Slots
      <4>3. \A i \in 1 .. g_crtc_count : i \in Slots
        BY <1>2 DEF Slots
      <4> QED
        BY <4>1, <4>2, <4>3 DEF Hold
    <3>3. /\ Cardinality(Hold(g_crtcs, s)) = Cardinality(Counted(s)) + Cardinality(Rest(s))
          /\ Cardinality(Counted(s)) \in Nat /\ Cardinality(Rest(s)) \in Nat
      <4>1. IsFiniteSet(Hold(g_crtcs, s))
        BY HoldFinite
      <4>2. Counted(s) \in SUBSET Hold(g_crtcs, s) /\ Rest(s) \in SUBSET Hold(g_crtcs, s)
        BY <3>2
      <4> HIDE DEF Counted, Rest
      <4>3. IsFiniteSet(Counted(s)) /\ IsFiniteSet(Rest(s))
        BY <4>1, <4>2, FS_Subset
      <4>4. Cardinality(Counted(s)) \in Nat /\ Cardinality(Rest(s)) \in Nat
        BY <4>3, FS_CardinalityType
      <4>5. Cardinality(Hold(g_crtcs, s)) = Cardinality(Counted(s)) + Cardinality(Rest(s))
                                            - Cardinality(Counted(s) \cap Rest(s))
        BY <3>2, <4>3, FS_Union
      <4>6. Cardinality(Counted(s) \cap Rest(s)) = 0
        BY <3>2, FS_EmptySet
      <4> QED
        BY <4>4, <4>5, <4>6
    <3>4. refs[s] \in Nat /\ s # None
      BY <1>2 DEF SInv, SdlTypes
    <3> HIDE DEF Counted, Rest
    <3> QED
      BY <1>1, <3>1, <3>2, <3>3, <3>4 DEF HeldOf
  <2>2. refs' \in [Surfaces -> Int]
    BY <1>1, <2>1
  <2> QED
    BY <1>1, <2>1, <2>2, RefsFollow
<1>6. SdlTypes'
  <2>1. late' \in BOOLEAN
    BY <1>1, Zenon
  <2>2. g_inited' \in BOOLEAN /\ g_crtc_count' \in 0 .. MAX_CRTCS
    <3>1. g_inited' = FALSE /\ g_crtc_count' = 0 /\ 0 \in 0 .. MAX_CRTCS
      BY <1>1, <1>2
    <3> QED
      BY <3>1
  <2> QED
    BY <1>1, <1>4, <1>5, <2>1, <2>2 DEF SInv, SdlTypes
<1>7. ArgInv'
  BY <1>1 DEF SInv, ArgInv
<1>8. OneSlotEach' /\ CleanIsShown'
  BY <1>1 DEF OneSlotEach, CleanIsShown
<1>9. SlotInv'
  <2> SUFFICES ASSUME ~late'
               PROVE  /\ \A t \in Threads : pc[t] # "set"
                      /\ \A i \in Slots : g_crtcs'[i].surface = None
    BY DEF SlotInv
  <2>1. ~late /\ \A t \in Threads : pc[t] # "set"
    BY <1>1 DEF Threads
  <2> QED
    BY <1>3, <2>1 DEF SInv, SlotInv
<1>10. FreshInv'
  <2>1. late => late'
    BY <1>1, Zenon
  <2> QED
    BY <1>1, <2>1 DEF SInv, FreshInv, OwnCall
<1> QED
  BY <1>5, <1>6, <1>7, <1>8, <1>9, <1>10 DEF SInv

\* sdl_backend_shutdown, wherever it is called.
LEMMA ShutdownKeeps ==
  ASSUME SInv, Shutdown \/ \E w \in Workers : ServeShutdown(w) PROVE SInv'
<1> DEFINE Blocks == {None, "init", "pump", "shutdown"}
<1>1. block \in [Threads -> Blocks] /\ Main \in Threads
  BY DEF SInv, SdlTypes, Threads
<1>2. CASE Shutdown
  BY <1>1, <1>2, ShutDownKeeps DEF Shutdown
<1>3. ASSUME NEW w \in Workers, ServeShutdown(w) PROVE SInv'
  <2>1. /\ pc[Main] = "poll" /\ block' = [block EXCEPT ![w] = None]
        /\ UNCHANGED <<pc, arg, serving, mutex, latest, behind>>
        /\ ShutDown \/ UNCHANGED <<g_inited, g_crtcs, g_crtc_count, g_pending_surface,
                                   refs, late>>
    BY <1>3 DEF ServeShutdown, crtcVars
  <2>2. block' \in [Threads -> Blocks]
    BY <1>1, <2>1
  <2>3. CASE ShutDown
    BY <2>1, <2>2, <2>3, ShutDownKeeps
  <2>4. CASE UNCHANGED <<g_inited, g_crtcs, g_crtc_count, g_pending_surface, refs, late>>
    <3>1. pc' = [pc EXCEPT ![Main] = pc'[Main]] /\ pc'[Main] \in MainPcs \ Busy
          /\ pc[Main] \notin Busy
      BY <1>1, <2>1 DEF SInv, SdlTypes, MainPcs, Busy, Presenting
    <3>2. /\ g_inited' \in BOOLEAN /\ serving' \in Workers \cup {None}
          /\ mutex' \in [Epfds -> Threads \cup {None}]
      BY <2>1, <2>4 DEF SInv, SdlTypes
    <3> QED
      BY <1>1, <2>1, <2>2, <2>4, <3>1, <3>2, OtherKeeps
  <2> QED
    BY <2>1, <2>3, <2>4
<1> QED
  BY <1>2, <1>3

\* Every step keeps the invariant.
LEMMA StepSInv == SInv /\ [SdlNext]_sdlVars => SInv'
<1> SUFFICES ASSUME SInv, [SdlNext]_sdlVars PROVE SInv'
  OBVIOUS
<1>1. CASE UNCHANGED sdlVars
  <2> USE <1>1 DEF sdlVars, SInv
  <2>1. SdlTypes'
    BY DEF SdlTypes
  <2>2. ArgInv' /\ OneSlotEach'
    BY DEF ArgInv, OneSlotEach
  <2>3. SlotInv'
    BY DEF SlotInv
  <2>4. RefInv'
    BY DEF RefInv, Held
  <2>5. CleanIsShown'
    BY DEF CleanIsShown
  <2>6. FreshInv'
    BY DEF FreshInv, OwnCall
  <2> QED
    BY <2>1, <2>2, <2>3, <2>4, <2>5, <2>6
<1>2. CASE SdlNext
  <2>1. Main \in Threads /\ \A w \in Workers : w \in Threads
    BY DEF Threads
  <2>2. CASE MainStep
    <3>1. \/ InitMain \/ Pend(Main) \/ GetOrCreateCrtc(Main) \/ SetSurface(Main)
          \/ Presented(Main) \/ PollEnds \/ Flush \/ Drain \/ Drained \/ Pumped
      BY <2>2 DEF MainStep
    <3> QED
      BY <2>1, <3>1, InitMainKeeps, PendKeeps, GetKeeps, SetSurfaceKeeps, PresentedKeeps,
         MainKeeps, DrainKeeps, DrainedKeeps
  <2>3. ASSUME NEW w \in Workers, WorkerStep(w) PROVE SInv'
    <3>1. \/ InitWorker(w) \/ Initialised(w) \/ Pend(w) \/ GetOrCreateCrtc(w)
          \/ SetSurface(w) \/ Presented(w) \/ WorkerReturns(w)
      BY <2>3 DEF WorkerStep
    <3> QED
      BY <2>1, <3>1, WorkerInitKeeps, PendKeeps, GetKeeps, SetSurfaceKeeps, PresentedKeeps,
         WorkerKeeps
  <2>4. ASSUME NEW w \in Workers, Serve(w) \/ ServeShutdown(w) \/ WorkerShutdown(w)
        PROVE  SInv'
    BY <2>4, MainKeeps, ShutdownKeeps, WorkerKeeps
  <2>5. \/ MainStep
        \/ \E w \in Workers : WorkerStep(w)
        \/ \E t \in Threads, s \in Surfaces, c \in CrtcIds : Present(t, s, c)
        \/ InitAlone
        \/ HookedCall \/ LockMain
        \/ \E w \in Workers : Serve(w) \/ ServeShutdown(w) \/ WorkerShutdown(w)
        \/ \E w \in Workers : \E locked \in BOOLEAN : WorkerCall(w, locked)
        \/ Shutdown
    BY <1>2 DEF SdlNext
  <2> QED
    BY <2>2, <2>3, <2>4, <2>5, PresentKeeps, MainKeeps, WorkerKeeps, ShutdownKeeps
<1> QED
  BY <1>1, <1>2

\* The inductive invariant of presenting holds in every state.
THEOREM SdlInvariance == SdlSpec => []SInv
BY InitSInv, StepSInv, PTL DEF SdlSpec

\* Whatever threads present, and whenever SDL comes up or is shut down: a surface
\* is retained once for each place that holds it, a CRTC that is not dirty shows
\* its surface, and it is the one presented to it last.
THEOREM CrtcsKept == SdlSpec => []CrtcsInv
<1>1. ASSUME SInv PROVE CrtcsInv
  <2>1. SdlTypeOK
    <3>1. \A i \in Slots : g_crtcs[i] \in SlotRecords
      BY <1>1 DEF SInv, SdlTypes
    <3> QED
      BY <1>1, <3>1 DEF SInv, SdlTypes, OneSlotEach, SdlTypeOK, SlotRecords
  <2>2. RetainsMatch
    BY <1>1 DEF SInv, RefInv, RetainsMatch
  <2>3. LatestIsShown
    BY <1>1 DEF SInv, FreshInv, OwnCall, LatestIsShown, ShowsLatest, Presenting
  <2> QED
    BY <1>1, <2>1, <2>2, <2>3 DEF SInv, CrtcsInv
<1> QED
  BY <1>1, SdlInvariance, PTL

=============================================================================
