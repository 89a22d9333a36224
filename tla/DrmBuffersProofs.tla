-------------------------- MODULE DrmBuffersProofs --------------------------
(***************************************************************************)
(* Proofs about DrmBuffers, for any number of surfaces, displays, buffers  *)
(* and framebuffers and any sizes of the tables: the retain count of a     *)
(* surface is the number of its owners, and no entry of the GBM table      *)
(* outlives its buffer object.                                             *)
(*                                                                         *)
(* The counts are cardinalities of four sets of owners; a step adds one    *)
(* element to one of them, or removes one, for one surface.                *)
(***************************************************************************)
EXTENDS DrmBuffers, FiniteSetTheorems,
        SequenceTheorems, TLAPS

Dumbs(s)   == {d \in g_dumb : d.surface = s}
Objects(s) == bos \cap {s}
Fbs(s)     == {fb \in g_fbs : fb.surface = s}
Screens(s) == {c \in Crtcs : displays[c] = s}

\* The four kinds of owners of a surface are finite sets.
LEMMA OwnersFinite ==
  ASSUME FreshInv, NEW s
  PROVE  /\ IsFiniteSet(Dumbs(s))   /\ Cardinality(Dumbs(s)) \in Nat
         /\ IsFiniteSet(Objects(s)) /\ Cardinality(Objects(s)) \in Nat
         /\ IsFiniteSet(Fbs(s))     /\ Cardinality(Fbs(s)) \in Nat
         /\ IsFiniteSet(Screens(s)) /\ Cardinality(Screens(s)) \in Nat
  <1>1. IsFiniteSet(Dumbs(s)) /\ IsFiniteSet(Fbs(s))
    <2>1. Dumbs(s) \in SUBSET g_dumb /\ Fbs(s) \in SUBSET g_fbs
      BY DEF Dumbs, Fbs
    <2> QED
      BY <2>1, FS_Subset DEF FreshInv
  <1>2. IsFiniteSet(Objects(s))
    <2>1. IsFiniteSet({s}) /\ Objects(s) \in SUBSET {s}
      BY FS_Singleton DEF Objects
    <2> QED
      BY <2>1, FS_Subset
  <1>3. IsFiniteSet(Screens(s))
    <2>1. 1 \in Int /\ NCrtcs \in Int
      BY SizesAssumption
    <2>2. IsFiniteSet(1 .. NCrtcs)
      BY <2>1, FS_Interval
    <2>3. Screens(s) \in SUBSET (1 .. NCrtcs)
      BY DEF Screens, Crtcs
    <2> QED
      BY <2>2, <2>3, FS_Subset
  <1> QED
    BY <1>1, <1>2, <1>3, FS_CardinalityType

\* A set has an element among those of a singleton, or none.
LEMMA OneOrNone ==
  ASSUME NEW S, NEW s
  PROVE  Cardinality(S \cap {s}) = IF s \in S THEN 1 ELSE 0
  <1>1. CASE s \in S
    <2>1. S \cap {s} = {s}
      BY <1>1
    <2> QED
      BY <1>1, <2>1, FS_Singleton
  <1>2. CASE s \notin S
    <2>1. S \cap {s} = {}
      BY <1>2
    <2> QED
      BY <1>2, <2>1, FS_EmptySet
  <1> QED
    BY <1>1, <1>2

\* RefsAccounted in terms of the owners, before and after a step.
LEMMA Accounts ==
  RefsAccounted <=>
    \A s \in SurfaceIds :
      retains[s] = Cardinality(Dumbs(s)) + Cardinality(Objects(s))
                  + Cardinality(Fbs(s)) + Cardinality(Screens(s))
  BY DEF RefsAccounted, Dumbs, Objects, Fbs, Screens

LEMMA AccountsNext ==
  RefsAccounted' <=>
    \A s \in SurfaceIds :
      retains'[s] = Cardinality(Dumbs(s)') + Cardinality(Objects(s)')
                  + Cardinality(Fbs(s)') + Cardinality(Screens(s)')
  BY DEF RefsAccounted, Dumbs, Objects, Fbs, Screens

\* Initially nothing owns anything.
LEMMA InitIInv == Init => IInv
  <1> SUFFICES ASSUME Init PROVE IInv
    OBVIOUS
  <1>1. IsFiniteSet({}) /\ Cardinality({}) = 0
    BY FS_EmptySet
  <1>2. TypeOK
    BY <1>1, SizesAssumption DEF Init, TypeOK, NoSurface
  <1>3. FreshInv
    BY <1>1 DEF Init, FreshInv
  <1>4. TableInv
    BY DEF Init, TableInv, TableIsLive
  <1>5. RefsAccounted
    <2> SUFFICES ASSUME NEW s \in SurfaceIds
                 PROVE  retains[s] = Cardinality(Dumbs(s)) + Cardinality(Objects(s))
                                   + Cardinality(Fbs(s)) + Cardinality(Screens(s))
      BY Accounts
    <2>1. Dumbs(s) = {} /\ Objects(s) = {} /\ Fbs(s) = {}
      BY DEF Init, Dumbs, Objects, Fbs
    <2>2. Screens(s) = {}
      BY SurfacesAssumption DEF Init, Screens, NoSurface
    <2>3. retains[s] = 0
      BY DEF Init
    <2> QED
      BY <1>1, <2>1, <2>2, <2>3
  <1> QED
    BY <1>2, <1>3, <1>4, <1>5 DEF IInv

\* drmModeCreateDumbBuffer: the surface has a first owner.
LEMMA CreateDumbStep ==
  ASSUME IInv, NEW s0 \in SurfaceIds, CreateDumbBuffer(s0)
  PROVE  IInv'
  <1> DEFINE d0 == [handle |-> g_next_dumb_handle, surface |-> s0]
  <1> USE DEF IInv
  <1>1. d0 \notin g_dumb
    BY DEF FreshInv, TypeOK
  <1>2. IsFiniteSet(g_dumb \cup {d0})
        /\ Cardinality(g_dumb \cup {d0}) = Cardinality(g_dumb) + 1
    BY <1>1, FS_AddElement DEF FreshInv
  <1>3. FreshInv'
    BY <1>2 DEF FreshInv, TypeOK, CreateDumbBuffer
  <1>4. TableInv'
    BY DEF TableInv, TableIsLive, CreateDumbBuffer
  <1>5. TypeOK'
    <2>1. g_dumb' \subseteq [handle : 1 .. MaxDumbHandle, surface : SurfaceIds]
      BY DEF TypeOK, CreateDumbBuffer
    <2>2. Cardinality(g_dumb') <= MAX_DUMB_BUFS
      <3>1. Cardinality(g_dumb) \in Nat
        BY FS_CardinalityType DEF FreshInv
      <3> QED
        BY <1>2, <3>1, SizesAssumption DEF CreateDumbBuffer
    <2>3. retains' \in [SurfaceIds -> Nat]
      BY DEF TypeOK, CreateDumbBuffer
    <2>4. g_next_dumb_handle' \in 1 .. MaxDumbHandle + 1
      BY SizesAssumption DEF TypeOK, CreateDumbBuffer
    <2> QED
      BY <2>1, <2>2, <2>3, <2>4 DEF TypeOK, CreateDumbBuffer
  <1>6. RefsAccounted'
    <2> SUFFICES ASSUME NEW s \in SurfaceIds
                 PROVE  retains'[s] = Cardinality(Dumbs(s)') + Cardinality(Objects(s)')
                                   + Cardinality(Fbs(s)') + Cardinality(Screens(s)')
      BY AccountsNext
    <2>1. Objects(s)' = Objects(s) /\ Fbs(s)' = Fbs(s) /\ Screens(s)' = Screens(s)
      BY DEF CreateDumbBuffer, Objects, Fbs, Screens
    <2>2. /\ IsFiniteSet(Dumbs(s))   /\ Cardinality(Dumbs(s)) \in Nat
          /\ Cardinality(Objects(s)) \in Nat
          /\ Cardinality(Fbs(s)) \in Nat
          /\ Cardinality(Screens(s)) \in Nat
      BY OwnersFinite
    <2>3. retains[s] = Cardinality(Dumbs(s)) + Cardinality(Objects(s))
                     + Cardinality(Fbs(s)) + Cardinality(Screens(s))
      BY Accounts
    <2>4. CASE s = s0
      <3>1. Dumbs(s)' = Dumbs(s) \cup {d0} /\ d0 \notin Dumbs(s)
        BY <1>1, <2>4 DEF CreateDumbBuffer, Dumbs
      <3>2. Cardinality(Dumbs(s)') = Cardinality(Dumbs(s)) + 1
        BY <2>2, <3>1, FS_AddElement
      <3>3. retains[s] = 0 /\ retains'[s] = 1
        BY <2>4 DEF CreateDumbBuffer, TypeOK
      <3> QED
        BY <2>1, <2>2, <2>3, <3>2, <3>3
    <2>5. CASE s # s0
      <3>1. Dumbs(s)' = Dumbs(s)
        BY <2>5 DEF CreateDumbBuffer, Dumbs
      <3>2. retains'[s] = retains[s]
        BY <2>5 DEF CreateDumbBuffer, TypeOK
      <3> QED
        BY <2>1, <2>3, <3>1, <3>2
    <2> QED
      BY <2>4, <2>5
  <1> QED
    BY <1>3, <1>4, <1>5, <1>6

\* A surface that anything owns is retained.
LEMMA Owned ==
  ASSUME FreshInv, RefsAccounted, TypeOK, NEW s \in SurfaceIds,
         \/ Dumbs(s) # {}
         \/ s \in bos
         \/ Fbs(s) # {}
         \/ Screens(s) # {}
  PROVE  retains[s] \in Nat \ {0}
  <1>1. /\ IsFiniteSet(Dumbs(s))   /\ Cardinality(Dumbs(s)) \in Nat
        /\ Cardinality(Objects(s)) \in Nat
        /\ IsFiniteSet(Fbs(s))     /\ Cardinality(Fbs(s)) \in Nat
        /\ IsFiniteSet(Screens(s)) /\ Cardinality(Screens(s)) \in Nat
    BY OwnersFinite
  <1>2. retains[s] = Cardinality(Dumbs(s)) + Cardinality(Objects(s))
                   + Cardinality(Fbs(s)) + Cardinality(Screens(s))
    BY Accounts
  <1>3. \/ Cardinality(Dumbs(s)) # 0
        \/ Cardinality(Objects(s)) # 0
        \/ Cardinality(Fbs(s)) # 0
        \/ Cardinality(Screens(s)) # 0
    BY <1>1, FS_EmptySet, OneOrNone DEF Objects
  <1> QED
    BY <1>1, <1>2, <1>3

\* drmModeDestroyDumbBuffer: the surface loses the owner it had in d.
LEMMA DestroyDumbStep ==
  ASSUME IInv, NEW d0 \in g_dumb, DestroyDumbBuffer(d0)
  PROVE  IInv'
  <1> USE DEF IInv
  <1>1. d0.surface \in SurfaceIds
    BY DEF TypeOK
  <1>2. IsFiniteSet(g_dumb \ {d0})
        /\ Cardinality(g_dumb \ {d0}) = Cardinality(g_dumb) - 1
    BY FS_RemoveElement DEF FreshInv
  <1>3. FreshInv'
    BY <1>2 DEF FreshInv, DestroyDumbBuffer
  <1>4. TableInv'
    BY DEF TableInv, TableIsLive, DestroyDumbBuffer
  <1>5. retains[d0.surface] \in Nat \ {0}
    <2>1. Dumbs(d0.surface) # {}
      BY DEF Dumbs
    <2> QED
      BY <1>1, <2>1, Owned
  <1>6. TypeOK'
    <2>1. g_dumb' \subseteq [handle : 1 .. MaxDumbHandle, surface : SurfaceIds]
      BY DEF TypeOK, DestroyDumbBuffer
    <2>2. Cardinality(g_dumb') <= MAX_DUMB_BUFS
      <3>1. Cardinality(g_dumb) \in Nat
        BY FS_CardinalityType DEF FreshInv
      <3> QED
        BY <1>2, <3>1, SizesAssumption DEF DestroyDumbBuffer, TypeOK
    <2>3. retains' \in [SurfaceIds -> Nat]
      BY <1>1, <1>5 DEF TypeOK, DestroyDumbBuffer
    <2> QED
      BY <2>1, <2>2, <2>3 DEF TypeOK, DestroyDumbBuffer
  <1>7. RefsAccounted'
    <2> SUFFICES ASSUME NEW s \in SurfaceIds
                 PROVE  retains'[s] = Cardinality(Dumbs(s)') + Cardinality(Objects(s)')
                                   + Cardinality(Fbs(s)') + Cardinality(Screens(s)')
      BY AccountsNext
    <2>1. Objects(s)' = Objects(s) /\ Fbs(s)' = Fbs(s) /\ Screens(s)' = Screens(s)
      BY DEF DestroyDumbBuffer, Objects, Fbs, Screens
    <2>2. /\ IsFiniteSet(Dumbs(s))   /\ Cardinality(Dumbs(s)) \in Nat
          /\ Cardinality(Objects(s)) \in Nat
          /\ Cardinality(Fbs(s)) \in Nat
          /\ Cardinality(Screens(s)) \in Nat
      BY OwnersFinite
    <2>3. retains[s] = Cardinality(Dumbs(s)) + Cardinality(Objects(s))
                     + Cardinality(Fbs(s)) + Cardinality(Screens(s))
      BY Accounts
    <2>4. CASE s = d0.surface
      <3>1. Dumbs(s)' = Dumbs(s) \ {d0} /\ d0 \in Dumbs(s)
        BY <2>4 DEF DestroyDumbBuffer, Dumbs
      <3>2. Cardinality(Dumbs(s)') = Cardinality(Dumbs(s)) - 1
        BY <2>2, <3>1, FS_RemoveElement
      <3>3. retains'[s] = retains[s] - 1
        BY <2>4 DEF DestroyDumbBuffer, TypeOK
      <3> QED
        BY <2>1, <2>2, <2>3, <3>2, <3>3
    <2>5. CASE s # d0.surface
      <3>1. Dumbs(s)' = Dumbs(s)
        BY <2>5 DEF DestroyDumbBuffer, Dumbs
      <3>2. retains'[s] = retains[s]
        BY <2>5 DEF DestroyDumbBuffer, TypeOK
      <3> QED
        BY <2>1, <2>3, <3>1, <3>2
    <2> QED
      BY <2>4, <2>5
  <1> QED
    BY <1>3, <1>4, <1>6, <1>7

Table == Seq([handle : SurfaceIds, surface : SurfaceIds])

\* drm_register_gbm_buffer keeps the table sound when the object is live.
LEMMA RegisteredFacts ==
  ASSUME TypeOK, TableInv, NEW s0 \in SurfaceIds, s0 \notin bos
  PROVE  /\ Registered(s0, s0) \in Table
         /\ Len(Registered(s0, s0)) <= MAX_GBM_BUFS
         /\ \/ Registered(s0, s0) = g_gbm_bufs
            \/ Registered(s0, s0) =
                 Append(g_gbm_bufs, [handle |-> s0, surface |-> s0])
  <1>1. ~ \E i \in DOMAIN g_gbm_bufs : g_gbm_bufs[i].handle = s0
    BY DEF TableInv, TableIsLive
  <1>2. \/ Registered(s0, s0) = g_gbm_bufs
        \/ /\ Registered(s0, s0) =
                Append(g_gbm_bufs, [handle |-> s0, surface |-> s0])
           /\ ~ (Len(g_gbm_bufs) >= MAX_GBM_BUFS)
    BY <1>1 DEF Registered
  <1>3. g_gbm_bufs \in Table /\ Len(g_gbm_bufs) <= MAX_GBM_BUFS
    BY DEF TypeOK, Table
  <1>4. CASE Registered(s0, s0) = g_gbm_bufs
    BY <1>3, <1>4
  <1>5. CASE /\ Registered(s0, s0) =
                  Append(g_gbm_bufs, [handle |-> s0, surface |-> s0])
             /\ ~ (Len(g_gbm_bufs) >= MAX_GBM_BUFS)
    <2>1. [handle |-> s0, surface |-> s0]
            \in [handle : SurfaceIds, surface : SurfaceIds]
      OBVIOUS
    <2>2. /\ Append(g_gbm_bufs, [handle |-> s0, surface |-> s0]) \in Table
          /\ Len(Append(g_gbm_bufs, [handle |-> s0, surface |-> s0]))
               = Len(g_gbm_bufs) + 1
      BY <1>3, <2>1, AppendProperties DEF Table
    <2>3. Len(g_gbm_bufs) \in Nat /\ MAX_GBM_BUFS \in Nat
      BY <1>3, SizesAssumption, LenProperties DEF Table
    <2> QED
      BY <1>5, <2>2, <2>3
  <1> QED
    BY <1>2, <1>4, <1>5

\* drm_unregister_gbm_buffer: what is left are the entries of the table that are
\* not for the handle, each once.
LEMMA UnregisteredFacts ==
  ASSUME TypeOK, TableInv, NEW s0 \in SurfaceIds
  PROVE  /\ Unregistered(s0) \in Table
         /\ Len(Unregistered(s0)) <= MAX_GBM_BUFS
         /\ \A i \in DOMAIN Unregistered(s0) :
              \E k \in DOMAIN g_gbm_bufs :
                /\ Unregistered(s0)[i] = g_gbm_bufs[k]
                /\ g_gbm_bufs[k].handle # s0
         /\ \A i, j \in DOMAIN Unregistered(s0) :
              Unregistered(s0)[i].handle = Unregistered(s0)[j].handle => i = j
         /\ \A k \in DOMAIN g_gbm_bufs :
              g_gbm_bufs[k].handle # s0 =>
                \E i \in DOMAIN Unregistered(s0) : Unregistered(s0)[i] = g_gbm_bufs[k]
  <1> DEFINE At == {i \in DOMAIN g_gbm_bufs : g_gbm_bufs[i].handle = s0}
             last == Len(g_gbm_bufs)
             R == Unregistered(s0)
  <1>0. /\ g_gbm_bufs \in Table
        /\ last \in Nat
        /\ DOMAIN g_gbm_bufs = 1 .. last
        /\ last <= MAX_GBM_BUFS
        /\ MAX_GBM_BUFS \in Nat
    BY LenProperties, SizesAssumption DEF TypeOK, Table
  <1>1. CASE At = {}
    <2>1. R = g_gbm_bufs
      BY <1>1 DEF Unregistered
    <2> QED
      BY <1>0, <1>1, <2>1 DEF TableInv
  <1>2. CASE At # {}
    <2>1. PICK gap \in At : At = {gap}
      BY <1>2 DEF TableInv
    <2> DEFINE moved == [g_gbm_bufs EXCEPT ![gap] = g_gbm_bufs[last]]
    <2>2. (CHOOSE i \in At : \A j \in At : i <= j) = gap
      BY <1>0, <2>1
    <2>3. R = SubSeq(moved, 1, last - 1)
      BY <1>2, <2>2 DEF Unregistered
    <2>4. gap \in 1 .. last /\ last \in 1 .. last
      BY <1>0, <2>1
    <2>5. /\ moved \in Table
          /\ Len(moved) = last
          /\ \A i \in 1 .. last :
               moved[i] = IF i = gap THEN g_gbm_bufs[last] ELSE g_gbm_bufs[i]
      <3> DEFINE E == [handle : SurfaceIds, surface : SurfaceIds]
      <3>1. g_gbm_bufs \in Seq(E) /\ gap \in 1 .. Len(g_gbm_bufs)
        BY <1>0, <2>4 DEF Table
      <3>2. g_gbm_bufs[last] \in E
        BY <2>4, <3>1, ElementOfSeq
      <3>3. /\ moved \in Seq(E)
            /\ Len(moved) = Len(g_gbm_bufs)
            /\ \A i \in 1 .. Len(g_gbm_bufs) :
                 moved[i] = IF i = gap THEN g_gbm_bufs[last] ELSE g_gbm_bufs[i]
        <4> HIDE DEF E
        <4> QED
          BY <3>1, <3>2, ExceptSeq
      <3> QED
        BY <3>3 DEF Table
    <2>6. /\ R \in Table
          /\ Len(R) = last - 1
          /\ DOMAIN R = 1 .. last - 1
          /\ \A i \in 1 .. last - 1 : R[i] = moved[i]
      <3> DEFINE E == [handle : SurfaceIds, surface : SurfaceIds]
                 low == SubSeq(moved, 1, last - 1)
      <3>1. 1 \in Int /\ last - 1 \in Int /\ last - 1 \in Nat
        BY <1>0, <2>4
      <3>2. \A i \in 1 .. last - 1 : i \in 1 .. last
        <4> HIDE DEF last
        <4> QED
          BY <1>0
      <3>3. \A i \in 1 .. last - 1 : moved[i] \in E
        <4>1. moved \in Seq(E) /\ Len(moved) = last
          BY <2>5 DEF Table
        <4> HIDE DEF moved, E, last
        <4> QED
          BY <3>2, <4>1, ElementOfSeq
      <3>4. /\ low \in Seq(E)
            /\ Len(low) = IF 1 <= last - 1 THEN last - 1 - 1 + 1 ELSE 0
            /\ \A i \in 1 .. last - 1 - 1 + 1 : low[i] = moved[1 + i - 1]
        <4> HIDE DEF moved, E, last
        <4> QED
          BY <3>1, <3>3, SubSeqProperties
      <3>5. /\ Len(low) = last - 1
            /\ \A i \in 1 .. last - 1 : low[i] = moved[i]
        <4> HIDE DEF moved, low, last
        <4> QED
          BY <3>1, <3>4
      <3>6. low \in Table /\ DOMAIN low = 1 .. last - 1
        <4>1. DOMAIN low = 1 .. Len(low)
          BY <3>4, LenProperties
        <4> QED
          BY <3>4, <3>5, <4>1 DEF Table
      <3> QED
        BY <2>3, <3>5, <3>6
    <2>7. \A i \in DOMAIN R :
            \E k \in DOMAIN g_gbm_bufs :
              R[i] = g_gbm_bufs[k] /\ g_gbm_bufs[k].handle # s0
      <3> SUFFICES ASSUME NEW i \in 1 .. last - 1
                   PROVE  \E k \in DOMAIN g_gbm_bufs :
                            R[i] = g_gbm_bufs[k] /\ g_gbm_bufs[k].handle # s0
        BY <2>6
      <3>1. i \in 1 .. last /\ i # last
        <4> HIDE DEF last
        <4> QED
          BY <1>0
      <3>2. \A k \in DOMAIN g_gbm_bufs : k # gap => g_gbm_bufs[k].handle # s0
        BY <2>1
      <3>3. CASE i = gap
        BY <1>0, <2>4, <2>5, <2>6, <3>1, <3>2, <3>3
      <3>4. CASE i # gap
        BY <1>0, <2>4, <2>5, <2>6, <3>1, <3>2, <3>4
      <3> QED
        BY <3>3, <3>4
    <2>8. \A i, j \in DOMAIN R : R[i].handle = R[j].handle => i = j
      <3> SUFFICES ASSUME NEW i \in 1 .. last - 1, NEW j \in 1 .. last - 1,
                          R[i].handle = R[j].handle
                   PROVE  i = j
        BY <2>6
      <3> DEFINE ki == IF i = gap THEN last ELSE i
                 kj == IF j = gap THEN last ELSE j
      <3>1. /\ i \in 1 .. last /\ i # last
            /\ j \in 1 .. last /\ j # last
        <4> HIDE DEF last
        <4> QED
          BY <1>0
      <3>2. R[i] = g_gbm_bufs[ki] /\ R[j] = g_gbm_bufs[kj]
        BY <2>5, <2>6, <3>1
      <3>3. ki \in DOMAIN g_gbm_bufs /\ kj \in DOMAIN g_gbm_bufs
        BY <1>0, <2>4, <3>1
      <3>4. ki = kj
        BY <3>2, <3>3 DEF TableInv
      <3> QED
        BY <3>1, <3>4
    <2>9. ASSUME NEW k \in DOMAIN g_gbm_bufs, g_gbm_bufs[k].handle # s0
          PROVE  \E i \in DOMAIN R : R[i] = g_gbm_bufs[k]
      <3>1. k # gap /\ k \in 1 .. last
        BY <1>0, <2>1, <2>9
      <3>2. CASE k = last
        <4>1. gap \in 1 .. last - 1
          <5> HIDE DEF last
          <5> QED
            BY <1>0, <2>4, <3>1, <3>2
        <4>2. gap \in 1 .. last /\ R[gap] = g_gbm_bufs[last]
          BY <2>4, <2>5, <2>6, <4>1
        <4> QED
          BY <2>6, <3>2, <4>1, <4>2
      <3>3. CASE k # last
        <4>1. k \in 1 .. last - 1
          <5> HIDE DEF last
          <5> QED
            BY <1>0, <3>1, <3>3
        <4>2. R[k] = g_gbm_bufs[k]
          BY <2>5, <2>6, <3>1, <4>1
        <4> QED
          BY <2>6, <4>1, <4>2
      <3> QED
        BY <3>2, <3>3
    <2>10. Len(R) <= MAX_GBM_BUFS
      <3>1. Len(R) = last - 1 /\ last \in Nat /\ last <= MAX_GBM_BUFS
        BY <1>0, <2>6
      <3> HIDE DEF R, last
      <3> QED
        BY <1>0, <3>1
    <2> QED
      BY <2>6, <2>7, <2>8, <2>9, <2>10
  <1> QED
    BY <1>1, <1>2

\* gbm_bo_create: the object owns the surface and is entered in the table.
LEMMA BoCreateStep ==
  ASSUME IInv, NEW s0 \in SurfaceIds, BoCreate(s0)
  PROVE  IInv'
  <1> USE DEF IInv
  <1>1. s0 \notin bos
    <2>1. retains[s0] = 0
      BY DEF BoCreate
    <2> QED
      BY <2>1, Owned
  <1>2. /\ g_gbm_bufs' \in Table
        /\ Len(g_gbm_bufs') <= MAX_GBM_BUFS
        /\ \/ g_gbm_bufs' = g_gbm_bufs
           \/ g_gbm_bufs' =
                Append(g_gbm_bufs, [handle |-> s0, surface |-> s0])
    BY <1>1, RegisteredFacts DEF BoCreate
  <1>3. FreshInv'
    BY DEF FreshInv, BoCreate
  <1>4. TableInv'
    <2>1. CASE g_gbm_bufs' = g_gbm_bufs
      BY <2>1 DEF TableInv, TableIsLive, BoCreate
    <2>2. CASE g_gbm_bufs' =
                 Append(g_gbm_bufs, [handle |-> s0, surface |-> s0])
      <3> DEFINE e0 == [handle |-> s0, surface |-> s0]
                 n == Len(g_gbm_bufs)
      <3>1. g_gbm_bufs \in Table /\ e0 \in [handle : SurfaceIds, surface : SurfaceIds]
        BY DEF TypeOK, Table
      <3>2. /\ n \in Nat
            /\ DOMAIN g_gbm_bufs = 1 .. n
        BY <3>1, LenProperties DEF Table
      <3>3. /\ DOMAIN g_gbm_bufs' = 1 .. n + 1
            /\ \A i \in 1 .. n : g_gbm_bufs'[i] = g_gbm_bufs[i]
            /\ g_gbm_bufs'[n + 1] = e0
        BY <2>2, <3>1, <3>2, AppendProperties, LenProperties DEF Table
      <3>4. \A i \in DOMAIN g_gbm_bufs' : i \in DOMAIN g_gbm_bufs \/ i = n + 1
        <4> HIDE DEF n
        <4> QED
          BY <3>2, <3>3
      <3>5. \A i \in DOMAIN g_gbm_bufs :
              /\ g_gbm_bufs'[i] = g_gbm_bufs[i]
              /\ g_gbm_bufs[i].handle # s0
        BY <1>1, <3>2, <3>3 DEF TableInv, TableIsLive
      <3>6. g_gbm_bufs'[n + 1].handle = s0 /\ g_gbm_bufs'[n + 1].surface = s0
        BY <3>3
      <3>7. bos' = bos \cup {s0}
        BY DEF BoCreate
      <3> HIDE DEF n
      <3> QED
        BY <3>4, <3>5, <3>6, <3>7 DEF TableInv, TableIsLive
    <2> QED
      BY <1>2, <2>1, <2>2
  <1>5. TypeOK'
    <2>1. retains' \in [SurfaceIds -> Nat] /\ bos' \subseteq SurfaceIds
      BY DEF TypeOK, BoCreate
    <2> QED
      BY <1>2, <2>1 DEF TypeOK, BoCreate, Table
  <1>6. RefsAccounted'
    <2> SUFFICES ASSUME NEW s \in SurfaceIds
                 PROVE  retains'[s] = Cardinality(Dumbs(s)') + Cardinality(Objects(s)')
                                   + Cardinality(Fbs(s)') + Cardinality(Screens(s)')
      BY AccountsNext
    <2>1. Dumbs(s)' = Dumbs(s) /\ Fbs(s)' = Fbs(s) /\ Screens(s)' = Screens(s)
      BY DEF BoCreate, Dumbs, Fbs, Screens
    <2>2. /\ Cardinality(Dumbs(s)) \in Nat
          /\ Cardinality(Objects(s)) \in Nat
          /\ IsFiniteSet(Fbs(s))     /\ Cardinality(Fbs(s)) \in Nat
          /\ IsFiniteSet(Screens(s)) /\ Cardinality(Screens(s)) \in Nat
      BY OwnersFinite
    <2>3. retains[s] = Cardinality(Dumbs(s)) + Cardinality(Objects(s))
                     + Cardinality(Fbs(s)) + Cardinality(Screens(s))
      BY Accounts
    <2>4. /\ Cardinality(Objects(s)) = IF s \in bos THEN 1 ELSE 0
          /\ Cardinality(Objects(s)') = IF s \in bos' THEN 1 ELSE 0
      BY OneOrNone DEF Objects
    <2>5. CASE s = s0
      <3>1. retains[s] = 0 /\ retains'[s] = 1 /\ s \in bos' /\ s \notin bos
        BY <1>1, <2>5 DEF BoCreate, TypeOK
      <3> QED
        BY <2>1, <2>2, <2>3, <2>4, <3>1
    <2>6. CASE s # s0
      <3>1. retains'[s] = retains[s] /\ (s \in bos' <=> s \in bos)
        BY <2>6 DEF BoCreate, TypeOK
      <3> QED
        BY <2>1, <2>3, <2>4, <3>1
    <2> QED
      BY <2>5, <2>6
  <1> QED
    BY <1>3, <1>4, <1>5, <1>6

\* gbm_bo_destroy: the entry goes before the object does.
LEMMA BoDestroyStep ==
  ASSUME IInv, NEW s0 \in bos, BoDestroy(s0)
  PROVE  IInv'
  <1> USE DEF IInv
  <1>1. s0 \in SurfaceIds
    BY DEF TypeOK
  <1>2. /\ g_gbm_bufs' \in Table
        /\ Len(g_gbm_bufs') <= MAX_GBM_BUFS
        /\ \A i \in DOMAIN g_gbm_bufs' :
             \E k \in DOMAIN g_gbm_bufs :
               /\ g_gbm_bufs'[i] = g_gbm_bufs[k]
               /\ g_gbm_bufs[k].handle # s0
        /\ \A i, j \in DOMAIN g_gbm_bufs' :
             g_gbm_bufs'[i].handle = g_gbm_bufs'[j].handle => i = j
    <2>1. g_gbm_bufs' = Unregistered(s0)
      BY DEF BoDestroy
    <2> QED
      BY <1>1, <2>1, UnregisteredFacts
  <1>3. FreshInv'
    BY DEF FreshInv, BoDestroy
  <1>4. TableInv'
    <2>1. \A i \in DOMAIN g_gbm_bufs' :
            /\ g_gbm_bufs'[i].handle = g_gbm_bufs'[i].surface
            /\ g_gbm_bufs'[i].surface \in bos
            /\ g_gbm_bufs'[i].surface # s0
      BY <1>2 DEF TableInv, TableIsLive
    <2>2. bos' = bos \ {s0}
      BY DEF BoDestroy
    <2> QED
      BY <1>2, <2>1, <2>2 DEF TableInv, TableIsLive
  <1>5. TypeOK'
    <2>1. retains[s0] \in Nat \ {0}
      BY <1>1, Owned
    <2>2. retains' \in [SurfaceIds -> Nat] /\ bos' \subseteq SurfaceIds
      BY <1>1, <2>1 DEF TypeOK, BoDestroy
    <2> QED
      BY <1>2, <2>2 DEF TypeOK, BoDestroy, Table
  <1>6. RefsAccounted'
    <2> SUFFICES ASSUME NEW s \in SurfaceIds
                 PROVE  retains'[s] = Cardinality(Dumbs(s)') + Cardinality(Objects(s)')
                                   + Cardinality(Fbs(s)') + Cardinality(Screens(s)')
      BY AccountsNext
    <2>1. Dumbs(s)' = Dumbs(s) /\ Fbs(s)' = Fbs(s) /\ Screens(s)' = Screens(s)
      BY DEF BoDestroy, Dumbs, Fbs, Screens
    <2>2. /\ Cardinality(Dumbs(s)) \in Nat
          /\ Cardinality(Objects(s)) \in Nat
          /\ IsFiniteSet(Fbs(s))     /\ Cardinality(Fbs(s)) \in Nat
          /\ IsFiniteSet(Screens(s)) /\ Cardinality(Screens(s)) \in Nat
      BY OwnersFinite
    <2>3. retains[s] = Cardinality(Dumbs(s)) + Cardinality(Objects(s))
                     + Cardinality(Fbs(s)) + Cardinality(Screens(s))
      BY Accounts
    <2>4. /\ Cardinality(Objects(s)) = IF s \in bos THEN 1 ELSE 0
          /\ Cardinality(Objects(s)') = IF s \in bos' THEN 1 ELSE 0
      BY OneOrNone DEF Objects
    <2>5. CASE s = s0
      <3>1. retains'[s] = retains[s] - 1 /\ s \notin bos' /\ s \in bos
        BY <1>1, <2>5 DEF BoDestroy, TypeOK
      <3> QED
        BY <2>1, <2>2, <2>3, <2>4, <3>1
    <2>6. CASE s # s0
      <3>1. retains'[s] = retains[s] /\ (s \in bos' <=> s \in bos)
        BY <2>6 DEF BoDestroy, TypeOK
      <3> QED
        BY <2>1, <2>3, <2>4, <3>1
    <2> QED
      BY <2>5, <2>6
  <1> QED
    BY <1>3, <1>4, <1>5, <1>6

\* What drmModeAddFB finds is a surface, whatever the handle.
LEMMA FoundIsSurface ==
  ASSUME TypeOK, NEW h, SurfaceOf(h) # NoSurface
  PROVE  SurfaceOf(h) \in SurfaceIds
  <1> DEFINE dumb == {d.surface : d \in {e \in g_dumb : e.handle = h}}
             gbm == {g_gbm_bufs[i].surface :
                       i \in {j \in DOMAIN g_gbm_bufs :
                                g_gbm_bufs[j].handle = h}}
  <1>1. dumb \subseteq SurfaceIds
    BY DEF TypeOK
  <1>2. gbm \subseteq SurfaceIds
    <2>1. g_gbm_bufs \in Table
      BY DEF TypeOK, Table
    <2>2. \A i \in DOMAIN g_gbm_bufs :
            g_gbm_bufs[i] \in [handle : SurfaceIds, surface : SurfaceIds]
      BY <2>1, LenProperties, ElementOfSeq DEF Table
    <2> QED
      BY <2>2
  <1>3. SurfaceOf(h) = CASE dumb # {} -> CHOOSE s \in dumb : TRUE
                         [] dumb = {} /\ gbm # {} -> CHOOSE s \in gbm : TRUE
                         [] OTHER -> NoSurface
    BY DEF SurfaceOf
  <1>4. CASE dumb # {}
    <2>1. SurfaceOf(h) = CHOOSE s \in dumb : TRUE
      BY <1>3, <1>4
    <2> QED
      BY <1>1, <1>4, <2>1
  <1>5. CASE dumb = {} /\ gbm # {}
    <2>1. SurfaceOf(h) = CHOOSE s \in gbm : TRUE
      BY <1>3, <1>5
    <2> QED
      BY <1>2, <1>5, <2>1
  <1>6. CASE dumb = {} /\ gbm = {}
    BY <1>3, <1>6
  <1> QED
    BY <1>4, <1>5, <1>6

\* drmModeAddFB: the framebuffer retains the surface it found.
LEMMA AddFBStep ==
  ASSUME IInv, NEW h \in Handles, AddFB(h)
  PROVE  IInv'
  <1> USE DEF IInv
  <1> DEFINE s0 == SurfaceOf(h)
             fb0 == [fb_id |-> g_next_fb_id, handle |-> h, surface |-> s0]
  <1>1. s0 \in SurfaceIds
    BY FoundIsSurface DEF AddFB
  <1>2. /\ g_fbs' = g_fbs \cup {fb0}
        /\ g_next_fb_id' = g_next_fb_id + 1
        /\ retains' = [retains EXCEPT ![s0] = @ + 1]
        /\ Cardinality(g_fbs) < MAX_FBS
        /\ g_next_fb_id <= MaxFbId
        /\ UNCHANGED <<g_dumb, g_next_dumb_handle, bos, g_gbm_bufs, displays>>
    BY DEF AddFB
  <1> HIDE DEF s0
  <1>3. fb0 \notin g_fbs
    BY DEF FreshInv, TypeOK
  <1>4. /\ IsFiniteSet(g_fbs')
        /\ Cardinality(g_fbs') = Cardinality(g_fbs) + 1
    <2> HIDE DEF fb0
    <2> QED
      BY <1>2, <1>3, FS_AddElement DEF FreshInv
  <1>5. FreshInv'
    BY <1>2, <1>4 DEF FreshInv, TypeOK
  <1>6. TableInv'
    BY <1>2 DEF TableInv, TableIsLive
  <1>7. TypeOK'
    <2>1. h \in SurfaceIds \cup 1 .. MaxDumbHandle
      BY DEF Handles, TypeOK
    <2>2. g_next_fb_id \in 1 .. MaxFbId /\ g_next_fb_id' \in 1 .. MaxFbId + 1
      BY <1>2, SizesAssumption DEF TypeOK
    <2>3. g_fbs' \subseteq [fb_id : 1 .. MaxFbId, surface : SurfaceIds,
                            handle : SurfaceIds \cup 1 .. MaxDumbHandle]
      BY <1>1, <1>2, <2>1, <2>2 DEF TypeOK
    <2>4. Cardinality(g_fbs') <= MAX_FBS
      <3>1. Cardinality(g_fbs) \in Nat
        BY FS_CardinalityType DEF FreshInv
      <3> QED
        BY <1>2, <1>4, <3>1, SizesAssumption
    <2>5. retains' \in [SurfaceIds -> Nat]
      BY <1>1, <1>2 DEF TypeOK
    <2> QED
      BY <1>2, <2>2, <2>3, <2>4, <2>5 DEF TypeOK
  <1>8. RefsAccounted'
    <2> SUFFICES ASSUME NEW s \in SurfaceIds
                 PROVE  retains'[s] = Cardinality(Dumbs(s)') + Cardinality(Objects(s)')
                                   + Cardinality(Fbs(s)') + Cardinality(Screens(s)')
      BY AccountsNext
    <2>1. Objects(s)' = Objects(s) /\ Dumbs(s)' = Dumbs(s) /\ Screens(s)' = Screens(s)
      BY <1>2 DEF Objects, Dumbs, Screens
    <2>2. /\ Cardinality(Dumbs(s)) \in Nat
          /\ Cardinality(Objects(s)) \in Nat
          /\ IsFiniteSet(Fbs(s))     /\ Cardinality(Fbs(s)) \in Nat
          /\ IsFiniteSet(Screens(s)) /\ Cardinality(Screens(s)) \in Nat
      BY OwnersFinite
    <2>3. retains[s] = Cardinality(Dumbs(s)) + Cardinality(Objects(s))
                     + Cardinality(Fbs(s)) + Cardinality(Screens(s))
      BY Accounts
    <2>4. CASE s = s0
      <3>1. Fbs(s)' = Fbs(s) \cup {fb0} /\ fb0 \notin Fbs(s)
        BY <1>2, <1>3, <2>4 DEF Fbs
      <3>2. Cardinality(Fbs(s)') = Cardinality(Fbs(s)) + 1
        <4> HIDE DEF fb0
        <4> QED
          BY <2>2, <3>1, FS_AddElement
      <3>3. retains'[s] = retains[s] + 1
        BY <1>2, <2>4 DEF TypeOK
      <3> QED
        BY <2>1, <2>2, <2>3, <3>2, <3>3
    <2>5. CASE s # s0
      <3>1. Fbs(s)' = Fbs(s)
        BY <1>2, <2>5 DEF Fbs
      <3>2. retains'[s] = retains[s]
        BY <1>2, <2>5 DEF TypeOK
      <3> QED
        BY <2>1, <2>3, <3>1, <3>2
    <2> QED
      BY <2>4, <2>5
  <1> QED
    BY <1>5, <1>6, <1>7, <1>8

\* drmModeRmFB: the framebuffer releases its surface.
LEMMA RmFBStep ==
  ASSUME IInv, NEW fb0 \in g_fbs, RmFB(fb0)
  PROVE  IInv'
  <1> USE DEF IInv
  <1>1. fb0.surface \in SurfaceIds
    BY DEF TypeOK
  <1>2. IsFiniteSet(g_fbs \ {fb0})
        /\ Cardinality(g_fbs \ {fb0}) = Cardinality(g_fbs) - 1
    BY FS_RemoveElement DEF FreshInv
  <1>3. FreshInv'
    BY <1>2 DEF FreshInv, RmFB
  <1>4. TableInv'
    BY DEF TableInv, TableIsLive, RmFB
  <1>5. TypeOK'
    <2>1. retains[fb0.surface] \in Nat \ {0}
      <3>1. Fbs(fb0.surface) # {}
        BY DEF Fbs
      <3> QED
        BY <1>1, <3>1, Owned
    <2>2. Cardinality(g_fbs') <= MAX_FBS
      <3>1. Cardinality(g_fbs) \in Nat
        BY FS_CardinalityType DEF FreshInv
      <3> QED
        BY <1>2, <3>1, SizesAssumption DEF RmFB, TypeOK
    <2>3. retains' \in [SurfaceIds -> Nat]
      BY <1>1, <2>1 DEF TypeOK, RmFB
    <2> QED
      BY <2>2, <2>3 DEF TypeOK, RmFB
  <1>6. RefsAccounted'
    <2> SUFFICES ASSUME NEW s \in SurfaceIds
                 PROVE  retains'[s] = Cardinality(Dumbs(s)') + Cardinality(Objects(s)')
                                   + Cardinality(Fbs(s)') + Cardinality(Screens(s)')
      BY AccountsNext
    <2>1. Objects(s)' = Objects(s) /\ Dumbs(s)' = Dumbs(s) /\ Screens(s)' = Screens(s)
      BY DEF RmFB, Objects, Dumbs, Screens
    <2>2. /\ Cardinality(Dumbs(s)) \in Nat
          /\ Cardinality(Objects(s)) \in Nat
          /\ IsFiniteSet(Fbs(s))     /\ Cardinality(Fbs(s)) \in Nat
          /\ IsFiniteSet(Screens(s)) /\ Cardinality(Screens(s)) \in Nat
      BY OwnersFinite
    <2>3. retains[s] = Cardinality(Dumbs(s)) + Cardinality(Objects(s))
                     + Cardinality(Fbs(s)) + Cardinality(Screens(s))
      BY Accounts
    <2>4. CASE s = fb0.surface
      <3>1. Fbs(s)' = Fbs(s) \ {fb0} /\ fb0 \in Fbs(s)
        BY <2>4 DEF RmFB, Fbs
      <3>2. Cardinality(Fbs(s)') = Cardinality(Fbs(s)) - 1
        BY <2>2, <3>1, FS_RemoveElement
      <3>3. retains'[s] = retains[s] - 1
        BY <2>4 DEF RmFB, TypeOK
      <3> QED
        BY <2>1, <2>2, <2>3, <3>2, <3>3
    <2>5. CASE s # fb0.surface
      <3>1. Fbs(s)' = Fbs(s)
        BY <2>5 DEF RmFB, Fbs
      <3>2. retains'[s] = retains[s]
        BY <2>5 DEF RmFB, TypeOK
      <3> QED
        BY <2>1, <2>3, <3>1, <3>2
    <2> QED
      BY <2>4, <2>5
  <1> QED
    BY <1>3, <1>4, <1>5, <1>6

\* sdl_present_iosurface_for_crtc: one surface loses a screen, one gains it;
\* they may be the same.
LEMMA PresentStep ==
  ASSUME IInv, NEW c0 \in Crtcs, NEW fb0 \in g_fbs, PresentOn(c0, fb0)
  PROVE  IInv'
  <1> USE DEF IInv
  <1> DEFINE old == displays[c0]
             new == fb0.surface
             released == IF old = NoSurface THEN retains
                         ELSE [retains EXCEPT ![old] = @ - 1]
  <1>1. /\ new \in SurfaceIds
        /\ old \in SurfaceIds \cup {NoSurface}
        /\ NoSurface \notin SurfaceIds
    BY SurfacesAssumption DEF TypeOK, NoSurface
  <1>2. /\ retains' = [released EXCEPT ![new] = @ + 1]
        /\ displays' = [displays EXCEPT ![c0] = new]
        /\ UNCHANGED <<g_dumb, g_next_dumb_handle, bos, g_gbm_bufs, g_fbs,
                       g_next_fb_id>>
    BY DEF PresentOn
  <1>3. old # NoSurface => retains[old] \in Nat \ {0}
    <2> SUFFICES ASSUME old # NoSurface PROVE retains[old] \in Nat \ {0}
      OBVIOUS
    <2>1. old \in SurfaceIds /\ Screens(old) # {}
      BY <1>1 DEF Screens
    <2> QED
      BY <2>1, Owned
  <1>4. /\ released \in [SurfaceIds -> Nat]
        /\ \A s \in SurfaceIds :
             released[s] = IF s = old THEN retains[s] - 1 ELSE retains[s]
    BY <1>1, <1>3 DEF TypeOK
  <1> HIDE DEF released
  <1>5. /\ retains' \in [SurfaceIds -> Nat]
        /\ \A s \in SurfaceIds :
             retains'[s] = IF s = new THEN released[s] + 1 ELSE released[s]
    BY <1>1, <1>2, <1>4
  <1>6. FreshInv' /\ TableInv'
    BY <1>2 DEF FreshInv, TableInv, TableIsLive
  <1>7. TypeOK'
    BY <1>1, <1>2, <1>5 DEF TypeOK
  <1>8. RefsAccounted'
    <2> SUFFICES ASSUME NEW s \in SurfaceIds
                 PROVE  retains'[s] = Cardinality(Dumbs(s)') + Cardinality(Objects(s)')
                                   + Cardinality(Fbs(s)') + Cardinality(Screens(s)')
      BY AccountsNext
    <2>1. Objects(s)' = Objects(s) /\ Dumbs(s)' = Dumbs(s) /\ Fbs(s)' = Fbs(s)
      BY <1>2 DEF Objects, Dumbs, Fbs
    <2>2. /\ Cardinality(Dumbs(s)) \in Nat
          /\ Cardinality(Objects(s)) \in Nat
          /\ IsFiniteSet(Fbs(s))     /\ Cardinality(Fbs(s)) \in Nat
          /\ IsFiniteSet(Screens(s)) /\ Cardinality(Screens(s)) \in Nat
      BY OwnersFinite
    <2>3. retains[s] = Cardinality(Dumbs(s)) + Cardinality(Objects(s))
                     + Cardinality(Fbs(s)) + Cardinality(Screens(s))
      BY Accounts
    <2>4. \A c \in Crtcs : displays'[c] = IF c = c0 THEN new ELSE displays[c]
      BY <1>2 DEF TypeOK
    <2>5. c0 \in Screens(s) <=> s = old
      BY DEF Screens
    <2>6. CASE s = new
      <3>1. Screens(s)' = Screens(s) \cup {c0}
        BY <2>4, <2>6 DEF Screens
      <3>2. Cardinality(Screens(s)') = IF s = old THEN Cardinality(Screens(s))
                                       ELSE Cardinality(Screens(s)) + 1
        BY <2>2, <2>5, <3>1, FS_AddElement
      <3>3. retains'[s] = IF s = old THEN retains[s] - 1 + 1 ELSE retains[s] + 1
        BY <1>4, <1>5, <2>6
      <3>4. retains[s] \in Nat
        BY DEF TypeOK
      <3> QED
        BY <2>1, <2>2, <2>3, <3>2, <3>3, <3>4
    <2>7. CASE s # new
      <3>1. Screens(s)' = Screens(s) \ {c0}
        BY <2>4, <2>7 DEF Screens
      <3>2. Cardinality(Screens(s)') = IF s = old THEN Cardinality(Screens(s)) - 1
                                       ELSE Cardinality(Screens(s))
        BY <2>2, <2>5, <3>1, FS_RemoveElement
      <3>3. retains'[s] = IF s = old THEN retains[s] - 1 ELSE retains[s]
        BY <1>4, <1>5, <2>7
      <3>4. retains[s] \in Nat
        BY DEF TypeOK
      <3> QED
        BY <2>1, <2>2, <2>3, <3>2, <3>3, <3>4
    <2> QED
      BY <2>6, <2>7
  <1> QED
    BY <1>6, <1>7, <1>8

-----------------------------------------------------------------------------
\* The inductive invariant of the buffer tables of drm_linux.c and gbm.m.
THEOREM Invariance == Spec => []IInv
  <1>1. IInv /\ [Next]_vars => IInv'
    <2> SUFFICES ASSUME IInv, [Next]_vars PROVE IInv'
      OBVIOUS
    <2>1. CASE \E s \in SurfaceIds : CreateDumbBuffer(s)
      BY <2>1, CreateDumbStep
    <2>2. CASE \E s \in SurfaceIds : BoCreate(s)
      BY <2>2, BoCreateStep
    <2>3. CASE \E d \in g_dumb : DestroyDumbBuffer(d)
      BY <2>3, DestroyDumbStep
    <2>4. CASE \E s \in bos : BoDestroy(s)
      BY <2>4, BoDestroyStep
    <2>5. CASE \E h \in Handles : AddFB(h)
      BY <2>5, AddFBStep
    <2>6. CASE \E fb \in g_fbs : RmFB(fb)
      BY <2>6, RmFBStep
    <2>7. CASE \E c \in Crtcs, fb \in g_fbs : PresentOn(c, fb)
      BY <2>7, PresentStep
    <2>8. CASE UNCHANGED vars
      BY <2>8 DEF vars, IInv, TypeOK, FreshInv, TableInv, TableIsLive,
                  RefsAccounted
    <2> QED
      BY <2>1, <2>2, <2>3, <2>4, <2>5, <2>6, <2>7, <2>8 DEF Next
  <1> QED
    BY <1>1, InitIInv, PTL DEF Spec

\* The tables keep their types and sizes.
THEOREM TypeCorrect == Spec => []TypeOK
  <1>1. IInv => TypeOK
    BY DEF IInv
  <1> QED
    BY <1>1, Invariance, PTL

\* A surface is retained once by each of its owners and by nothing else, so
\* that none is freed under a framebuffer or a display, and none is leaked.
THEOREM Accounting == Spec => []RefsAccounted
  <1>1. IInv => RefsAccounted
    BY DEF IInv
  <1> QED
    BY <1>1, Invariance, PTL

\* drmModeAddFB never finds a freed surface in the table of GBM handles.
THEOREM LiveTable == Spec => []TableIsLive
  <1>1. IInv => TableIsLive
    BY DEF IInv, TableInv
  <1> QED
    BY <1>1, Invariance, PTL

\* What every framebuffer and every display refers to is a live surface.
NoDangling ==
  /\ \A fb \in g_fbs : retains[fb.surface] > 0
  /\ \A c \in Crtcs : displays[c] # NoSurface => retains[displays[c]] > 0

THEOREM NothingDangles == Spec => []NoDangling
  <1>1. IInv => NoDangling
    <2> SUFFICES ASSUME IInv PROVE NoDangling
      OBVIOUS
    <2> USE DEF IInv
    <2>1. ASSUME NEW fb \in g_fbs PROVE retains[fb.surface] > 0
      <3>1. fb.surface \in SurfaceIds /\ Fbs(fb.surface) # {}
        BY DEF TypeOK, Fbs
      <3>2. retains[fb.surface] \in Nat \ {0}
        BY <3>1, Owned
      <3> QED
        BY <3>2
    <2>2. ASSUME NEW c \in Crtcs, displays[c] # NoSurface
          PROVE  retains[displays[c]] > 0
      <3>1. displays[c] \in SurfaceIds /\ Screens(displays[c]) # {}
        BY <2>2 DEF TypeOK, Screens
      <3>2. retains[displays[c]] \in Nat \ {0}
        BY <3>1, Owned
      <3> QED
        BY <3>2
    <2> QED
      BY <2>1, <2>2 DEF NoDangling
  <1> QED
    BY <1>1, Invariance, PTL

-----------------------------------------------------------------------------
(* Finding a buffer object by its handle.                                   *)

\* Every buffer object is in the table.
Listed ==
  \A s \in bos : \E i \in DOMAIN g_gbm_bufs : g_gbm_bufs[i].handle = s

\* Nobody has more buffer objects than the table has room for.
ObjectsFit == Cardinality(bos) <= MAX_GBM_BUFS

\* No IOSurfaceID of a buffer object is the handle of a dumb buffer as well.
HandlesApart == \A d \in g_dumb : d.handle \notin bos

\* The table is then as long as there are objects.
LEMMA TableLength ==
  ASSUME IInv, Listed
  PROVE  IsFiniteSet(bos) /\ Cardinality(bos) = Len(g_gbm_bufs)
  <1> DEFINE n == Len(g_gbm_bufs)
             f == [i \in 1 .. n |-> g_gbm_bufs[i].handle]
  <1>1. n \in Nat /\ DOMAIN g_gbm_bufs = 1 .. n
    BY LenProperties DEF IInv, TypeOK
  <1>2. IsFiniteSet(1 .. n) /\ Cardinality(1 .. n) = n
    <2>1. 1 \in Int /\ n \in Int
      BY <1>1
    <2> HIDE DEF n
    <2> QED
      BY <1>1, <2>1, FS_Interval
  <1>3. f \in Injection(1 .. n, bos) /\ f \in Surjection(1 .. n, bos)
    <2>1. \A i \in 1 .. n : f[i] = g_gbm_bufs[i].handle /\ f[i] \in bos
      BY <1>1 DEF IInv, TableInv, TableIsLive
    <2>2. \A i, j \in 1 .. n : f[i] = f[j] => i = j
      BY <1>1, <2>1 DEF IInv, TableInv
    <2>3. \A s \in bos : \E i \in 1 .. n : f[i] = s
      BY <1>1, <2>1 DEF Listed
    <2>4. f \in [1 .. n -> bos]
      BY <2>1
    <2> HIDE DEF f
    <2> QED
      BY <2>2, <2>3, <2>4 DEF Injection, Surjection, IsInjective
  <1> HIDE DEF n, f
  <1>4. /\ IsFiniteSet(bos)
        /\ Cardinality(bos) = Cardinality(1 .. n)
    BY <1>2, <1>3, FS_Surjection
  <1> QED
    BY <1>2, <1>4 DEF n

\* gbm_bo_create finds room in the table.
LEMMA BoCreateListed ==
  ASSUME IInv, Listed, ObjectsFit', NEW s0 \in SurfaceIds, BoCreate(s0)
  PROVE  Listed'
  <1>1. s0 \notin bos
    <2>1. retains[s0] = 0
      BY DEF BoCreate
    <2> QED
      BY <2>1, Owned DEF IInv
  <1>2. /\ IsFiniteSet(bos)
        /\ Cardinality(bos) = Len(g_gbm_bufs)
        /\ Cardinality(bos') = Cardinality(bos) + 1
    BY <1>1, TableLength, FS_AddElement DEF BoCreate
  <1>3. Len(g_gbm_bufs) \in Nat /\ MAX_GBM_BUFS \in Nat
    BY SizesAssumption, LenProperties DEF IInv, TypeOK
  <1>4. ~(Len(g_gbm_bufs) >= MAX_GBM_BUFS)
    BY <1>2, <1>3 DEF ObjectsFit
  <1>5. ~ \E i \in DOMAIN g_gbm_bufs : g_gbm_bufs[i].handle = s0
    BY <1>1 DEF IInv, TableInv, TableIsLive
  <1> DEFINE e0 == [handle |-> s0, surface |-> s0]
             n == Len(g_gbm_bufs)
  <1>6. g_gbm_bufs' = Append(g_gbm_bufs, e0)
    BY <1>4, <1>5 DEF BoCreate, Registered
  <1>7. /\ g_gbm_bufs \in Seq([handle : SurfaceIds, surface : SurfaceIds])
        /\ e0 \in [handle : SurfaceIds, surface : SurfaceIds]
        /\ DOMAIN g_gbm_bufs = 1 .. n
    BY LenProperties DEF IInv, TypeOK
  <1>8. /\ DOMAIN g_gbm_bufs' = 1 .. n + 1
        /\ \A i \in 1 .. n : g_gbm_bufs'[i] = g_gbm_bufs[i]
        /\ g_gbm_bufs'[n + 1] = e0
    BY <1>3, <1>6, <1>7, AppendProperties, LenProperties
  <1>9. /\ n + 1 \in DOMAIN g_gbm_bufs'
        /\ \A i \in DOMAIN g_gbm_bufs :
             i \in DOMAIN g_gbm_bufs' /\ g_gbm_bufs'[i] = g_gbm_bufs[i]
    <2> HIDE DEF n
    <2> QED
      BY <1>3, <1>7, <1>8 DEF n
  <1>10. \A s \in bos' : s \in bos \/ s = s0
    BY DEF BoCreate
  <1>11. g_gbm_bufs'[n + 1].handle = s0
    BY <1>8
  <1> HIDE DEF n
  <1> QED
    BY <1>9, <1>10, <1>11 DEF Listed

\* The table keeps every object, one step at a time.
LEMMA ListedNext ==
  ASSUME IInv, Listed, ObjectsFit', [Next]_vars
  PROVE  Listed'
  <1>1. ASSUME NEW s \in SurfaceIds, BoCreate(s) PROVE Listed'
    BY <1>1, BoCreateListed
  <1>2. ASSUME NEW s0 \in bos, BoDestroy(s0) PROVE Listed'
    <2>1. s0 \in SurfaceIds
      BY DEF IInv, TypeOK
    <2>2. \A k \in DOMAIN g_gbm_bufs :
            g_gbm_bufs[k].handle # s0 =>
              \E i \in DOMAIN g_gbm_bufs' : g_gbm_bufs'[i] = g_gbm_bufs[k]
      BY <1>2, <2>1, UnregisteredFacts DEF IInv, BoDestroy
    <2> QED
      BY <1>2, <2>2 DEF BoDestroy, Listed
  <1>3. CASE UNCHANGED <<bos, g_gbm_bufs>>
    BY <1>3 DEF Listed
  <1>4. ASSUME NEW s \in SurfaceIds, CreateDumbBuffer(s)
        PROVE  UNCHANGED <<bos, g_gbm_bufs>>
    BY <1>4 DEF CreateDumbBuffer
  <1>5. ASSUME NEW d \in g_dumb, DestroyDumbBuffer(d)
        PROVE  UNCHANGED <<bos, g_gbm_bufs>>
    BY <1>5 DEF DestroyDumbBuffer
  <1>6. ASSUME NEW h \in Handles, AddFB(h) PROVE UNCHANGED <<bos, g_gbm_bufs>>
    BY <1>6 DEF AddFB
  <1>7. ASSUME NEW fb \in g_fbs, RmFB(fb) PROVE UNCHANGED <<bos, g_gbm_bufs>>
    BY <1>7 DEF RmFB
  <1>8. ASSUME NEW c \in Crtcs, NEW fb \in g_fbs, PresentOn(c, fb)
        PROVE  UNCHANGED <<bos, g_gbm_bufs>>
    BY <1>8 DEF PresentOn
  <1>9. CASE UNCHANGED vars
    BY <1>3, <1>9 DEF vars
  <1> QED
    BY <1>1, <1>2, <1>3, <1>4, <1>5, <1>6, <1>7, <1>8, <1>9 DEF Next

\* What is in the table is found, unless a dumb buffer has the same handle.
LEMMA ListedIsFound ==
  ASSUME IInv, Listed, HandlesApart
  PROVE  BoIsFound
  <1> SUFFICES ASSUME NEW s \in bos PROVE SurfaceOf(s) = s
    BY DEF BoIsFound
  <1> DEFINE dumb == {d.surface : d \in {e \in g_dumb : e.handle = s}}
             gbm == {g_gbm_bufs[i].surface :
                       i \in {j \in DOMAIN g_gbm_bufs :
                                g_gbm_bufs[j].handle = s}}
  <1>1. dumb = {}
    BY DEF HandlesApart
  <1>2. gbm = {s}
    BY DEF Listed, IInv, TableInv
  <1>3. SurfaceOf(s) = CHOOSE x \in gbm : TRUE
    BY <1>1, <1>2 DEF SurfaceOf
  <1> QED
    BY <1>2, <1>3

\* drmModeAddFB finds the surface of every buffer object under its handle, for
\* any surfaces and sizes, as long as a program has no more objects than the
\* table takes and the system's ids stay clear of the handles of dumb buffers.
THEOREM BoFound == Spec /\ []ObjectsFit /\ []HandlesApart => []BoIsFound
  <1>1. Init => Listed
    BY DEF Init, Listed
  <1>2. IInv /\ Listed /\ ObjectsFit' /\ [Next]_vars => Listed'
    BY ListedNext
  <1>3. IInv /\ Listed /\ HandlesApart => BoIsFound
    BY ListedIsFound
  <1> QED
    BY <1>1, <1>2, <1>3, Invariance, PTL DEF Spec

=============================================================================
