------------------------- MODULE EpollShimCtxProofs -------------------------
(***************************************************************************)
(* RefsAddUp of EpollShimCtx for any threads, file numbers, descriptions   *)
(* and kinds: the reference count of a FileDescription is the number of    *)
(* those who hold it.                                                      *)
(*                                                                         *)
(* A count has two parts.  Outside counts the slots of the table and the   *)
(* threads' locals; Nodes counts the epoll descriptors that have a node    *)
(* for the description, which are descriptions themselves and may go       *)
(* while others stay.  The lemmas on Ref, Unref, Removed and Gone speak of *)
(* any set of descriptions D and any outside count h that add up.          *)
(*                                                                         *)
(* TableInv, that table, registrations and mutexes agree with the open     *)
(* files, needs the account, and that a description has one number only.   *)
(***************************************************************************)
EXTENDS EpollShimCtx, FiniteSetTheorems, WellFoundedInduction, TLAPS

-----------------------------------------------------------------------------
(* Counting.                                                                *)

Bit(p) == IF p THEN 1 ELSE 0

Count(S, f, v) == Cardinality({x \in S : f[x] = v})

LEMMA CountType ==
  ASSUME NEW S, IsFiniteSet(S), NEW f, NEW v
  PROVE  /\ Count(S, f, v) \in Nat
         /\ \A x \in S : f[x] = v => Count(S, f, v) > 0
<1> DEFINE T == {x \in S : f[x] = v}
<1>1. IsFiniteSet(T)
  BY FS_Subset
<1>2. Cardinality(T) \in Nat /\ (Cardinality(T) = 0 <=> T = {})
  BY <1>1, FS_CardinalityType, FS_EmptySet
<1> QED
  BY <1>2 DEF Count

\* One value of a function changes: one is counted less, one is counted more.
LEMMA CountUpdate ==
  ASSUME NEW S, IsFiniteSet(S), NEW x \in S, NEW f, NEW g, NEW v,
         \A z \in S : z # x => g[z] = f[z]
  PROVE  Count(S, g, v) = Count(S, f, v) + Bit(g[x] = v) - Bit(f[x] = v)
<1> DEFINE F == {z \in S : f[z] = v}
           G == {z \in S : g[z] = v}
<1>1. IsFiniteSet(F) /\ IsFiniteSet(G) /\ Cardinality(F) \in Nat /\ Cardinality(G) \in Nat
  <2>1. F \in SUBSET S /\ G \in SUBSET S
    OBVIOUS
  <2> QED
    BY <2>1, FS_Subset, FS_CardinalityType
<1>2. CASE f[x] = v /\ g[x] = v
  <2>1. F = G
    BY <1>2
  <2> QED
    BY <1>1, <1>2, <2>1 DEF Count, Bit
<1>3. CASE f[x] = v /\ g[x] # v
  <2>1. x \in F /\ G = F \ {x}
    BY <1>3
  <2>2. Cardinality(G) = Cardinality(F) - 1
    BY <1>1, <2>1, FS_RemoveElement
  <2> QED
    BY <1>1, <1>3, <2>2 DEF Count, Bit
<1>4. CASE f[x] # v /\ g[x] = v
  <2>1. x \notin F /\ G = F \cup {x}
    BY <1>4
  <2>2. Cardinality(G) = Cardinality(F) + 1
    BY <1>1, <2>1, FS_AddElement
  <2> QED
    BY <1>1, <1>4, <2>2 DEF Count, Bit
<1>5. CASE f[x] # v /\ g[x] # v
  <2>1. F = G
    BY <1>5
  <2>2. Count(S, g, v) = Count(S, f, v)
    BY <2>1 DEF Count
  <2>3. Bit(g[x] = v) = 0 /\ Bit(f[x] = v) = 0
    BY <1>5 DEF Bit
  <2>4. Count(S, f, v) \in Nat
    BY <1>1 DEF Count
  <2> QED
    BY <2>2, <2>3, <2>4
<1> QED
  BY <1>2, <1>3, <1>4, <1>5

-----------------------------------------------------------------------------
(* Descriptions that add up with an outside count.                          *)

DescType ==
  [kind : Kinds \cup {"free"}, refs : Nat, regs : SUBSET Reg]

NodesOf(D, d) == {e \in Descs : \E r \in D[e].regs : r.desc = d}

Nodes(D, d) == Cardinality(NodesOf(D, d))

Accounts(D, h) == \A d \in Descs : D[d].refs = h[d] + Nodes(D, d)

\* Only epoll descriptors have nodes, a node's description has a poll function,
\* and no two nodes of one descriptor are of one file or of one description.
Wellformed(D) ==
  \A d \in Descs :
    /\ D[d].regs # {} => D[d].kind = "epoll"
    /\ D[d].kind = "free" <=> D[d].refs = 0
    /\ \A r \in D[d].regs : r.desc # NULL => D[r.desc].kind = "timerfd"
    /\ \A r, s \in D[d].regs :
         r.n = s.n \/ (r.desc = s.desc /\ r.desc # NULL) => r = s

AddsUp(D, h) ==
  /\ D \in [Descs -> DescType]
  /\ h \in [Descs -> Nat]
  /\ Wellformed(D)
  /\ Accounts(D, h)

LEMMA NodesType ==
  ASSUME NEW D, NEW d
  PROVE  /\ IsFiniteSet(NodesOf(D, d)) /\ Nodes(D, d) \in Nat
         /\ \A e \in Descs : \A r \in D[e].regs : r.desc = d => Nodes(D, d) > 0
<1>1. NodesOf(D, d) \in SUBSET Descs
  BY DEF NodesOf
<1>2. IsFiniteSet(NodesOf(D, d))
  BY <1>1, ShimAssumption, FS_Subset
<1>3. Nodes(D, d) \in Nat /\ (Nodes(D, d) = 0 <=> NodesOf(D, d) = {})
  BY <1>2, FS_CardinalityType, FS_EmptySet DEF Nodes
<1>4. \A e \in Descs : \A r \in D[e].regs : r.desc = d => NodesOf(D, d) # {}
  BY DEF NodesOf
<1> QED
  BY <1>2, <1>3, <1>4

\* A description that is counted, from outside or by a node, is not free.
LEMMA CountedIsLive ==
  ASSUME NEW D, NEW h, AddsUp(D, h), NEW d \in Descs,
         h[d] > 0 \/ \E e \in Descs : \E r \in D[e].regs : r.desc = d
  PROVE  D[d].kind # "free"
<1>1. h[d] + Nodes(D, d) > 0
  BY NodesType DEF AddsUp
<1> QED
  BY <1>1 DEF AddsUp, Accounts, Wellformed

\* The references a description's own nodes hold: one for each, none twice.
Holds(D, d, e) == \E r \in D[d].regs : r.desc = e

LEMMA HeldIsBit ==
  ASSUME NEW D, Wellformed(D), NEW d \in Descs, NEW e \in Descs
  PROVE  Cardinality({r \in D[d].regs : r.desc = e}) = Bit(Holds(D, d, e))
<1>1. CASE Holds(D, d, e)
  <2>1. PICK r \in D[d].regs : r.desc = e
    BY <1>1 DEF Holds
  <2>2. {s \in D[d].regs : s.desc = e} = {r}
    BY <2>1, ShimAssumption DEF Wellformed
  <2> QED
    BY <1>1, <2>2, FS_Singleton DEF Bit
<1>2. CASE ~Holds(D, d, e)
  <2>1. {s \in D[d].regs : s.desc = e} = {}
    BY <1>2 DEF Holds
  <2> QED
    BY <1>2, <2>1, FS_EmptySet DEF Bit
<1> QED
  BY <1>1, <1>2

\* One descriptor loses a node, or all of them: the others' count.
LEMMA NodesWithout ==
  ASSUME NEW D, NEW U, NEW d \in Descs, NEW e,
         \A x \in Descs \ {d} : U[x].regs = D[x].regs,
         ~Holds(U, d, e)
  PROVE  Nodes(U, e) = Nodes(D, e) - Bit(Holds(D, d, e))
<1>1. NodesOf(U, e) = NodesOf(D, e) \ {d}
  BY DEF NodesOf, Holds
<1>2. d \in NodesOf(D, e) <=> Holds(D, d, e)
  BY DEF NodesOf, Holds
<1>3. Nodes(D, e) \in Nat /\ IsFiniteSet(NodesOf(D, e))
  BY NodesType
<1>4. Nodes(U, e) = IF d \in NodesOf(D, e) THEN Nodes(D, e) - 1 ELSE Nodes(D, e)
  BY <1>1, <1>3, FS_RemoveElement DEF Nodes
<1> QED
  BY <1>2, <1>3, <1>4 DEF Bit

\* The last reference goes: the description is freed, and so is any that only
\* its nodes held.
LEMMA DestroyAddsUp ==
  ASSUME NEW D, NEW h, AddsUp(D, h), NEW d \in Descs, h[d] > 0, D[d].refs <= 1,
         NEW g \in [Descs -> Nat], \A e \in Descs : g[e] = h[e] - Bit(e = d)
  PROVE  /\ AddsUp(Unref(D, d), g)
         /\ \A e \in Descs : /\ Unref(D, d)[e].regs \subseteq D[e].regs
                             /\ Unref(D, d)[e].kind \in {D[e].kind, "free"}
<1> DEFINE U == Unref(D, d)
           Freed(e) == e = d \/ (Holds(D, d, e) /\ D[e].refs = 1)
<1>1. /\ D \in [Descs -> DescType] /\ h \in [Descs -> Nat]
      /\ Wellformed(D) /\ Accounts(D, h)
  BY DEF AddsUp
<1>2. \A e \in Descs : /\ Nodes(D, e) \in Nat
                       /\ Holds(D, d, e) => Nodes(D, e) > 0
  BY NodesType DEF Holds
<1>3. D[d].refs = 1 /\ h[d] = 1 /\ Nodes(D, d) = 0 /\ ~Holds(D, d, d)
  BY <1>1, <1>2 DEF Accounts
<1>4. U = [e \in Descs |->
             IF Freed(e) THEN FreeDesc
             ELSE [D[e] EXCEPT !.refs = @ - Bit(Holds(D, d, e))]]
  <2> DEFINE C(e) == Cardinality({r \in D[d].regs : r.desc = e})
  <2>1. d # NULL /\ ~(D[d].refs > 1)
    BY <1>3, ShimAssumption
  <2>2. U = [e \in Descs |->
               IF e = d \/ (C(e) > 0 /\ D[e].refs = C(e)) THEN FreeDesc
               ELSE [D[e] EXCEPT !.refs = @ - C(e)]]
    BY <2>1 DEF Unref
  <2>3. \A e \in Descs : C(e) = Bit(Holds(D, d, e))
    BY <1>1, HeldIsBit
  <2> HIDE DEF C, U
  <2>4. \A e \in Descs : (e = d \/ (C(e) > 0 /\ D[e].refs = C(e))) <=> Freed(e)
    BY <2>3 DEF Bit
  <2>5. \A e \in Descs :
          (IF e = d \/ (C(e) > 0 /\ D[e].refs = C(e)) THEN FreeDesc
           ELSE [D[e] EXCEPT !.refs = @ - C(e)])
          = (IF Freed(e) THEN FreeDesc
             ELSE [D[e] EXCEPT !.refs = @ - Bit(Holds(D, d, e))])
    BY <2>3, <2>4
  <2> QED
    BY <2>2, <2>5
<1> HIDE DEF U
<1>5. \A e \in Descs :
        IF Freed(e) THEN U[e] = FreeDesc
        ELSE /\ U[e].kind = D[e].kind /\ U[e].regs = D[e].regs
             /\ U[e].refs = D[e].refs - Bit(Holds(D, d, e))
  BY <1>1, <1>4 DEF DescType
<1>6. \A e \in Descs : Freed(e) /\ e # d => D[e].regs = {}
  BY <1>1, ShimAssumption DEF Holds, Wellformed
<1>7. /\ U[d] = FreeDesc
      /\ \A e \in Descs \ {d} : U[e].regs = D[e].regs
  <2>1. U[d] = FreeDesc
    BY <1>5
  <2>2. ASSUME NEW e \in Descs, e # d PROVE U[e].regs = D[e].regs
    <3>1. CASE Freed(e)
      <4>1. U[e] = FreeDesc /\ D[e].regs = {}
        BY <1>5, <1>6, <2>2, <3>1
      <4> QED
        BY <4>1 DEF FreeDesc
    <3>2. CASE ~Freed(e)
      BY <1>5, <3>2
    <3> QED
      BY <3>1, <3>2
  <2> QED
    BY <2>1, <2>2
<1>8. \A e \in Descs : Nodes(U, e) = Nodes(D, e) - Bit(Holds(D, d, e))
  <2>1. \A e \in Descs : ~Holds(U, d, e)
    BY <1>7 DEF Holds, FreeDesc
  <2> QED
    BY <1>7, <2>1, NodesWithout
<1>9. \A e \in Descs : D[e].refs = h[e] + Nodes(D, e) /\ h[e] \in Nat /\ D[e].refs \in Nat
  BY <1>1 DEF Accounts, DescType
<1>10. \A e \in Descs : U[e].refs = g[e] + Nodes(U, e)
  <2> SUFFICES ASSUME NEW e \in Descs PROVE U[e].refs = g[e] + Nodes(U, e)
    OBVIOUS
  <2>1. CASE e = d
    BY <1>3, <1>7, <1>8, <1>9, <2>1 DEF FreeDesc, Bit
  <2>2. CASE e # d /\ Holds(D, d, e) /\ D[e].refs = 1
    <3>1. U[e].refs = 0
      BY <1>5, <2>2 DEF FreeDesc
    <3> QED
      BY <1>2, <1>8, <1>9, <2>2, <3>1 DEF Bit
  <2>3. CASE ~Freed(e)
    <3>1. U[e].refs = D[e].refs - Bit(Holds(D, d, e)) /\ g[e] = h[e]
      BY <1>5, <1>9, <2>3 DEF Bit
    <3> QED
      BY <1>2, <1>8, <1>9, <3>1 DEF Bit
  <2> QED
    BY <2>1, <2>2, <2>3
<1>11. U \in [Descs -> DescType]
  <2>1. FreeDesc \in DescType
    BY DEF FreeDesc, DescType
  <2>2. \A e \in Descs : ~Freed(e) => D[e].refs - Bit(Holds(D, d, e)) \in Nat
    BY <1>2, <1>9 DEF Bit
  <2> QED
    BY <1>1, <1>4, <2>1, <2>2 DEF DescType
<1>12. Wellformed(U)
  <2> SUFFICES ASSUME NEW x \in Descs
               PROVE  /\ U[x].regs # {} => U[x].kind = "epoll"
                      /\ U[x].kind = "free" <=> U[x].refs = 0
                      /\ \A r \in U[x].regs : r.desc # NULL => U[r.desc].kind = "timerfd"
                      /\ \A r, s \in U[x].regs :
                           r.n = s.n \/ (r.desc = s.desc /\ r.desc # NULL) => r = s
    BY DEF Wellformed
  <2>1. U[x].regs # {} => U[x].kind = "epoll"
    BY <1>1, <1>5 DEF FreeDesc, Wellformed
  <2>2. U[x].kind = "free" <=> U[x].refs = 0
    <3>1. CASE Freed(x)
      BY <1>5, <3>1 DEF FreeDesc
    <3>2. CASE ~Freed(x)
      <4>1. Holds(D, d, x) => D[x].refs > 1
        <5>1. Holds(D, d, x) => D[x].refs # 1 /\ Nodes(D, x) > 0
          BY <1>2, <3>2
        <5>2. /\ D[x].refs = h[x] + Nodes(D, x)
              /\ h[x] \in Nat /\ Nodes(D, x) \in Nat
          BY <1>2, <1>9
        <5> HIDE DEF Freed
        <5> QED
          BY <5>1, <5>2
      <4> QED
        BY <1>1, <1>5, <1>9, <3>2, <4>1 DEF Wellformed, Bit
    <3> QED
      BY <3>1, <3>2
  <2>3. ASSUME NEW r \in U[x].regs, r.desc # NULL PROVE U[r.desc].kind = "timerfd"
    <3>1. x # d /\ r \in D[x].regs
      BY <1>7, <2>3 DEF FreeDesc
    <3>2. r.desc \in Descs /\ D[r.desc].kind = "timerfd"
      BY <1>1, <2>3, <3>1 DEF Wellformed, DescType, Reg
    <3>3. Nodes(U, r.desc) > 0
      BY <2>3, NodesType
    <3>4. U[r.desc].refs # 0
      <4>1. Nodes(U, r.desc) \in Nat
        BY NodesType
      <4> QED
        BY <1>10, <3>2, <3>3, <4>1
    <3>5. ~Freed(r.desc)
      BY <1>5, <3>2, <3>4 DEF FreeDesc
    <3> QED
      BY <1>5, <3>2, <3>5
  <2>4. \A r, s \in U[x].regs :
          r.n = s.n \/ (r.desc = s.desc /\ r.desc # NULL) => r = s
    BY <1>1, <1>5 DEF FreeDesc, Wellformed
  <2> QED
    BY <2>1, <2>2, <2>3, <2>4
<1>13. \A e \in Descs : U[e].regs \subseteq D[e].regs /\ U[e].kind \in {D[e].kind, "free"}
  BY <1>5 DEF FreeDesc
<1> QED
  BY <1>10, <1>11, <1>12, <1>13 DEF AddsUp, Accounts, U

\* file_description_unref: of the reference a local or the table had.
LEMMA UnrefAddsUp ==
  ASSUME NEW D, NEW h, AddsUp(D, h), NEW d \in Descs \cup {NULL}, d # NULL => h[d] > 0,
         NEW g \in [Descs -> Nat], \A e \in Descs : g[e] = h[e] - Bit(e = d)
  PROVE  /\ AddsUp(Unref(D, d), g)
         /\ \A e \in Descs : /\ Unref(D, d)[e].regs \subseteq D[e].regs
                             /\ Unref(D, d)[e].kind \in {D[e].kind, "free"}
<1> USE DEF AddsUp
<1>1. CASE d = NULL
  <2>1. Unref(D, d) = D
    BY <1>1 DEF Unref
  <2>2. \A e \in Descs : g[e] = h[e]
    BY <1>1, ShimAssumption DEF Bit
  <2> QED
    BY <2>1, <2>2 DEF Accounts
<1>2. CASE d # NULL /\ D[d].refs > 1
  <2> DEFINE U == Unref(D, d)
  <2>1. U = [D EXCEPT ![d].refs = @ - 1]
    BY <1>2 DEF Unref
  <2>2. d \in Descs
    BY <1>2
  <2> HIDE DEF U
  <2>3. U \in [Descs -> DescType]
    BY <1>2, <2>1, <2>2 DEF DescType
  <2>4. \A e \in Descs : /\ U[e].kind = D[e].kind /\ U[e].regs = D[e].regs
                         /\ U[e].refs = D[e].refs - Bit(e = d)
    BY <2>1, <2>2 DEF DescType, Bit
  <2>5. \A e \in Descs : NodesOf(U, e) = NodesOf(D, e)
    BY <2>4 DEF NodesOf
  <2>6. Accounts(U, g)
    <3>1. \A e \in Descs : D[e].refs = h[e] + Nodes(D, e) /\ h[e] \in Nat /\ Nodes(D, e) \in Nat
      BY NodesType DEF Accounts
    <3> QED
      BY <2>4, <2>5, <3>1 DEF Accounts, Nodes, Bit
  <2>7. Wellformed(U)
    <3>1. \A e \in Descs : \A r \in D[e].regs : r.desc # NULL => r.desc \in Descs
      BY DEF DescType, Reg
    <3>2. \A e \in Descs : U[e].kind = "free" <=> U[e].refs = 0
      BY <1>2, <2>4 DEF Wellformed, DescType, Bit
    <3> QED
      BY <2>4, <3>1, <3>2 DEF Wellformed
  <2> QED
    BY <2>3, <2>4, <2>6, <2>7 DEF U
<1>3. CASE d # NULL /\ ~(D[d].refs > 1)
  <2>1. d \in Descs /\ D[d].refs <= 1
    BY <1>3 DEF DescType
  <2> QED
    BY <1>3, <2>1, DestroyAddsUp
<1> QED
  BY <1>1, <1>2, <1>3

\* file_description_ref: of a description that somebody holds already.
LEMMA RefAddsUp ==
  ASSUME NEW D, NEW h, AddsUp(D, h), NEW d \in Descs \cup {NULL},
         d # NULL => D[d].kind # "free",
         NEW g \in [Descs -> Nat], \A e \in Descs : g[e] = h[e] + Bit(e = d)
  PROVE  /\ AddsUp(Ref(D, d), g)
         /\ \A e \in Descs : /\ Ref(D, d)[e].regs = D[e].regs
                             /\ Ref(D, d)[e].kind = D[e].kind
<1> USE DEF AddsUp
<1>1. CASE d = NULL
  <2>1. Ref(D, d) = D
    BY <1>1 DEF Ref
  <2>2. \A e \in Descs : g[e] = h[e]
    BY <1>1, ShimAssumption DEF Bit
  <2> QED
    BY <2>1, <2>2 DEF Accounts
<1>2. CASE d # NULL
  <2> DEFINE U == Ref(D, d)
  <2>1. U = [D EXCEPT ![d].refs = @ + 1] /\ d \in Descs
    BY <1>2 DEF Ref
  <2> HIDE DEF U
  <2>2. U \in [Descs -> DescType]
    BY <2>1 DEF DescType
  <2>3. \A e \in Descs : /\ U[e].kind = D[e].kind /\ U[e].regs = D[e].regs
                         /\ U[e].refs = D[e].refs + Bit(e = d)
    BY <2>1 DEF DescType, Bit
  <2>4. \A e \in Descs : NodesOf(U, e) = NodesOf(D, e)
    BY <2>3 DEF NodesOf
  <2>5. Accounts(U, g)
    <3>1. \A e \in Descs : D[e].refs = h[e] + Nodes(D, e) /\ h[e] \in Nat /\ Nodes(D, e) \in Nat
      BY NodesType DEF Accounts
    <3> QED
      BY <2>3, <2>4, <3>1 DEF Accounts, Nodes, Bit
  <2>6. Wellformed(U)
    <3>1. \A e \in Descs : \A r \in D[e].regs : r.desc # NULL => r.desc \in Descs
      BY DEF DescType, Reg
    <3>2. \A e \in Descs : U[e].kind = "free" <=> U[e].refs = 0
      BY <1>2, <2>3 DEF Wellformed, DescType, Bit
    <3> QED
      BY <2>3, <3>1, <3>2 DEF Wellformed
  <2> QED
    BY <2>2, <2>3, <2>5, <2>6 DEF U
<1> QED
  BY <1>1, <1>2

\* What the kernel does to a node when a file goes leaves the references alone.
Marks(D, U) ==
  \A e \in Descs :
    /\ U[e].kind = D[e].kind /\ U[e].refs = D[e].refs
    /\ \A r \in U[e].regs : \E s \in D[e].regs : r.n = s.n /\ r.desc = s.desc
    /\ \A s \in D[e].regs : \E r \in U[e].regs : r.n = s.n /\ r.desc = s.desc
    /\ \A r, s \in U[e].regs : r.n = s.n => r = s

LEMMA MarksAddsUp ==
  ASSUME NEW D, NEW h, AddsUp(D, h), NEW U \in [Descs -> DescType], Marks(D, U)
  PROVE  AddsUp(U, h)
<1> USE DEF AddsUp
<1>1. \A e \in Descs : NodesOf(U, e) = NodesOf(D, e)
  BY SMTT(30) DEF NodesOf, Marks
<1>2. Accounts(U, h)
  BY <1>1 DEF Accounts, Nodes, Marks
<1>3. Wellformed(U)
  <2>1. \A e \in Descs : \A r \in U[e].regs : r.desc # NULL => r.desc \in Descs
    BY DEF DescType, Reg
  <2>2. \A e \in Descs : \A r, s \in U[e].regs :
          r.desc = s.desc /\ r.desc # NULL => r.n = s.n
    BY DEF Wellformed, Marks
  <2>3. \A e \in Descs : \A r \in U[e].regs : r.desc # NULL => D[r.desc].kind = "timerfd"
    BY DEF Wellformed, Marks
  <2>4. \A e \in Descs : /\ U[e].kind = D[e].kind /\ U[e].refs = D[e].refs
                         /\ U[e].regs # {} => D[e].regs # {}
                         /\ \A r, s \in U[e].regs : r.n = s.n => r = s
    BY DEF Marks
  <2> QED
    BY <2>1, <2>2, <2>3, <2>4 DEF Wellformed
<1> QED
  BY <1>2, <1>3

LEMMA GoneMarks ==
  ASSUME NEW D \in [Descs -> DescType], Wellformed(D), NEW n
  PROVE  /\ Gone(D, n) \in [Descs -> DescType] /\ Marks(D, Gone(D, n))
         /\ GoneBehind(D, n) \in [Descs -> DescType] /\ Marks(D, GoneBehind(D, n))
<1>1. ASSUME NEW r \in Reg, NEW b \in BOOLEAN
      PROVE  /\ [r EXCEPT !.live = b] \in Reg /\ [r EXCEPT !.late = b] \in Reg
             /\ [r EXCEPT !.live = b].n = r.n /\ [r EXCEPT !.live = b].desc = r.desc
             /\ [r EXCEPT !.late = b].n = r.n /\ [r EXCEPT !.late = b].desc = r.desc
  BY DEF Reg
<1>2. \A e \in Descs : \A r \in D[e].regs :
        /\ r \in Reg /\ (r.live /\ r.n # n) \in BOOLEAN /\ (r.late \/ r.n = n) \in BOOLEAN
  BY DEF DescType, Reg
<1>3. \A e \in Descs : \A r, s \in D[e].regs : r.n = s.n => r = s
  BY DEF Wellformed
<1>4. Gone(D, n) \in [Descs -> DescType] /\ Marks(D, Gone(D, n))
  <2> DEFINE F(r) == [r EXCEPT !.live = r.live /\ r.n # n]
             U == Gone(D, n)
  <2>1. \A e \in Descs : \A r \in D[e].regs :
          F(r) \in Reg /\ F(r).n = r.n /\ F(r).desc = r.desc
    BY <1>1, <1>2
  <2>2. U = [e \in Descs |-> [D[e] EXCEPT !.regs = {F(r) : r \in D[e].regs}]]
    BY DEF Gone
  <2> HIDE DEF F, U
  <2>3. \A e \in Descs : {F(r) : r \in D[e].regs} \in SUBSET Reg
    BY <2>1
  <2>4. \A e \in Descs : /\ U[e] \in DescType
                         /\ U[e].kind = D[e].kind /\ U[e].refs = D[e].refs
                         /\ U[e].regs = {F(r) : r \in D[e].regs}
    BY <2>2, <2>3 DEF DescType
  <2>5. Marks(D, U)
    BY <1>3, <2>1, <2>4 DEF Marks
  <2> QED
    BY <2>2, <2>4, <2>5 DEF U
<1>5. GoneBehind(D, n) \in [Descs -> DescType] /\ Marks(D, GoneBehind(D, n))
  <2> DEFINE F(r) == [r EXCEPT !.late = r.late \/ r.n = n]
             U == GoneBehind(D, n)
  <2>1. \A e \in Descs : \A r \in D[e].regs :
          F(r) \in Reg /\ F(r).n = r.n /\ F(r).desc = r.desc
    BY <1>1, <1>2
  <2>2. U = [e \in Descs |-> [D[e] EXCEPT !.regs = {F(r) : r \in D[e].regs}]]
    BY DEF GoneBehind
  <2> HIDE DEF F, U
  <2>3. \A e \in Descs : {F(r) : r \in D[e].regs} \in SUBSET Reg
    BY <2>1
  <2>4. \A e \in Descs : /\ U[e] \in DescType
                         /\ U[e].kind = D[e].kind /\ U[e].refs = D[e].refs
                         /\ U[e].regs = {F(r) : r \in D[e].regs}
    BY <2>2, <2>3 DEF DescType
  <2>5. Marks(D, U)
    BY <1>3, <2>1, <2>4 DEF Marks
  <2> QED
    BY <2>2, <2>4, <2>5 DEF U
<1> QED
  BY <1>4, <1>5

\* epollfd_ctx_add_node: a node more, with a reference of its own.
LEMMA NodeAddsUp ==
  ASSUME NEW D, NEW h, AddsUp(D, h), NEW x \in Descs, D[x].kind = "epoll",
         NEW r \in Reg, r.desc # NULL => D[r.desc].kind = "timerfd",
         \A s \in D[x].regs : s.n # r.n /\ (r.desc # NULL => s.desc # r.desc)
  PROVE  AddsUp([Ref(D, r.desc) EXCEPT ![x].regs = @ \cup {r}], h)
<1> DEFINE V == Ref(D, r.desc)
           U == [V EXCEPT ![x].regs = @ \cup {r}]
           g == [e \in Descs |-> h[e] + Bit(e = r.desc)]
<1>1. r.desc \in Descs \cup {NULL} /\ "timerfd" # "epoll"
  BY DEF Reg
<1>2. g \in [Descs -> Nat] /\ \A e \in Descs : g[e] = h[e] + Bit(e = r.desc)
  BY DEF AddsUp, Bit
<1>3. r.desc # NULL => D[r.desc].kind # "free"
  BY ShimAssumption
<1> HIDE DEF g
<1>4. /\ AddsUp(V, g)
      /\ \A e \in Descs : V[e].regs = D[e].regs /\ V[e].kind = D[e].kind
  BY <1>1, <1>2, <1>3, RefAddsUp
<1> HIDE DEF V
<1>5. V \in [Descs -> DescType]
  BY <1>4 DEF AddsUp
<1>6. U \in [Descs -> DescType]
  BY <1>5 DEF DescType
<1>7. \A e \in Descs :
        /\ U[e].kind = V[e].kind /\ U[e].refs = V[e].refs
        /\ e # x => U[e].regs = V[e].regs
        /\ e = x => U[e].regs = V[e].regs \cup {r}
  BY <1>5 DEF DescType
<1> HIDE DEF U
<1>8. \A e \in Descs : Nodes(U, e) = Nodes(V, e) + Bit(e = r.desc)
  <2> SUFFICES ASSUME NEW e \in Descs PROVE Nodes(U, e) = Nodes(V, e) + Bit(e = r.desc)
    OBVIOUS
  <2>1. IsFiniteSet(NodesOf(V, e)) /\ Nodes(V, e) \in Nat
    BY NodesType
  <2>2. CASE e = r.desc
    <3>1. x \notin NodesOf(V, e)
      BY <1>4, <2>2, ShimAssumption DEF NodesOf
    <3>2. NodesOf(U, e) = NodesOf(V, e) \cup {x}
      BY <1>7, <2>2 DEF NodesOf
    <3>3. Nodes(U, e) = Nodes(V, e) + 1
      BY <2>1, <3>1, <3>2, FS_AddElement, ZenonT(30) DEF Nodes
    <3> QED
      BY <2>2, <3>3 DEF Bit
  <2>3. CASE e # r.desc
    <3>1. NodesOf(U, e) = NodesOf(V, e)
      BY <1>7, <2>3 DEF NodesOf
    <3> QED
      BY <2>1, <2>3, <3>1 DEF Nodes, Bit
  <2> QED
    BY <2>2, <2>3
<1>9. Accounts(U, h)
  <2>1. \A e \in Descs : /\ V[e].refs = g[e] + Nodes(V, e) /\ Nodes(V, e) \in Nat
                         /\ h[e] \in Nat
    BY <1>4, NodesType DEF AddsUp, Accounts
  <2>2. \A e \in Descs : U[e].refs = h[e] + Nodes(U, e)
    BY <1>2, <1>7, <1>8, <2>1 DEF Bit
  <2> QED
    BY <2>2 DEF Accounts
<1>10. Wellformed(U)
  <2>1. \A e \in Descs : \A s \in U[e].regs : s.desc # NULL => s.desc \in Descs
    BY <1>6 DEF DescType, Reg
  <2>2. \A e \in Descs : U[e].regs # {} => U[e].kind = "epoll"
    BY <1>4, <1>7 DEF AddsUp, Wellformed
  <2>3. \A e \in Descs : \A s \in U[e].regs : s.desc # NULL => U[s.desc].kind = "timerfd"
    BY <1>4, <1>7, <2>1 DEF AddsUp, Wellformed
  <2>4. \A e \in Descs : \A s, q \in U[e].regs :
          s.n = q.n \/ (s.desc = q.desc /\ s.desc # NULL) => s = q
    BY <1>4, <1>7 DEF AddsUp, Wellformed
  <2>5. \A e \in Descs : U[e].kind = "free" <=> U[e].refs = 0
    BY <1>4, <1>7 DEF AddsUp, Wellformed
  <2> QED
    BY <2>2, <2>3, <2>4, <2>5 DEF Wellformed
<1> QED
  BY <1>6, <1>9, <1>10 DEF AddsUp, U, V

\* A node is taken out of its descriptor: its reference is somebody's local now.
LEMMA NodeTaken ==
  ASSUME NEW D, NEW h, AddsUp(D, h), NEW x \in Descs, NEW r \in D[x].regs,
         NEW g \in [Descs -> Nat], \A e \in Descs : g[e] = h[e] + Bit(e = r.desc)
  PROVE  AddsUp([D EXCEPT ![x].regs = @ \ {r}], g)
<1> DEFINE U == [D EXCEPT ![x].regs = @ \ {r}]
<1>1. D \in [Descs -> DescType] /\ Wellformed(D) /\ Accounts(D, h) /\ h \in [Descs -> Nat]
  BY DEF AddsUp
<1>2. U \in [Descs -> DescType]
  BY <1>1 DEF DescType
<1>3. \A e \in Descs :
        /\ U[e].kind = D[e].kind /\ U[e].refs = D[e].refs
        /\ e # x => U[e].regs = D[e].regs
        /\ e = x => U[e].regs = D[e].regs \ {r}
  BY <1>1 DEF DescType
<1> HIDE DEF U
<1>4. \A e \in Descs : Nodes(U, e) = Nodes(D, e) - Bit(e = r.desc)
  <2> SUFFICES ASSUME NEW e \in Descs PROVE Nodes(U, e) = Nodes(D, e) - Bit(e = r.desc)
    OBVIOUS
  <2>1. IsFiniteSet(NodesOf(D, e)) /\ Nodes(D, e) \in Nat
    BY NodesType
  <2>2. CASE e = r.desc
    <3>1. x \in NodesOf(D, e)
      BY <2>2 DEF NodesOf
    <3>2. \A s \in D[x].regs : s.desc = e => s = r
      BY <1>1, <2>2, ShimAssumption DEF Wellformed
    <3>3. NodesOf(U, e) = NodesOf(D, e) \ {x}
      BY <1>3, <2>2, <3>2 DEF NodesOf
    <3> QED
      BY <2>1, <2>2, <3>1, <3>3, FS_RemoveElement DEF Nodes, Bit
  <2>3. CASE e # r.desc
    <3>1. NodesOf(U, e) = NodesOf(D, e)
      BY <1>3, <2>3 DEF NodesOf
    <3> QED
      BY <2>1, <2>3, <3>1 DEF Nodes, Bit
  <2> QED
    BY <2>2, <2>3
<1>5. Accounts(U, g)
  <2>1. \A e \in Descs : D[e].refs = h[e] + Nodes(D, e) /\ Nodes(D, e) \in Nat /\ h[e] \in Nat
    BY <1>1, NodesType DEF Accounts
  <2>2. \A e \in Descs : U[e].refs = g[e] + Nodes(U, e)
    BY <1>3, <1>4, <2>1 DEF Bit
  <2> QED
    BY <2>2 DEF Accounts
<1>6. Wellformed(U)
  <2>1. \A e \in Descs : \A s \in U[e].regs : s.desc # NULL => s.desc \in Descs
    BY <1>2 DEF DescType, Reg
  <2> QED
    BY <1>1, <1>3, <2>1 DEF Wellformed
<1> QED
  BY <1>2, <1>5, <1>6 DEF AddsUp, U

\* epollfd_remove_fd of all epoll descriptors in the table at once.
LEMMA RemovedAddsUp ==
  ASSUME NEW h, AddsUp(desc, h), NEW n \in Numbers
  PROVE  /\ AddsUp(Removed(n), h)
         /\ \A e \in Descs : /\ Removed(n)[e].regs \subseteq desc[e].regs
                             /\ Removed(n)[e].kind \in {desc[e].kind, "free"}
<1> DEFINE gone(e) == IF \E k \in Epolls : open_files[k] = e
                      THEN {r \in desc[e].regs : r.n = n} ELSE {}
           Losers(d) == {e \in Descs : \E r \in gone(e) : r.desc = d}
           dropped(d) == Cardinality(Losers(d))
           Freed(d) == dropped(d) > 0 /\ desc[d].refs = dropped(d)
           U == Removed(n)
<1>1. /\ desc \in [Descs -> DescType] /\ Wellformed(desc) /\ h \in [Descs -> Nat]
      /\ \A e \in Descs : desc[e].refs = h[e] + Nodes(desc, e)
  BY DEF AddsUp, Accounts
<1>2. U = [d \in Descs |->
             IF Freed(d) THEN FreeDesc
             ELSE [desc[d] EXCEPT !.regs = @ \ gone(d), !.refs = @ - dropped(d)]]
  BY DEF Removed
<1>3. \A e \in Descs : gone(e) \subseteq desc[e].regs
  OBVIOUS
<1> HIDE DEF gone, U
<1>4. \A e \in Descs : /\ IsFiniteSet(NodesOf(desc, e)) /\ Nodes(desc, e) \in Nat
                       /\ Losers(e) \subseteq NodesOf(desc, e)
  BY <1>3, NodesType, SMTT(30) DEF NodesOf
<1>5. \A e \in Descs : /\ IsFiniteSet(Losers(e)) /\ dropped(e) \in Nat
                       /\ dropped(e) <= Nodes(desc, e)
                       /\ dropped(e) > 0 <=> Losers(e) # {}
  <2> SUFFICES ASSUME NEW e \in Descs
               PROVE  /\ IsFiniteSet(Losers(e)) /\ dropped(e) \in Nat
                      /\ dropped(e) <= Nodes(desc, e)
                      /\ dropped(e) > 0 <=> Losers(e) # {}
    OBVIOUS
  <2>1. IsFiniteSet(Losers(e)) /\ dropped(e) <= Nodes(desc, e)
    BY <1>4, FS_Subset DEF Nodes
  <2>2. dropped(e) \in Nat /\ (dropped(e) = 0 <=> Losers(e) = {})
    BY <2>1, FS_CardinalityType, FS_EmptySet
  <2> HIDE DEF dropped, Losers
  <2> QED
    BY <2>1, <2>2
\* A freed description is one with a poll function and has no nodes itself.
<1>6. \A e \in Descs : Freed(e) => desc[e].regs = {} /\ h[e] = 0
  <2> SUFFICES ASSUME NEW e \in Descs, Freed(e) PROVE desc[e].regs = {} /\ h[e] = 0
    OBVIOUS
  <2>1. PICK x \in Descs : \E r \in desc[x].regs : r.desc = e
    BY <1>3, <1>5
  <2>2. desc[e].kind = "timerfd"
    BY <1>1, <2>1, ShimAssumption DEF Wellformed
  <2>3. desc[e].regs = {}
    BY <1>1, <2>2 DEF Wellformed
  <2> HIDE DEF dropped, Losers
  <2> QED
    BY <1>1, <1>4, <1>5, <2>3
<1>7. \A e \in Descs : ~Freed(e) => desc[e].refs - dropped(e) \in Nat
  <2> HIDE DEF dropped, Losers
  <2> QED
    BY <1>1, <1>4, <1>5
<1>8. /\ U \in [Descs -> DescType]
      /\ \A e \in Descs :
           /\ Freed(e) => U[e] = FreeDesc
           /\ ~Freed(e) => U[e].kind = desc[e].kind /\ U[e].refs = desc[e].refs - dropped(e)
           /\ U[e].regs = desc[e].regs \ gone(e)
  <2> HIDE DEF dropped, Losers
  <2>1. FreeDesc \in DescType
    BY DEF FreeDesc, DescType
  <2>2. \A e \in Descs :
          desc[e] \in DescType /\ desc[e].regs \ gone(e) \in SUBSET Reg
    BY <1>1 DEF DescType
  <2>3. \A e \in Descs : ~Freed(e) =>
          /\ U[e] \in DescType
          /\ U[e].kind = desc[e].kind /\ U[e].refs = desc[e].refs - dropped(e)
          /\ U[e].regs = desc[e].regs \ gone(e)
    BY <1>2, <1>7, <2>2 DEF DescType
  <2>4. \A e \in Descs : Freed(e) =>
          U[e] = FreeDesc /\ U[e].regs = desc[e].regs \ gone(e)
    BY <1>2, <1>6 DEF FreeDesc
  <2> QED
    BY <1>2, <2>1, <2>3, <2>4
<1>9. \A e \in Descs : NodesOf(U, e) = NodesOf(desc, e) \ Losers(e)
  <2> SUFFICES ASSUME NEW e \in Descs, NEW x \in Descs
               PROVE  x \in NodesOf(U, e) <=> x \in NodesOf(desc, e) /\ x \notin Losers(e)
    BY DEF NodesOf
  <2>1. \A r, s \in desc[x].regs : r.desc = e /\ s.desc = e => r = s
    BY <1>1, ShimAssumption DEF Wellformed
  <2> QED
    BY <1>3, <1>8, <2>1 DEF NodesOf
<1>10. \A e \in Descs : Nodes(U, e) = Nodes(desc, e) - dropped(e)
  <2> SUFFICES ASSUME NEW e \in Descs PROVE Nodes(U, e) = Nodes(desc, e) - dropped(e)
    OBVIOUS
  <2>1. NodesOf(desc, e) \cap Losers(e) = Losers(e)
    BY <1>4
  <2> QED
    BY <1>4, <1>9, <2>1, FS_Difference, ZenonT(30) DEF Nodes
<1>11. \A e \in Descs : U[e].refs = h[e] + Nodes(U, e)
  <2> HIDE DEF dropped, Losers
  <2> SUFFICES ASSUME NEW e \in Descs PROVE U[e].refs = h[e] + Nodes(U, e)
    OBVIOUS
  <2>1. CASE Freed(e)
    BY <1>1, <1>4, <1>5, <1>6, <1>8, <1>10, <2>1 DEF FreeDesc
  <2>2. CASE ~Freed(e)
    BY <1>1, <1>4, <1>5, <1>8, <1>10, <2>2
  <2> QED
    BY <2>1, <2>2
<1>12. \A e \in Descs : U[e].kind = "free" <=> U[e].refs = 0
  <2> HIDE DEF dropped, Losers
  <2> SUFFICES ASSUME NEW e \in Descs PROVE U[e].kind = "free" <=> U[e].refs = 0
    OBVIOUS
  <2>1. CASE Freed(e)
    BY <1>8, <2>1 DEF FreeDesc
  <2>2. CASE ~Freed(e)
    <3>1. /\ U[e].kind = desc[e].kind
          /\ desc[e].kind = "free" <=> desc[e].refs = 0
      BY <1>1, <1>8, <2>2 DEF Wellformed
    <3>2. desc[e].refs \in Nat /\ dropped(e) \in Nat /\ dropped(e) <= desc[e].refs
      BY <1>1, <1>4, <1>5
    <3>3. U[e].refs = 0 <=> desc[e].refs = 0
      BY <1>8, <2>2, <3>2
    <3> QED
      BY <3>1, <3>3
  <2> QED
    BY <2>1, <2>2
<1>13. Wellformed(U)
  <2> SUFFICES ASSUME NEW x \in Descs
               PROVE  /\ U[x].regs # {} => U[x].kind = "epoll"
                      /\ \A r \in U[x].regs : r.desc # NULL => U[r.desc].kind = "timerfd"
                      /\ \A r, s \in U[x].regs :
                           r.n = s.n \/ (r.desc = s.desc /\ r.desc # NULL) => r = s
    BY <1>12 DEF Wellformed
  <2> HIDE DEF dropped, Losers
  <2>1. U[x].regs # {} => U[x].kind = "epoll"
    BY <1>1, <1>6, <1>8 DEF Wellformed
  <2>2. ASSUME NEW r \in U[x].regs, r.desc # NULL PROVE U[r.desc].kind = "timerfd"
    <3>1. r \in desc[x].regs
      BY <1>8
    <3>2. r.desc \in Descs /\ desc[r.desc].kind = "timerfd"
      BY <1>1, <2>2, <3>1 DEF Wellformed, DescType, Reg
    <3>3. Nodes(U, r.desc) \in Nat /\ Nodes(U, r.desc) > 0
      BY NodesType
    <3>4. U[r.desc].refs # 0
      BY <1>1, <1>11, <3>2, <3>3
    <3> QED
      BY <1>8, <3>2, <3>4 DEF FreeDesc
  <2>3. \A r, s \in U[x].regs :
          r.n = s.n \/ (r.desc = s.desc /\ r.desc # NULL) => r = s
    BY <1>1, <1>8 DEF Wellformed
  <2> QED
    BY <2>1, <2>2, <2>3
<1>14. \A e \in Descs : U[e].regs \subseteq desc[e].regs /\ U[e].kind \in {desc[e].kind, "free"}
  <2> HIDE DEF dropped, Losers
  <2> QED
    BY <1>8 DEF FreeDesc
<1> HIDE DEF dropped
<1> QED
  BY <1>1, <1>8, <1>11, <1>13, <1>14 DEF AddsUp, Accounts, U

\* epoll_shim_ctx_create_desc: a free description gets its first reference.
LEMMA NewAddsUp ==
  ASSUME NEW D, NEW h, AddsUp(D, h), NEW d \in Descs, D[d].kind = "free",
         NEW kind \in Kinds,
         NEW g \in [Descs -> Nat], \A e \in Descs : g[e] = h[e] + Bit(e = d),
         NEW U \in [Descs -> DescType],
         U[d].kind = kind, U[d].refs = 1, U[d].regs = {},
         \A e \in Descs \ {d} : U[e] = D[e]
  PROVE  AddsUp(U, g)
<1>1. D \in [Descs -> DescType] /\ Wellformed(D) /\ h \in [Descs -> Nat]
  BY DEF AddsUp
<1>2. \A e \in Descs : D[e].refs = h[e] + Nodes(D, e) /\ Nodes(D, e) \in Nat /\ h[e] \in Nat
  BY NodesType DEF AddsUp, Accounts
<1>3. D[d].regs = {} /\ D[d].refs = 0 /\ Nodes(D, d) = 0 /\ h[d] = 0
  BY <1>1, <1>2 DEF Wellformed
<1>4. \A e \in Descs : NodesOf(U, e) = NodesOf(D, e)
  BY <1>3 DEF NodesOf
<1>5. Accounts(U, g)
  <2>1. \A e \in Descs : U[e].refs = g[e] + Nodes(D, e)
    BY <1>2, <1>3 DEF Bit
  <2> QED
    BY <1>4, <2>1 DEF Accounts, Nodes
<1>6. Wellformed(U)
  <2>1. \A e \in Descs : \A r \in U[e].regs : r.desc # NULL => r.desc \in Descs \ {d}
    <3>1. \A e \in Descs : \A r \in U[e].regs : r.desc # NULL => r.desc \in Descs
      BY DEF DescType, Reg
    <3>2. \A e \in Descs : \A r \in U[e].regs : r.desc # d
      BY <1>3, NodesType
    <3> QED
      BY <3>1, <3>2
  <2>2. kind # "free"
    BY ShimAssumption
  <2> QED
    BY <1>1, <2>1, <2>2 DEF Wellformed
<1> QED
  BY <1>5, <1>6 DEF AddsUp

-----------------------------------------------------------------------------
(* The table's and the threads' references.                                 *)

Firsts(l) == [t \in Threads |-> l[t].d]
Seconds(l) == [t \in Threads |-> l[t].d2]

OutsideOf(files, l) ==
  [d \in Descs |-> Count(Numbers, files, d) + Count(Threads, Firsts(l), d)
                     + Count(Threads, Seconds(l), d)]

Outside == OutsideOf(open_files, loc)

LEMMA OutsideType ==
  ASSUME NEW f, NEW l
  PROVE  /\ OutsideOf(f, l) \in [Descs -> Nat]
         /\ \A d \in Descs :
              /\ \A n \in Numbers : f[n] = d => OutsideOf(f, l)[d] > 0
              /\ \A t \in Threads : l[t].d = d \/ l[t].d2 = d => OutsideOf(f, l)[d] > 0
<1>1. \A d \in Descs : /\ Count(Numbers, f, d) \in Nat
                       /\ \A n \in Numbers : f[n] = d => Count(Numbers, f, d) > 0
  BY ShimAssumption, CountType
<1>2. \A d \in Descs :
        /\ Count(Threads, Firsts(l), d) \in Nat
        /\ \A t \in Threads : Firsts(l)[t] = d => Count(Threads, Firsts(l), d) > 0
  BY ShimAssumption, CountType
<1>3. \A d \in Descs :
        /\ Count(Threads, Seconds(l), d) \in Nat
        /\ \A t \in Threads : Seconds(l)[t] = d => Count(Threads, Seconds(l), d) > 0
  BY ShimAssumption, CountType
<1>4. \A t \in Threads : Firsts(l)[t] = l[t].d /\ Seconds(l)[t] = l[t].d2
  BY DEF Firsts, Seconds
<1> QED
  BY <1>1, <1>2, <1>3, <1>4 DEF OutsideOf

\* One thread's locals change.
LEMMA ThreadsUpdate ==
  ASSUME NEW t \in Threads, \A u \in Threads \ {t} : loc'[u] = loc[u], NEW d
  PROVE  /\ Count(Threads, Firsts(loc'), d)
              = Count(Threads, Firsts(loc), d) + Bit(loc'[t].d = d) - Bit(loc[t].d = d)
         /\ Count(Threads, Seconds(loc'), d)
              = Count(Threads, Seconds(loc), d) + Bit(loc'[t].d2 = d) - Bit(loc[t].d2 = d)
<1>1. /\ Firsts(loc')[t] = loc'[t].d /\ Firsts(loc)[t] = loc[t].d
      /\ Seconds(loc')[t] = loc'[t].d2 /\ Seconds(loc)[t] = loc[t].d2
      /\ \A u \in Threads : u # t => Firsts(loc')[u] = Firsts(loc)[u]
      /\ \A u \in Threads : u # t => Seconds(loc')[u] = Seconds(loc)[u]
  BY DEF Firsts, Seconds
<1>2. Count(Threads, Firsts(loc'), d)
        = Count(Threads, Firsts(loc), d) + Bit(Firsts(loc')[t] = d) - Bit(Firsts(loc)[t] = d)
  BY <1>1, ShimAssumption, CountUpdate
<1>3. Count(Threads, Seconds(loc'), d)
        = Count(Threads, Seconds(loc), d) + Bit(Seconds(loc')[t] = d) - Bit(Seconds(loc)[t] = d)
  BY <1>1, ShimAssumption, CountUpdate
<1> QED
  BY <1>1, <1>2, <1>3

\* One slot of the table and one thread's locals change.
LEMMA OutsideUpdate ==
  ASSUME NEW n \in Numbers, NEW t \in Threads,
         \A k \in Numbers \ {n} : open_files'[k] = open_files[k],
         \A u \in Threads \ {t} : loc'[u] = loc[u]
  PROVE  \A d \in Descs :
           OutsideOf(open_files', loc')[d] =
             OutsideOf(open_files, loc)[d]
               + Bit(open_files'[n] = d) - Bit(open_files[n] = d)
               + Bit(loc'[t].d = d) - Bit(loc[t].d = d)
               + Bit(loc'[t].d2 = d) - Bit(loc[t].d2 = d)
<1> SUFFICES ASSUME NEW d \in Descs
             PROVE  OutsideOf(open_files', loc')[d] =
                      OutsideOf(open_files, loc)[d]
                        + Bit(open_files'[n] = d) - Bit(open_files[n] = d)
                        + Bit(loc'[t].d = d) - Bit(loc[t].d = d)
                        + Bit(loc'[t].d2 = d) - Bit(loc[t].d2 = d)
  OBVIOUS
<1>1. Count(Numbers, open_files', d)
        = Count(Numbers, open_files, d) + Bit(open_files'[n] = d) - Bit(open_files[n] = d)
  <2>1. \A k \in Numbers : k # n => open_files'[k] = open_files[k]
    OBVIOUS
  <2>2. IsFiniteSet(Numbers)
    BY ShimAssumption
  <2> QED
    BY <2>1, <2>2, CountUpdate
<1>2. /\ Count(Threads, Firsts(loc'), d)
           = Count(Threads, Firsts(loc), d) + Bit(loc'[t].d = d) - Bit(loc[t].d = d)
      /\ Count(Threads, Seconds(loc'), d)
           = Count(Threads, Seconds(loc), d) + Bit(loc'[t].d2 = d) - Bit(loc[t].d2 = d)
  BY ThreadsUpdate
<1>3. /\ Count(Numbers, open_files, d) \in Nat /\ Count(Threads, Firsts(loc), d) \in Nat
      /\ Count(Threads, Seconds(loc), d) \in Nat
  BY ShimAssumption, CountType
<1>4. /\ Bit(open_files'[n] = d) \in Nat /\ Bit(open_files[n] = d) \in Nat
      /\ Bit(loc'[t].d = d) \in Nat /\ Bit(loc[t].d = d) \in Nat
      /\ Bit(loc'[t].d2 = d) \in Nat /\ Bit(loc[t].d2 = d) \in Nat
  BY DEF Bit
<1> QED
  BY <1>1, <1>2, <1>3, <1>4 DEF OutsideOf

\* RefsAddUp is the account of the descriptions there are.
LEMMA AccountIsRefs == Accounts(desc, Outside) <=> RefsAddUp
<1> SUFFICES ASSUME NEW d \in Descs PROVE Holders(d) = Outside[d] + Nodes(desc, d)
  BY DEF Accounts, RefsAddUp
<1>1. /\ {t \in Threads : loc[t].d = d} = {t \in Threads : Firsts(loc)[t] = d}
      /\ {t \in Threads : loc[t].d2 = d} = {t \in Threads : Seconds(loc)[t] = d}
  BY DEF Firsts, Seconds
<1> QED
  BY <1>1 DEF Holders, Outside, OutsideOf, Count, Nodes, NodesOf

-----------------------------------------------------------------------------
(* The inductive invariant.                                                 *)

Locals == [n : Nat, d : Descs \cup {NULL}, n2 : Nat, d2 : Descs \cup {NULL}]

Pcs == {"idle", "install", "close", "downgrade", "lock", "kclose", "use", "unref",
        "find", "add", "del"}

Types ==
  /\ open_files \in [Numbers -> Descs \cup {NULL}]
  /\ kern \in [Numbers -> {"none", "plain", "kq"}]
  /\ behind \subseteq Numbers
  /\ pc \in [Threads -> Pcs]
  /\ loc \in [Threads -> Locals]

Locking == {"install", "downgrade", "lock", "kclose"}

\* What a thread has at each place of its calls.
Place(t) ==
  /\ loc[t].d = NULL => pc[t] \in {"idle", "close", "downgrade", "lock", "kclose"}
  /\ loc[t].d # NULL => pc[t] \notin {"idle", "close", "kclose"}
  /\ loc[t].d2 # NULL => pc[t] \in {"add", "unref"}
  /\ pc[t] \in Locking \cup {"close"} => loc[t].n \in Numbers
  /\ pc[t] \in {"find", "add", "del"} =>
       loc[t].n2 \in Numbers /\ desc[loc[t].d].kind = "epoll"

Places == \A t \in Threads : Place(t)

\* One thread at most is past AcquireWrite, and the slot it works on is empty.
Lockers ==
  /\ writers = {t \in Threads : pc[t] \in {"install", "downgrade"}}
  /\ readers = {t \in Threads : pc[t] \in {"lock", "kclose"}}
  /\ \A t, u \in Threads : pc[t] \in Locking /\ pc[u] \in Locking => t = u
  /\ \A t \in Threads : pc[t] \in Locking => open_files[loc[t].n] = NULL

\* A description goes by one number, in the table, in what a thread is about to
\* do with it and in the nodes.
Carries(t, d, n) ==
  \/ pc[t] \in {"install", "downgrade", "lock"} /\ loc[t].d = d /\ loc[t].n = n
  \/ pc[t] = "add" /\ loc[t].d2 = d /\ loc[t].n2 = n

Named(d, n) ==
  \/ open_files[n] = d
  \/ \E t \in Threads : Carries(t, d, n)
  \/ \E e \in Descs : \E r \in desc[e].regs : r.desc = d /\ r.n = n

OneName ==
  \A d \in Descs, m, n \in Numbers : Named(d, m) /\ Named(d, n) => m = n

IInv ==
  /\ Types
  /\ AddsUp(desc, Outside)
  /\ Places
  /\ Lockers
  /\ OneName

\* One slot of the table and one thread's locals change.
LEMMA OutsideStep ==
  ASSUME NEW n \in Numbers, NEW t \in Threads,
         \A k \in Numbers \ {n} : open_files'[k] = open_files[k],
         \A u \in Threads \ {t} : loc'[u] = loc[u]
  PROVE  /\ Outside' \in [Descs -> Nat] /\ Outside \in [Descs -> Nat]
         /\ \A d \in Descs :
              Outside'[d] =
                Outside[d]
                  + Bit(open_files'[n] = d) - Bit(open_files[n] = d)
                  + Bit(loc'[t].d = d) - Bit(loc[t].d = d)
                  + Bit(loc'[t].d2 = d) - Bit(loc[t].d2 = d)
<1>1. Outside = OutsideOf(open_files, loc) /\ Outside' = OutsideOf(open_files', loc')
  BY DEF Outside, OutsideOf, Count, Firsts, Seconds
<1>2. Outside' \in [Descs -> Nat] /\ Outside \in [Descs -> Nat]
  BY <1>1, OutsideType
<1>3. \A d \in Descs :
        OutsideOf(open_files', loc')[d] =
          OutsideOf(open_files, loc)[d]
            + Bit(open_files'[n] = d) - Bit(open_files[n] = d)
            + Bit(loc'[t].d = d) - Bit(loc[t].d = d)
            + Bit(loc'[t].d2 = d) - Bit(loc[t].d2 = d)
  BY OutsideUpdate
<1> QED
  BY <1>1, <1>2, <1>3

\* Only a thread's locals change.
LEMMA LocalsStep ==
  ASSUME NEW t \in Threads, UNCHANGED open_files,
         \A u \in Threads \ {t} : loc'[u] = loc[u]
  PROVE  /\ Outside' \in [Descs -> Nat] /\ Outside \in [Descs -> Nat]
         /\ \A d \in Descs :
              Outside'[d] =
                Outside[d]
                  + Bit(loc'[t].d = d) - Bit(loc[t].d = d)
                  + Bit(loc'[t].d2 = d) - Bit(loc[t].d2 = d)
<1>1. Outside' \in [Descs -> Nat] /\ Outside \in [Descs -> Nat]
  BY OutsideType DEF Outside
<1>2. CASE Numbers = {}
  <2> SUFFICES ASSUME NEW d \in Descs
               PROVE  OutsideOf(open_files', loc')[d] =
                        OutsideOf(open_files, loc)[d]
                          + Bit(loc'[t].d = d) - Bit(loc[t].d = d)
                          + Bit(loc'[t].d2 = d) - Bit(loc[t].d2 = d)
    BY <1>1 DEF Outside
  <2>1. \A f, l : OutsideOf(f, l)[d] = Count(Threads, Firsts(l), d) + Count(Threads, Seconds(l), d)
    <3>1. \A f : Count(Numbers, f, d) = 0
      BY <1>2, FS_EmptySet DEF Count
    <3>2. \A l : Count(Threads, Firsts(l), d) \in Nat /\ Count(Threads, Seconds(l), d) \in Nat
      BY ShimAssumption, CountType
    <3> QED
      BY <3>1, <3>2 DEF OutsideOf
  <2>2. /\ Count(Threads, Firsts(loc'), d)
             = Count(Threads, Firsts(loc), d) + Bit(loc'[t].d = d) - Bit(loc[t].d = d)
        /\ Count(Threads, Seconds(loc'), d)
             = Count(Threads, Seconds(loc), d) + Bit(loc'[t].d2 = d) - Bit(loc[t].d2 = d)
    BY ThreadsUpdate
  <2>3. Count(Threads, Firsts(loc), d) \in Nat /\ Count(Threads, Seconds(loc), d) \in Nat
    BY ShimAssumption, CountType
  <2>4. /\ Bit(loc'[t].d = d) \in Nat /\ Bit(loc[t].d = d) \in Nat
        /\ Bit(loc'[t].d2 = d) \in Nat /\ Bit(loc[t].d2 = d) \in Nat
    BY DEF Bit
  <2> QED
    BY <2>1, <2>2, <2>3, <2>4
<1>3. CASE Numbers # {}
  <2>1. PICK n \in Numbers : TRUE
    BY <1>3
  <2>2. \A d \in Descs :
          Outside'[d] =
            Outside[d]
              + Bit(open_files[n] = d) - Bit(open_files[n] = d)
              + Bit(loc'[t].d = d) - Bit(loc[t].d = d)
              + Bit(loc'[t].d2 = d) - Bit(loc[t].d2 = d)
    BY OutsideStep
  <2> QED
    BY <1>1, <2>2 DEF Bit
<1> QED
  BY <1>1, <1>2, <1>3

-----------------------------------------------------------------------------
(* Steps of one thread.                                                     *)

Others(t) == \A u \in Threads \ {t} : pc'[u] = pc[u] /\ loc'[u] = loc[u]

\* No description comes to life or gets a node.
Shrinks(D, U) ==
  \A e \in Descs :
    /\ U[e].kind \in {D[e].kind, "free"}
    /\ \A r \in U[e].regs : \E s \in D[e].regs : r.n = s.n /\ r.desc = s.desc

\* The other threads' descriptors are epoll descriptors still: they hold them.
LEMMA PlacesKept ==
  ASSUME IInv, NEW t \in Threads, Others(t), Types', AddsUp(desc', Outside'),
         \A e \in Descs : desc'[e].kind = "free" \/ desc[e].kind \in {desc'[e].kind, "free"},
         Place(t)'
  PROVE  Places'
<1> SUFFICES ASSUME NEW u \in Threads, u # t PROVE Place(u)'
  BY DEF Places
<1>1. Place(u) /\ pc'[u] = pc[u] /\ loc'[u] = loc[u]
  BY DEF IInv, Places, Others
<1>2. CASE pc[u] \in {"find", "add", "del"}
  <2>1. loc[u].d \in Descs /\ desc[loc[u].d].kind = "epoll"
    BY <1>1, <1>2 DEF Place, IInv, Types, Pcs, Locals
  <2>2. Outside'[loc[u].d] > 0
    <3>1. Outside' = OutsideOf(open_files', loc')
      BY DEF Outside, OutsideOf, Count, Firsts, Seconds
    <3> QED
      BY <1>1, <2>1, <3>1, OutsideType
  <2>3. desc'[loc[u].d].kind # "free"
    BY <2>1, <2>2, CountedIsLive
  <2>4. desc'[loc[u].d].kind = "epoll"
    BY <2>1, <2>3
  <2> QED
    BY <1>1, <2>4 DEF Place
<1>3. CASE pc[u] \notin {"find", "add", "del"}
  BY <1>1, <1>3 DEF Place
<1> QED
  BY <1>2, <1>3

\* Who goes by a number after the step went by it before.
LEMMA NamesKept ==
  ASSUME IInv, NEW t \in Threads, Others(t),
         \A n \in Numbers : open_files'[n] \in Descs => Named(open_files'[n], n),
         \A d \in Descs, n \in Numbers : Carries(t, d, n)' => Named(d, n),
         \A e \in Descs : \A r \in desc'[e].regs : r.desc \in Descs => Named(r.desc, r.n)
  PROVE  OneName'
<1> SUFFICES ASSUME NEW d \in Descs, NEW n \in Numbers, Named(d, n)' PROVE Named(d, n)
  BY DEF IInv, OneName
<1>1. CASE open_files'[n] = d
  BY <1>1
<1>2. ASSUME NEW u \in Threads, Carries(u, d, n)' PROVE Named(d, n)
  <2>1. CASE u = t
    BY <1>2, <2>1
  <2>2. CASE u # t
    <3>1. Carries(u, d, n)
      BY <1>2, <2>2 DEF Others, Carries
    <3> QED
      BY <3>1 DEF Named
  <2> QED
    BY <2>1, <2>2
<1>3. ASSUME NEW e \in Descs, NEW r \in desc'[e].regs, r.desc = d, r.n = n PROVE Named(d, n)
  BY <1>3
<1> QED
  BY <1>1, <1>2, <1>3 DEF Named

\* A step that leaves the lock and the table alone, and brings nothing new.
LEMMA CallStep ==
  ASSUME IInv, NEW t \in Threads, Others(t), UNCHANGED <<lock, open_files>>,
         Types', AddsUp(desc', Outside'), Shrinks(desc, desc'),
         pc[t] \in Locking => pc'[t] = pc[t] /\ loc'[t] = loc[t],
         pc'[t] \in Locking => pc[t] \in Locking,
         pc'[t] = "add" => loc'[t].d2 = NULL \/ Named(loc'[t].d2, loc'[t].n2),
         Place(t)'
  PROVE  IInv'
<1>1. Places'
  BY PlacesKept DEF Shrinks
<1>2. Lockers'
  <2>1. \A u \in Threads : pc[u] \in Locking \/ pc'[u] \in Locking =>
          pc'[u] = pc[u] /\ loc'[u] = loc[u]
    BY DEF Others
  <2>2. \A u \in Threads : pc'[u] \in Locking <=> pc[u] \in Locking
    BY <2>1
  <2> QED
    BY <2>1, <2>2 DEF IInv, Lockers, lock, Locking
<1>3. OneName'
  <2>1. \A n \in Numbers : open_files'[n] \in Descs => Named(open_files'[n], n)
    BY DEF Named
  <2>2. \A d \in Descs, n \in Numbers : Carries(t, d, n)' => Named(d, n)
    <3> SUFFICES ASSUME NEW d \in Descs, NEW n \in Numbers, Carries(t, d, n)'
                 PROVE  Named(d, n)
      OBVIOUS
    <3>1. CASE pc'[t] = "add"
      BY <3>1, ShimAssumption DEF Carries
    <3>2. CASE pc'[t] # "add"
      <4>1. Carries(t, d, n)
        BY <3>2 DEF Carries, Locking
      <4> QED
        BY <4>1 DEF Named
    <3> QED
      BY <3>1, <3>2
  <2>3. \A e \in Descs : \A r \in desc'[e].regs : r.desc \in Descs => Named(r.desc, r.n)
    BY DEF Shrinks, Named
  <2> QED
    BY <2>1, <2>2, <2>3, NamesKept
<1> QED
  BY <1>1, <1>2, <1>3 DEF IInv

LEMMA NoLocalsType == NoLocals \in Locals
BY DEF NoLocals, Locals

\* A thread's call that leaves the locals' descriptions alone.
LEMMA SameOutside ==
  ASSUME NEW t \in Threads, Others(t), UNCHANGED open_files,
         loc'[t].d = loc[t].d, loc'[t].d2 = loc[t].d2
  PROVE  Outside' = Outside
<1>1. /\ Outside' \in [Descs -> Nat] /\ Outside \in [Descs -> Nat]
      /\ \A d \in Descs :
           Outside'[d] = Outside[d] + Bit(loc'[t].d = d) - Bit(loc[t].d = d)
                           + Bit(loc'[t].d2 = d) - Bit(loc[t].d2 = d)
  BY LocalsStep DEF Others
<1>2. \A d \in Descs : Outside'[d] = Outside[d]
  BY <1>1 DEF Bit
<1> QED
  BY <1>1, <1>2

\* A description of the table is held by one of the thread's locals too.
LEMMA HoldFirst ==
  ASSUME IInv, NEW t \in Threads, Others(t), NEW n \in Numbers, UNCHANGED open_files,
         open_files[n] # NULL, desc' = Ref(desc, open_files[n]),
         loc[t].d = NULL, loc'[t].d = open_files[n], loc'[t].d2 = loc[t].d2
  PROVE  AddsUp(desc', Outside') /\ Shrinks(desc, desc')
<1> DEFINE d == open_files[n]
<1>1. d \in Descs /\ AddsUp(desc, Outside)
  BY DEF IInv, Types, Pcs
<1>2. desc[d].kind # "free"
  <2>1. Outside[d] > 0
    BY <1>1, OutsideType DEF Outside
  <2> QED
    BY <1>1, <2>1, CountedIsLive
<1>3. /\ Outside' \in [Descs -> Nat] /\ Outside \in [Descs -> Nat]
      /\ \A e \in Descs :
           Outside'[e] = Outside[e] + Bit(loc'[t].d = e) - Bit(loc[t].d = e)
                           + Bit(loc'[t].d2 = e) - Bit(loc[t].d2 = e)
  BY LocalsStep DEF Others
<1>4. \A e \in Descs : Outside'[e] = Outside[e] + Bit(e = d)
  BY <1>1, <1>3, ShimAssumption DEF Bit
<1> HIDE DEF d
<1>5. /\ AddsUp(Ref(desc, d), Outside')
      /\ \A e \in Descs : /\ Ref(desc, d)[e].regs = desc[e].regs
                          /\ Ref(desc, d)[e].kind = desc[e].kind
  BY <1>1, <1>2, <1>3, <1>4, RefAddsUp
<1> QED
  BY <1>5 DEF Shrinks, d

LEMMA CallCloseIInv ==
  ASSUME IInv, NEW t \in Threads, NEW n \in Numbers, CallClose(t, n)
  PROVE  IInv'
<1> USE DEF CallClose, GoWith, table
<1>1. pc[t] = "idle" /\ loc[t].d = NULL /\ loc[t].d2 = NULL
  BY DEF IInv, Places, Place
<1>2. /\ pc' = [pc EXCEPT ![t] = "close"]
      /\ loc' = [loc EXCEPT ![t] = [NoLocals EXCEPT !.n = n]]
      /\ UNCHANGED <<lock, open_files, desc, kern, behind>>
  OBVIOUS
<1>3. /\ pc'[t] = "close"
      /\ loc'[t].n = n /\ loc'[t].d = NULL /\ loc'[t].d2 = NULL
      /\ loc'[t] \in Locals /\ Others(t)
  BY <1>2, ShimAssumption DEF IInv, Types, Pcs, Others, NoLocals, Locals
<1>4. Types'
  BY <1>2, <1>3 DEF IInv, Types, Pcs, Others
<1>5. AddsUp(desc', Outside')
  BY <1>1, <1>2, <1>3, SameOutside DEF IInv
<1>6. Place(t)'
  BY <1>3 DEF Place, Locking
<1> QED
  BY <1>1, <1>2, <1>3, <1>4, <1>5, <1>6, CallStep DEF Shrinks, Locking

LEMMA CallUseIInv ==
  ASSUME IInv, NEW t \in Threads, NEW n \in Numbers, CallUse(t, n)
  PROVE  IInv'
<1> DEFINE d == open_files[n]
<1>1. /\ pc[t] = "idle" /\ loc[t].d = NULL /\ loc[t].d2 = NULL
      /\ d \in Descs /\ d # NULL
  BY DEF CallUse, IInv, Places, Place, Types, Pcs
<1>2. /\ desc' = Ref(desc, d)
      /\ pc' = [pc EXCEPT ![t] = "use"]
      /\ loc' = [loc EXCEPT ![t] = [NoLocals EXCEPT !.d = d]]
      /\ UNCHANGED <<lock, open_files, kern, behind>>
  BY DEF CallUse, GoWith
<1>3. /\ pc'[t] = "use" /\ loc'[t].d = d /\ loc'[t].d2 = NULL
      /\ loc'[t] \in Locals /\ Others(t)
  BY <1>1, <1>2 DEF IInv, Types, Pcs, Others, NoLocals, Locals
<1>4. Types'
  BY <1>2, <1>3 DEF IInv, Types, Pcs, Others
<1>5. AddsUp(desc', Outside') /\ Shrinks(desc, desc')
  BY <1>1, <1>2, <1>3, HoldFirst
<1>6. Place(t)'
  BY <1>1, <1>3 DEF Place, Locking
<1> QED
  BY <1>1, <1>2, <1>3, <1>4, <1>5, <1>6, CallStep DEF Locking

LEMMA CallCtlIInv ==
  ASSUME IInv, NEW t \in Threads, NEW n \in Numbers, NEW n2 \in Watched, CallCtl(t, n, n2)
  PROVE  IInv'
<1> DEFINE d == open_files[n]
<1>1. /\ pc[t] = "idle" /\ loc[t].d = NULL /\ loc[t].d2 = NULL
      /\ d \in Descs /\ d # NULL /\ desc[d].kind = "epoll"
      /\ n2 \in Numbers /\ n2 \in Nat
  BY ShimAssumption DEF CallCtl, IInv, Places, Place, Types, Pcs
<1>2. PICK to \in {"find", "del"} :
        pc' = [pc EXCEPT ![t] = to]
        /\ loc' = [loc EXCEPT ![t] = [NoLocals EXCEPT !.d = d, !.n2 = n2]]
  BY DEF CallCtl, GoWith
<1>3. desc' = Ref(desc, d) /\ UNCHANGED <<lock, open_files, kern, behind>>
  BY DEF CallCtl
<1>4. /\ pc'[t] \in {"find", "del"}
      /\ loc'[t].d = d /\ loc'[t].d2 = NULL /\ loc'[t].n2 = n2
      /\ loc'[t] \in Locals /\ Others(t)
  BY <1>1, <1>2 DEF IInv, Types, Pcs, Others, NoLocals, Locals
<1>5. Types'
  BY <1>2, <1>3, <1>4 DEF IInv, Types, Pcs, Others
<1>6. AddsUp(desc', Outside') /\ Shrinks(desc, desc')
  BY <1>1, <1>3, <1>4, HoldFirst
<1>7. desc'[d].kind = "epoll"
  BY <1>1, <1>3, RefAddsUp DEF Ref, IInv, AddsUp, DescType
<1>8. Place(t)'
  BY <1>1, <1>4, <1>7 DEF Place, Locking
<1> QED
  BY <1>1, <1>3, <1>4, <1>5, <1>6, <1>8, CallStep DEF Locking

LEMMA UseDescIInv ==
  ASSUME IInv, NEW t \in Threads, UseDesc(t)
  PROVE  IInv'
<1>1. /\ pc[t] = "use" /\ pc' = [pc EXCEPT ![t] = "unref"] /\ Others(t)
      /\ pc'[t] = "unref" /\ UNCHANGED <<lock, open_files, desc, kern, behind, loc>>
  BY DEF UseDesc, Go, table, Others, IInv, Types, Pcs
<1>2. Types'
  BY <1>1 DEF IInv, Types, Pcs
<1>3. AddsUp(desc', Outside')
  BY <1>1, SameOutside DEF IInv
<1>4. Place(t)'
  BY <1>1 DEF Place, Places, IInv, Locking
<1> QED
  BY <1>1, <1>2, <1>3, <1>4, CallStep DEF Shrinks, Locking

\* The two references of a call are given back.
LEMMA UnrefDescIInv ==
  ASSUME IInv, NEW t \in Threads, UnrefDesc(t)
  PROVE  IInv'
<1> DEFINE d == loc[t].d
           d2 == loc[t].d2
           g == [e \in Descs |-> Outside'[e] + Bit(e = d)]
           D == Unref(desc, d2)
<1>1. pc[t] = "unref" /\ {d, d2} \subseteq Descs \cup {NULL} /\ AddsUp(desc, Outside)
  BY DEF UnrefDesc, IInv, Types, Pcs, Locals
<1>2. /\ desc' = Unref(D, d)
      /\ pc' = [pc EXCEPT ![t] = "idle"]
      /\ loc' = [loc EXCEPT ![t] = NoLocals]
      /\ UNCHANGED <<lock, open_files, kern, behind>>
  BY DEF UnrefDesc, GoWith
<1>3. /\ pc'[t] = "idle" /\ loc'[t].d = NULL /\ loc'[t].d2 = NULL
      /\ loc'[t] \in Locals /\ Others(t)
  BY <1>2, NoLocalsType DEF IInv, Types, Pcs, Others, NoLocals
<1>4. /\ Outside' \in [Descs -> Nat] /\ Outside \in [Descs -> Nat]
      /\ \A e \in Descs :
           Outside'[e] = Outside[e] + Bit(loc'[t].d = e) - Bit(d = e)
                           + Bit(loc'[t].d2 = e) - Bit(d2 = e)
  BY <1>2, <1>3, LocalsStep DEF Others
<1>5. \A e \in Descs : Outside'[e] = Outside[e] - Bit(e = d) - Bit(e = d2)
  BY <1>3, <1>4, ShimAssumption DEF Bit
<1>6. /\ g \in [Descs -> Nat]
      /\ \A e \in Descs : g[e] = Outside[e] - Bit(e = d2) /\ Outside'[e] = g[e] - Bit(e = d)
  BY <1>4, <1>5 DEF Bit
<1>7. d2 \in Descs => Outside[d2] > 0
  BY OutsideType DEF Outside
<1>8. d \in Descs => g[d] > 0
  BY <1>4 DEF Bit
<1> HIDE DEF g, D
<1>9. AddsUp(D, g) /\ \A e \in Descs : /\ D[e].regs \subseteq desc[e].regs
                                       /\ D[e].kind \in {desc[e].kind, "free"}
  BY <1>1, <1>6, <1>7, UnrefAddsUp DEF D
<1>10. AddsUp(desc', Outside') /\ \A e \in Descs : /\ desc'[e].regs \subseteq D[e].regs
                                                   /\ desc'[e].kind \in {D[e].kind, "free"}
  BY <1>1, <1>2, <1>4, <1>6, <1>8, <1>9, UnrefAddsUp
<1>11. Shrinks(desc, desc')
  BY <1>9, <1>10 DEF Shrinks
<1>12. Types'
  BY <1>2, <1>3 DEF IInv, Types, Pcs, Others
<1>13. Place(t)'
  BY <1>3 DEF Place, Locking
<1> QED
  BY <1>1, <1>2, <1>3, <1>10, <1>11, <1>12, <1>13, CallStep DEF Locking

LEMMA CtlFindsIInv ==
  ASSUME IInv, NEW t \in Threads, CtlFinds(t)
  PROVE  IInv'
<1> DEFINE n == loc[t].n2
           d == open_files[n]
<1>1. /\ pc[t] = "find" /\ loc[t].d2 = NULL /\ loc[t].d \in Descs /\ loc[t] \in Locals
      /\ n \in Numbers /\ d \in Descs \cup {NULL} /\ desc[loc[t].d].kind = "epoll"
  BY DEF CtlFinds, IInv, Places, Place, Types, Pcs, Locals
<1>2. /\ desc' = Ref(desc, d)
      /\ pc' = [pc EXCEPT ![t] = "add"]
      /\ loc' = [loc EXCEPT ![t] = [loc[t] EXCEPT !.d2 = d]]
      /\ UNCHANGED <<lock, open_files, kern, behind>>
  BY DEF CtlFinds, GoWith
<1>3. /\ pc'[t] = "add" /\ loc'[t].d = loc[t].d /\ loc'[t].d2 = d /\ loc'[t].n2 = n
      /\ loc'[t] \in Locals /\ Others(t)
  BY <1>1, <1>2 DEF IInv, Types, Pcs, Others, Locals
<1>4. Types'
  BY <1>2, <1>3 DEF IInv, Types, Pcs, Others
<1>5. AddsUp(desc, Outside)
  BY DEF IInv
<1>6. d # NULL => desc[d].kind # "free"
  <2>1. d # NULL => Outside[d] > 0
    BY <1>1, OutsideType DEF Outside
  <2> QED
    BY <1>1, <1>5, <2>1, CountedIsLive
<1>7. /\ Outside' \in [Descs -> Nat] /\ Outside \in [Descs -> Nat]
      /\ \A e \in Descs : Outside'[e] = Outside[e] + Bit(e = d)
  <2>1. /\ Outside' \in [Descs -> Nat] /\ Outside \in [Descs -> Nat]
        /\ \A e \in Descs :
             Outside'[e] = Outside[e] + Bit(loc'[t].d = e) - Bit(loc[t].d = e)
                             + Bit(loc'[t].d2 = e) - Bit(loc[t].d2 = e)
    BY <1>2, <1>3, LocalsStep DEF Others
  <2> QED
    BY <1>1, <1>3, <2>1, ShimAssumption DEF Bit
<1>8. /\ AddsUp(desc', Outside')
      /\ \A e \in Descs : desc'[e].regs = desc[e].regs /\ desc'[e].kind = desc[e].kind
  BY <1>1, <1>2, <1>5, <1>6, <1>7, RefAddsUp
<1>9. Place(t)'
  BY <1>1, <1>3, <1>8, ShimAssumption DEF Place, Locking
<1>10. Named(d, n)
  BY DEF Named
<1> QED
  BY <1>1, <1>2, <1>3, <1>4, <1>8, <1>9, <1>10, CallStep DEF Shrinks, Locking

\* A node goes, by EPOLL_CTL_DEL or because its file is not there.
LEMMA RemovesIInv ==
  ASSUME IInv, NEW t \in Threads, CtlDels(t) \/ CtlAdds(t), RemovesNode(t)
  PROVE  IInv'
<1> DEFINE n == loc[t].n2
           x == loc[t].d
           rs == {r \in desc[x].regs : r.n = n}
           D == [desc EXCEPT ![x].regs = @ \ rs]
<1>1. /\ pc[t] \in {"add", "del"} /\ x \in Descs /\ loc[t] \in Locals
      /\ desc[x].kind = "epoll"
  BY DEF CtlDels, CtlAdds, IInv, Places, Place, Types, Pcs, Locals
<1>2. /\ pc' = [pc EXCEPT ![t] = "unref"]
      /\ loc' = [loc EXCEPT ![t] = [loc[t] EXCEPT !.n2 = 0]]
      /\ desc' = IF rs = {} THEN D ELSE Unref(D, (CHOOSE r \in rs : TRUE).desc)
      /\ UNCHANGED <<lock, open_files, kern, behind>>
  BY DEF CtlDels, CtlAdds, RemovesNode, Found, GoWith
<1>3. /\ pc'[t] = "unref" /\ loc'[t].d = x /\ loc'[t].d2 = loc[t].d2
      /\ loc'[t] \in Locals /\ Others(t)
  BY <1>1, <1>2 DEF IInv, Types, Pcs, Others, Locals
<1>4. Types'
  BY <1>2, <1>3 DEF IInv, Types, Pcs, Others
<1>5. AddsUp(desc, Outside) /\ Outside' = Outside /\ Outside \in [Descs -> Nat]
  BY <1>2, <1>3, SameOutside DEF IInv, AddsUp
<1>6. Place(t)'
  BY <1>1, <1>3, ShimAssumption DEF Place, Places, IInv, Locking
<1>7. AddsUp(desc', Outside') /\ Shrinks(desc, desc')
  <2>1. CASE rs = {}
    <3>1. desc \in [Descs -> DescType]
      BY <1>5 DEF AddsUp
    <3>2. desc[x].regs \ rs = desc[x].regs
      BY <2>1
    <3>3. D = desc
      BY <1>1, <3>1, <3>2 DEF DescType
    <3> QED
      BY <1>2, <1>5, <2>1, <3>3 DEF Shrinks
  <2>2. CASE rs # {}
    <3> DEFINE r == CHOOSE s \in rs : TRUE
               g == [e \in Descs |-> Outside[e] + Bit(e = r.desc)]
    <3>1. r \in rs
      BY <2>2
    <3> HIDE DEF r
    <3>2. rs = {r}
      BY <1>1, <1>5, <3>1 DEF AddsUp, Wellformed
    <3>3. r \in desc[x].regs /\ r.desc \in Descs \cup {NULL}
      BY <1>1, <1>5, <3>1 DEF AddsUp, DescType, Reg
    <3>4. D = [desc EXCEPT ![x].regs = @ \ {r}]
      BY <3>2
    <3>5. /\ g \in [Descs -> Nat]
          /\ \A e \in Descs : g[e] = Outside[e] + Bit(e = r.desc)
          /\ \A e \in Descs : Outside[e] = g[e] - Bit(e = r.desc)
          /\ r.desc # NULL => g[r.desc] > 0
      BY <1>5, <3>3 DEF Bit
    <3> HIDE DEF g
    <3>6. AddsUp(D, g)
      BY <1>1, <1>5, <3>3, <3>4, <3>5, NodeTaken
    <3>7. /\ desc' = Unref(D, r.desc)
          /\ \A e \in Descs : D[e].regs \subseteq desc[e].regs /\ D[e].kind = desc[e].kind
      BY <1>1, <1>2, <1>5, <2>2 DEF r, AddsUp, DescType
    <3> HIDE DEF D
    <3>8. /\ AddsUp(desc', Outside)
          /\ \A e \in Descs : /\ desc'[e].regs \subseteq D[e].regs
                              /\ desc'[e].kind \in {D[e].kind, "free"}
      BY <1>5, <3>3, <3>5, <3>6, <3>7, UnrefAddsUp
    <3> QED
      BY <1>5, <3>7, <3>8 DEF Shrinks
  <2> QED
    BY <2>1, <2>2
<1> QED
  BY <1>1, <1>2, <1>3, <1>4, <1>6, <1>7, CallStep DEF Locking

LEMMA CtlDelsIInv ==
  ASSUME IInv, NEW t \in Threads, CtlDels(t)
  PROVE  IInv'
BY RemovesIInv DEF CtlDels

\* A node's description is the one its number has, so that a descriptor that has
\* no node of the number has none of the description.
LEMMA CtlAddsIInv ==
  ASSUME IInv, NEW t \in Threads, CtlAdds(t)
  PROVE  IInv'
<1> DEFINE n == loc[t].n2
           x == loc[t].d
           r == Node(n, loc[t].d2)
<1>1. /\ pc[t] = "add" /\ x \in Descs /\ loc[t].d2 \in Descs \cup {NULL}
      /\ loc[t] \in Locals /\ n \in Numbers /\ desc[x].kind = "epoll"
  BY DEF CtlAdds, IInv, Places, Place, Types, Pcs, Locals
<1>2. /\ pc' = [pc EXCEPT ![t] = "unref"]
      /\ loc' = [loc EXCEPT ![t] = [loc[t] EXCEPT !.n2 = 0]]
      /\ UNCHANGED <<lock, open_files, kern, behind>>
  BY DEF CtlAdds, GoWith
<1>3. /\ pc'[t] = "unref" /\ loc'[t].d = x /\ loc'[t].d2 = loc[t].d2
      /\ loc'[t] \in Locals /\ Others(t)
  BY <1>1, <1>2 DEF IInv, Types, Pcs, Others, Locals
<1>4. Types'
  BY <1>2, <1>3 DEF IInv, Types, Pcs, Others
<1>5. AddsUp(desc, Outside) /\ Outside' = Outside
  BY <1>2, <1>3, SameOutside DEF IInv
<1>6. Place(t)'
  BY <1>1, <1>3, ShimAssumption DEF Place, Locking
<1>7. CASE UNCHANGED desc
  <2>1. desc' = desc
    BY <1>7
  <2> QED
    BY <1>1, <1>2, <1>3, <1>4, <1>5, <1>6, <2>1, CallStep DEF Shrinks, Locking
<1>8. CASE Found(t) = {} /\ Registers(t)
  <2>1. desc' = [Ref(desc, r.desc) EXCEPT ![x].regs = @ \cup {r}]
    BY <1>8 DEF Registers
  <2>2. /\ r \in Reg /\ r.n = n /\ r.desc \in {loc[t].d2, NULL}
        /\ r.desc # NULL => desc[r.desc].kind = "timerfd"
    BY <1>1 DEF Node, Pollable, Live, Reg
  <2> HIDE DEF r
  <2>3. r.desc # NULL => r.desc \in Descs /\ Named(r.desc, n)
    BY <1>1, <2>2 DEF Named, Carries
  <2>4. \A s \in desc[x].regs : s.n # n /\ (r.desc # NULL => s.desc # r.desc)
    <3> SUFFICES ASSUME NEW s \in desc[x].regs, r.desc # NULL, s.desc = r.desc PROVE FALSE
      BY <1>8 DEF Found
    <3>1. s.n \in Numbers
      BY <1>1, <1>5 DEF AddsUp, DescType, Reg
    <3>2. Named(r.desc, s.n)
      BY <1>1 DEF Named
    <3>3. s.n = n
      BY <1>1, <2>3, <3>1, <3>2 DEF IInv, OneName
    <3> QED
      BY <1>8, <3>3 DEF Found
  <2>5. AddsUp(desc', Outside')
    BY <1>1, <1>5, <2>1, <2>2, <2>4, NodeAddsUp
  <2>6. \A e \in Descs : /\ desc'[e].kind = desc[e].kind
                         /\ \A s \in desc'[e].regs : s = r \/ s \in desc[e].regs
    BY <1>1, <1>5, <2>1 DEF Ref, AddsUp, DescType
  <2>7. Places'
    BY <1>3, <1>4, <1>6, <2>5, <2>6, PlacesKept
  <2>8. Lockers'
    <3>1. \A u \in Threads : pc[u] \in Locking \/ pc'[u] \in Locking =>
            pc'[u] = pc[u] /\ loc'[u] = loc[u]
      BY <1>1, <1>3 DEF Others, Locking
    <3>2. \A u \in Threads : pc'[u] \in Locking <=> pc[u] \in Locking
      BY <3>1
    <3> QED
      BY <1>2, <3>1, <3>2 DEF IInv, Lockers, lock, Locking
  <2>9. OneName'
    <3>1. \A k \in Numbers : open_files'[k] \in Descs => Named(open_files'[k], k)
      BY <1>2 DEF Named
    <3>2. \A d \in Descs, k \in Numbers : Carries(t, d, k)' => Named(d, k)
      BY <1>3 DEF Carries
    <3>3. \A e \in Descs : \A s \in desc'[e].regs : s.desc \in Descs => Named(s.desc, s.n)
      BY <2>2, <2>3, <2>6, ShimAssumption DEF Named
    <3> QED
      BY <1>3, <3>1, <3>2, <3>3, NamesKept
  <2> QED
    BY <1>4, <2>5, <2>7, <2>8, <2>9 DEF IInv
<1>9. CASE RemovesNode(t)
  BY <1>9, RemovesIInv
<1> QED
  BY <1>7, <1>8, <1>9 DEF CtlAdds

\* A step with the lock.
LEMMA LockStep ==
  ASSUME IInv, NEW t \in Threads, Others(t), Types', Lockers',
         AddsUp(desc', Outside'), Shrinks(desc, desc'),
         \A n \in Numbers : open_files'[n] \in Descs => Named(open_files'[n], n),
         \A d \in Descs, n \in Numbers : Carries(t, d, n)' => Named(d, n),
         Place(t)'
  PROVE  IInv'
<1>1. Places'
  BY PlacesKept DEF Shrinks
<1>2. \A e \in Descs : \A r \in desc'[e].regs : r.desc \in Descs => Named(r.desc, r.n)
  BY DEF Shrinks, Named
<1>3. OneName'
  BY <1>2, NamesKept
<1> QED
  BY <1>1, <1>3 DEF IInv

LEMMA InstallDescIInv ==
  ASSUME IInv, NEW t \in Threads, InstallDesc(t)
  PROVE  IInv'
<1> DEFINE n == loc[t].n
           d == loc[t].d
<1>1. /\ pc[t] = "install" /\ n \in Numbers /\ d \in Descs /\ d # NULL
      /\ loc[t].d2 = NULL /\ open_files[n] = NULL
  BY ShimAssumption DEF InstallDesc, IInv, Places, Place, Types, Pcs, Locals, Lockers, Locking
<1>2. /\ open_files' = [open_files EXCEPT ![n] = d]
      /\ pc' = [pc EXCEPT ![t] = "idle"]
      /\ loc' = [loc EXCEPT ![t] = NoLocals]
      /\ writers' = writers \ {t} /\ UNCHANGED <<readers, desc, kern, behind>>
  BY DEF InstallDesc, GoWith, Lock!ReleaseWrite
<1>3. /\ pc'[t] = "idle" /\ loc'[t].d = NULL /\ loc'[t].d2 = NULL
      /\ loc'[t] \in Locals /\ Others(t)
      /\ open_files'[n] = d /\ \A k \in Numbers \ {n} : open_files'[k] = open_files[k]
  BY <1>1, <1>2, NoLocalsType DEF IInv, Types, Pcs, Others, NoLocals
<1>4. Types'
  BY <1>1, <1>2, <1>3 DEF IInv, Types, Pcs, Others
<1>5. AddsUp(desc', Outside')
  <2>1. /\ Outside' \in [Descs -> Nat] /\ Outside \in [Descs -> Nat]
        /\ \A e \in Descs :
             Outside'[e] = Outside[e] + Bit(open_files'[n] = e) - Bit(open_files[n] = e)
                             + Bit(loc'[t].d = e) - Bit(loc[t].d = e)
                             + Bit(loc'[t].d2 = e) - Bit(loc[t].d2 = e)
    BY <1>1, <1>3, OutsideStep DEF Others
  <2>2. \A e \in Descs : Outside'[e] = Outside[e]
    BY <1>1, <1>3, <2>1 DEF Bit
  <2>3. Outside' = Outside
    BY <2>1, <2>2
  <2> QED
    BY <1>2, <2>3 DEF IInv
<1>6. Lockers'
  <2>1. \A u \in Threads : pc'[u] \notin Locking
    BY <1>1, <1>3 DEF IInv, Lockers, Others, Locking
  <2>2. writers' = {} /\ readers' = {}
    BY <1>1, <1>2 DEF IInv, Lockers, Locking
  <2> QED
    BY <2>1, <2>2 DEF Lockers, Locking
<1>7. \A k \in Numbers : open_files'[k] \in Descs => Named(open_files'[k], k)
  BY <1>1, <1>3 DEF Named, Carries
<1>8. Place(t)'
  BY <1>3 DEF Place, Locking
<1> QED
  BY <1>2, <1>3, <1>4, <1>5, <1>6, <1>7, <1>8, LockStep DEF Shrinks, Carries

LEMMA DropDescIInv ==
  ASSUME IInv, NEW t \in Threads, DropDesc(t)
  PROVE  IInv'
<1> DEFINE n == loc[t].n
           d == loc[t].d
           D == Unref(desc, d)
<1>1. /\ pc[t] = "install" /\ n \in Numbers /\ d \in Descs
      /\ loc[t].d2 = NULL /\ AddsUp(desc, Outside)
  BY ShimAssumption DEF DropDesc, IInv, Places, Place, Types, Pcs, Locals, Locking
<1>2. /\ desc' = Gone(D, n)
      /\ pc' = [pc EXCEPT ![t] = "idle"]
      /\ loc' = [loc EXCEPT ![t] = NoLocals]
      /\ kern' = [kern EXCEPT ![n] = "none"]
      /\ writers' = writers \ {t} /\ UNCHANGED <<readers, open_files, behind>>
  BY DEF DropDesc, GoWith, Lock!ReleaseWrite
<1>3. /\ pc'[t] = "idle" /\ loc'[t].d = NULL /\ loc'[t].d2 = NULL
      /\ loc'[t] \in Locals /\ Others(t)
  BY <1>2, NoLocalsType DEF IInv, Types, Pcs, Others, NoLocals
<1>4. Types'
  BY <1>1, <1>2, <1>3 DEF IInv, Types, Pcs, Others
<1>5. /\ Outside' \in [Descs -> Nat]
      /\ \A e \in Descs : Outside'[e] = Outside[e] - Bit(e = d)
  <2>1. /\ Outside' \in [Descs -> Nat] /\ Outside \in [Descs -> Nat]
        /\ \A e \in Descs :
             Outside'[e] = Outside[e] + Bit(loc'[t].d = e) - Bit(loc[t].d = e)
                             + Bit(loc'[t].d2 = e) - Bit(loc[t].d2 = e)
    BY <1>2, <1>3, LocalsStep DEF Others
  <2> QED
    BY <1>1, <1>3, <2>1, ShimAssumption DEF Bit
<1>6. Outside[d] > 0
  BY <1>1, OutsideType DEF Outside
<1> HIDE DEF D
<1>7. /\ AddsUp(D, Outside')
      /\ \A e \in Descs : /\ D[e].regs \subseteq desc[e].regs
                          /\ D[e].kind \in {desc[e].kind, "free"}
  BY <1>1, <1>5, <1>6, UnrefAddsUp DEF D
<1>8. desc' \in [Descs -> DescType] /\ Marks(D, desc')
  BY <1>2, <1>7, GoneMarks DEF AddsUp
<1>9. AddsUp(desc', Outside') /\ Shrinks(desc, desc')
  <2>1. AddsUp(desc', Outside')
    BY <1>7, <1>8, MarksAddsUp
  <2> QED
    BY <1>7, <1>8, <2>1 DEF Marks, Shrinks
<1>10. Lockers'
  <2>1. \A u \in Threads : pc'[u] \notin Locking
    BY <1>1, <1>3 DEF IInv, Lockers, Others, Locking
  <2>2. writers' = {} /\ readers' = {}
    BY <1>1, <1>2 DEF IInv, Lockers, Locking
  <2> QED
    BY <2>1, <2>2 DEF Lockers, Locking
<1>11. \A k \in Numbers : open_files'[k] \in Descs => Named(open_files'[k], k)
  BY <1>2 DEF Named
<1>12. Place(t)'
  BY <1>3 DEF Place, Locking
<1> QED
  BY <1>3, <1>4, <1>9, <1>10, <1>11, <1>12, LockStep DEF Carries

LEMMA CloseClearsIInv ==
  ASSUME IInv, NEW t \in Threads, CloseClears(t)
  PROVE  IInv'
<1> DEFINE n == loc[t].n
           d == open_files[n]
<1>1. /\ pc[t] = "close" /\ n \in Numbers /\ d \in Descs \cup {NULL}
      /\ loc[t].d = NULL /\ loc[t].d2 = NULL /\ loc[t] \in Locals
      /\ writers = {} /\ readers = {}
  BY DEF CloseClears, IInv, Places, Place, Types, Pcs, Lock!AcquireWrite
<1>2. /\ open_files' = [open_files EXCEPT ![n] = NULL]
      /\ behind' = behind \ {n}
      /\ pc' = [pc EXCEPT ![t] = "downgrade"]
      /\ loc' = [loc EXCEPT ![t] = [loc[t] EXCEPT !.d = d]]
      /\ writers' = {t} /\ UNCHANGED <<readers, desc, kern>>
  BY DEF CloseClears, GoWith, Lock!AcquireWrite
<1>3. /\ pc'[t] = "downgrade" /\ loc'[t].d = d /\ loc'[t].d2 = NULL /\ loc'[t].n = n
      /\ loc'[t] \in Locals /\ Others(t)
      /\ open_files'[n] = NULL /\ \A k \in Numbers \ {n} : open_files'[k] = open_files[k]
  BY <1>1, <1>2 DEF IInv, Types, Pcs, Others, Locals
<1>4. Types'
  BY <1>1, <1>2, <1>3 DEF IInv, Types, Pcs, Others
<1>5. AddsUp(desc', Outside')
  <2>1. /\ Outside' \in [Descs -> Nat] /\ Outside \in [Descs -> Nat]
        /\ \A e \in Descs :
             Outside'[e] = Outside[e] + Bit(open_files'[n] = e) - Bit(open_files[n] = e)
                             + Bit(loc'[t].d = e) - Bit(loc[t].d = e)
                             + Bit(loc'[t].d2 = e) - Bit(loc[t].d2 = e)
    BY <1>1, <1>3, OutsideStep DEF Others
  <2>2. \A e \in Descs : Outside'[e] = Outside[e]
    BY <1>1, <1>3, <2>1 DEF Bit
  <2>3. Outside' = Outside
    BY <2>1, <2>2
  <2> QED
    BY <1>2, <2>3 DEF IInv
<1>6. Lockers'
  <2>1. \A u \in Threads : pc[u] \notin Locking
    BY <1>1 DEF IInv, Lockers, Locking
  <2>2. \A u \in Threads : pc'[u] \in Locking => u = t
    BY <2>1, <1>3 DEF Others
  <2> QED
    BY <1>1, <1>2, <1>3, <2>2 DEF Lockers, Locking
<1>7. \A k \in Numbers : open_files'[k] \in Descs => Named(open_files'[k], k)
  BY <1>1, <1>3, ShimAssumption DEF Named
<1>8. \A e \in Descs, k \in Numbers : Carries(t, e, k)' => Named(e, k)
  BY <1>3 DEF Carries, Named
<1>9. Place(t)'
  BY <1>1, <1>3, ShimAssumption DEF Place, Locking
<1> QED
  BY <1>2, <1>3, <1>4, <1>5, <1>6, <1>7, <1>8, <1>9, LockStep DEF Shrinks

LEMMA CloseDowngradesIInv ==
  ASSUME IInv, NEW t \in Threads, CloseDowngrades(t)
  PROVE  IInv'
<1>1. /\ pc[t] = "downgrade" /\ pc' = [pc EXCEPT ![t] = "lock"] /\ Others(t)
      /\ pc'[t] = "lock" /\ UNCHANGED <<open_files, desc, kern, behind, loc>>
      /\ writers' = writers \ {t} /\ readers' = readers \cup {t}
  BY DEF CloseDowngrades, Go, table, Others, IInv, Types, Pcs, Lock!Downgrade
<1>2. Types'
  BY <1>1 DEF IInv, Types, Pcs
<1>3. AddsUp(desc', Outside')
  BY <1>1, SameOutside DEF IInv
<1>4. Lockers'
  <2>1. \A u \in Threads : pc[u] \in Locking <=> u = t
    BY <1>1 DEF IInv, Lockers, Locking
  <2>2. \A u \in Threads : pc'[u] \in Locking <=> u = t
    BY <2>1, <1>1 DEF Others, Locking
  <2> QED
    BY <1>1, <2>1, <2>2 DEF IInv, Lockers, Locking
<1>5. \A k \in Numbers : open_files'[k] \in Descs => Named(open_files'[k], k)
  BY <1>1 DEF Named
<1>6. \A e \in Descs, k \in Numbers : Carries(t, e, k)' => Named(e, k)
  BY <1>1 DEF Carries, Named
<1>7. Place(t)'
  BY <1>1 DEF Place, Places, IInv, Locking
<1> QED
  BY <1>1, <1>2, <1>3, <1>4, <1>5, <1>6, <1>7, LockStep DEF Shrinks

LEMMA CloseRemovesIInv ==
  ASSUME IInv, NEW t \in Threads, CloseRemoves(t)
  PROVE  IInv'
<1> DEFINE n == loc[t].n
           d == loc[t].d
           D == Removed(n)
<1>1. /\ pc[t] = "lock" /\ n \in Numbers /\ d \in Descs \cup {NULL} /\ loc[t] \in Locals
      /\ loc[t].d2 = NULL /\ AddsUp(desc, Outside)
  BY DEF CloseRemoves, IInv, Places, Place, Types, Pcs, Locals, Locking
<1>2. /\ desc' = Unref(D, d)
      /\ pc' = [pc EXCEPT ![t] = "kclose"]
      /\ loc' = [loc EXCEPT ![t] = [loc[t] EXCEPT !.d = NULL]]
      /\ UNCHANGED <<lock, open_files, kern, behind>>
  BY DEF CloseRemoves, GoWith
<1>3. /\ pc'[t] = "kclose" /\ loc'[t].d = NULL /\ loc'[t].d2 = NULL /\ loc'[t].n = n
      /\ loc'[t] \in Locals /\ Others(t)
  BY <1>1, <1>2 DEF IInv, Types, Pcs, Others, Locals
<1>4. Types'
  BY <1>1, <1>2, <1>3 DEF IInv, Types, Pcs, Others
<1>5. /\ Outside' \in [Descs -> Nat]
      /\ \A e \in Descs : Outside'[e] = Outside[e] - Bit(e = d)
  <2>1. /\ Outside' \in [Descs -> Nat] /\ Outside \in [Descs -> Nat]
        /\ \A e \in Descs :
             Outside'[e] = Outside[e] + Bit(loc'[t].d = e) - Bit(loc[t].d = e)
                             + Bit(loc'[t].d2 = e) - Bit(loc[t].d2 = e)
    BY <1>2, <1>3, LocalsStep DEF Others
  <2> QED
    BY <1>1, <1>3, <2>1, ShimAssumption DEF Bit
<1>6. d # NULL => Outside[d] > 0
  BY <1>1, OutsideType DEF Outside
<1> HIDE DEF D
<1>7. /\ AddsUp(D, Outside)
      /\ \A e \in Descs : /\ D[e].regs \subseteq desc[e].regs
                          /\ D[e].kind \in {desc[e].kind, "free"}
  BY <1>1, RemovedAddsUp DEF D
<1>8. /\ AddsUp(desc', Outside')
      /\ \A e \in Descs : /\ desc'[e].regs \subseteq D[e].regs
                          /\ desc'[e].kind \in {D[e].kind, "free"}
  BY <1>1, <1>2, <1>5, <1>6, <1>7, UnrefAddsUp
<1>9. Shrinks(desc, desc')
  BY <1>7, <1>8 DEF Shrinks
<1>10. Lockers'
  <2>1. \A u \in Threads : pc[u] \in Locking <=> u = t
    BY <1>1 DEF IInv, Lockers, Locking
  <2>2. \A u \in Threads : pc'[u] \in Locking <=> u = t
    BY <2>1, <1>3 DEF Others, Locking
  <2> QED
    BY <1>1, <1>2, <1>3, <2>1, <2>2 DEF IInv, Lockers, Locking, lock
<1>11. \A k \in Numbers : open_files'[k] \in Descs => Named(open_files'[k], k)
  BY <1>2 DEF Named
<1>12. Place(t)'
  BY <1>1, <1>3 DEF Place, Locking
<1> QED
  BY <1>3, <1>4, <1>8, <1>9, <1>10, <1>11, <1>12, LockStep DEF Carries

LEMMA CloseClosesIInv ==
  ASSUME IInv, NEW t \in Threads, CloseCloses(t)
  PROVE  IInv'
<1> DEFINE n == loc[t].n
<1>1. /\ pc[t] = "kclose" /\ n \in Numbers
      /\ loc[t].d = NULL /\ loc[t].d2 = NULL /\ AddsUp(desc, Outside)
  BY DEF CloseCloses, IInv, Places, Place, Locking
<1>2. /\ desc' = Gone(desc, n)
      /\ pc' = [pc EXCEPT ![t] = "idle"]
      /\ loc' = [loc EXCEPT ![t] = NoLocals]
      /\ kern' = [kern EXCEPT ![n] = "none"]
      /\ readers' = readers \ {t} /\ UNCHANGED <<writers, open_files, behind>>
  BY DEF CloseCloses, GoWith, Lock!ReleaseRead
<1>3. /\ pc'[t] = "idle" /\ loc'[t].d = NULL /\ loc'[t].d2 = NULL
      /\ loc'[t] \in Locals /\ Others(t)
  BY <1>2, NoLocalsType DEF IInv, Types, Pcs, Others, NoLocals
<1>4. Types'
  BY <1>1, <1>2, <1>3 DEF IInv, Types, Pcs, Others
<1>5. Outside' = Outside
  BY <1>1, <1>2, <1>3, SameOutside
<1>6. desc' \in [Descs -> DescType] /\ Marks(desc, desc')
  BY <1>1, <1>2, GoneMarks DEF AddsUp
<1>7. AddsUp(desc', Outside')
  BY <1>1, <1>5, <1>6, MarksAddsUp
<1>8. Lockers'
  <2>1. \A u \in Threads : pc'[u] \notin Locking
    BY <1>1, <1>3 DEF IInv, Lockers, Others, Locking
  <2>2. writers' = {} /\ readers' = {}
    BY <1>1, <1>2 DEF IInv, Lockers, Locking
  <2> QED
    BY <2>1, <2>2 DEF Lockers, Locking
<1>9. \A k \in Numbers : open_files'[k] \in Descs => Named(open_files'[k], k)
  BY <1>2 DEF Named
<1>10. Place(t)'
  BY <1>3 DEF Place, Locking
<1> QED
  BY <1>3, <1>4, <1>6, <1>7, <1>8, <1>9, <1>10, LockStep DEF Carries, Marks, Shrinks

-----------------------------------------------------------------------------
(* Creating a descriptor.                                                   *)

LEMMA Smallest ==
  ASSUME NEW S, S \subseteq Nat, S # {}
  PROVE  Min(S) \in S /\ \A m \in S : Min(S) <= m
<1>1. PICK n \in S : \A m \in S : ~ (<<m, n>> \in OpToRel(<, Nat))
  BY NatLessThanWellFounded, WFMin
<1>2. \A m \in S : <<m, n>> \in OpToRel(<, Nat) <=> m < n
  BY DEF OpToRel
<1>3. \A m \in S : ~ (m < n)
  BY <1>1, <1>2, Zenon
<1>4. \A m \in S : n <= m
  BY <1>3
<1> QED
  BY <1>4 DEF Min

\* The description a number was left with is given back, if it has one.
LEMMA LeftoverGone ==
  ASSUME IInv, NEW n \in Numbers
  PROVE  LET D == WithoutLeftover(n)
             g == [e \in Descs |-> Outside[e] - Bit(e = open_files[n])]
         IN  /\ AddsUp(D, g)
             /\ \A e \in Descs : /\ D[e].regs \subseteq desc[e].regs
                                 /\ D[e].kind \in {desc[e].kind, "free"}
<1> DEFINE g == [e \in Descs |-> Outside[e] - Bit(e = open_files[n])]
<1>1. /\ AddsUp(desc, Outside) /\ Outside \in [Descs -> Nat]
      /\ open_files[n] \in Descs \cup {NULL}
  BY DEF IInv, AddsUp, Types, Pcs
<1>2. open_files[n] # NULL => Outside[open_files[n]] > 0
  BY <1>1, OutsideType DEF Outside
<1>3. /\ g \in [Descs -> Nat]
      /\ \A e \in Descs : g[e] = Outside[e] - Bit(e = open_files[n])
  BY <1>1, <1>2, ShimAssumption DEF Bit
<1> HIDE DEF g
<1>4. /\ AddsUp(WithoutLeftover(n), g)
      /\ \A e \in Descs : /\ WithoutLeftover(n)[e].regs \subseteq desc[e].regs
                          /\ WithoutLeftover(n)[e].kind \in {desc[e].kind, "free"}
  BY <1>1, <1>2, <1>3, UnrefAddsUp DEF WithoutLeftover
<1> QED
  BY <1>4 DEF g

LEMMA CreateFailsIInv ==
  ASSUME IInv, NEW t \in Threads, CreateFails(t)
  PROVE  IInv'
<1> DEFINE n == Min(Unused)
           g == [e \in Descs |-> Outside[e] - Bit(e = open_files[n])]
           D == WithoutLeftover(n)
<1>1. /\ pc' = pc /\ loc' = loc /\ Others(t)
      /\ pc[t] = "idle" /\ UNCHANGED <<lock, kern>>
      /\ writers = {} /\ readers = {}
  BY DEF CreateFails, Others, Reading
<1>2. CASE Unused = {}
  <2>1. UNCHANGED <<open_files, desc, behind>>
    BY <1>2 DEF CreateFails
  <2>2. Types'
    BY <1>1, <2>1 DEF IInv, Types, Pcs
  <2>3. AddsUp(desc', Outside')
    BY <1>1, <2>1, SameOutside DEF IInv
  <2>4. Place(t)'
    BY <1>1, <2>1 DEF Place, Places, IInv, Locking
  <2> QED
    BY <1>1, <2>1, <2>2, <2>3, <2>4, CallStep DEF Shrinks, Locking
<1>3. CASE Unused # {}
  <2>1. /\ n \in Numbers /\ open_files[n] \in Descs \cup {NULL}
        /\ open_files' = [open_files EXCEPT ![n] = NULL]
        /\ desc' = D /\ behind' = behind \ {n}
    BY <1>3, ShimAssumption, Smallest DEF CreateFails, Unused, IInv, Types, Pcs
  <2>2. Types'
    BY <1>1, <2>1 DEF IInv, Types, Pcs
  <2>3. /\ open_files'[n] = NULL
        /\ \A k \in Numbers \ {n} : open_files'[k] = open_files[k]
    BY <2>1 DEF IInv, Types, Pcs
  <2> HIDE DEF n
  <2>4. Outside' = g
    <3>1. /\ Outside' \in [Descs -> Nat] /\ Outside \in [Descs -> Nat]
          /\ \A e \in Descs :
               Outside'[e] = Outside[e] + Bit(open_files'[n] = e) - Bit(open_files[n] = e)
                               + Bit(loc'[t].d = e) - Bit(loc[t].d = e)
                               + Bit(loc'[t].d2 = e) - Bit(loc[t].d2 = e)
      BY <1>1, <2>1, <2>3, OutsideStep DEF Others
    <3>2. \A e \in Descs : Outside'[e] = Outside[e] - Bit(e = open_files[n])
      BY <1>1, <2>3, <3>1, ShimAssumption DEF Bit
    <3> QED
      BY <3>1, <3>2
  <2> HIDE DEF g, D
  <2>5. AddsUp(desc', Outside') /\ Shrinks(desc, desc')
    <3>1. /\ AddsUp(D, g)
          /\ \A e \in Descs : /\ D[e].regs \subseteq desc[e].regs
                              /\ D[e].kind \in {desc[e].kind, "free"}
      BY <2>1, LeftoverGone DEF g, D
    <3> QED
      BY <2>1, <2>4, <3>1 DEF Shrinks
  <2>6. Lockers'
    <3>1. \A u \in Threads : pc[u] \notin Locking
      BY <1>1 DEF IInv, Lockers, Locking
    <3> QED
      BY <1>1, <3>1 DEF Lockers, IInv, lock
  <2>7. \A k \in Numbers : open_files'[k] \in Descs => Named(open_files'[k], k)
    BY <2>3, ShimAssumption DEF Named
  <2>8. Place(t)'
    BY <1>1 DEF Place, Places, IInv, Locking
  <2> QED
    BY <1>1, <2>2, <2>5, <2>6, <2>7, <2>8, LockStep DEF Carries
<1> QED
  BY <1>2, <1>3

\* A thread's first description is one nobody else has a pointer to.
Sole(t) ==
  /\ desc[loc[t].d].regs = {}
  /\ \A n \in Numbers : open_files[n] # loc[t].d
  /\ \A u \in Threads \ {t} : loc[u].d # loc[t].d
  /\ \A u \in Threads : loc[u].d2 # loc[t].d
  /\ \A e \in Descs : \A r \in desc[e].regs : r.desc # loc[t].d

LEMMA CreateDescIInv ==
  ASSUME IInv, NEW t \in Threads, NEW kind \in Kinds, CreateDesc(t, kind)
  PROVE  IInv' /\ Sole(t)'
<1> DEFINE n == Min(Unused)
           D == WithoutLeftover(n)
           g == [e \in Descs |-> Outside[e] - Bit(e = open_files[n])]
<1>1. /\ pc[t] = "idle" /\ loc[t].d = NULL /\ loc[t].d2 = NULL
      /\ writers = {} /\ readers = {} /\ writers' = {t} /\ readers' = {}
      /\ n \in Numbers /\ n \in Nat /\ open_files[n] \in Descs \cup {NULL}
  BY ShimAssumption, Smallest
     DEF CreateDesc, Unused, IInv, Places, Place, Types, Pcs, Lock!AcquireWrite
<1>2. PICK d \in Descs :
        /\ D[d].kind = "free"
        /\ desc' = [D EXCEPT ![d] = [FreeDesc EXCEPT !.kind = kind, !.refs = 1]]
        /\ open_files' = [open_files EXCEPT ![n] = NULL]
        /\ behind' = behind \ {n}
        /\ kern' = [kern EXCEPT ![n] = "kq"]
        /\ pc' = [pc EXCEPT ![t] = "install"]
        /\ loc' = [loc EXCEPT ![t] = [NoLocals EXCEPT !.n = n, !.d = d]]
  BY DEF CreateDesc, GoWith
<1>3. d \in Descs /\ D[d].kind = "free"
  BY <1>2
<1> HIDE DEF n
<1>4. /\ pc'[t] = "install" /\ loc'[t].d = d /\ loc'[t].d2 = NULL /\ loc'[t].n = n
      /\ loc'[t] \in Locals /\ Others(t)
      /\ open_files'[n] = NULL /\ \A k \in Numbers \ {n} : open_files'[k] = open_files[k]
  BY <1>1, <1>2, <1>3 DEF IInv, Types, Pcs, Others, Locals, NoLocals
<1>5. Types'
  BY <1>1, <1>2, <1>4 DEF IInv, Types, Pcs, Others
<1>6. /\ AddsUp(D, g)
      /\ \A e \in Descs : /\ D[e].regs \subseteq desc[e].regs
                          /\ D[e].kind \in {desc[e].kind, "free"}
  BY <1>1, LeftoverGone
<1>7. /\ Outside' \in [Descs -> Nat]
      /\ \A e \in Descs : Outside'[e] = g[e] + Bit(e = d)
  <2>1. /\ Outside' \in [Descs -> Nat] /\ Outside \in [Descs -> Nat]
        /\ \A e \in Descs :
             Outside'[e] = Outside[e] + Bit(open_files'[n] = e) - Bit(open_files[n] = e)
                             + Bit(loc'[t].d = e) - Bit(loc[t].d = e)
                             + Bit(loc'[t].d2 = e) - Bit(loc[t].d2 = e)
    BY <1>1, <1>4, OutsideStep DEF Others
  <2>2. \A e \in Descs : Outside'[e] = Outside[e] - Bit(e = open_files[n]) + Bit(e = d)
    BY <1>1, <1>3, <1>4, <2>1, ShimAssumption DEF Bit
  <2> QED
    BY <2>1, <2>2
<1> HIDE DEF g, D
<1>8. /\ desc' \in [Descs -> DescType]
      /\ desc'[d].kind = kind /\ desc'[d].refs = 1 /\ desc'[d].regs = {}
      /\ \A e \in Descs \ {d} : desc'[e] = D[e]
  BY <1>2, <1>3, <1>6 DEF AddsUp, DescType, FreeDesc
<1>9. AddsUp(desc', Outside')
  BY <1>3, <1>6, <1>7, <1>8, NewAddsUp
<1>10. Place(t)'
  BY <1>1, <1>3, <1>4, ShimAssumption DEF Place, Locking
<1>11. Lockers'
  <2>1. \A u \in Threads : pc[u] \notin Locking
    BY <1>1 DEF IInv, Lockers, Locking
  <2>2. \A u \in Threads : pc'[u] \in Locking => u = t
    BY <1>4, <2>1 DEF Others
  <2> QED
    BY <1>1, <1>4, <2>2 DEF Lockers, Locking
\* Nobody has a pointer to it but t.
<1>12. /\ \A k \in Numbers : open_files'[k] # d
       /\ \A u \in Threads \ {t} : loc[u].d # d
       /\ \A u \in Threads : loc'[u].d2 # d
       /\ \A e \in Descs : \A r \in desc'[e].regs : r.desc # d
  <2>1. /\ D[d].refs = 0 /\ D[d].refs = g[d] + Nodes(D, d) /\ g[d] \in Nat
        /\ Nodes(D, d) \in Nat
    BY <1>3, <1>6, NodesType DEF AddsUp, Accounts, Wellformed
  <2>2. Outside'[d] = 1
    BY <1>3, <1>7, <2>1 DEF Bit
  <2>3. Outside'[d] = Count(Numbers, open_files', d) + Count(Threads, Firsts(loc'), d)
                        + Count(Threads, Seconds(loc'), d)
    <3>1. Outside' = OutsideOf(open_files', loc')
      BY DEF Outside, OutsideOf, Count, Firsts, Seconds
    <3> QED
      BY <1>3, <3>1 DEF OutsideOf
  <2>4. Count(Threads, Firsts(loc'), d) = Count(Threads, Firsts(loc), d) + 1
    <3>1. Count(Threads, Firsts(loc'), d)
            = Count(Threads, Firsts(loc), d) + Bit(loc'[t].d = d) - Bit(loc[t].d = d)
      BY <1>4, ThreadsUpdate DEF Others
    <3>2. Count(Threads, Firsts(loc), d) \in Nat
      BY ShimAssumption, CountType
    <3> QED
      BY <1>1, <1>3, <1>4, <3>1, <3>2, ShimAssumption DEF Bit
  <2>5. /\ Count(Numbers, open_files', d) \in Nat
        /\ \A k \in Numbers : open_files'[k] = d => Count(Numbers, open_files', d) > 0
    BY ShimAssumption, CountType
  <2>6. /\ Count(Threads, Firsts(loc), d) \in Nat
        /\ \A u \in Threads : Firsts(loc)[u] = d => Count(Threads, Firsts(loc), d) > 0
    BY ShimAssumption, CountType
  <2>7. /\ Count(Threads, Seconds(loc'), d) \in Nat
        /\ \A u \in Threads : Seconds(loc')[u] = d => Count(Threads, Seconds(loc'), d) > 0
    BY ShimAssumption, CountType
  <2>8. \A u \in Threads : Firsts(loc)[u] = loc[u].d /\ Seconds(loc')[u] = loc'[u].d2
    BY DEF Firsts, Seconds
  <2>9. \A e \in Descs : \A r \in D[e].regs : r.desc # d
    BY <2>1, NodesType
  <2>10. \A e \in Descs : \A r \in desc'[e].regs : r.desc # d
    BY <1>8, <2>9
  <2> QED
    BY <2>2, <2>3, <2>4, <2>5, <2>6, <2>7, <2>8, <2>10
<1>13. \A u \in Threads \ {t} : loc[u].d \in Descs => desc'[loc[u].d].kind = desc[loc[u].d].kind
  <2> SUFFICES ASSUME NEW u \in Threads \ {t}, loc[u].d \in Descs
               PROVE  desc'[loc[u].d].kind = desc[loc[u].d].kind
    OBVIOUS
  <2>1. Outside'[loc[u].d] > 0
    <3>1. Outside' = OutsideOf(open_files', loc')
      BY DEF Outside, OutsideOf, Count, Firsts, Seconds
    <3> QED
      BY <1>4, <3>1, OutsideType DEF Others
  <2>2. desc'[loc[u].d].kind # "free"
    BY <1>9, <2>1, CountedIsLive
  <2> QED
    BY <1>6, <1>8, <1>12, <2>2
<1>14. Places'
  <2> SUFFICES ASSUME NEW u \in Threads, u # t PROVE Place(u)'
    BY <1>10 DEF Places
  <2>1. Place(u) /\ pc'[u] = pc[u] /\ loc'[u] = loc[u] /\ loc[u].d \in Descs \cup {NULL}
    BY <1>4 DEF IInv, Places, Others, Types, Pcs, Locals
  <2> QED
    BY <1>13, <2>1 DEF Place
<1>15. OneName'
  <2>1. ASSUME NEW e \in Descs, e # d, NEW k \in Numbers, Named(e, k)'
        PROVE  Named(e, k)
    <3>1. CASE open_files'[k] = e
      BY <1>4, <2>1, <3>1, ShimAssumption DEF Named
    <3>2. ASSUME NEW u \in Threads, Carries(u, e, k)' PROVE Named(e, k)
      BY <1>4, <2>1, <3>2 DEF Carries, Others, Named
    <3>3. ASSUME NEW x \in Descs, NEW r \in desc'[x].regs, r.desc = e, r.n = k
          PROVE  Named(e, k)
      BY <1>6, <1>8, <3>3 DEF Named
    <3> QED
      BY <2>1, <3>1, <3>2, <3>3 DEF Named
  <2>2. ASSUME NEW k \in Numbers, Named(d, k)' PROVE k = n
    <3>1. open_files'[k] # d /\ ~ \E x \in Descs : \E r \in desc'[x].regs : r.desc = d /\ r.n = k
      BY <1>12
    <3>2. PICK u \in Threads : Carries(u, d, k)'
      BY <2>2, <3>1 DEF Named
    <3>3. u = t
      BY <1>4, <1>12, <3>2 DEF Carries, Others
    <3> QED
      BY <1>4, <3>2, <3>3 DEF Carries
  <2> QED
    BY <2>1, <2>2 DEF IInv, OneName
<1>16. Sole(t)'
  BY <1>4, <1>8, <1>12 DEF Sole, Others
<1> QED
  BY <1>5, <1>9, <1>11, <1>14, <1>15, <1>16 DEF IInv

-----------------------------------------------------------------------------
(* Invariance.                                                              *)

\* A step of no thread: the kernel's doings.
LEMMA KernelStep ==
  ASSUME IInv, UNCHANGED <<lock, open_files, pc, loc>>, Types',
         \/ desc' = desc
         \/ desc' \in [Descs -> DescType] /\ Marks(desc, desc')
  PROVE  IInv'
<1>1. Outside' = Outside
  BY DEF Outside, OutsideOf, Count, Firsts, Seconds
<1>2. AddsUp(desc', Outside')
  BY <1>1, MarksAddsUp DEF IInv
<1>3. /\ \A e \in Descs : desc'[e].kind = desc[e].kind
      /\ \A e \in Descs : \A r \in desc'[e].regs :
           \E s \in desc[e].regs : r.n = s.n /\ r.desc = s.desc
  BY DEF Marks
<1>4. Places'
  <2> SUFFICES ASSUME NEW t \in Threads PROVE Place(t)'
    BY DEF Places
  <2>1. Place(t) /\ loc[t].d \in Descs \cup {NULL}
    BY DEF IInv, Places, Types, Pcs, Locals
  <2> QED
    BY <1>3, <2>1 DEF Place
<1>5. Lockers'
  BY DEF IInv, Lockers, lock
<1>6. OneName'
  <2>1. \A d \in Descs, n \in Numbers : Named(d, n)' => Named(d, n)
    BY <1>3 DEF Named, Carries
  <2> QED
    BY <2>1 DEF IInv, OneName
<1> QED
  BY <1>2, <1>4, <1>5, <1>6 DEF IInv

LEMMA OpensIInv ==
  ASSUME IInv, NEW n \in Numbers, Opens(n)
  PROVE  IInv'
<1>1. Types'
  BY DEF Opens, IInv, Types, Pcs
<1> QED
  BY <1>1, KernelStep DEF Opens

LEMMA RawCloseIInv ==
  ASSUME IInv, NEW n \in Numbers, RawClose(n)
  PROVE  IInv'
<1> DEFINE D == Gone(desc, n)
<1>1. AddsUp(desc, Outside) /\ desc' = GoneBehind(D, n)
  BY DEF IInv, RawClose
<1>2. Types'
  BY DEF RawClose, IInv, Types, Pcs
<1>3. D \in [Descs -> DescType] /\ Marks(desc, D)
  BY <1>1, GoneMarks DEF AddsUp
<1> HIDE DEF D
<1>4. AddsUp(D, Outside)
  BY <1>1, <1>3, MarksAddsUp
<1>5. desc' \in [Descs -> DescType] /\ Marks(D, desc')
  BY <1>1, <1>3, <1>4, GoneMarks DEF AddsUp
<1>6. Marks(desc, desc')
  BY <1>3, <1>5 DEF Marks
<1> QED
  BY <1>2, <1>5, <1>6, KernelStep DEF RawClose

LEMMA InitIInv == Init => IInv
<1> SUFFICES ASSUME Init PROVE IInv
  OBVIOUS
<1>1. Types
  BY NoLocalsType DEF Init, Types, Pcs
<1>2. Outside \in [Descs -> Nat] /\ \A d \in Descs : Outside[d] = 0
  <2>1. Outside \in [Descs -> Nat]
    BY OutsideType DEF Outside
  <2>2. \A d \in Descs : /\ {n \in Numbers : open_files[n] = d} = {}
                         /\ {t \in Threads : Firsts(loc)[t] = d} = {}
                         /\ {t \in Threads : Seconds(loc)[t] = d} = {}
    BY ShimAssumption DEF Init, Firsts, Seconds, NoLocals
  <2>3. \A d \in Descs : /\ Count(Numbers, open_files, d) = 0
                         /\ Count(Threads, Firsts(loc), d) = 0
                         /\ Count(Threads, Seconds(loc), d) = 0
    BY <2>2, FS_EmptySet DEF Count
  <2> QED
    BY <2>1, <2>3 DEF Outside, OutsideOf
<1>3. AddsUp(desc, Outside)
  <2>1. /\ desc \in [Descs -> DescType]
        /\ \A d \in Descs : /\ desc[d].kind = "free" /\ desc[d].refs = 0
                            /\ desc[d].regs = {}
    BY DEF Init, FreeDesc, DescType
  <2>2. \A d \in Descs : Nodes(desc, d) = 0
    <3>1. \A d \in Descs : NodesOf(desc, d) = {}
      BY <2>1 DEF NodesOf
    <3> QED
      BY <3>1, FS_EmptySet DEF Nodes
  <2>3. Wellformed(desc) /\ Accounts(desc, Outside)
    BY <1>2, <2>1, <2>2 DEF Wellformed, Accounts
  <2> QED
    BY <1>2, <2>1, <2>3 DEF AddsUp
<1>4. Places
  BY DEF Init, Places, Place, NoLocals, Locking
<1>5. Lockers
  BY DEF Init, Lockers, Locking, Lock!Init
<1>6. OneName
  BY ShimAssumption DEF Init, OneName, Named, Carries, FreeDesc
<1> QED
  BY <1>1, <1>3, <1>4, <1>5, <1>6 DEF IInv

LEMMA NextIInv == IInv /\ [Next]_vars => IInv'
<1> SUFFICES ASSUME IInv, [Next]_vars PROVE IInv'
  OBVIOUS
<1>1. ASSUME NEW t \in Threads, ThreadStep(t) PROVE IInv'
  <2>1. CASE CloseLocks(t)
    <3>1. UNCHANGED <<lock, open_files, desc, kern, behind, pc, loc>>
      BY <2>1 DEF CloseLocks
    <3>2. Types'
      BY <3>1 DEF IInv, Types, Pcs
    <3> QED
      BY <3>1, <3>2, KernelStep
  <2> QED
    BY <1>1, <2>1, InstallDescIInv, DropDescIInv, CloseClearsIInv, CloseDowngradesIInv,
       CloseRemovesIInv, CloseClosesIInv, UseDescIInv, UnrefDescIInv, CtlFindsIInv,
       CtlAddsIInv, CtlDelsIInv
       DEF ThreadStep
<1>2. ASSUME NEW t \in Threads, Call(t) PROVE IInv'
  BY <1>2, CreateFailsIInv, CreateDescIInv, CallCloseIInv, CallUseIInv, CallCtlIInv DEF Call
<1>3. ASSUME NEW n \in Numbers, Opens(n) \/ RawClose(n) PROVE IInv'
  BY <1>3, OpensIInv, RawCloseIInv
<1>4. CASE UNCHANGED vars
  <2>1. UNCHANGED <<lock, open_files, desc, kern, behind, pc, loc>>
    BY <1>4 DEF vars, lock
  <2>2. Types'
    BY <2>1 DEF IInv, Types, Pcs
  <2> QED
    BY <2>1, <2>2, KernelStep
<1> QED
  BY <1>1, <1>2, <1>3, <1>4 DEF Next

\* The inductive invariant holds in every behaviour.
THEOREM Invariance == Spec => []IInv
BY InitIInv, NextIInv, PTL DEF Spec

\* Whatever the threads do, create, close, look up and register in any order, and
\* whatever is closed behind the shim's back: the reference count of each
\* FileDescription is the number of those who hold it (file_description_ref and
\* file_description_unref), so that none is freed while it is held, and none that
\* nobody holds is left.
THEOREM CountsAddUp == Spec => []RefsAddUp
<1>1. IInv => RefsAddUp
  BY AccountIsRefs DEF IInv, AddsUp
<1> QED
  BY <1>1, Invariance, PTL

-----------------------------------------------------------------------------
(* TableInv.  On top of IInv: a description that is being installed is its  *)
(* creator's alone, and a number that gets one had nothing but late nodes;  *)
(* a live node's file is open; and close() has every epoll descriptor of    *)
(* the table, and none with a node of its number, when the file goes.       *)

Behinds == \A n \in behind : open_files[n] # NULL

Regs(k) == desc[open_files[k]].regs

Installing ==
  \A t \in Threads : pc[t] = "install" =>
    /\ kern[loc[t].n] = "kq"
    /\ Sole(t)
    /\ \A k \in Epolls : \A r \in Regs(k) : r.n = loc[t].n => r.late

LiveIsOpen ==
  \A d \in Descs : \A r \in desc[d].regs : r.live => kern[r.n] # "none"

AllLocked ==
  \A t \in Threads : pc[t] = "kclose" =>
    \A k \in Epolls : /\ mutex[open_files[k]] = t
                      /\ \A r \in Regs(k) : r.n # loc[t].n

TInv ==
  /\ mutex \in [Descs -> Threads \cup {NULL}]
  /\ SlotIsOpen /\ Behinds
  /\ Installing
  /\ LiveIsOpen
  /\ AllLocked
  /\ RegistrationsMatch
  /\ LockedStayInTable

\* What the table or a local points to is not free.
Pointed ==
  \A d \in Descs :
    \/ \E n \in Numbers : open_files[n] = d
    \/ \E t \in Threads : loc[t].d = d \/ loc[t].d2 = d
    => desc[d].kind # "free"

LEMMA PointedIsLive == IInv => Pointed
<1> SUFFICES ASSUME IInv, NEW d \in Descs,
                    \/ \E n \in Numbers : open_files[n] = d
                    \/ \E t \in Threads : loc[t].d = d \/ loc[t].d2 = d
             PROVE  desc[d].kind # "free"
  BY DEF Pointed
<1>1. Outside[d] > 0
  BY OutsideType DEF Outside
<1> QED
  BY <1>1, CountedIsLive DEF IInv

OneOwner ==
  \A n \in Numbers :
    /\ \A t \in Threads : Installs(t, n) => Owner(n) = loc[t].d
    /\ (\A t \in Threads : ~Installs(t, n)) => Owner(n) = open_files[n]

LEMMA OwnerIs == IInv => OneOwner
<1> SUFFICES ASSUME IInv, NEW n \in Numbers
             PROVE  /\ \A t \in Threads : Installs(t, n) => Owner(n) = loc[t].d
                    /\ (\A t \in Threads : ~Installs(t, n)) => Owner(n) = open_files[n]
  BY DEF OneOwner
<1>1. ASSUME NEW t \in Threads, Installs(t, n) PROVE Owner(n) = loc[t].d
  <2> DEFINE u == CHOOSE v \in Threads : Installs(v, n)
  <2>1. u \in Threads /\ Installs(u, n)
    BY <1>1
  <2>2. u = t
    BY <1>1, <2>1 DEF Installs, IInv, Lockers, Locking
  <2>3. Owner(n) = loc[u].d
    BY <1>1 DEF Owner
  <2> QED
    BY <2>2, <2>3
<1>2. (\A t \in Threads : ~Installs(t, n)) => Owner(n) = open_files[n]
  BY DEF Owner
<1> QED
  BY <1>1, <1>2

\* Nodes only go and descriptions only die.
Stays(D, U) ==
  \A e \in Descs : U[e].regs \subseteq D[e].regs /\ U[e].kind \in {D[e].kind, "free"}

\* Whatever the counts are.
Loose(R) == [kind : Kinds \cup {"free"}, refs : R, regs : SUBSET Reg]

Shaped(D) == \E R : D \in [Descs -> Loose(R)]

LEMMA DescShaped == ASSUME NEW D \in [Descs -> DescType] PROVE Shaped(D)
BY DEF Shaped, DescType, Loose

LEMMA UnrefStays ==
  ASSUME NEW D, Shaped(D), NEW d
  PROVE  Stays(D, Unref(D, d)) /\ Shaped(Unref(D, d))
<1> DEFINE U == Unref(D, d)
           held(e) == Cardinality({r \in D[d].regs : r.desc = e})
<1>1. CASE d = NULL
  BY <1>1 DEF Unref, Stays
<1>2. CASE d # NULL /\ D[d].refs > 1
  <2>1. U = [D EXCEPT ![d].refs = @ - 1]
    BY <1>2 DEF Unref
  <2> HIDE DEF U
  <2>2. PICK R : D \in [Descs -> Loose(R)]
    BY DEF Shaped
  <2> DEFINE Q == R \cup {D[e].refs - 1 : e \in Descs}
  <2>3. \A e \in Descs : D[e].refs - 1 \in Q
    OBVIOUS
  <2>4. R \subseteq Q
    OBVIOUS
  <2> HIDE DEF Q
  <2>5. U \in [Descs -> Loose(Q)]
    BY <2>1, <2>2, <2>3, <2>4 DEF Loose
  <2>6. Stays(D, U)
    BY <2>1, <2>2 DEF Stays, Loose
  <2> QED
    BY <2>5, <2>6 DEF Shaped, U
<1>3. CASE d # NULL /\ ~(D[d].refs > 1)
  <2>1. U = [e \in Descs |->
               IF e = d \/ (held(e) > 0 /\ D[e].refs = held(e))
               THEN FreeDesc
               ELSE [D[e] EXCEPT !.refs = @ - held(e)]]
    BY <1>3 DEF Unref
  <2> HIDE DEF held, U
  <2>2. PICK R : D \in [Descs -> Loose(R)]
    BY DEF Shaped
  <2> DEFINE Q == {0} \cup {D[e].refs - held(e) : e \in Descs}
  <2>3. \A e \in Descs : D[e].refs - held(e) \in Q
    OBVIOUS
  <2>4. 0 \in Q
    OBVIOUS
  <2> HIDE DEF Q
  <2>5. ASSUME NEW e \in Descs
        PROVE  /\ U[e] \in Loose(Q)
               /\ U[e].regs \subseteq D[e].regs /\ U[e].kind \in {D[e].kind, "free"}
    <3>1. CASE U[e] = [D[e] EXCEPT !.refs = @ - held(e)]
      <4>1. D[e] \in Loose(R)
        BY <2>2
      <4> QED
        BY <2>3, <3>1, <4>1 DEF Loose
    <3>2. CASE U[e] = FreeDesc
      BY <2>4, <3>2 DEF FreeDesc, Loose
    <3> QED
      BY <2>1, <3>1, <3>2
  <2>6. U \in [Descs -> Loose(Q)]
    BY <2>1, <2>5
  <2> QED
    BY <2>5, <2>6 DEF Stays, Shaped, U
<1> QED
  BY <1>1, <1>2, <1>3

LEMMA RefStays ==
  ASSUME NEW D, Shaped(D), NEW d
  PROVE  /\ Stays(D, Ref(D, d)) /\ Shaped(Ref(D, d))
         /\ \A e \in Descs : Ref(D, d)[e].kind = D[e].kind /\ Ref(D, d)[e].regs = D[e].regs
<1>1. CASE d = NULL
  BY <1>1 DEF Ref, Stays
<1>2. CASE d # NULL
  <2> DEFINE U == Ref(D, d)
  <2>1. U = [D EXCEPT ![d].refs = @ + 1]
    BY <1>2 DEF Ref
  <2> HIDE DEF U
  <2>2. PICK R : D \in [Descs -> Loose(R)]
    BY DEF Shaped
  <2> DEFINE Q == R \cup {D[e].refs + 1 : e \in Descs}
  <2>3. \A e \in Descs : D[e].refs + 1 \in Q
    OBVIOUS
  <2>4. R \subseteq Q
    OBVIOUS
  <2> HIDE DEF Q
  <2>5. U \in [Descs -> Loose(Q)]
    BY <2>1, <2>2, <2>3, <2>4 DEF Loose
  <2>6. \A e \in Descs : U[e].kind = D[e].kind /\ U[e].regs = D[e].regs
    BY <2>1, <2>2 DEF Loose
  <2> QED
    BY <2>5, <2>6 DEF Stays, Shaped, U
<1> QED
  BY <1>1, <1>2

LEMMA RemovedStays ==
  ASSUME Shaped(desc), NEW n
  PROVE  /\ Stays(desc, Removed(n)) /\ Shaped(Removed(n))
         /\ \A k \in Epolls : open_files[k] \in Descs =>
              \A r \in Removed(n)[open_files[k]].regs : r.n # n
<1> DEFINE gone(e) == IF \E k \in Epolls : open_files[k] = e
                      THEN {r \in desc[e].regs : r.n = n} ELSE {}
           dropped(d) == Cardinality({e \in Descs : \E r \in gone(e) : r.desc = d})
           U == Removed(n)
<1>1. U = [d \in Descs |->
             IF dropped(d) > 0 /\ desc[d].refs = dropped(d) THEN FreeDesc
             ELSE [desc[d] EXCEPT !.regs = @ \ gone(d), !.refs = @ - dropped(d)]]
  BY DEF Removed
<1>2. \A k \in Epolls : gone(open_files[k]) = {r \in desc[open_files[k]].regs : r.n = n}
  OBVIOUS
<1> HIDE DEF gone, dropped, U
<1>3. PICK R : desc \in [Descs -> Loose(R)]
  BY DEF Shaped
<1> DEFINE Q == {0} \cup {desc[e].refs - dropped(e) : e \in Descs}
<1>4. 0 \in Q /\ \A e \in Descs : desc[e].refs - dropped(e) \in Q
  OBVIOUS
<1> HIDE DEF Q
<1>5. ASSUME NEW e \in Descs
      PROVE  /\ \/ U[e].kind = "free" /\ U[e].regs = {}
                \/ U[e].kind = desc[e].kind /\ U[e].regs = desc[e].regs \ gone(e)
             /\ U[e] \in Loose(Q)
  <2>1. CASE U[e] = FreeDesc
    BY <1>4, <2>1 DEF FreeDesc, Loose
  <2>2. CASE U[e] = [desc[e] EXCEPT !.regs = @ \ gone(e), !.refs = @ - dropped(e)]
    <3>1. desc[e] \in Loose(R) /\ desc[e].regs \ gone(e) \in SUBSET Reg
      BY <1>3 DEF Loose
    <3> QED
      BY <1>4, <2>2, <3>1 DEF Loose
  <2> QED
    BY <1>1, <2>1, <2>2
<1>6. Stays(desc, U)
  BY <1>5 DEF Stays
<1>7. Shaped(U)
  <2>1. U \in [Descs -> Loose(Q)]
    BY <1>1, <1>5
  <2> QED
    BY <2>1 DEF Shaped
<1>8. \A k \in Epolls : open_files[k] \in Descs => \A r \in U[open_files[k]].regs : r.n # n
  BY <1>2, <1>5
<1> QED
  BY <1>6, <1>7, <1>8 DEF U

LEMMA KindsKept ==
  ASSUME IInv', \A e \in Descs : desc'[e].kind \in {desc[e].kind, "free"}
  PROVE  \A d \in Descs :
           \/ \E n \in Numbers : open_files'[n] = d
           \/ \E t \in Threads : loc'[t].d = d \/ loc'[t].d2 = d
           => desc'[d].kind = desc[d].kind
<1>1. (IInv => Pointed)'
  BY PointedIsLive, PTL
<1> QED
  BY <1>1 DEF Pointed

LEMMA EpollsKept ==
  ASSUME IInv, IInv', UNCHANGED open_files,
         \A e \in Descs : desc'[e].kind \in {desc[e].kind, "free"}
  PROVE  Epolls' = Epolls
<1>1. \A n \in Numbers : open_files[n] # NULL =>
        desc'[open_files[n]].kind = desc[open_files[n]].kind
  BY KindsKept DEF IInv, Types, Pcs
<1> QED
  BY <1>1 DEF Epolls

LEMMA OwnersKept ==
  ASSUME IInv, IInv', UNCHANGED open_files,
         \A e \in Descs : desc'[e].kind \in {desc[e].kind, "free"},
         \A u \in Threads : /\ pc'[u] = "install" <=> pc[u] = "install"
                            /\ pc[u] = "install" => loc'[u] = loc[u]
  PROVE  \A n \in Numbers : Pollable(Owner(n))' = Pollable(Owner(n))
<1> SUFFICES ASSUME NEW m \in Numbers PROVE Pollable(Owner(m))' = Pollable(Owner(m))
  OBVIOUS
<1>1. (IInv => OneOwner)'
  BY OwnerIs, PTL
<1>2. \A t \in Threads : Installs(t, m)' <=> Installs(t, m)
  BY DEF Installs
<1>3. /\ Owner(m)' = Owner(m)
      /\ \/ Owner(m) = open_files[m]
         \/ \E t \in Threads : Owner(m) = loc[t].d /\ loc'[t] = loc[t]
  BY <1>1, <1>2, OwnerIs DEF Installs, OneOwner
<1>4. Owner(m) \in Descs \cup {NULL}
  BY <1>3 DEF IInv, Types, Pcs, Locals
<1>5. Owner(m) # NULL => desc'[Owner(m)].kind = desc[Owner(m)].kind
  BY <1>3, <1>4, KindsKept
<1> QED
  BY <1>3, <1>5 DEF Pollable, Live

\* A node that CtlAdds brings.
Added(t, e, r) ==
  /\ e = loc[t].d /\ mutex[e] = NULL
  /\ r.desc \in {loc[t].d2, NULL} /\ kern[r.n] # "none"
  /\ r.late \/ (r.live /\ r.desc = Pollable(Owner(r.n)))
  /\ \A u \in Threads : Installs(u, r.n) => r.late

\* A step of a thread that has not the lock.
LEMMA FreeStep ==
  ASSUME IInv, IInv', TInv, NEW t \in Threads, Others(t),
         \A e \in Descs : desc'[e].kind \in {desc[e].kind, "free"},
         \A e \in Descs : \A r \in desc'[e].regs : r \in desc[e].regs \/ Added(t, e, r),
         UNCHANGED <<lock, open_files, mutex, kern, behind>>,
         pc[t] \notin Locking, pc'[t] \notin Locking,
         \A d \in Descs : d \in {loc'[t].d, loc'[t].d2} =>
           d \in {loc[t].d, loc[t].d2} \/ \E n \in Numbers : open_files[n] = d
  PROVE  TInv'
<1> USE DEF TInv
<1>1. /\ \A u \in Threads : pc[u] \in Locking \/ pc'[u] \in Locking =>
           pc'[u] = pc[u] /\ loc'[u] = loc[u] /\ u # t
      /\ \A n \in Numbers : open_files[n] \in Descs \cup {NULL}
      /\ loc[t].d \in Descs \cup {NULL} /\ loc[t].d2 \in Descs \cup {NULL}
  BY DEF Others, IInv, Types, Pcs, Locals
<1>2. Epolls' = Epolls
  BY EpollsKept
<1>3. \A n \in Numbers : Pollable(Owner(n))' = Pollable(Owner(n))
  BY <1>1, OwnersKept DEF Locking
<1>4. \A k \in Epolls :
        /\ open_files[k] \in Descs
        /\ \A r \in Regs(k)' : r \in Regs(k) \/ Added(t, open_files[k], r)
  BY <1>1 DEF Epolls, Regs
<1>5. SlotIsOpen' /\ Behinds' /\ (mutex \in [Descs -> Threads \cup {NULL}])'
  BY DEF SlotIsOpen, Behinds
<1>6. Installing'
  <2> SUFFICES ASSUME NEW u \in Threads, pc'[u] = "install"
               PROVE  /\ kern'[loc'[u].n] = "kq"
                      /\ Sole(u)'
                      /\ \A k \in Epolls' : \A r \in Regs(k)' : r.n = loc'[u].n => r.late
    BY DEF Installing
  <2>1. /\ pc[u] = "install" /\ loc'[u] = loc[u] /\ u # t
        /\ kern[loc[u].n] = "kq" /\ Sole(u)
        /\ \A k \in Epolls : \A r \in Regs(k) : r.n = loc[u].n => r.late
    BY <1>1 DEF Installing, Locking
  <2>2. loc[u].d \in Descs
    BY <2>1 DEF IInv, Places, Place, Types, Pcs, Locals
  <2>3. Sole(u)'
    <3>1. desc'[loc[u].d].regs = {}
      BY <2>1, <2>2 DEF Sole, Added
    <3>2. /\ \A v \in Threads \ {u} : loc'[v].d # loc[u].d
          /\ \A v \in Threads : loc'[v].d2 # loc[u].d
      BY <2>1, <2>2 DEF Sole, Others
    <3>3. \A e \in Descs : \A r \in desc'[e].regs : r.desc # loc[u].d
      BY <2>1, <2>2, ShimAssumption DEF Sole, Added
    <3> QED
      BY <2>1, <3>1, <3>2, <3>3 DEF Sole
  <2>4. \A k \in Epolls : \A r \in Regs(k)' : r.n = loc[u].n => r.late
    BY <1>4, <2>1 DEF Added, Installs
  <2> QED
    BY <1>2, <2>1, <2>3, <2>4
<1>7. LiveIsOpen'
  BY DEF LiveIsOpen, Added
<1>8. AllLocked'
  <2> SUFFICES ASSUME NEW u \in Threads, pc'[u] = "kclose", NEW k \in Epolls
               PROVE  /\ mutex[open_files[k]] = u
                      /\ \A r \in Regs(k)' : r.n # loc'[u].n
    BY <1>2 DEF AllLocked
  <2>1. /\ loc'[u] = loc[u] /\ mutex[open_files[k]] = u
        /\ \A r \in Regs(k) : r.n # loc[u].n
    BY <1>1 DEF AllLocked, Locking
  <2>2. \A r : ~Added(t, open_files[k], r)
    BY <2>1, ShimAssumption DEF Added
  <2> QED
    BY <1>4, <2>1, <2>2
<1>9. RegistrationsMatch'
  <2> SUFFICES ASSUME NEW k \in Epolls, NEW r \in Regs(k)'
               PROVE  r.late \/ Closing(r.n)' \/ (r.live /\ r.desc = Pollable(Owner(r.n))')
    BY <1>2 DEF RegistrationsMatch, Regs
  <2>1. r.n \in Numbers
    BY <1>4 DEF Regs, IInv, AddsUp, DescType, Reg
  <2>2. r.late \/ Closing(r.n) \/ (r.live /\ r.desc = Pollable(Owner(r.n)))
    BY <1>4 DEF RegistrationsMatch, Regs, Added
  <2>3. Closing(r.n) => Closing(r.n)'
    BY <1>1 DEF Closing, Locking
  <2> QED
    BY <1>3, <2>1, <2>2, <2>3
<1>10. LockedStayInTable'
  <2> SUFFICES ASSUME NEW d \in Descs, mutex[d] # NULL
               PROVE  /\ desc'[d].kind = "epoll"
                      /\ \E n \in Numbers : open_files[n] = d
                      /\ pc'[mutex[d]] \in {"lock", "kclose"}
    BY DEF LockedStayInTable
  <2>1. /\ desc[d].kind = "epoll" /\ mutex[d] \in Threads
        /\ \E n \in Numbers : open_files[n] = d
        /\ pc[mutex[d]] \in {"lock", "kclose"}
    BY DEF LockedStayInTable
  <2>2. desc'[d].kind = "epoll"
    BY <2>1, KindsKept
  <2> QED
    BY <1>1, <2>1, <2>2 DEF Locking
<1> QED
  BY <1>5, <1>6, <1>7, <1>8, <1>9, <1>10

\* A node goes.
LEMMA RemovesTInv ==
  ASSUME IInv, IInv', TInv, NEW t \in Threads, CtlDels(t) \/ CtlAdds(t), RemovesNode(t)
  PROVE  TInv'
<1> DEFINE rs == Found(t)
           D == [desc EXCEPT ![loc[t].d].regs = @ \ rs]
<1>1. pc \in [Threads -> Pcs] /\ loc \in [Threads -> Locals] /\ Shaped(desc)
  BY DescShaped DEF IInv, AddsUp, Types
<1>2. Stays(desc, D) /\ Shaped(D)
  <2>1. PICK R : desc \in [Descs -> Loose(R)]
    BY <1>1 DEF Shaped
  <2>2. D \in [Descs -> Loose(R)]
    BY <2>1 DEF Loose
  <2> QED
    BY <2>1, <2>2 DEF Stays, Shaped, Loose
<1>3. desc' = D \/ desc' = Unref(D, (CHOOSE r \in rs : TRUE).desc)
  BY DEF RemovesNode
<1> HIDE DEF D, rs
<1>4. Stays(D, desc')
  <2>1. \A d : Stays(D, Unref(D, d))
    BY <1>2, UnrefStays
  <2> QED
    BY <1>3, <2>1 DEF Stays
<1>5. Stays(desc, desc')
  BY <1>2, <1>4 DEF Stays
<1>6. /\ pc[t] \notin Locking /\ pc'[t] \notin Locking /\ Others(t)
      /\ loc'[t].d = loc[t].d /\ loc'[t].d2 = loc[t].d2
      /\ UNCHANGED <<lock, open_files, mutex, kern, behind>>
  BY <1>1 DEF CtlDels, CtlAdds, GoWith, Others, Locking, Locals
<1> QED
  BY <1>5, <1>6, FreeStep DEF Stays

LEMMA CallsTInv ==
  ASSUME IInv, IInv', TInv, NEW t \in Threads,
         \/ \E n \in Numbers : CallClose(t, n) \/ CallUse(t, n)
         \/ \E n \in Numbers, n2 \in Watched : CallCtl(t, n, n2)
         \/ UseDesc(t) \/ UnrefDesc(t) \/ CtlFinds(t) \/ CtlDels(t)
  PROVE  TInv'
<1>1. pc \in [Threads -> Pcs] /\ loc \in [Threads -> Locals] /\ Shaped(desc)
  BY DescShaped DEF IInv, AddsUp, Types
<1>2. ASSUME NEW n \in Numbers, CallClose(t, n) PROVE TInv'
  BY <1>1, <1>2, ShimAssumption, FreeStep
     DEF CallClose, GoWith, table, Others, Locking, NoLocals
<1>3. ASSUME NEW n \in Numbers, CallUse(t, n) PROVE TInv'
  <2>1. Stays(desc, desc')
    BY <1>1, <1>3, RefStays DEF CallUse
  <2> QED
    BY <1>1, <1>3, <2>1, ShimAssumption, FreeStep
       DEF CallUse, GoWith, Others, Locking, NoLocals, Stays
<1>4. ASSUME NEW n \in Numbers, NEW n2 \in Watched, CallCtl(t, n, n2) PROVE TInv'
  <2>1. Stays(desc, desc')
    BY <1>1, <1>4, RefStays DEF CallCtl
  <2>2. PICK to \in {"find", "del"} :
          pc' = [pc EXCEPT ![t] = to]
          /\ loc' = [loc EXCEPT ![t] = [NoLocals EXCEPT !.d = open_files[n], !.n2 = n2]]
    BY <1>4 DEF CallCtl, GoWith
  <2>3. /\ pc[t] \notin Locking /\ pc'[t] \notin Locking /\ Others(t)
        /\ loc'[t].d = open_files[n] /\ loc'[t].d2 = NULL
    BY <1>1, <1>4, <2>2 DEF CallCtl, Others, Locking, NoLocals
  <2> QED
    BY <1>4, <2>1, <2>3, ShimAssumption, FreeStep DEF CallCtl, Stays
<1>5. CASE UseDesc(t)
  BY <1>1, <1>5, FreeStep DEF UseDesc, Go, table, Others, Locking
<1>6. CASE UnrefDesc(t)
  <2> DEFINE D == Unref(desc, loc[t].d2)
  <2>1. Stays(desc, D) /\ Shaped(D)
    BY <1>1, UnrefStays
  <2> HIDE DEF D
  <2>2. Stays(D, desc')
    BY <1>6, <2>1, UnrefStays DEF UnrefDesc, D
  <2>3. Stays(desc, desc')
    BY <2>1, <2>2 DEF Stays
  <2>4. /\ pc[t] \notin Locking /\ pc'[t] \notin Locking /\ Others(t)
        /\ loc'[t].d = NULL /\ loc'[t].d2 = NULL
    BY <1>1, <1>6 DEF UnrefDesc, GoWith, Others, Locking, NoLocals
  <2> QED
    BY <1>6, <2>3, <2>4, ShimAssumption, FreeStep DEF UnrefDesc, Stays
<1>7. CASE CtlFinds(t)
  <2>1. Stays(desc, desc')
    BY <1>1, <1>7, RefStays DEF CtlFinds
  <2>2. /\ pc[t] \notin Locking /\ pc'[t] \notin Locking /\ Others(t)
        /\ loc[t].n2 \in Numbers
        /\ loc'[t].d = loc[t].d /\ loc'[t].d2 = open_files[loc[t].n2]
    BY <1>1, <1>7 DEF CtlFinds, GoWith, Others, Locking, Locals, IInv, Places, Place
  <2> QED
    BY <1>7, <2>1, <2>2, FreeStep DEF CtlFinds, Stays
<1>8. CASE CtlDels(t)
  BY <1>8, RemovesTInv DEF CtlDels
<1> QED
  BY <1>2, <1>3, <1>4, <1>5, <1>6, <1>7, <1>8

LEMMA CtlAddsTInv ==
  ASSUME IInv, IInv', TInv, NEW t \in Threads, CtlAdds(t)
  PROVE  TInv'
<1> DEFINE n == loc[t].n2
           x == loc[t].d
           r == Node(n, loc[t].d2)
<1>1. pc \in [Threads -> Pcs] /\ loc \in [Threads -> Locals] /\ Shaped(desc)
  BY DescShaped DEF IInv, AddsUp, Types
<1>2. /\ pc[t] \notin Locking /\ pc'[t] \notin Locking /\ Others(t)
      /\ loc'[t].d = x /\ loc'[t].d2 = loc[t].d2 /\ x \in Descs
      /\ UNCHANGED <<lock, open_files, mutex, kern, behind>> /\ mutex[x] = NULL
  BY <1>1 DEF CtlAdds, GoWith, Others, Locking, Locals, IInv, Places, Place
<1>3. CASE UNCHANGED desc
  BY <1>2, <1>3, FreeStep
<1>4. CASE kern[n] # "none" /\ Registers(t)
  <2>1. desc' = [Ref(desc, r.desc) EXCEPT ![x].regs = @ \cup {r}]
    BY <1>4 DEF Registers
  <2>2. /\ r.n = n /\ r.desc \in {loc[t].d2, NULL}
        /\ r.live /\ (r.late \/ r.desc = Pollable(Owner(n)))
        /\ \A u \in Threads : Installs(u, n) => r.late
    BY DEF Node, Pollable
  <2> HIDE DEF r
  <2>3. /\ Shaped(Ref(desc, r.desc))
        /\ \A e \in Descs : /\ Ref(desc, r.desc)[e].kind = desc[e].kind
                            /\ Ref(desc, r.desc)[e].regs = desc[e].regs
    BY <1>1, RefStays
  <2>4. \A e \in Descs :
          /\ desc'[e].kind = desc[e].kind
          /\ \A s \in desc'[e].regs : s \in desc[e].regs \/ (e = x /\ s = r)
    BY <2>1, <2>3 DEF Shaped, Loose
  <2>5. Added(t, x, r)
    BY <1>2, <1>4, <2>2 DEF Added
  <2>6. /\ \A e \in Descs : desc'[e].kind \in {desc[e].kind, "free"}
        /\ \A e \in Descs : \A s \in desc'[e].regs : s \in desc[e].regs \/ Added(t, e, s)
    BY <2>4, <2>5
  <2> QED
    BY <1>2, <2>6, FreeStep
<1>5. CASE RemovesNode(t)
  BY <1>5, RemovesTInv
<1> QED
  BY <1>3, <1>4, <1>5 DEF CtlAdds

\* What the kernel does to the nodes of a number.
LEMMA GoneStays ==
  ASSUME NEW D, Shaped(D), NEW n
  PROVE  /\ Shaped(Gone(D, n))
         /\ \A e \in Descs :
              /\ Gone(D, n)[e].kind = D[e].kind
              /\ \A r \in Gone(D, n)[e].regs : \E s \in D[e].regs :
                   /\ r.n = s.n /\ r.desc = s.desc /\ r.late = s.late
                   /\ r.live <=> s.live /\ s.n # n
         /\ \A e \in Descs :
              /\ GoneBehind(D, n)[e].kind = D[e].kind
              /\ \A r \in GoneBehind(D, n)[e].regs : \E s \in D[e].regs :
                   /\ r.n = s.n /\ r.desc = s.desc /\ r.live = s.live
                   /\ r.late <=> s.late \/ s.n = n
<1>1. PICK R : D \in [Descs -> Loose(R)]
  BY DEF Shaped
<1>2. \A s \in Reg :
        LET r == [s EXCEPT !.live = s.live /\ s.n # n]
            q == [s EXCEPT !.late = s.late \/ s.n = n]
        IN  /\ r \in Reg /\ r.n = s.n /\ r.desc = s.desc /\ r.late = s.late
            /\ r.live <=> s.live /\ s.n # n
            /\ q.n = s.n /\ q.desc = s.desc /\ q.live = s.live
            /\ q.late <=> s.late \/ s.n = n
  BY DEF Reg
<1> DEFINE F(s) == [s EXCEPT !.live = s.live /\ s.n # n]
           H(s) == [s EXCEPT !.late = s.late \/ s.n = n]
<1>3. \A e \in Descs : \A s \in D[e].regs : s \in Reg
  BY <1>1 DEF Loose
<1>4. /\ Gone(D, n) = [e \in Descs |-> [D[e] EXCEPT !.regs = {F(s) : s \in D[e].regs}]]
      /\ GoneBehind(D, n) = [e \in Descs |-> [D[e] EXCEPT !.regs = {H(s) : s \in D[e].regs}]]
  BY DEF Gone, GoneBehind
<1>5. \A s \in Reg : /\ F(s) \in Reg /\ F(s).n = s.n /\ F(s).desc = s.desc /\ F(s).late = s.late
                     /\ F(s).live <=> s.live /\ s.n # n
                     /\ H(s).n = s.n /\ H(s).desc = s.desc /\ H(s).live = s.live
                     /\ H(s).late <=> s.late \/ s.n = n
  BY <1>2
<1> HIDE DEF F, H
<1>6. \A e \in Descs : {F(s) : s \in D[e].regs} \in SUBSET Reg
  BY <1>3, <1>5
<1>7. \A e \in Descs :
        /\ Gone(D, n)[e] \in Loose(R)
        /\ Gone(D, n)[e].kind = D[e].kind
        /\ Gone(D, n)[e].regs = {F(s) : s \in D[e].regs}
        /\ GoneBehind(D, n)[e].kind = D[e].kind
        /\ GoneBehind(D, n)[e].regs = {H(s) : s \in D[e].regs}
  BY <1>1, <1>4, <1>6 DEF Loose
<1>8. Gone(D, n) \in [Descs -> Loose(R)]
  BY <1>4, <1>7
<1>9. \A e \in Descs : \A r \in Gone(D, n)[e].regs : \E s \in D[e].regs :
        /\ r.n = s.n /\ r.desc = s.desc /\ r.late = s.late
        /\ r.live <=> s.live /\ s.n # n
  BY <1>3, <1>5, <1>7
<1>10. \A e \in Descs : \A r \in GoneBehind(D, n)[e].regs : \E s \in D[e].regs :
         /\ r.n = s.n /\ r.desc = s.desc /\ r.live = s.live
         /\ r.late <=> s.late \/ s.n = n
  BY <1>3, <1>5, <1>7
<1> QED
  BY <1>7, <1>8, <1>9, <1>10 DEF Shaped

\* While a thread writes, or the lock is free, no mutex is held by close().
LEMMA NoMutex ==
  ASSUME IInv, TInv, readers = {}
  PROVE  \A d \in Descs : mutex[d] = NULL
<1>1. \A t \in Threads : pc[t] \notin {"lock", "kclose"}
  BY DEF IInv, Lockers
<1> QED
  BY <1>1 DEF TInv, LockedStayInTable

LEMMA InstallDescTInv ==
  ASSUME IInv, IInv', TInv, NEW t \in Threads, InstallDesc(t)
  PROVE  TInv'
<1> USE DEF TInv
<1> DEFINE n == loc[t].n
           d == loc[t].d
<1>1. /\ pc[t] = "install" /\ n \in Numbers /\ d \in Descs /\ d # NULL
      /\ kern[n] = "kq" /\ desc[d].regs = {} /\ readers = {}
      /\ pc \in [Threads -> Pcs] /\ open_files \in [Numbers -> Descs \cup {NULL}]
      /\ \A u \in Threads : pc[u] \in Locking <=> u = t
  <2>1. pc[t] = "install" /\ kern[n] = "kq" /\ desc[d].regs = {}
    BY DEF InstallDesc, Installing, Sole
  <2>2. /\ n \in Numbers /\ d \in Descs /\ d # NULL
        /\ pc \in [Threads -> Pcs] /\ open_files \in [Numbers -> Descs \cup {NULL}]
    BY <2>1 DEF IInv, Places, Place, Types, Locals, Locking
  <2>3. readers = {} /\ \A u \in Threads : pc[u] \in Locking <=> u = t
    BY <2>1 DEF IInv, Lockers, Locking
  <2> QED
    BY <2>1, <2>2, <2>3
<1>2. /\ open_files' = [open_files EXCEPT ![n] = d]
      /\ pc' = [pc EXCEPT ![t] = "idle"]
      /\ UNCHANGED <<desc, mutex, kern, behind>>
  BY DEF InstallDesc, GoWith
<1>3. \A u \in Threads : pc'[u] \notin Locking
  BY <1>1, <1>2 DEF Locking
<1>4. open_files'[n] = d /\ \A k \in Numbers \ {n} : open_files'[k] = open_files[k]
  BY <1>1, <1>2
<1>5. \A k \in Numbers : Pollable(Owner(k))' = Pollable(Owner(k))
  <2>1. (IInv => OneOwner)'
    BY OwnerIs, PTL
  <2>2. \A k \in Numbers : Owner(k)' = open_files'[k]
    BY <1>3, <2>1 DEF OneOwner, Installs, Locking
  <2>3. \A k \in Numbers : Owner(k) = IF k = n THEN d ELSE open_files[k]
    BY <1>1, OwnerIs DEF OneOwner, Installs, Locking
  <2>4. \A k \in Numbers : Owner(k)' = Owner(k)
    BY <1>4, <2>2, <2>3
  <2> QED
    BY <1>2, <2>4 DEF Pollable, Live
<1>6. SlotIsOpen' /\ Behinds'
  BY <1>1, <1>2, <1>4 DEF SlotIsOpen, Behinds, IInv, Types
<1>7. Installing' /\ AllLocked' /\ LiveIsOpen'
  BY <1>2, <1>3 DEF Installing, AllLocked, LiveIsOpen, Locking
<1>8. LockedStayInTable' /\ (mutex \in [Descs -> Threads \cup {NULL}])'
  BY <1>1, <1>2, NoMutex DEF LockedStayInTable
<1>9. RegistrationsMatch'
  <2> SUFFICES ASSUME NEW k \in Epolls', NEW r \in Regs(k)'
               PROVE  r.late \/ (r.live /\ r.desc = Pollable(Owner(r.n))')
    BY DEF RegistrationsMatch, Regs
  <2>1. k # n /\ k \in Epolls /\ r \in Regs(k) /\ open_files[k] \in Descs
    BY <1>1, <1>2, <1>4 DEF Epolls, Regs
  <2>2. r.n \in Numbers
    BY <2>1 DEF Regs, IInv, AddsUp, DescType, Reg
  <2>3. ~Closing(r.n)
    BY <1>1 DEF Closing, Locking
  <2>4. r.late \/ (r.live /\ r.desc = Pollable(Owner(r.n)))
    BY <2>1, <2>3 DEF RegistrationsMatch, Regs
  <2> QED
    BY <1>5, <2>2, <2>4
<1> QED
  BY <1>6, <1>7, <1>8, <1>9

LEMMA DropDescTInv ==
  ASSUME IInv, IInv', TInv, NEW t \in Threads, DropDesc(t)
  PROVE  TInv'
<1> USE DEF TInv
<1> DEFINE n == loc[t].n
           D == Unref(desc, loc[t].d)
<1>1. /\ pc[t] = "install" /\ n \in Numbers /\ open_files[n] = NULL /\ readers = {}
      /\ \A k \in Epolls : \A r \in Regs(k) : r.n = n => r.late
      /\ pc \in [Threads -> Pcs] /\ kern \in [Numbers -> {"none", "plain", "kq"}]
      /\ open_files \in [Numbers -> Descs \cup {NULL}] /\ Shaped(desc)
      /\ \A u \in Threads : pc[u] \in Locking <=> u = t
  BY DescShaped
     DEF DropDesc, IInv, Places, Place, Types, Lockers, Locking, Installing, AddsUp
<1>2. /\ desc' = Gone(D, n)
      /\ pc' = [pc EXCEPT ![t] = "idle"]
      /\ kern' = [kern EXCEPT ![n] = "none"]
      /\ UNCHANGED <<open_files, mutex, behind>>
  BY DEF DropDesc, GoWith
<1>3. \A u \in Threads : pc'[u] \notin Locking
  BY <1>1, <1>2 DEF Locking
<1>4. /\ \A e \in Descs : desc'[e].kind \in {desc[e].kind, "free"}
      /\ \A e \in Descs : \A r \in desc'[e].regs : \E s \in desc[e].regs :
           /\ r.n = s.n /\ r.desc = s.desc /\ r.late = s.late
           /\ r.live <=> s.live /\ s.n # n
  <2>1. Stays(desc, D) /\ Shaped(D)
    BY <1>1, UnrefStays
  <2> HIDE DEF D
  <2> QED
    BY <1>2, <2>1, GoneStays DEF Stays
<1>5. Epolls' = Epolls
  BY <1>2, <1>4, EpollsKept
<1>6. \A k \in Numbers \ {n} : Pollable(Owner(k))' = Pollable(Owner(k))
  <2>1. (IInv => OneOwner)'
    BY OwnerIs, PTL
  <2>2. \A k \in Numbers \ {n} : Owner(k)' = open_files[k] /\ Owner(k) = open_files[k]
    BY <1>1, <1>2, <1>3, <2>1, OwnerIs DEF OneOwner, Installs, Locking
  <2>3. \A k \in Numbers : open_files[k] # NULL =>
          desc'[open_files[k]].kind = desc[open_files[k]].kind
    BY <1>1, <1>2, <1>4, KindsKept
  <2> QED
    BY <2>2, <2>3 DEF Pollable, Live
<1>7. SlotIsOpen' /\ Behinds'
  BY <1>1, <1>2 DEF SlotIsOpen, Behinds
<1>8. Installing' /\ AllLocked'
  BY <1>3 DEF Installing, AllLocked, Locking
<1>9. LiveIsOpen'
  <2> SUFFICES ASSUME NEW e \in Descs, NEW r \in desc'[e].regs, r.live PROVE kern'[r.n] # "none"
    BY DEF LiveIsOpen
  <2>1. PICK s \in desc[e].regs : r.n = s.n /\ s.live /\ s.n # n
    BY <1>4
  <2> QED
    BY <1>1, <1>2, <2>1 DEF LiveIsOpen
<1>10. LockedStayInTable' /\ (mutex \in [Descs -> Threads \cup {NULL}])'
  BY <1>1, <1>2, NoMutex DEF LockedStayInTable
<1>11. RegistrationsMatch'
  <2> SUFFICES ASSUME NEW k \in Epolls, NEW r \in Regs(k)'
               PROVE  r.late \/ (r.live /\ r.desc = Pollable(Owner(r.n))')
    BY <1>5 DEF RegistrationsMatch, Regs
  <2>1. open_files[k] \in Descs /\ Regs(k)' = desc'[open_files[k]].regs
    BY <1>1, <1>2 DEF Epolls, Regs
  <2>2. PICK s \in Regs(k) : /\ r.n = s.n /\ r.desc = s.desc /\ r.late = s.late
                             /\ r.live <=> s.live /\ s.n # n
    BY <1>4, <2>1 DEF Regs
  <2>3. s.n \in Numbers
    BY <2>1 DEF Regs, IInv, AddsUp, DescType, Reg
  <2>4. ~Closing(s.n)
    BY <1>1 DEF Closing, Locking
  <2>5. s.late \/ (s.live /\ s.desc = Pollable(Owner(s.n)))
    BY <2>4 DEF RegistrationsMatch, Regs
  <2>6. s.n = n => s.late
    BY <1>1
  <2> QED
    BY <1>6, <2>2, <2>3, <2>5, <2>6
<1> QED
  BY <1>7, <1>8, <1>9, <1>10, <1>11

\* The table loses the description of one number, and no thread is in the way.
LEMMA ClearedMatch ==
  ASSUME IInv, IInv', TInv, NEW n \in Numbers,
         open_files' = [open_files EXCEPT ![n] = NULL],
         \A u \in Threads : pc[u] \notin Locking,
         \A u \in Threads : pc'[u] = "install" => loc'[u].n = n,
         \A k \in Numbers \ {n} : open_files[k] \in Descs =>
           /\ desc'[open_files[k]].kind = desc[open_files[k]].kind
           /\ desc'[open_files[k]].regs \subseteq desc[open_files[k]].regs
  PROVE  /\ Epolls' \subseteq Epolls \ {n}
         /\ \A k \in Epolls' : \A r \in Regs(k)' :
              /\ r \in Regs(k)
              /\ r.late \/ (r.live /\ r.desc = Pollable(Owner(r.n)))
              /\ r.n # n => Pollable(Owner(r.n))' = Pollable(Owner(r.n))
<1>1. open_files \in [Numbers -> Descs \cup {NULL}]
  BY DEF IInv, Types
<1>2. open_files'[n] = NULL /\ \A k \in Numbers \ {n} : open_files'[k] = open_files[k]
  BY <1>1
<1>3. Epolls' \subseteq Epolls \ {n}
  BY <1>1, <1>2 DEF Epolls
<1>4. \A k \in Numbers \ {n} : Pollable(Owner(k))' = Pollable(Owner(k))
  <2>1. (IInv => OneOwner)'
    BY OwnerIs, PTL
  <2>2. \A k \in Numbers \ {n} : Owner(k)' = open_files[k] /\ Owner(k) = open_files[k]
    BY <1>2, <2>1, OwnerIs DEF OneOwner, Installs, Locking
  <2> QED
    BY <1>1, <2>2 DEF Pollable, Live
<1>5. ASSUME NEW k \in Epolls', NEW r \in Regs(k)'
      PROVE  /\ r \in Regs(k)
             /\ r.late \/ (r.live /\ r.desc = Pollable(Owner(r.n)))
             /\ r.n # n => Pollable(Owner(r.n))' = Pollable(Owner(r.n))
  <2>1. /\ k \in Epolls /\ k # n /\ k \in Numbers /\ open_files[k] \in Descs
        /\ open_files'[k] = open_files[k]
    BY <1>1, <1>2, <1>3 DEF Epolls
  <2>2. r \in Regs(k)
    BY <2>1 DEF Regs
  <2>3. r.n \in Numbers
    BY <2>1, <2>2 DEF Regs, IInv, AddsUp, DescType, Reg
  <2>4. ~Closing(r.n)
    BY DEF Closing, Locking
  <2> QED
    BY <1>4, <2>1, <2>2, <2>3, <2>4 DEF TInv, RegistrationsMatch, Regs
<1> QED
  BY <1>3, <1>5

\* Nothing moves, except that nodes may have become late.
LEMMA SameMatch ==
  ASSUME IInv, IInv', TInv, UNCHANGED <<open_files, pc, loc>>,
         \A e \in Descs :
           /\ desc'[e].kind = desc[e].kind
           /\ \A r \in desc'[e].regs : \E s \in desc[e].regs :
                /\ r.n = s.n /\ r.desc = s.desc /\ (s.late => r.late)
                /\ r.late \/ (s.live => r.live)
  PROVE  /\ Epolls' = Epolls /\ RegistrationsMatch'
         /\ \A k \in Epolls : \A r \in Regs(k)' : \E s \in Regs(k) :
              r.n = s.n /\ (s.late => r.late)
<1>1. Epolls' = Epolls
  BY EpollsKept
<1>2. \A n \in Numbers : Pollable(Owner(n))' = Pollable(Owner(n))
  BY OwnersKept
<1>3. \A k \in Epolls : open_files[k] \in Descs
  BY DEF Epolls, IInv, Types
<1>4. ASSUME NEW k \in Epolls, NEW r \in Regs(k)'
      PROVE  /\ r.late \/ Closing(r.n)' \/ (r.live /\ r.desc = Pollable(Owner(r.n))')
             /\ \E s \in Regs(k) : r.n = s.n /\ (s.late => r.late)
  <2>1. PICK s \in Regs(k) :
          /\ r.n = s.n /\ r.desc = s.desc /\ (s.late => r.late)
          /\ r.late \/ (s.live => r.live)
    BY <1>3 DEF Regs
  <2>2. s.n \in Numbers
    BY <1>3 DEF Regs, IInv, AddsUp, DescType, Reg
  <2>3. s.late \/ Closing(s.n) \/ (s.live /\ s.desc = Pollable(Owner(s.n)))
    BY DEF TInv, RegistrationsMatch, Regs
  <2>4. Closing(s.n)' <=> Closing(s.n)
    BY DEF Closing
  <2> QED
    BY <1>2, <2>1, <2>2, <2>3, <2>4
<1> QED
  BY <1>1, <1>4 DEF RegistrationsMatch, Regs

LEMMA CreateFailsTInv ==
  ASSUME IInv, IInv', TInv, NEW t \in Threads, CreateFails(t)
  PROVE  TInv'
<1> USE DEF TInv
<1>1. /\ UNCHANGED <<mutex, kern, pc, loc>>
      /\ readers = {} /\ \A u \in Threads : pc[u] \notin Locking
      /\ kern \in [Numbers -> {"none", "plain", "kq"}]
      /\ open_files \in [Numbers -> Descs \cup {NULL}] /\ Shaped(desc)
  BY DescShaped
     DEF CreateFails, Reading, IInv, Types, Lockers, Locking, AddsUp
<1>2. Installing' /\ AllLocked'
  BY <1>1 DEF Installing, AllLocked, Locking
<1>3. \A d \in Descs : mutex[d] = NULL
  BY <1>1, NoMutex
<1>4. LockedStayInTable' /\ (mutex \in [Descs -> Threads \cup {NULL}])'
  BY <1>1, <1>3 DEF LockedStayInTable
<1>5. CASE Unused = {}
  <2>1. UNCHANGED <<open_files, desc, behind>>
    BY <1>5 DEF CreateFails
  <2>2. SlotIsOpen' /\ Behinds' /\ LiveIsOpen'
    BY <1>1, <2>1 DEF SlotIsOpen, Behinds, LiveIsOpen
  <2>3. RegistrationsMatch'
    BY <1>1, <2>1, SameMatch
  <2> QED
    BY <1>2, <1>4, <2>2, <2>3
<1>6. CASE Unused # {}
  <2> DEFINE n == Min(Unused)
  <2>1. /\ n \in Numbers /\ kern[n] = "none"
        /\ open_files' = [open_files EXCEPT ![n] = NULL]
        /\ desc' = WithoutLeftover(n) /\ behind' = behind \ {n}
    BY <1>6, ShimAssumption, Smallest DEF CreateFails, Unused
  <2> HIDE DEF n
  <2>2. Stays(desc, desc')
    BY <1>1, <2>1, UnrefStays DEF WithoutLeftover
  <2>3. open_files'[n] = NULL /\ \A k \in Numbers \ {n} : open_files'[k] = open_files[k]
    BY <1>1, <2>1
  <2>4. \A k \in Numbers \ {n} : open_files[k] \in Descs =>
          /\ desc'[open_files[k]].kind = desc[open_files[k]].kind
          /\ desc'[open_files[k]].regs \subseteq desc[open_files[k]].regs
    BY <2>2, <2>3, KindsKept DEF Stays
  <2>5. \A k \in Epolls' : \A r \in Regs(k)' :
          /\ r \in Regs(k) /\ k \in Epolls
          /\ r.late \/ (r.live /\ r.desc = Pollable(Owner(r.n)))
          /\ r.n # n => Pollable(Owner(r.n))' = Pollable(Owner(r.n))
    <3>1. \A u \in Threads : pc'[u] = "install" => loc'[u].n = n
      BY <1>1 DEF Locking
    <3>2. /\ Epolls' \subseteq Epolls \ {n}
          /\ \A k \in Epolls' : \A r \in Regs(k)' :
               /\ r \in Regs(k)
               /\ r.late \/ (r.live /\ r.desc = Pollable(Owner(r.n)))
               /\ r.n # n => Pollable(Owner(r.n))' = Pollable(Owner(r.n))
      BY <1>1, <2>1, <2>4, <3>1, ClearedMatch
    <3> QED
      BY <3>2
  <2>6. RegistrationsMatch'
    <3> SUFFICES ASSUME NEW k \in Epolls', NEW r \in Regs(k)'
                 PROVE  r.late \/ (r.live /\ r.desc = Pollable(Owner(r.n))')
      BY DEF RegistrationsMatch, Regs
    <3>1. r.n = n => ~r.live
      BY <1>1, <2>1, <2>5 DEF LiveIsOpen, Regs, Epolls
    <3> QED
      BY <2>5, <3>1
  <2>7. SlotIsOpen' /\ Behinds'
    BY <1>1, <2>1, <2>3 DEF SlotIsOpen, Behinds, IInv, Types
  <2>8. LiveIsOpen'
    BY <1>1, <2>2 DEF LiveIsOpen, Stays
  <2> QED
    BY <1>2, <1>4, <2>6, <2>7, <2>8
<1> QED
  BY <1>5, <1>6

LEMMA CreateDescTInv ==
  ASSUME IInv, IInv', TInv, NEW t \in Threads, NEW kind \in Kinds, CreateDesc(t, kind)
  PROVE  TInv'
<1> USE DEF TInv
<1> DEFINE n == Min(Unused)
           D == WithoutLeftover(n)
<1>1. /\ n \in Numbers /\ kern[n] = "none" /\ n \in Nat
      /\ readers = {} /\ writers = {} /\ UNCHANGED mutex
  BY ShimAssumption, Smallest DEF CreateDesc, Unused, Lock!AcquireWrite
<1>2. PICK d \in Descs :
        /\ desc' = [D EXCEPT ![d] = [FreeDesc EXCEPT !.kind = kind, !.refs = 1]]
        /\ open_files' = [open_files EXCEPT ![n] = NULL]
        /\ behind' = behind \ {n}
        /\ kern' = [kern EXCEPT ![n] = "kq"]
        /\ pc' = [pc EXCEPT ![t] = "install"]
        /\ loc' = [loc EXCEPT ![t] = [NoLocals EXCEPT !.n = n, !.d = d]]
  BY DEF CreateDesc, GoWith
<1> HIDE DEF n
<1>3. /\ pc \in [Threads -> Pcs] /\ loc \in [Threads -> Locals]
      /\ kern \in [Numbers -> {"none", "plain", "kq"}]
      /\ open_files \in [Numbers -> Descs \cup {NULL}] /\ Shaped(desc)
  BY DescShaped DEF IInv, Types, AddsUp
<1>4. \A u \in Threads : pc[u] \notin Locking
  BY <1>1 DEF IInv, Lockers, Locking
<1>5. /\ loc'[t].n = n /\ loc'[t].d = d
      /\ \A u \in Threads : pc'[u] \in Locking => u = t
      /\ pc'[t] = "install"
      /\ open_files'[n] = NULL /\ \A k \in Numbers \ {n} : open_files'[k] = open_files[k]
  BY <1>1, <1>2, <1>3, <1>4 DEF NoLocals
<1>6. Stays(desc, D) /\ Shaped(D)
  BY <1>3, UnrefStays DEF WithoutLeftover
<1> HIDE DEF D
<1>7. /\ desc'[d].regs = {}
      /\ \A e \in Descs \ {d} : desc'[e] = D[e]
      /\ \A e \in Descs : desc'[e].regs \subseteq desc[e].regs
  BY <1>2, <1>6 DEF Shaped, Loose, Stays, FreeDesc
<1>8. Sole(t)'
  BY CreateDescIInv
<1>9. \A k \in Numbers \ {n} : open_files[k] \in Descs =>
        /\ desc'[open_files[k]].kind = desc[open_files[k]].kind
        /\ desc'[open_files[k]].regs \subseteq desc[open_files[k]].regs
  <2> SUFFICES ASSUME NEW k \in Numbers \ {n}, open_files[k] \in Descs
               PROVE  desc'[open_files[k]].kind = desc[open_files[k]].kind
    BY <1>7
  <2>1. open_files'[k] = open_files[k] /\ open_files[k] # d
    BY <1>5, <1>8 DEF Sole
  <2>2. (IInv => Pointed)'
    BY PointedIsLive, PTL
  <2>3. desc'[open_files[k]].kind # "free"
    BY <2>1, <2>2 DEF Pointed
  <2> QED
    BY <1>6, <1>7, <2>1, <2>3 DEF Stays
<1>10. \A k \in Epolls' : \A r \in Regs(k)' :
         /\ r \in Regs(k) /\ k \in Epolls
         /\ r.late \/ (r.live /\ r.desc = Pollable(Owner(r.n)))
         /\ r.n # n => Pollable(Owner(r.n))' = Pollable(Owner(r.n))
  <2>1. \A u \in Threads : pc'[u] = "install" => loc'[u].n = n
    BY <1>5 DEF Locking
  <2>2. /\ Epolls' \subseteq Epolls \ {n}
        /\ \A k \in Epolls' : \A r \in Regs(k)' :
             /\ r \in Regs(k)
             /\ r.late \/ (r.live /\ r.desc = Pollable(Owner(r.n)))
             /\ r.n # n => Pollable(Owner(r.n))' = Pollable(Owner(r.n))
    BY <1>1, <1>2, <1>4, <1>9, <2>1, ClearedMatch
  <2> QED
    BY <2>2
\* Nobody has an old node of the number but late ones.
<1>11. \A k \in Epolls' : \A r \in Regs(k)' : r.n = n => r.late
  <2>1. \A k \in Epolls : \A r \in Regs(k) : r.live => kern[r.n] # "none"
    BY <1>3 DEF LiveIsOpen, Regs, Epolls
  <2> QED
    BY <1>1, <1>10, <2>1
<1>12. RegistrationsMatch'
  <2> SUFFICES ASSUME NEW k \in Epolls', NEW r \in Regs(k)'
               PROVE  r.late \/ (r.live /\ r.desc = Pollable(Owner(r.n))')
    BY DEF RegistrationsMatch, Regs
  <2> QED
    BY <1>10, <1>11
<1>13. Installing'
  <2> SUFFICES ASSUME NEW u \in Threads, pc'[u] = "install"
               PROVE  /\ kern'[loc'[u].n] = "kq"
                      /\ Sole(u)'
                      /\ \A k \in Epolls' : \A r \in Regs(k)' : r.n = loc'[u].n => r.late
    BY DEF Installing
  <2>1. u = t
    BY <1>5 DEF Locking
  <2> QED
    BY <1>1, <1>2, <1>3, <1>5, <1>8, <1>11, <2>1
<1>14. AllLocked'
  BY <1>5 DEF AllLocked, Locking
<1>15. SlotIsOpen' /\ Behinds'
  BY <1>1, <1>2, <1>3, <1>5 DEF SlotIsOpen, Behinds, IInv, Types
<1>16. LiveIsOpen'
  BY <1>1, <1>2, <1>3, <1>7 DEF LiveIsOpen
<1>17. LockedStayInTable' /\ (mutex \in [Descs -> Threads \cup {NULL}])'
  BY <1>1, NoMutex DEF LockedStayInTable
<1> QED
  BY <1>12, <1>13, <1>14, <1>15, <1>16, <1>17

LEMMA CloseClearsTInv ==
  ASSUME IInv, IInv', TInv, NEW t \in Threads, CloseClears(t)
  PROVE  TInv'
<1> USE DEF TInv
<1> DEFINE n == loc[t].n
<1>1. /\ pc[t] = "close" /\ n \in Numbers /\ readers = {} /\ writers = {}
      /\ open_files' = [open_files EXCEPT ![n] = NULL]
      /\ behind' = behind \ {n}
      /\ pc' = [pc EXCEPT ![t] = "downgrade"]
      /\ loc' = [loc EXCEPT ![t] = [loc[t] EXCEPT !.d = open_files[n]]]
      /\ UNCHANGED <<desc, mutex, kern>>
  BY DEF CloseClears, GoWith, Lock!AcquireWrite, IInv, Places, Place
<1>2. /\ pc \in [Threads -> Pcs] /\ loc \in [Threads -> Locals]
      /\ open_files \in [Numbers -> Descs \cup {NULL}]
      /\ \A u \in Threads : pc[u] \notin Locking
  BY <1>1 DEF IInv, Types, Lockers, Locking
<1>3. /\ pc'[t] = "downgrade" /\ loc'[t].n = n
      /\ \A u \in Threads : pc'[u] \in Locking => u = t
      /\ open_files'[n] = NULL /\ \A k \in Numbers \ {n} : open_files'[k] = open_files[k]
  BY <1>1, <1>2 DEF Locals
<1>4. /\ Epolls' \subseteq Epolls \ {n}
      /\ \A k \in Epolls' : \A r \in Regs(k)' :
           /\ r \in Regs(k)
           /\ r.late \/ (r.live /\ r.desc = Pollable(Owner(r.n)))
           /\ r.n # n => Pollable(Owner(r.n))' = Pollable(Owner(r.n))
  <2>1. \A u \in Threads : pc'[u] = "install" => loc'[u].n = n
    BY <1>3 DEF Locking
  <2> HIDE DEF n
  <2> QED
    BY <1>1, <1>2, <2>1, ClearedMatch
<1>5. RegistrationsMatch'
  <2> SUFFICES ASSUME NEW k \in Epolls', NEW r \in Regs(k)'
               PROVE  r.late \/ Closing(r.n)' \/ (r.live /\ r.desc = Pollable(Owner(r.n))')
    BY DEF RegistrationsMatch, Regs
  <2>1. r.n = n => Closing(r.n)'
    BY <1>3 DEF Closing
  <2> QED
    BY <1>4, <2>1
<1>6. Installing' /\ AllLocked'
  BY <1>3 DEF Installing, AllLocked, Locking
<1>7. SlotIsOpen' /\ Behinds' /\ LiveIsOpen'
  BY <1>1, <1>3 DEF SlotIsOpen, Behinds, LiveIsOpen, IInv, Types
<1>8. LockedStayInTable' /\ (mutex \in [Descs -> Threads \cup {NULL}])'
  BY <1>1, NoMutex DEF LockedStayInTable
<1> QED
  BY <1>5, <1>6, <1>7, <1>8

LEMMA CloseDowngradesTInv ==
  ASSUME IInv, IInv', TInv, NEW t \in Threads, CloseDowngrades(t)
  PROVE  TInv'
<1> USE DEF TInv
<1>1. /\ pc[t] = "downgrade" /\ pc'[t] = "lock" /\ Others(t) /\ readers = {}
      /\ UNCHANGED <<open_files, desc, mutex, kern, behind, loc>>
      /\ \A u \in Threads : pc[u] \in Locking <=> u = t
  BY DEF CloseDowngrades, Go, table, Others, IInv, Types, Pcs, Lockers, Locking
<1>2. \A u \in Threads : pc'[u] \in Locking <=> u = t
  BY <1>1 DEF Others, Locking
<1>3. RegistrationsMatch'
  <2>1. Epolls' = Epolls
    BY <1>1 DEF Epolls
  <2>2. \A n \in Numbers : Pollable(Owner(n))' = Pollable(Owner(n))
    BY <1>1, OwnersKept DEF Others
  <2> SUFFICES ASSUME NEW k \in Epolls, NEW r \in Regs(k)
               PROVE  r.late \/ Closing(r.n)' \/ (r.live /\ r.desc = Pollable(Owner(r.n))')
    BY <1>1, <2>1 DEF RegistrationsMatch, Regs
  <2>3. r.n \in Numbers
    BY DEF Epolls, Regs, IInv, Types, AddsUp, DescType, Reg
  <2>4. Closing(r.n) => Closing(r.n)'
    BY <1>1 DEF Closing, Others
  <2> QED
    BY <2>2, <2>3, <2>4 DEF RegistrationsMatch, Regs
<1>4. Installing' /\ AllLocked'
  BY <1>1, <1>2 DEF Installing, AllLocked, Locking
<1>5. SlotIsOpen' /\ Behinds' /\ LiveIsOpen'
  BY <1>1 DEF SlotIsOpen, Behinds, LiveIsOpen
<1>6. LockedStayInTable' /\ (mutex \in [Descs -> Threads \cup {NULL}])'
  BY <1>1, NoMutex DEF LockedStayInTable
<1> QED
  BY <1>3, <1>4, <1>5, <1>6

LEMMA CloseLocksTInv ==
  ASSUME IInv, IInv', TInv, NEW t \in Threads, CloseLocks(t)
  PROVE  TInv'
<1> USE DEF TInv
<1>1. /\ pc[t] = "lock" /\ UNCHANGED <<open_files, desc, kern, behind, pc, loc>>
      /\ \A u \in Threads : pc[u] \in Locking <=> u = t
  BY DEF CloseLocks, IInv, Lockers, Locking
<1>2. PICK k \in Epolls : mutex' = [mutex EXCEPT ![open_files[k]] = t]
  <2>1. ToLock(t) # {} /\ ToLock(t) \subseteq Nat /\ ToLock(t) \subseteq Epolls
    BY ShimAssumption DEF CloseLocks, ToLock, Epolls
  <2>2. Min(ToLock(t)) \in Epolls
    BY <2>1, Smallest
  <2> QED
    BY <2>2 DEF CloseLocks
<1>3. open_files[k] \in Descs /\ desc[open_files[k]].kind = "epoll" /\ k \in Numbers
  BY DEF Epolls, IInv, Types
<1>4. RegistrationsMatch'
  BY <1>1, SameMatch
<1>5. Installing' /\ AllLocked'
  BY <1>1 DEF Installing, AllLocked, Locking
<1>6. SlotIsOpen' /\ Behinds' /\ LiveIsOpen'
  BY <1>1 DEF SlotIsOpen, Behinds, LiveIsOpen
<1>7. (mutex \in [Descs -> Threads \cup {NULL}])'
  BY <1>2
<1>8. LockedStayInTable'
  BY <1>1, <1>2, <1>3 DEF LockedStayInTable
<1> QED
  BY <1>4, <1>5, <1>6, <1>7, <1>8

LEMMA CloseRemovesTInv ==
  ASSUME IInv, IInv', TInv, NEW t \in Threads, CloseRemoves(t)
  PROVE  TInv'
<1> USE DEF TInv
<1> DEFINE n == loc[t].n
           D == Removed(n)
<1>1. /\ pc[t] = "lock" /\ pc'[t] = "kclose" /\ loc'[t].n = n /\ Others(t)
      /\ UNCHANGED <<open_files, mutex, kern, behind>> /\ ToLock(t) = {}
      /\ \A u \in Threads : pc[u] \in Locking <=> u = t
      /\ Shaped(desc)
  BY DescShaped
     DEF CloseRemoves, GoWith, Others, IInv, Types, Locals, Pcs, Lockers, Locking, AddsUp
<1>2. \A u \in Threads : pc'[u] \in Locking <=> u = t
  BY <1>1 DEF Others, Locking
<1>3. /\ Stays(desc, D) /\ Shaped(D)
      /\ \A k \in Epolls : open_files[k] \in Descs =>
           \A r \in D[open_files[k]].regs : r.n # n
  BY <1>1, RemovedStays
<1>4. Stays(D, desc')
  <2>1. desc' = Unref(D, loc[t].d)
    BY DEF CloseRemoves
  <2> HIDE DEF D
  <2> QED
    BY <1>3, <2>1, UnrefStays
<1> HIDE DEF D
<1>5. Stays(desc, desc')
  BY <1>3, <1>4 DEF Stays
<1>6. Epolls' = Epolls
  BY <1>1, <1>5, EpollsKept DEF Stays
<1>7. \A k \in Epolls : /\ open_files[k] \in Descs /\ k \in Numbers
                        /\ Regs(k)' = desc'[open_files[k]].regs
                        /\ \A r \in Regs(k)' : r \in Regs(k) /\ r.n # n
  BY <1>1, <1>3, <1>4, <1>5 DEF Stays, Epolls, Regs, IInv, Types
<1>8. RegistrationsMatch'
  <2>1. \A m \in Numbers : Pollable(Owner(m))' = Pollable(Owner(m))
    BY <1>1, <1>5, OwnersKept DEF Others, Stays
  <2> SUFFICES ASSUME NEW k \in Epolls, NEW r \in Regs(k)'
               PROVE  r.late \/ (r.live /\ r.desc = Pollable(Owner(r.n))')
    BY <1>6 DEF RegistrationsMatch, Regs
  <2>2. r \in Regs(k) /\ r.n # n /\ r.n \in Numbers
    BY <1>7 DEF Regs, IInv, AddsUp, DescType, Reg
  <2>3. ~Closing(r.n)
    BY <1>1, <2>2 DEF Closing, Locking
  <2> QED
    BY <2>1, <2>2, <2>3 DEF RegistrationsMatch, Regs
<1>9. AllLocked'
  <2>1. \A k \in Epolls : mutex[open_files[k]] = t
    BY <1>1 DEF ToLock
  <2> SUFFICES ASSUME NEW u \in Threads, pc'[u] = "kclose", NEW k \in Epolls
               PROVE  /\ mutex'[open_files'[k]] = u
                      /\ \A r \in Regs(k)' : r.n # loc'[u].n
    BY <1>6 DEF AllLocked
  <2>2. u = t
    BY <1>2 DEF Locking
  <2> QED
    BY <1>1, <1>7, <2>1, <2>2
<1>10. Installing'
  BY <1>1, <1>2 DEF Installing, Locking
<1>11. SlotIsOpen' /\ Behinds' /\ LiveIsOpen'
  BY <1>1, <1>5 DEF SlotIsOpen, Behinds, LiveIsOpen, Stays
<1>12. LockedStayInTable' /\ (mutex \in [Descs -> Threads \cup {NULL}])'
  <2> SUFFICES ASSUME NEW d \in Descs, mutex[d] # NULL
               PROVE  /\ desc'[d].kind = "epoll"
                      /\ \E k \in Numbers : open_files[k] = d
                      /\ pc'[mutex[d]] \in {"lock", "kclose"}
    BY <1>1 DEF LockedStayInTable
  <2>1. /\ desc[d].kind = "epoll" /\ mutex[d] \in Threads
        /\ \E k \in Numbers : open_files[k] = d
        /\ pc[mutex[d]] \in {"lock", "kclose"}
    BY DEF LockedStayInTable
  <2>2. desc'[d].kind = "epoll"
    BY <1>1, <1>5, <2>1, KindsKept DEF Stays
  <2>3. mutex[d] = t
    BY <1>1, <2>1 DEF Locking
  <2> QED
    BY <1>1, <2>1, <2>2, <2>3
<1> QED
  BY <1>8, <1>9, <1>10, <1>11, <1>12

LEMMA CloseClosesTInv ==
  ASSUME IInv, IInv', TInv, NEW t \in Threads, CloseCloses(t)
  PROVE  TInv'
<1> USE DEF TInv
<1> DEFINE n == loc[t].n
<1>1. /\ pc[t] = "kclose" /\ pc'[t] = "idle" /\ Others(t)
      /\ desc' = Gone(desc, n) /\ kern' = [kern EXCEPT ![n] = "none"]
      /\ mutex' = [d \in Descs |-> IF mutex[d] = t THEN NULL ELSE mutex[d]]
      /\ UNCHANGED <<open_files, behind>>
      /\ \A u \in Threads : pc[u] \in Locking <=> u = t
      /\ n \in Numbers /\ open_files[n] = NULL /\ Shaped(desc)
      /\ kern \in [Numbers -> {"none", "plain", "kq"}]
  BY DescShaped
     DEF CloseCloses, GoWith, Others, IInv, Types, Pcs, Places, Place, Lockers, Locking, AddsUp
<1>2. \A u \in Threads : pc'[u] \notin Locking
  BY <1>1 DEF Others, Locking
<1>3. \A e \in Descs :
        /\ desc'[e].kind = desc[e].kind
        /\ \A r \in desc'[e].regs : \E s \in desc[e].regs :
             /\ r.n = s.n /\ r.desc = s.desc /\ r.late = s.late
             /\ r.live <=> s.live /\ s.n # n
  BY <1>1, GoneStays
<1>4. Epolls' = Epolls
  BY <1>1, <1>3, EpollsKept
<1>5. RegistrationsMatch'
  <2>1. \A m \in Numbers : Pollable(Owner(m))' = Pollable(Owner(m))
    BY <1>1, <1>2, <1>3, OwnersKept DEF Others, Locking
  <2> SUFFICES ASSUME NEW k \in Epolls, NEW r \in Regs(k)'
               PROVE  r.late \/ (r.live /\ r.desc = Pollable(Owner(r.n))')
    BY <1>4 DEF RegistrationsMatch, Regs
  <2>2. open_files[k] \in Descs /\ Regs(k)' = desc'[open_files[k]].regs
    BY <1>1 DEF Epolls, Regs, IInv, Types
  <2>3. PICK s \in Regs(k) : /\ r.n = s.n /\ r.desc = s.desc /\ r.late = s.late
                             /\ r.live <=> s.live /\ s.n # n
    BY <1>3, <2>2 DEF Regs
  <2>4. s.n \in Numbers /\ s.n # n
    BY <1>1, <2>2 DEF Regs, IInv, AddsUp, DescType, Reg, AllLocked
  <2>5. ~Closing(s.n)
    BY <1>1 DEF Closing, Locking
  <2>6. s.late \/ (s.live /\ s.desc = Pollable(Owner(s.n)))
    BY <2>5 DEF RegistrationsMatch, Regs
  <2> QED
    BY <2>1, <2>3, <2>4, <2>6
<1>6. Installing' /\ AllLocked'
  BY <1>2 DEF Installing, AllLocked, Locking
<1>7. SlotIsOpen' /\ Behinds'
  BY <1>1 DEF SlotIsOpen, Behinds
<1>8. LiveIsOpen'
  <2> SUFFICES ASSUME NEW e \in Descs, NEW r \in desc'[e].regs, r.live PROVE kern'[r.n] # "none"
    BY DEF LiveIsOpen
  <2>1. PICK s \in desc[e].regs : r.n = s.n /\ s.live /\ s.n # n
    BY <1>3
  <2> QED
    BY <1>1, <2>1 DEF LiveIsOpen
<1>9. LockedStayInTable' /\ (mutex \in [Descs -> Threads \cup {NULL}])'
  <2>1. \A d \in Descs : mutex'[d] = NULL
    BY <1>1 DEF LockedStayInTable, Locking
  <2> QED
    BY <1>1, <2>1 DEF LockedStayInTable
<1> QED
  BY <1>5, <1>6, <1>7, <1>8, <1>9

LEMMA OpensTInv ==
  ASSUME IInv, IInv', TInv, NEW n \in Numbers, Opens(n)
  PROVE  TInv'
<1> USE DEF TInv
<1>1. /\ kern' = [kern EXCEPT ![n] = "plain"] /\ kern[n] = "none"
      /\ UNCHANGED <<lock, open_files, desc, mutex, behind, pc, loc>>
      /\ kern \in [Numbers -> {"none", "plain", "kq"}]
  <2>1. Unused \subseteq Nat /\ Unused # {} /\ n = Min(Unused)
    BY ShimAssumption DEF Opens, Unused
  <2>2. n \in Unused
    BY <2>1, Smallest
  <2> QED
    BY <2>2 DEF Opens, Unused, IInv, Types
<1>2. Epolls' = Epolls /\ RegistrationsMatch'
  BY <1>1, SameMatch
<1>3. SlotIsOpen' /\ Behinds' /\ LiveIsOpen'
  BY <1>1 DEF SlotIsOpen, Behinds, LiveIsOpen
<1>4. Installing' /\ AllLocked'
  BY <1>1, <1>2 DEF Installing, AllLocked, Sole, Regs
<1>5. LockedStayInTable' /\ (mutex \in [Descs -> Threads \cup {NULL}])'
  BY <1>1 DEF LockedStayInTable
<1> QED
  BY <1>2, <1>3, <1>4, <1>5

LEMMA RawCloseTInv ==
  ASSUME IInv, IInv', TInv, NEW n \in Numbers, RawClose(n)
  PROVE  TInv'
<1> USE DEF TInv
<1> DEFINE D == Gone(desc, n)
<1>1. /\ kern' = [kern EXCEPT ![n] = "none"] /\ open_files[n] # NULL
      /\ behind' = behind \cup {n} /\ desc' = GoneBehind(D, n)
      /\ UNCHANGED <<lock, open_files, mutex, pc, loc>>
      /\ kern \in [Numbers -> {"none", "plain", "kq"}] /\ Shaped(desc)
  BY DescShaped DEF RawClose, IInv, Types, AddsUp
<1>2. /\ Shaped(D)
      /\ \A e \in Descs :
           /\ D[e].kind = desc[e].kind
           /\ \A r \in D[e].regs : \E s \in desc[e].regs :
                /\ r.n = s.n /\ r.desc = s.desc /\ r.late = s.late
                /\ r.live <=> s.live /\ s.n # n
  BY <1>1, GoneStays
<1> HIDE DEF D
<1>3. \A e \in Descs :
        /\ desc'[e].kind = D[e].kind
        /\ \A r \in desc'[e].regs : \E s \in D[e].regs :
             /\ r.n = s.n /\ r.desc = s.desc /\ r.live = s.live
             /\ r.late <=> s.late \/ s.n = n
  BY <1>1, <1>2, GoneStays
<1>4. \A e \in Descs :
        /\ desc'[e].kind = desc[e].kind
        /\ \A r \in desc'[e].regs : \E s \in desc[e].regs :
             /\ r.n = s.n /\ r.desc = s.desc /\ (s.late => r.late)
             /\ r.late \/ (s.live => r.live)
             /\ r.live => s.live /\ s.n # n
  BY <1>2, <1>3
<1>5. /\ Epolls' = Epolls /\ RegistrationsMatch'
      /\ \A k \in Epolls : \A r \in Regs(k)' : \E s \in Regs(k) :
           r.n = s.n /\ (s.late => r.late)
  <2>1. \A e \in Descs :
          /\ desc'[e].kind = desc[e].kind
          /\ \A r \in desc'[e].regs : \E s \in desc[e].regs :
               /\ r.n = s.n /\ r.desc = s.desc /\ (s.late => r.late)
               /\ r.late \/ (s.live => r.live)
    BY <1>4
  <2> QED
    BY <1>1, <2>1, SameMatch
<1>6. SlotIsOpen' /\ Behinds'
  BY <1>1 DEF SlotIsOpen, Behinds
<1>7. LiveIsOpen'
  <2> SUFFICES ASSUME NEW e \in Descs, NEW r \in desc'[e].regs, r.live PROVE kern'[r.n] # "none"
    BY DEF LiveIsOpen
  <2>1. PICK s \in desc[e].regs : r.n = s.n /\ s.live /\ s.n # n
    BY <1>4
  <2> QED
    BY <1>1, <2>1 DEF LiveIsOpen
<1>8. Installing'
  <2> SUFFICES ASSUME NEW u \in Threads, pc[u] = "install"
               PROVE  /\ kern'[loc[u].n] = "kq"
                      /\ Sole(u)'
                      /\ \A k \in Epolls : \A r \in Regs(k)' : r.n = loc[u].n => r.late
    BY <1>1, <1>5 DEF Installing
  <2>1. /\ kern[loc[u].n] = "kq" /\ Sole(u) /\ loc[u].n # n /\ loc[u].d \in Descs
        /\ \A k \in Epolls : \A r \in Regs(k) : r.n = loc[u].n => r.late
    BY <1>1 DEF Installing, IInv, Lockers, Locking, Places, Place, Types, Locals
  <2>2. Sole(u)'
    <3>1. desc'[loc[u].d].regs = {}
      BY <1>4, <2>1 DEF Sole
    <3>2. \A e \in Descs : \A r \in desc'[e].regs : r.desc # loc[u].d
      BY <1>4, <2>1 DEF Sole
    <3> QED
      BY <1>1, <2>1, <3>1, <3>2 DEF Sole
  <2> QED
    BY <1>1, <1>5, <2>1, <2>2
<1>9. AllLocked'
  BY <1>1, <1>5 DEF AllLocked
<1>10. LockedStayInTable' /\ (mutex \in [Descs -> Threads \cup {NULL}])'
  BY <1>1, <1>4 DEF LockedStayInTable
<1> QED
  BY <1>5, <1>6, <1>7, <1>8, <1>9, <1>10

LEMMA InitTInv == Init => TInv
<1> SUFFICES ASSUME Init PROVE TInv
  OBVIOUS
<1>1. Epolls = {} /\ \A d \in Descs : desc[d].regs = {} /\ mutex[d] = NULL
  BY DEF Init, Epolls, FreeDesc
<1> QED
  BY <1>1 DEF Init, TInv, SlotIsOpen, Behinds, Installing, LiveIsOpen, AllLocked,
              RegistrationsMatch, LockedStayInTable

LEMMA NextTInv == IInv /\ IInv' /\ TInv /\ [Next]_vars => TInv'
<1> SUFFICES ASSUME IInv, IInv', TInv, [Next]_vars PROVE TInv'
  OBVIOUS
<1>1. ASSUME NEW t \in Threads, ThreadStep(t) PROVE TInv'
  BY <1>1, InstallDescTInv, DropDescTInv, CloseClearsTInv, CloseDowngradesTInv,
     CloseLocksTInv, CloseRemovesTInv, CloseClosesTInv, CallsTInv, CtlAddsTInv
     DEF ThreadStep
<1>2. ASSUME NEW t \in Threads, Call(t) PROVE TInv'
  BY <1>2, CreateFailsTInv, CreateDescTInv, CallsTInv DEF Call
<1>3. ASSUME NEW n \in Numbers, Opens(n) \/ RawClose(n) PROVE TInv'
  BY <1>3, OpensTInv, RawCloseTInv
<1>4. CASE UNCHANGED vars
  <2>1. UNCHANGED <<lock, open_files, desc, mutex, kern, behind, pc, loc>>
    BY <1>4 DEF vars, lock
  <2>2. RegistrationsMatch' /\ Epolls' = Epolls
    BY <2>1, SameMatch
  <2> QED
    BY <2>1, <2>2, SMTT(30) DEF TInv, SlotIsOpen, Behinds, Installing, Sole, Regs,
                                LiveIsOpen, AllLocked, LockedStayInTable
<1> QED
  BY <1>1, <1>2, <1>3, <1>4 DEF Next

\* The second inductive invariant, on top of the first.
THEOREM TableInvariance == Spec => []TInv
<1>1. Init => TInv
  BY InitTInv
<1>2. IInv /\ IInv' /\ TInv /\ [Next]_vars => TInv'
  BY NextTInv
<1> QED
  BY <1>1, <1>2, Invariance, PTL DEF Spec

\* In every behaviour the table, the registrations and the mutexes close() holds
\* agree with the open files: a slot's number is open, the nodes of an epoll
\* descriptor call the poll function of the description the table has (but for
\* numbers closed behind the shim's back or handed over inside epoll_ctl), and
\* close() never has the mutex of a descriptor that is destroyed
\* (epoll_shim_ctx_remove_desc).
THEOREM TableKept == Spec => []TableInv
<1>1. IInv => TypeOK \/ mutex \notin [Descs -> Threads \cup {NULL}]
  <2> SUFFICES ASSUME IInv, mutex \in [Descs -> Threads \cup {NULL}] PROVE TypeOK
    OBVIOUS
  <2>1. ASSUME NEW d \in Descs
        PROVE  /\ desc[d].kind \in Kinds \cup {"free"} /\ desc[d].refs \in Nat
               /\ desc[d].regs \subseteq Reg
               /\ desc[d].regs # {} => desc[d].kind = "epoll"
    BY DEF IInv, AddsUp, DescType, Wellformed
  <2> QED
    BY <2>1 DEF TypeOK, IInv, Types, Pcs
<1>2. IInv /\ TInv => TableInv
  BY <1>1 DEF TInv, TableInv
<1> QED
  BY <1>2, Invariance, TableInvariance, PTL

=============================================================================
