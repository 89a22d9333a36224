-------------------------- MODULE DrmFramesProofs --------------------------
(***************************************************************************)
(* The ring of page flips of DrmFlip for every size of the ring and of the *)
(* pipe, any number of displays and of threads: no wake-up is lost, what   *)
(* is reported is an event, and the ring is the queue of                   *)
(* AbstractFlipQueue.  The indices turn round at MAX_FLIP_EVENTS; the      *)
(* first lemmas rid the formulas of the remainders.                        *)
(*                                                                         *)
(* Then the frame loop of DrmFrames on top, for any number of displays the *)
(* ring has room for and of buffers: each flip of a frame is in one place  *)
(* only, and what a display shows is what the client has locked last.      *)
(***************************************************************************)
EXTENDS DrmFrames, SequenceTheorems, FiniteSetTheorems, TLAPS

\* How many events a ring with head h and tail u holds, and in which slot the
\* i-th oldest lies.
Size(h, u) == (h - u) % MAX_FLIP_EVENTS
SlotOf(u, i) == (u + i - 1) % MAX_FLIP_EVENTS

\* The events of a ring g, oldest first.
Contents(g, h, u) == [i \in 1 .. Size(h, u) |-> g[SlotOf(u, i)]]

\* A thread is in the client's handler, or in a flip the handler makes.
InHandler(t) ==
  \/ pc[t] = "handler"
  \/ pc[t] \in {"enqueue", "write"} /\ back[t] = "handler"

\* Every slot between tail and head has the event of a display, and what a
\* handler is called with came out of such a slot.
EventsInv ==
  /\ Contents(g_flip_events, head, tail) \in Seq(Crtcs)
  /\ \A t \in Threads : InHandler(t) => crtc_id[t] \in Crtcs

IInv == TypeOK /\ NoLostWakeup /\ EventsInv

-----------------------------------------------------------------------------
\* The index after a slot, without a remainder.
LEMMA AfterIs ==
  ASSUME NEW i \in Slots
  PROVE  /\ After(i) = IF i = MAX_FLIP_EVENTS - 1 THEN 0 ELSE i + 1
         /\ After(i) \in Slots
BY RingAssumption DEF Slots, After

\* The number of events, without a remainder.
LEMMA SizeIs ==
  ASSUME NEW h \in Slots, NEW u \in Slots
  PROVE  /\ Size(h, u) = IF u <= h THEN h - u ELSE h - u + MAX_FLIP_EVENTS
         /\ Size(h, u) \in 0 .. MAX_FLIP_EVENTS - 1
<1>1. CASE u <= h
  <2>1. h - u \in 0 .. MAX_FLIP_EVENTS - 1
    BY <1>1, RingAssumption DEF Slots
  <2> QED
    BY <1>1, <2>1, RingAssumption DEF Size
<1>2. CASE ~(u <= h)
  <2>1. h - u \in Int /\ -MAX_FLIP_EVENTS < h - u /\ h - u < 0
    BY <1>2, RingAssumption DEF Slots
  <2>2. (h - u) % MAX_FLIP_EVENTS = h - u + MAX_FLIP_EVENTS
    BY <2>1, RingAssumption
  <2> QED
    BY <1>2, <2>1, <2>2, RingAssumption DEF Size
<1> QED
  BY <1>1, <1>2

\* The slot of the i-th event, without a remainder.
LEMMA SlotIs ==
  ASSUME NEW u \in Slots, NEW i \in 1 .. MAX_FLIP_EVENTS
  PROVE  /\ SlotOf(u, i) = IF u + i - 1 < MAX_FLIP_EVENTS
                             THEN u + i - 1 ELSE u + i - 1 - MAX_FLIP_EVENTS
         /\ SlotOf(u, i) \in Slots
BY RingAssumption DEF Slots, SlotOf

\* The slot that is filled next is the one behind the last event, and no event
\* lies in it.
LEMMA HeadIsNext ==
  ASSUME NEW h \in Slots, NEW u \in Slots
  PROVE  /\ SlotOf(u, Size(h, u) + 1) = h
         /\ \A i \in 1 .. Size(h, u) : SlotOf(u, i) # h
<1>1. /\ Size(h, u) \in 0 .. MAX_FLIP_EVENTS - 1
      /\ Size(h, u) = IF u <= h THEN h - u ELSE h - u + MAX_FLIP_EVENTS
  BY SizeIs
<1>2. SlotOf(u, Size(h, u) + 1) = h
  BY <1>1, SlotIs, RingAssumption DEF Slots
<1>3. ASSUME NEW i \in 1 .. Size(h, u) PROVE SlotOf(u, i) # h
  <2>1. i \in 1 .. MAX_FLIP_EVENTS
    BY <1>1, RingAssumption
  <2>2. SlotOf(u, i) = IF u + i - 1 < MAX_FLIP_EVENTS
                         THEN u + i - 1 ELSE u + i - 1 - MAX_FLIP_EVENTS
    BY <2>1, SlotIs
  <2> QED
    BY <1>1, <2>1, <2>2, RingAssumption DEF Slots
<1> QED
  BY <1>2, <1>3

\* One more event, while there is room: the others stay where they are.
LEMMA OneMore ==
  ASSUME NEW h \in Slots, NEW u \in Slots
  PROVE  /\ After(h) = u <=> Size(h, u) = MAX_FLIP_EVENTS - 1
         /\ After(h) # u => Size(After(h), u) = Size(h, u) + 1
<1>1. After(h) = IF h = MAX_FLIP_EVENTS - 1 THEN 0 ELSE h + 1
  BY AfterIs
<1>2. Size(h, u) = IF u <= h THEN h - u ELSE h - u + MAX_FLIP_EVENTS
  BY SizeIs
<1>3. After(h) \in Slots
  BY AfterIs
<1>4. Size(After(h), u) = IF u <= After(h) THEN After(h) - u
                                           ELSE After(h) - u + MAX_FLIP_EVENTS
  BY <1>3, SizeIs
<1> QED
  BY <1>1, <1>2, <1>4, RingAssumption DEF Slots

\* One event less: the second oldest becomes the oldest.
LEMMA OneLess ==
  ASSUME NEW h \in Slots, NEW u \in Slots
  PROVE  /\ h = u <=> Size(h, u) = 0
         /\ h # u => Size(h, After(u)) = Size(h, u) - 1
         /\ \A i \in 1 .. MAX_FLIP_EVENTS - 1 :
              SlotOf(After(u), i) = SlotOf(u, i + 1)
<1>1. After(u) = IF u = MAX_FLIP_EVENTS - 1 THEN 0 ELSE u + 1
  BY AfterIs
<1>2. Size(h, u) = IF u <= h THEN h - u ELSE h - u + MAX_FLIP_EVENTS
  BY SizeIs
<1>3. After(u) \in Slots
  BY AfterIs
<1>4. Size(h, After(u)) = IF After(u) <= h THEN h - After(u)
                                           ELSE h - After(u) + MAX_FLIP_EVENTS
  BY <1>3, SizeIs
<1>5. (h = u <=> Size(h, u) = 0) /\ (h # u => Size(h, After(u)) = Size(h, u) - 1)
  BY <1>1, <1>2, <1>4, RingAssumption DEF Slots
<1>6. ASSUME NEW i \in 1 .. MAX_FLIP_EVENTS - 1
      PROVE  SlotOf(After(u), i) = SlotOf(u, i + 1)
  <2>1. i \in 1 .. MAX_FLIP_EVENTS /\ i + 1 \in 1 .. MAX_FLIP_EVENTS
    BY RingAssumption
  <2>2. SlotOf(After(u), i) = IF After(u) + i - 1 < MAX_FLIP_EVENTS
          THEN After(u) + i - 1 ELSE After(u) + i - 1 - MAX_FLIP_EVENTS
    BY <1>3, <2>1, SlotIs
  <2>3. SlotOf(u, i + 1) = IF u + (i + 1) - 1 < MAX_FLIP_EVENTS
          THEN u + (i + 1) - 1 ELSE u + (i + 1) - 1 - MAX_FLIP_EVENTS
    BY <2>1, SlotIs
  <2> QED
    BY <1>1, <2>2, <2>3, RingAssumption DEF Slots
<1> QED
  BY <1>5, <1>6

\* The contents of a ring are as long as the ring is full.
LEMMA ContentsLen ==
  ASSUME NEW S, NEW g \in [Slots -> S], NEW h \in Slots, NEW u \in Slots
  PROVE  /\ Contents(g, h, u) \in Seq(S)
         /\ Len(Contents(g, h, u)) = Size(h, u)
<1>1. Size(h, u) \in 0 .. MAX_FLIP_EVENTS - 1
  BY SizeIs
<1>2. \A i \in 1 .. Size(h, u) : SlotOf(u, i) \in Slots
  BY <1>1, SlotIs, RingAssumption
<1>3. Contents(g, h, u) \in [1 .. Size(h, u) -> S]
  BY <1>2 DEF Contents
<1> QED
  BY <1>1, <1>3

\* Filling the slot at the head, while that leaves the ring not full, appends.
LEMMA PushAppends ==
  ASSUME NEW S, NEW g \in [Slots -> S], NEW c \in S,
         NEW h \in Slots, NEW u \in Slots, After(h) # u
  PROVE  Contents([g EXCEPT ![h] = c], After(h), u) = Append(Contents(g, h, u), c)
<1> DEFINE g2 == [g EXCEPT ![h] = c]
           s == Contents(g, h, u)
           s2 == Contents(g2, After(h), u)
<1>1. After(h) \in Slots /\ g2 \in [Slots -> S]
  BY AfterIs
<1>2. /\ s \in Seq(S) /\ Len(s) = Size(h, u)
      /\ s2 \in Seq(S) /\ Len(s2) = Size(After(h), u)
  <2>1. s \in Seq(S) /\ Len(s) = Size(h, u)
    BY ContentsLen, ZenonT(30)
  <2> HIDE DEF g2
  <2>2. s2 \in Seq(S) /\ Len(s2) = Size(After(h), u)
    BY <1>1, ContentsLen, ZenonT(30)
  <2> QED
    BY <2>1, <2>2
<1>3. Size(h, u) \in 0 .. MAX_FLIP_EVENTS - 1 /\ Size(After(h), u) = Size(h, u) + 1
  BY SizeIs, OneMore
<1>4. ASSUME NEW i \in 1 .. Len(s2) PROVE s2[i] = Append(s, c)[i]
  <2>1. s2[i] = g2[SlotOf(u, i)]
    BY <1>2 DEF Contents
  <2>2. CASE i = Size(h, u) + 1
    <3>1. SlotOf(u, i) = h
      BY <2>2, HeadIsNext
    <3>2. s2[i] = c
      BY <2>1, <3>1
    <3> QED
      BY <1>2, <2>2, <3>2, AppendProperties
  <2>3. CASE i # Size(h, u) + 1
    <3>1. i \in 1 .. Size(h, u)
      BY <1>2, <1>3, <2>3
    <3>2. SlotOf(u, i) # h /\ SlotOf(u, i) \in Slots
      BY <1>3, <3>1, HeadIsNext, SlotIs, RingAssumption
    <3>3. s2[i] = s[i]
      BY <2>1, <3>1, <3>2 DEF Contents
    <3> QED
      BY <1>2, <3>1, <3>3, AppendProperties
  <2> QED
    BY <2>2, <2>3
<1>5. /\ Append(s, c) \in Seq(S)
      /\ Len(Append(s, c)) = Len(s2)
  BY <1>2, <1>3, AppendProperties
<1> HIDE DEF s, s2
<1>6. s2 = Append(s, c)
  BY <1>2, <1>4, <1>5, SeqEqual
<1> QED
  BY <1>6 DEF s, s2

\* Moving the tail on takes the oldest event away.
LEMMA PopIsTail ==
  ASSUME NEW S, NEW g \in [Slots -> S], NEW h \in Slots, NEW u \in Slots, h # u
  PROVE  /\ Contents(g, h, u) # << >>
         /\ Head(Contents(g, h, u)) = g[u]
         /\ Contents(g, h, After(u)) = Tail(Contents(g, h, u))
<1> DEFINE s == Contents(g, h, u)
           s2 == Contents(g, h, After(u))
<1>1. After(u) \in Slots
  BY AfterIs
<1>2. /\ s \in Seq(S) /\ Len(s) = Size(h, u)
      /\ s2 \in Seq(S) /\ Len(s2) = Size(h, After(u))
  BY <1>1, ContentsLen
<1>3. Size(h, u) \in 1 .. MAX_FLIP_EVENTS - 1 /\ Size(h, After(u)) = Size(h, u) - 1
  BY SizeIs, OneLess
<1>4. s # << >>
  BY <1>2, <1>3
<1>5. s[1] = g[u]
  <2>1. 1 \in 1 .. Size(h, u) /\ 1 \in 1 .. MAX_FLIP_EVENTS
    BY <1>3, RingAssumption
  <2>2. SlotOf(u, 1) = u
    BY <2>1, SlotIs, RingAssumption DEF Slots
  <2> QED
    BY <2>1, <2>2 DEF Contents
<1>6. ASSUME NEW i \in 1 .. Len(s2) PROVE s2[i] = Tail(s)[i]
  <2>1. /\ i \in 1 .. Size(h, After(u)) /\ i + 1 \in 1 .. Size(h, u)
        /\ i \in 1 .. MAX_FLIP_EVENTS - 1
    BY <1>2, <1>3, RingAssumption
  <2>2. s2[i] = g[SlotOf(After(u), i)] /\ s[i + 1] = g[SlotOf(u, i + 1)]
    BY <2>1 DEF Contents
  <2>3. SlotOf(After(u), i) = SlotOf(u, i + 1)
    BY <2>1, OneLess
  <2>4. Tail(s)[i] = s[i + 1]
    BY <1>2, <1>3, <1>4, <2>1, HeadTailProperties
  <2> QED
    BY <2>2, <2>3, <2>4
<1>7. Tail(s) \in Seq(S) /\ Len(Tail(s)) = Len(s2)
  BY <1>2, <1>3, <1>4, HeadTailProperties
<1> HIDE DEF s, s2
<1>8. s2 = Tail(s)
  BY <1>2, <1>6, <1>7, SeqEqual
<1>9. Head(s) = s[1]
  BY <1>2, <1>4
<1> QED
  BY <1>4, <1>5, <1>8, <1>9 DEF s, s2

-----------------------------------------------------------------------------
LEMMA PendingIs == Pending = Contents(g_flip_events, head, tail)
BY DEF Pending, Contents, Size, SlotOf

\* What TypeOK says of the ring, and what is in it.
LEMMA RingType ==
  ASSUME IInv
  PROVE  /\ g_flip_events \in [Slots -> 0 .. NCrtcs]
         /\ head \in Slots /\ tail \in Slots
         /\ After(head) \in Slots /\ After(tail) \in Slots
         /\ Pending \in Seq(Crtcs)
         /\ Len(Pending) = Size(head, tail)
<1>1. /\ g_flip_events \in [Slots -> 0 .. NCrtcs]
      /\ head \in Slots /\ tail \in Slots
  BY DEF IInv, TypeOK
<1>2. After(head) \in Slots /\ After(tail) \in Slots
  BY <1>1, AfterIs
<1>3. Pending \in Seq(Crtcs)
  BY PendingIs DEF IInv, EventsInv
<1>4. Len(Pending) = Size(head, tail)
  BY <1>1, PendingIs, ContentsLen
<1> QED
  BY <1>1, <1>2, <1>3, <1>4

\* A new event goes to the end of the queue, and a full queue gives up its first.
LEMMA EnqueuePushes ==
  ASSUME IInv, NEW t \in Threads, Enqueue(t)
  PROVE  /\ Head(todo[t]) \in Crtcs
         /\ Pending' = Append(IF Len(Pending) = MAX_FLIP_EVENTS - 1
                                THEN Tail(Pending) ELSE Pending, Head(todo[t]))
<1> DEFINE c == Head(todo[t])
           g == g_flip_events
<1>1. /\ g \in [Slots -> 0 .. NCrtcs]
      /\ head \in Slots /\ tail \in Slots
      /\ After(head) \in Slots /\ After(tail) \in Slots
      /\ Pending = Contents(g, head, tail)
      /\ Len(Pending) = Size(head, tail)
  BY RingType, PendingIs
<1>2. c \in Crtcs /\ c \in 0 .. NCrtcs
  <2>1. todo[t] \in Seq(Crtcs) /\ todo[t] # << >>
    BY DEF IInv, TypeOK, Enqueue
  <2> QED
    BY <2>1, HeadTailProperties, CrtcsAssumption DEF Crtcs
<1>3. Pending' = Contents([g EXCEPT ![head] = c], After(head), tail')
  <2>1. Pending' = Contents(g', head', tail')
    BY DEF Pending, Contents, Size, SlotOf
  <2>2. g' = [g EXCEPT ![head] = c] /\ head' = After(head)
    BY DEF Enqueue
  <2> QED
    BY <2>1, <2>2
<1>4. CASE After(head) # tail
  <2>1. tail' = tail /\ Len(Pending) # MAX_FLIP_EVENTS - 1
    BY <1>1, <1>4, OneMore DEF Enqueue
  <2>2. Pending' = Append(Pending, c)
    BY <1>1, <1>2, <1>3, <1>4, <2>1, PushAppends, ZenonT(30)
  <2> QED
    BY <1>2, <2>1, <2>2
<1>5. CASE After(head) = tail
  <2>1. tail' = After(tail) /\ Len(Pending) = MAX_FLIP_EVENTS - 1
    BY <1>1, <1>5, OneMore DEF Enqueue
  <2>2. head # tail /\ After(head) # After(tail)
    <3>1. ASSUME NEW i \in Slots PROVE After(i) # i
      BY AfterIs, RingAssumption DEF Slots
    <3> QED
      BY <1>1, <1>5, <3>1
  <2>3. Contents(g, head, After(tail)) = Tail(Pending)
    BY <1>1, <2>2, PopIsTail
  <2>4. Contents([g EXCEPT ![head] = c], After(head), After(tail))
          = Append(Contents(g, head, After(tail)), c)
    BY <1>1, <1>2, <2>2, PushAppends, ZenonT(30)
  <2>5. Pending' = Append(Tail(Pending), c)
    BY <1>3, <2>1, <2>3, <2>4
  <2> QED
    BY <1>2, <2>1, <2>5
<1> QED
  BY <1>4, <1>5

\* The step that reports an event takes it from the front of the queue.
LEMMA DequeuePops ==
  ASSUME IInv, NEW t \in Threads, Dequeue(t), head # tail
  PROVE  /\ Pending # << >>
         /\ g_flip_events[tail] = Head(Pending)
         /\ Head(Pending) \in Crtcs
         /\ Pending' = Tail(Pending)
<1>1. /\ g_flip_events \in [Slots -> 0 .. NCrtcs]
      /\ head \in Slots /\ tail \in Slots
      /\ Pending \in Seq(Crtcs)
      /\ Pending = Contents(g_flip_events, head, tail)
  BY RingType, PendingIs
<1>2. Pending' = Contents(g_flip_events, head, After(tail))
  <2>1. Pending' = Contents(g_flip_events', head', tail')
    BY DEF Pending, Contents, Size, SlotOf
  <2>2. g_flip_events' = g_flip_events /\ head' = head /\ tail' = After(tail)
    BY DEF Dequeue
  <2> QED
    BY <2>1, <2>2
<1>3. /\ Pending # << >>
      /\ Head(Pending) = g_flip_events[tail]
      /\ Pending' = Tail(Pending)
  BY <1>1, <1>2, PopIsTail
<1>4. Head(Pending) \in Crtcs
  BY <1>1, <1>3, HeadTailProperties
<1> QED
  BY <1>3, <1>4

\* Every other step leaves the queue as it is.
LEMMA RingUnchanged ==
  ASSUME UNCHANGED <<g_flip_events, head, tail>>
  PROVE  Pending' = Pending
BY DEF Pending

-----------------------------------------------------------------------------
LEMMA InitIInv == Init => IInv /\ Pending = << >>
<1> SUFFICES ASSUME Init PROVE IInv /\ Pending = << >>
  OBVIOUS
<1>1. head \in Slots /\ tail \in Slots /\ g_flip_events \in [Slots -> 0 .. NCrtcs]
  BY RingAssumption, CrtcsAssumption DEF Init, Slots
<1>2. TypeOK
  BY <1>1, CrtcsAssumption, PipeAssumption DEF Init, TypeOK, Labels
<1>3. Size(head, tail) = 0
  BY <1>1, OneLess DEF Init
<1>4. Len(Pending) = 0 /\ Pending \in Seq(0 .. NCrtcs)
  <2>1. /\ Contents(g_flip_events, head, tail) \in Seq(0 .. NCrtcs)
        /\ Len(Contents(g_flip_events, head, tail)) = Size(head, tail)
    BY <1>1, ContentsLen, ZenonT(30)
  <2> QED
    BY <1>3, <2>1, PendingIs
<1>5. Pending = << >>
  BY <1>4, EmptySeq
<1>6. EventsInv
  <2>1. Contents(g_flip_events, head, tail) \in Seq(Crtcs)
    BY <1>5, PendingIs, EmptySeq
  <2> QED
    BY <2>1 DEF Init, EventsInv, InHandler
<1> QED
  BY <1>2, <1>5, <1>6 DEF Init, IInv, NoLostWakeup

\* A call with its flips yet to be made.
LEMMA SubmitIInv ==
  ASSUME IInv, NEW t \in Threads, NEW s \in Seq(Crtcs), s # << >>, Submit(t, s)
  PROVE  IInv'
<1>1. TypeOK'
  BY DEF IInv, TypeOK, Submit, Labels
<1>2. NoLostWakeup'
  BY DEF IInv, TypeOK, NoLostWakeup, Submit
<1>3. Contents(g_flip_events, head, tail)' = Contents(g_flip_events, head, tail)
  BY DEF Submit, Contents, Size, SlotOf
<1>4. EventsInv'
  BY <1>3 DEF IInv, TypeOK, EventsInv, InHandler, Submit
<1> QED
  BY <1>1, <1>2, <1>4 DEF IInv

\* What a commit asks for: its CRTCs, or the first.
LEMMA RequestType ==
  ASSUME NEW s \in Requests
  PROVE  /\ (IF s = << >> THEN <<1>> ELSE s) \in Seq(Crtcs)
         /\ (IF s = << >> THEN <<1>> ELSE s) # << >>
<1>1. PICK n \in 0 .. NCrtcs : s \in [1 .. n -> Crtcs]
  BY DEF Requests
<1>2. s \in Seq(Crtcs)
  BY <1>1, CrtcsAssumption
<1>3. 1 \in Crtcs
  BY CrtcsAssumption DEF Crtcs
<1>4. <<1>> \in Seq(Crtcs) /\ <<1>> # << >>
  BY <1>3
<1> QED
  BY <1>2, <1>4

LEMMA EnqueueIInv ==
  ASSUME IInv, NEW t \in Threads, Enqueue(t)
  PROVE  IInv'
<1>1. /\ Head(todo[t]) \in Crtcs
      /\ Pending' = Append(IF Len(Pending) = MAX_FLIP_EVENTS - 1
                             THEN Tail(Pending) ELSE Pending, Head(todo[t]))
  BY EnqueuePushes
<1>2. /\ g_flip_events \in [Slots -> 0 .. NCrtcs]
      /\ head \in Slots /\ tail \in Slots
      /\ After(head) \in Slots /\ After(tail) \in Slots
      /\ Pending \in Seq(Crtcs) /\ Len(Pending) = Size(head, tail)
  BY RingType
<1>3. Head(todo[t]) \in 0 .. NCrtcs
  BY <1>1, CrtcsAssumption DEF Crtcs
<1>4. TypeOK'
  <2>1. todo[t] \in Seq(Crtcs) /\ todo[t] # << >>
    BY DEF IInv, TypeOK, Enqueue
  <2>2. Tail(todo[t]) \in Seq(Crtcs)
    BY <2>1, HeadTailProperties
  <2>3. todo' \in [Threads -> Seq(Crtcs)]
    BY <2>2 DEF IInv, TypeOK, Enqueue
  <2>4. g_flip_events' \in [Slots -> 0 .. NCrtcs] /\ head' \in Slots /\ tail' \in Slots
    BY <1>2, <1>3 DEF Enqueue
  <2>5. pc' \in [Threads -> Labels]
    BY DEF IInv, TypeOK, Enqueue, Labels
  <2>6. \A u \in Threads : pc'[u] = "enqueue" => todo'[u] # << >>
    BY <2>1, <2>2 DEF IInv, TypeOK, Enqueue
  <2> QED
    BY <2>3, <2>4, <2>5, <2>6 DEF IInv, TypeOK, Enqueue
<1>5. NoLostWakeup'
  <2>1. pc'[t] # "idle"
    BY DEF IInv, TypeOK, Enqueue
  <2> QED
    BY <2>1 DEF NoLostWakeup
<1>6. EventsInv'
  <2>1. (IF Len(Pending) = MAX_FLIP_EVENTS - 1
           THEN Tail(Pending) ELSE Pending) \in Seq(Crtcs)
    <3>1. CASE Len(Pending) = MAX_FLIP_EVENTS - 1
      <4>1. Pending # << >>
        BY <1>2, <3>1, RingAssumption
      <4> QED
        BY <1>2, <3>1, <4>1, HeadTailProperties
    <3> QED
      BY <1>2, <3>1
  <2>2. Pending' \in Seq(Crtcs)
    BY <1>1, <2>1, AppendProperties
  <2>3. Contents(g_flip_events, head, tail)' = Pending'
    BY DEF Pending, Contents, Size, SlotOf
  <2>4. \A u \in Threads : InHandler(u)' => InHandler(u)
    BY DEF IInv, TypeOK, InHandler, Enqueue
  <2> QED
    BY <2>2, <2>3, <2>4 DEF IInv, EventsInv, Enqueue
<1> QED
  BY <1>4, <1>5, <1>6 DEF IInv

LEMMA DequeueIInv ==
  ASSUME IInv, NEW t \in Threads, Dequeue(t)
  PROVE  IInv'
<1>1. CASE head = tail
  <2>1. TypeOK'
    BY <1>1 DEF IInv, TypeOK, Dequeue, Labels
  <2>2. NoLostWakeup'
    BY <1>1 DEF NoLostWakeup, Dequeue
  <2>3. Contents(g_flip_events, head, tail)' = Contents(g_flip_events, head, tail)
    BY <1>1 DEF Dequeue, Contents, Size, SlotOf
  <2>4. EventsInv'
    BY <1>1, <2>3 DEF IInv, TypeOK, EventsInv, InHandler, Dequeue
  <2> QED
    BY <2>1, <2>2, <2>4 DEF IInv
<1>2. CASE head # tail
  <2>1. /\ Pending # << >>
        /\ g_flip_events[tail] \in Crtcs
        /\ Pending' = Tail(Pending)
    BY <1>2, DequeuePops
  <2>2. After(tail) \in Slots /\ Pending \in Seq(Crtcs)
    BY RingType
  <2>3. g_flip_events[tail] \in 0 .. NCrtcs
    BY <2>1, CrtcsAssumption DEF Crtcs
  <2>4. TypeOK'
    BY <1>2, <2>2, <2>3 DEF IInv, TypeOK, Dequeue, Labels
  <2>5. NoLostWakeup'
    <3>1. pc'[t] # "idle"
      BY <1>2 DEF IInv, TypeOK, Dequeue
    <3> QED
      BY <3>1 DEF NoLostWakeup
  <2>6. Pending' \in Seq(Crtcs)
    BY <2>1, <2>2, HeadTailProperties
  <2>7. Contents(g_flip_events, head, tail)' = Pending'
    BY DEF Pending, Contents, Size, SlotOf
  <2>8. \A u \in Threads : InHandler(u)' => crtc_id'[u] \in Crtcs
    BY <1>2, <2>1 DEF IInv, TypeOK, EventsInv, InHandler, Dequeue
  <2> QED
    BY <2>4, <2>5, <2>6, <2>7, <2>8 DEF IInv, EventsInv
<1> QED
  BY <1>1, <1>2

\* Every step of DrmFlip keeps the invariant.
LEMMA NextIInv == IInv /\ [Next]_flipVars => IInv'
<1> SUFFICES ASSUME IInv, [Next]_flipVars PROVE IInv'
  OBVIOUS
<1>1. ASSUME NEW t \in Threads, NEW c \in Crtcs, PageFlip(t, c) PROVE IInv'
  <2>1. <<c>> \in Seq(Crtcs) /\ <<c>> # << >> /\ Submit(t, <<c>>)
    BY <1>1 DEF PageFlip
  <2> QED
    BY <2>1, SubmitIInv
<1>2. ASSUME NEW t \in Threads, NEW s \in Requests, AtomicCommit(t, s) PROVE IInv'
  <2> DEFINE asked == IF s = << >> THEN <<1>> ELSE s
  <2>1. asked \in Seq(Crtcs) /\ asked # << >>
    BY RequestType
  <2>2. Submit(t, asked)
    BY <1>2 DEF AtomicCommit
  <2> HIDE DEF asked
  <2> QED
    BY <2>1, <2>2, SubmitIInv
<1>3. ASSUME NEW t \in Threads, Enqueue(t) PROVE IInv'
  BY <1>3, EnqueueIInv
<1>4. ASSUME NEW t \in Threads, WriteByte(t) PROVE IInv'
  <2>1. TypeOK'
    BY <1>4, PipeAssumption DEF IInv, TypeOK, WriteByte, Labels
  <2>2. NoLostWakeup'
    BY <1>4 DEF IInv, TypeOK, NoLostWakeup, WriteByte
  <2>3. Contents(g_flip_events, head, tail)' = Contents(g_flip_events, head, tail)
    BY <1>4 DEF WriteByte, Contents, Size, SlotOf
  <2>4. EventsInv'
    BY <1>4, <2>3 DEF IInv, TypeOK, EventsInv, InHandler, WriteByte
  <2> QED
    BY <2>1, <2>2, <2>4 DEF IInv
<1>5. ASSUME NEW t \in Loops, ReadByte(t) PROVE IInv'
  <2>1. TypeOK'
    BY <1>5, LoopsAssumption, PipeAssumption DEF IInv, TypeOK, ReadByte, Labels
  <2>2. NoLostWakeup'
    BY <1>5, LoopsAssumption DEF IInv, TypeOK, NoLostWakeup, ReadByte
  <2>3. Contents(g_flip_events, head, tail)' = Contents(g_flip_events, head, tail)
    BY <1>5 DEF ReadByte, Contents, Size, SlotOf
  <2>4. EventsInv'
    BY <1>5, <2>3 DEF IInv, TypeOK, EventsInv, InHandler, ReadByte
  <2> QED
    BY <2>1, <2>2, <2>4 DEF IInv
<1>6. ASSUME NEW t \in Loops, Dequeue(t) PROVE IInv'
  BY <1>6, LoopsAssumption, DequeueIInv
<1>7. ASSUME NEW t \in Loops, HandlerReturn(t) PROVE IInv'
  <2>1. TypeOK'
    BY <1>7, LoopsAssumption, CrtcsAssumption
       DEF IInv, TypeOK, HandlerReturn, Labels
  <2>2. NoLostWakeup'
    BY <1>7, LoopsAssumption DEF IInv, TypeOK, NoLostWakeup, HandlerReturn
  <2>3. Contents(g_flip_events, head, tail)' = Contents(g_flip_events, head, tail)
    BY <1>7 DEF HandlerReturn, Contents, Size, SlotOf
  <2>4. EventsInv'
    BY <1>7, <2>3 DEF IInv, TypeOK, EventsInv, InHandler, HandlerReturn
  <2> QED
    BY <2>1, <2>2, <2>4 DEF IInv
<1>8. CASE UNCHANGED flipVars
  <2>1. Contents(g_flip_events, head, tail)' = Contents(g_flip_events, head, tail)
    BY <1>8 DEF flipVars, Contents, Size, SlotOf
  <2> QED
    BY <1>8, <2>1 DEF IInv, TypeOK, NoLostWakeup, EventsInv, InHandler, flipVars
<1> QED
  BY <1>1, <1>2, <1>3, <1>4, <1>5, <1>6, <1>7, <1>8 DEF Next

\* In every state of DrmFlip the invariant holds.
THEOREM Invariance == Spec => []IInv
BY InitIInv, NextIInv, PTL DEF Spec

\* No wake-up of drmHandleEvent is lost, whatever the sizes of ring and pipe.
THEOREM WakeUps == Spec => []NoLostWakeup
<1>1. IInv => NoLostWakeup
  BY DEF IInv
<1> QED
  BY <1>1, Invariance, PTL

\* A handler is called for a display only, never with what a slot held before.
Genuine == \A t \in Threads : pc[t] = "handler" => crtc_id[t] \in Crtcs

\* drmHandleEvent reports nothing but flips that were made.
THEOREM OnlyEvents == Spec => []Genuine
<1>1. IInv => Genuine
  BY DEF IInv, EventsInv, InHandler, Genuine
<1> QED
  BY <1>1, Invariance, PTL

\* Each step is one of the abstract queue or invisible to it.
LEMMA NextRefines == IInv /\ [Next]_flipVars => [FlipQueue!Next]_Pending
<1> SUFFICES ASSUME IInv, [Next]_flipVars
             PROVE  FlipQueue!Next \/ Pending' = Pending
  OBVIOUS
<1>1. ASSUME NEW t \in Threads, Enqueue(t) PROVE FlipQueue!Next
  <2>1. /\ Head(todo[t]) \in Crtcs
        /\ Pending' = Append(IF Len(Pending) = MAX_FLIP_EVENTS - 1
                               THEN Tail(Pending) ELSE Pending, Head(todo[t]))
    BY <1>1, EnqueuePushes
  <2>2. FlipQueue!Push(Head(todo[t]))
    BY <2>1 DEF FlipQueue!Push
  <2> QED
    BY <2>1, <2>2 DEF FlipQueue!Next
<1>2. ASSUME NEW t \in Loops, Dequeue(t) PROVE FlipQueue!Next \/ Pending' = Pending
  <2>1. CASE head = tail
    BY <1>2, <2>1, RingUnchanged DEF Dequeue
  <2>2. CASE head # tail
    <3>1. Pending # << >> /\ Pending' = Tail(Pending)
      BY <1>2, <2>2, LoopsAssumption, DequeuePops
    <3> QED
      BY <3>1 DEF FlipQueue!Next, FlipQueue!Pop
  <2> QED
    BY <2>1, <2>2
<1>3. ASSUME \/ \E t \in Threads :
                  \/ \E c \in Crtcs : PageFlip(t, c)
                  \/ \E s \in Requests : AtomicCommit(t, s)
                  \/ WriteByte(t)
             \/ \E t \in Loops : ReadByte(t) \/ HandlerReturn(t)
             \/ UNCHANGED flipVars
      PROVE  Pending' = Pending
  <2>1. UNCHANGED <<g_flip_events, head, tail>>
    BY <1>3 DEF PageFlip, AtomicCommit, Submit, WriteByte, ReadByte,
                HandlerReturn, flipVars
  <2> QED
    BY <2>1, RingUnchanged
<1> QED
  BY <1>1, <1>2, <1>3 DEF Next

\* The ring of drm_linux.c implements the bounded queue of AbstractFlipQueue.
THEOREM Refinement == Spec => RingIsQueue
<1>1. Init => FlipQueue!Init
  BY InitIInv DEF FlipQueue!Init
<1> QED
  BY <1>1, NextRefines, Invariance, PTL DEF Spec, RingIsQueue, FlipQueue!Spec

-----------------------------------------------------------------------------
\* The frame loop.  One thread runs it, as in test/kmscube.c, and the ring has
\* room for an event of every display: 8 displays and 64 slots in the code.
OneLoop == \E t \in Threads : Loops = {t}
RoomForAll == NCrtcs < MAX_FLIP_EVENTS

Loop == CHOOSE t \in Threads : Loops = {t}

\* The display whose flip is being reported.
Reported == {c \in Crtcs : pc[Loop] = "handler" /\ crtc_id[Loop] = c}

\* The loop's thread is the only one at work, and flips between its calls only.
LoopAlone ==
  /\ \A t \in Threads \ {Loop} : pc[t] = "idle"
  /\ \A t \in Threads : pc[t] # "enqueue" => todo[t] = << >>
  /\ pc[Loop] \in {"enqueue", "write"} => back[Loop] = "idle"

\* What the loop's thread may be doing in each part of a frame.
PhaseOK ==
  /\ phase \in {"render", "submit", "wait"}
  /\ phase = "render" => waiting = {} /\ pc[Loop] = "idle"
  /\ phase = "submit" => pc[Loop] \in {"idle", "enqueue", "write"}
  /\ phase = "wait" =>
       /\ left = << >>
       /\ pc[Loop] \in {"idle", "drain", "handler"}
       /\ pc[Loop] = "idle" => waiting = {}

\* A commit writes one byte for the frame, and the first look at the ring takes it.
OneByte ==
  use = "atomic" =>
    /\ left # << >> => pc[Loop] = "idle"
    /\ phase \in {"render", "wait"} => bytes = 0
    /\ phase = "submit" =>
         bytes = 0 \/ (bytes = 1 /\ pc[Loop] = "idle" /\ left = << >>)

\* A flip that is waited for is in one place: still to be submitted, about to be
\* put into the ring, in the ring, or being reported.
FlipsInOnePlace ==
  /\ waiting = Range(left) \cup Range(todo[Loop]) \cup Range(Pending) \cup Reported
  /\ IsInjective(todo[Loop])
  /\ IsInjective(Pending)
  /\ Range(left) \cap Range(todo[Loop]) = {}
  /\ Range(left) \cap Range(Pending) = {}
  /\ Range(left) \cap Reported = {}
  /\ Range(todo[Loop]) \cap Range(Pending) = {}
  /\ Range(todo[Loop]) \cap Reported = {}
  /\ Range(Pending) \cap Reported = {}

Surfaces == [write_idx : Bos, read_idx : Bos, count : Int]

\* The buffer of surface s that was drawn last.
LastDrawn(s) == (s.write_idx - 1) % GBM_NUM_BUFFERS

\* Between frames nothing is drawn and not locked; what is locked was drawn last,
\* and is on every display it has been submitted to.
BuffersOK ==
  /\ gbm \in [Crtcs -> Surfaces]
  /\ bo \in [Crtcs -> Bos \cup {NoBo}]
  /\ shown \in [Crtcs -> Bos \cup {NoBo}]
  /\ \A c \in Crtcs : gbm[c].count = 0 /\ gbm[c].read_idx = gbm[c].write_idx
  /\ \A c \in Crtcs : bo[c] \in {NoBo, LastDrawn(gbm[c])}
  /\ \A c \in Crtcs \ Range(left) : shown[c] = bo[SurfaceFor(c)]
  /\ \A c \in waiting : bo[SurfaceFor(c)] = LastDrawn(gbm[SurfaceFor(c)])

LoopInv == LoopAlone /\ PhaseOK /\ OneByte /\ FlipsInOnePlace /\ BuffersOK

FramesIInv ==
  /\ IInv
  /\ left \in Requests
  /\ use \in {"atomic", "flips", "free"}
  /\ OneLoop
  /\ RoomForAll
  /\ use = "free" => phase = "render"
  /\ use # "free" => LoopInv

-----------------------------------------------------------------------------
LEMMA LoopIs ==
  ASSUME OneLoop
  PROVE  Loops = {Loop} /\ Loop \in Threads
BY DEF OneLoop, Loop

\* A sequence without repetitions loses its head to nothing else.
LEMMA TailRange ==
  ASSUME NEW S, NEW s \in Seq(S), s # << >>, IsInjective(s)
  PROVE  /\ IsInjective(Tail(s))
         /\ Range(Tail(s)) = Range(s) \ {Head(s)}
         /\ Head(s) \in Range(s)
<1>1. /\ Tail(s) \in Seq(S) /\ Len(Tail(s)) = Len(s) - 1
      /\ \A i \in 1 .. Len(Tail(s)) : Tail(s)[i] = s[i + 1]
  BY HeadTailProperties
<1>2. /\ Len(s) \in Nat \ {0} /\ DOMAIN s = 1 .. Len(s)
      /\ DOMAIN Tail(s) = 1 .. Len(Tail(s))
      /\ Head(s) = s[1] /\ 1 \in DOMAIN s
  BY <1>1, EmptySeq, LenProperties
<1>3. IsInjective(Tail(s))
  BY <1>1, <1>2 DEF IsInjective
<1>4. ASSUME NEW x \in Range(Tail(s)) PROVE x \in Range(s) \ {Head(s)}
  <2>1. PICK i \in 1 .. Len(Tail(s)) : x = Tail(s)[i]
    BY <1>2 DEF Range
  <2>2. x = s[i + 1] /\ i + 1 \in DOMAIN s /\ i + 1 # 1
    BY <1>1, <1>2, <2>1
  <2> QED
    BY <1>2, <2>2 DEF Range, IsInjective
<1>5. ASSUME NEW x \in Range(s) \ {Head(s)} PROVE x \in Range(Tail(s))
  <2>1. PICK i \in 1 .. Len(s) : x = s[i]
    BY <1>2 DEF Range
  <2>2. i # 1
    BY <1>2, <2>1
  <2>3. i - 1 \in 1 .. Len(Tail(s)) /\ Tail(s)[i - 1] = s[(i - 1) + 1]
    BY <1>1, <1>2, <2>2
  <2>4. x = Tail(s)[i - 1]
    BY <2>1, <2>3
  <2> QED
    BY <1>2, <2>3, <2>4 DEF Range
<1>6. Head(s) \in Range(s)
  BY <1>2 DEF Range
<1> QED
  BY <1>3, <1>4, <1>5, <1>6

\* Appending something new repeats nothing.
LEMMA AppendRange ==
  ASSUME NEW S, NEW s \in Seq(S), IsInjective(s), NEW c \in S, c \notin Range(s)
  PROVE  /\ IsInjective(Append(s, c))
         /\ Range(Append(s, c)) = Range(s) \cup {c}
<1> DEFINE a == Append(s, c)
<1>1. /\ Len(s) \in Nat /\ DOMAIN s = 1 .. Len(s)
      /\ a \in Seq(S) /\ Len(a) = Len(s) + 1
      /\ \A i \in 1 .. Len(s) : a[i] = s[i]
      /\ a[Len(s) + 1] = c
  BY AppendProperties, LenProperties
<1>2. DOMAIN a = 1 .. Len(s) + 1
  BY <1>1, LenProperties
<1> HIDE DEF a
<1>3. \A i \in 1 .. Len(s) : s[i] # c
  BY <1>1 DEF Range
<1>4. IsInjective(a)
  <2> SUFFICES ASSUME NEW i \in 1 .. Len(s) + 1, NEW j \in 1 .. Len(s) + 1, a[i] = a[j]
               PROVE  i = j
    BY <1>2 DEF IsInjective
  <2>1. CASE i \in 1 .. Len(s) /\ j \in 1 .. Len(s)
    BY <1>1, <2>1 DEF IsInjective
  <2>2. CASE ~(i \in 1 .. Len(s) /\ j \in 1 .. Len(s))
    BY <1>1, <1>3, <2>2
  <2> QED
    BY <2>1, <2>2
<1>5. ASSUME NEW x \in Range(a) PROVE x \in Range(s) \cup {c}
  <2>1. PICK i \in 1 .. Len(s) + 1 : x = a[i]
    BY <1>2 DEF Range
  <2>2. i \in 1 .. Len(s) \/ i = Len(s) + 1
    BY <1>1
  <2> QED
    BY <1>1, <2>1, <2>2 DEF Range
<1>6. ASSUME NEW x \in Range(s) \cup {c} PROVE x \in Range(a)
  <2>1. CASE x = c
    BY <1>1, <1>2, <2>1 DEF Range
  <2>2. CASE x \in Range(s)
    <3>1. PICK i \in 1 .. Len(s) : x = s[i]
      BY <1>1, <2>2 DEF Range
    <3>2. i \in 1 .. Len(s) + 1 /\ a[i] = x
      BY <1>1, <3>1
    <3> QED
      BY <1>2, <3>2 DEF Range
  <2> QED
    BY <2>1, <2>2
<1> QED
  BY <1>4, <1>5, <1>6 DEF a

LEMMA EmptyRange == Range(<< >>) = {} /\ IsInjective(<< >>)
<1>1. DOMAIN << >> = {}
  OBVIOUS
<1> QED
  BY <1>1 DEF Range, IsInjective

LEMMA RangeType ==
  ASSUME NEW S, NEW s \in Seq(S)
  PROVE  Range(s) \subseteq S /\ (Range(s) = {} => s = << >>)
<1>1. Len(s) \in Nat /\ DOMAIN s = 1 .. Len(s) /\ s \in [1 .. Len(s) -> S]
  BY LenProperties
<1>2. s # << >> => 1 \in DOMAIN s
  BY <1>1, EmptySeq
<1> QED
  BY <1>1, <1>2 DEF Range

\* A sequence without repetitions is as long as it has elements.
LEMMA DistinctCount ==
  ASSUME NEW S, NEW s \in Seq(S), IsInjective(s)
  PROVE  IsFiniteSet(Range(s)) /\ Cardinality(Range(s)) = Len(s)
<1>1. Len(s) \in Nat /\ DOMAIN s = 1 .. Len(s) /\ s \in [1 .. Len(s) -> S]
  BY LenProperties
<1>2. IsFiniteSet(1 .. Len(s)) /\ Cardinality(1 .. Len(s)) = Len(s)
  BY <1>1, FS_Interval
<1>3. s \in Bijection(1 .. Len(s), Range(s))
  BY <1>1 DEF Range, Bijection, Injection, Surjection
<1>4. ExistsBijection(1 .. Len(s), Range(s))
  BY <1>3 DEF ExistsBijection
<1> QED
  BY <1>2, <1>4, FS_Bijection

\* While a display's flip is not in the ring, the ring is not full.
LEMMA RingHasRoom ==
  ASSUME RoomForAll, NEW s \in Seq(Crtcs), IsInjective(s),
         NEW c \in Crtcs, c \notin Range(s)
  PROVE  Len(s) < MAX_FLIP_EVENTS - 1
<1>1. /\ IsFiniteSet(Crtcs) /\ Cardinality(Crtcs) = NCrtcs
  BY CrtcsAssumption, FS_Interval DEF Crtcs
<1>2. IsFiniteSet(Crtcs \ {c}) /\ Cardinality(Crtcs \ {c}) = NCrtcs - 1
  BY <1>1, FS_RemoveElement
<1>3. Range(s) \in SUBSET (Crtcs \ {c})
  BY RangeType
<1>4. Cardinality(Range(s)) <= NCrtcs - 1
  BY <1>2, <1>3, FS_Subset
<1>5. Len(s) <= NCrtcs - 1 /\ Len(s) \in Nat
  BY <1>4, DistinctCount, LenProperties
<1> QED
  BY <1>5, RingAssumption, CrtcsAssumption DEF RoomForAll

\* What a request names.
LEMMA RequestsAre ==
  ASSUME NEW s \in Requests
  PROVE  s \in Seq(Crtcs) /\ IsInjective(s)
<1>1. PICK n \in 0 .. NCrtcs : s \in [1 .. n -> Crtcs]
  BY DEF Requests
<1> QED
  BY <1>1, CrtcsAssumption DEF Requests, IsInjective

\* Taking the first display out of a request leaves a request.
LEMMA TailIsRequest ==
  ASSUME NEW s \in Requests, s # << >>
  PROVE  Tail(s) \in Requests /\ Head(s) \in Crtcs
<1>1. PICK n \in 0 .. NCrtcs : s \in [1 .. n -> Crtcs]
  BY DEF Requests
<1>2. s \in Seq(Crtcs) /\ IsInjective(s)
  BY RequestsAre
<1>3. Len(s) = n /\ n \in Nat
  BY <1>1, CrtcsAssumption
<1>4. /\ Head(s) \in Crtcs /\ Tail(s) \in Seq(Crtcs) /\ Len(Tail(s)) = Len(s) - 1
      /\ IsInjective(Tail(s))
  BY <1>2, HeadTailProperties, TailRange
<1>5. n - 1 \in 0 .. NCrtcs /\ Tail(s) \in [1 .. n - 1 -> Crtcs]
  <2>1. Tail(s) \in [1 .. Len(Tail(s)) -> Crtcs]
    BY <1>4, LenProperties
  <2>2. Len(s) # 0
    BY <1>2, EmptySeq
  <2>3. Len(Tail(s)) = n - 1
    BY <1>3, <1>4
  <2>4. n - 1 \in 0 .. NCrtcs
    BY <1>3, <2>2, CrtcsAssumption
  <2> QED
    BY <2>1, <2>3, <2>4
<1>6. Tail(s) \in UNION {[1 .. k -> Crtcs] : k \in 0 .. NCrtcs}
  BY <1>5
<1> QED
  BY <1>4, <1>6 DEF Requests, IsInjective

-----------------------------------------------------------------------------
\* The buffer after a buffer, and the one drawn before it.
LEMMA RoundRing ==
  ASSUME NEW w \in Bos
  PROVE  /\ (w + 1) % GBM_NUM_BUFFERS \in Bos
         /\ (((w + 1) % GBM_NUM_BUFFERS) - 1) % GBM_NUM_BUFFERS = w
         /\ (w - 1) % GBM_NUM_BUFFERS \in Bos
         /\ (w - 1) % GBM_NUM_BUFFERS # w
<1>1. (w + 1) % GBM_NUM_BUFFERS = IF w + 1 = GBM_NUM_BUFFERS THEN 0 ELSE w + 1
  BY BuffersAssumption DEF Bos
<1>2. (w - 1) % GBM_NUM_BUFFERS = IF w = 0 THEN GBM_NUM_BUFFERS - 1 ELSE w - 1
  BY BuffersAssumption DEF Bos
<1>3. (GBM_NUM_BUFFERS - 1) % GBM_NUM_BUFFERS = GBM_NUM_BUFFERS - 1
  BY BuffersAssumption
<1>4. (0 - 1) % GBM_NUM_BUFFERS = GBM_NUM_BUFFERS - 1
  BY BuffersAssumption
<1>5. w + 1 # GBM_NUM_BUFFERS => ((w + 1) - 1) % GBM_NUM_BUFFERS = w
  BY BuffersAssumption DEF Bos
<1> QED
  BY <1>1, <1>2, <1>3, <1>4, <1>5, BuffersAssumption DEF Bos

\* A surface from which nothing is left to lock: the frame that is drawn next goes
\* into write_idx, and is what is locked.
LEMMA DrawAndLock ==
  ASSUME NEW s \in Surfaces, s.count = 0, s.read_idx = s.write_idx
  PROVE  LET n == LockFrontBuffer(SwapBuffers(s))
         IN  /\ n \in Surfaces
             /\ n.count = 0 /\ n.read_idx = n.write_idx
             /\ FrontBo(SwapBuffers(s)) = s.write_idx
             /\ LastDrawn(n) = s.write_idx
             /\ FrontBo(SwapBuffers(s)) \in Bos
<1>1. PICK w \in Bos : s = [write_idx |-> w, read_idx |-> w, count |-> 0]
  BY DEF Surfaces
<1> DEFINE w2 == (w + 1) % GBM_NUM_BUFFERS
           drawn == [write_idx |-> w2, read_idx |-> w, count |-> 1]
           n == [write_idx |-> w2, read_idx |-> w2, count |-> 0]
<1>2. w2 \in Bos /\ (w2 - 1) % GBM_NUM_BUFFERS = w
  BY <1>1, RoundRing
<1>3. SwapBuffers(s) = drawn
  <2>1. s.write_idx = w /\ s.read_idx = w /\ s.count = 0
    BY <1>1
  <2>2. AdvanceWrite(s) = [s EXCEPT !.write_idx = w2, !.count = 1]
    BY <2>1 DEF AdvanceWrite
  <2> HIDE DEF w2
  <2>3. [s EXCEPT !.write_idx = w2, !.count = 1] = drawn
    <3> DEFINE x == [s EXCEPT !.write_idx = w2]
    <3>1. x \in Surfaces /\ x.write_idx = w2 /\ x.read_idx = w
      BY <1>2, <2>1 DEF Surfaces
    <3> HIDE DEF x
    <3>2. [x EXCEPT !.count = 1] = drawn
      BY <3>1 DEF Surfaces
    <3> QED
      BY <3>2 DEF x
  <2> QED
    BY <2>2, <2>3 DEF SwapBuffers
<1>4. FrontBo(drawn) = w /\ LockFrontBuffer(drawn) = n
  <2>1. drawn.count = 1 /\ drawn.read_idx = w
    OBVIOUS
  <2>2. drawn.count - 1 = 0 /\ (drawn.read_idx + 1) % GBM_NUM_BUFFERS = w2
    BY <2>1
  <2>3. LockFrontBuffer(drawn) = [drawn EXCEPT !.read_idx = w2, !.count = 0]
    BY <2>1, <2>2 DEF LockFrontBuffer
  <2> HIDE DEF w2
  <2>4. [drawn EXCEPT !.read_idx = w2, !.count = 0] = n
    <3> DEFINE x == [drawn EXCEPT !.read_idx = w2]
    <3>1. drawn \in Surfaces /\ drawn.write_idx = w2
      BY <1>2 DEF Surfaces
    <3> HIDE DEF drawn
    <3>2. x \in Surfaces /\ x.write_idx = w2 /\ x.read_idx = w2
      BY <1>2, <3>1 DEF Surfaces
    <3> HIDE DEF x
    <3>3. [x EXCEPT !.count = 0] = n
      BY <3>2 DEF Surfaces
    <3> QED
      BY <3>3 DEF x
  <2> QED
    BY <2>1, <2>3, <2>4 DEF FrontBo
<1>5. n \in Surfaces /\ LastDrawn(n) = w
  BY <1>2 DEF Surfaces, LastDrawn
<1> QED
  BY <1>1, <1>3, <1>4, <1>5

\* The surface behind a display exists.
LEMMA SurfaceType ==
  ASSUME NEW c \in Crtcs
  PROVE  SurfaceFor(c) \in Crtcs
BY CrtcsAssumption DEF SurfaceFor, Crtcs

\* What FlipsAccounted sums up over the threads, when one is at work.
LEMMA OneThreadsFlips ==
  ASSUME OneLoop, IInv, LoopAlone
  PROVE  /\ {crtc_id[t] : t \in {u \in Threads : pc[u] = "handler"}} = Reported
         /\ UNION {{todo[t][i] : i \in DOMAIN todo[t]} : t \in Threads}
              = Range(todo[Loop])
<1>1. Loop \in Threads
  BY LoopIs
<1>2. \A t \in Threads : pc[t] = "handler" => t = Loop /\ crtc_id[t] \in Crtcs
  BY DEF LoopAlone, IInv, EventsInv, InHandler
<1>3. {crtc_id[t] : t \in {u \in Threads : pc[u] = "handler"}} = Reported
  BY <1>1, <1>2 DEF Reported
<1>4. \A t \in Threads \ {Loop} : todo[t] = << >>
  BY DEF LoopAlone
<1>5. \A t \in Threads : {todo[t][i] : i \in DOMAIN todo[t]} = Range(todo[t])
  BY DEF Range
<1>6. \A t \in Threads \ {Loop} : Range(todo[t]) = {}
  BY <1>4, EmptyRange
<1>7. \A x : (\E t \in Threads : x \in {todo[t][i] : i \in DOMAIN todo[t]})
               <=> x \in Range(todo[Loop])
  BY <1>1, <1>5, <1>6
<1>8. UNION {{todo[t][i] : i \in DOMAIN todo[t]} : t \in Threads} = Range(todo[Loop])
  BY <1>7
<1> QED
  BY <1>3, <1>8

\* The inductive invariant says what FramesInv says.
LEMMA InvariantSays == FramesIInv => FramesInv
<1> SUFFICES ASSUME FramesIInv PROVE FramesInv
  OBVIOUS
<1>1. TypeOK
  BY DEF FramesIInv, IInv
<1>2. ASSUME use # "free" PROVE FlipsAccounted /\ NewestShown /\ NoStaleWakeup
  <2>1. LoopAlone /\ PhaseOK /\ OneByte /\ FlipsInOnePlace /\ BuffersOK /\ OneLoop /\ IInv
    BY <1>2 DEF FramesIInv, LoopInv
  <2>2. Pending \in Seq(Crtcs)
    BY <2>1, RingType
  <2>3. Len(Pending) = Cardinality(Range(Pending))
    BY <2>1, <2>2, DistinctCount DEF FlipsInOnePlace
  <2>4. FlipsAccounted
    <3>1. waiting = Range(left) \cup Range(todo[Loop]) \cup Range(Pending) \cup Reported
      BY <2>1 DEF FlipsInOnePlace
    <3>2. /\ {Pending[i] : i \in DOMAIN Pending} = Range(Pending)
          /\ {left[i] : i \in DOMAIN left} = Range(left)
      BY DEF Range
    <3> QED
      BY <2>1, <2>3, <3>1, <3>2, OneThreadsFlips DEF FlipsAccounted
  <2>5. NewestShown
    <3> SUFFICES ASSUME phase = "wait", NEW c \in waiting
                 PROVE  shown[c] = LastDrawn(gbm[SurfaceFor(c)])
      BY DEF NewestShown, LastDrawn
    <3>1. left = << >>
      BY <2>1 DEF PhaseOK
    <3>2. waiting \subseteq Crtcs
      <4>1. todo[Loop] \in Seq(Crtcs) /\ left \in Seq(Crtcs)
        BY <2>1, LoopIs, RequestsAre DEF IInv, TypeOK, FramesIInv
      <4>2. /\ Range(todo[Loop]) \subseteq Crtcs
            /\ Range(left) \subseteq Crtcs
            /\ Range(Pending) \subseteq Crtcs
        BY <2>2, <4>1, RangeType
      <4> QED
        BY <2>1, <4>2 DEF FlipsInOnePlace, Reported
    <3> QED
      BY <2>1, <3>1, <3>2, EmptyRange DEF BuffersOK
  <2>6. NoStaleWakeup
    BY <2>1 DEF OneByte, NoStaleWakeup
  <2> QED
    BY <2>4, <2>5, <2>6
<1>3. ASSUME use = "free" PROVE FlipsAccounted /\ NoStaleWakeup
  BY <1>3 DEF FlipsAccounted, NoStaleWakeup
<1>4. ASSUME use = "free" PROVE NewestShown
  BY <1>4 DEF FramesIInv, NewestShown
<1> QED
  BY <1>1, <1>2, <1>3, <1>4 DEF FramesInv

-----------------------------------------------------------------------------
\* A frame loop calls the library as DrmFlip says, whatever it draws and shows.
LEMMA FramesStep ==
  ASSUME left \in Requests, [FrameLoop \/ FreeUse]_vars
  PROVE  [Next]_flipVars /\ left' \in Requests
<1>1. ASSUME NEW t \in Loops, NEW displays \in Requests \ {<< >>},
             BeginFrame(t, displays)
      PROVE  UNCHANGED flipVars /\ left' \in Requests
  BY <1>1 DEF BeginFrame
<1>2. ASSUME NEW t \in Loops, SubmitFrame(t)
      PROVE  Next /\ left' \in Requests
  <2>1. t \in Threads
    BY LoopsAssumption
  <2>2. /\ Tail(left) \in Requests /\ Head(left) \in Crtcs
        /\ << >> \in Requests
    <3>1. left # << >>
      BY <1>2 DEF SubmitFrame
    <3>2. << >> \in [1 .. 0 -> Crtcs] /\ 0 \in 0 .. NCrtcs
      BY CrtcsAssumption
    <3>3. << >> \in UNION {[1 .. n -> Crtcs] : n \in 0 .. NCrtcs}
      BY <3>2
    <3>4. << >> \in Requests
      BY <3>3 DEF Requests
    <3> QED
      BY <3>1, <3>4, TailIsRequest
  <2>3. AtomicCommit(t, left) \/ PageFlip(t, Head(left))
    BY <1>2 DEF SubmitFrame
  <2>4. left' = << >> \/ left' = Tail(left)
    BY <1>2 DEF SubmitFrame
  <2> QED
    BY <2>1, <2>2, <2>3, <2>4 DEF Next
<1>3. ASSUME NEW t \in Loops, HandleEvent(t) \/ Handler(t)
      PROVE  Next /\ left' \in Requests
  BY <1>3 DEF HandleEvent, Handler, Next
<1>4. ASSUME NEW t \in Loops, FrameDone(t)
      PROVE  UNCHANGED flipVars /\ left' \in Requests
  BY <1>4 DEF FrameDone
<1>5. ASSUME NEW t \in Loops, Library(t)
      PROVE  Next /\ left' \in Requests
  BY <1>5, LoopsAssumption DEF Library, Next, frameVars
<1>6. ASSUME FreeUse \/ UNCHANGED vars PROVE [Next]_flipVars /\ left' \in Requests
  BY <1>6 DEF FreeUse, frameVars, vars
<1> QED
  BY <1>1, <1>2, <1>3, <1>4, <1>5, <1>6 DEF FrameLoop

\* A new frame: nothing of the frame before is left, and the displays that are not
\* drawn to keep their buffers.
LEMMA BeginFrameKeeps ==
  ASSUME FramesIInv, LoopInv, use \in {"atomic", "flips"}, UNCHANGED use,
         NEW displays \in Requests \ {<< >>}, BeginFrame(Loop, displays)
  PROVE  LoopInv'
<1> DEFINE drawn == {SurfaceFor(c) : c \in Range(displays)}
<1>1. /\ phase = "render" /\ pc[Loop] = "idle" /\ phase' = "submit"
      /\ left' = displays /\ waiting' = Range(displays)
      /\ UNCHANGED <<flipVars, shown>>
      /\ use = "flips" => displays = [c \in Crtcs |-> c]
  BY DEF BeginFrame, Range
<1>2. /\ gbm' = [c \in Crtcs |-> IF c \in drawn THEN LockFrontBuffer(SwapBuffers(gbm[c]))
                                 ELSE gbm[c]]
      /\ bo' = [c \in Crtcs |-> IF c \in drawn THEN FrontBo(SwapBuffers(gbm[c]))
                                ELSE bo[c]]
  BY DEF BeginFrame, Range
<1>3. Range(displays) \subseteq Crtcs /\ drawn \subseteq Crtcs
  BY RequestsAre, RangeType, SurfaceType
<1>4. LoopAlone'
  BY <1>1 DEF LoopInv, LoopAlone, flipVars
<1>5. PhaseOK'
  BY <1>1 DEF PhaseOK, flipVars
<1>6. OneByte'
  BY <1>1 DEF LoopInv, OneByte, flipVars
<1>7. /\ waiting = {}
      /\ Range(left) = {} /\ Range(todo[Loop]) = {} /\ Range(Pending) = {}
      /\ Reported = {}
  BY <1>1 DEF LoopInv, PhaseOK, FlipsInOnePlace
<1>8. FlipsInOnePlace'
  <2>1. Pending' = Pending /\ todo' = todo /\ Reported' = Reported
    BY <1>1, RingUnchanged DEF flipVars, Reported
  <2> QED
    BY <1>1, <1>7, <2>1 DEF LoopInv, FlipsInOnePlace
<1> HIDE DEF drawn
<1>9. ASSUME NEW c \in Crtcs
      PROVE  /\ gbm'[c] \in Surfaces
             /\ bo'[c] \in Bos \cup {NoBo}
             /\ gbm'[c].count = 0 /\ gbm'[c].read_idx = gbm'[c].write_idx
             /\ bo'[c] \in {NoBo, LastDrawn(gbm'[c])}
             /\ c \in drawn => bo'[c] = LastDrawn(gbm'[c])
  <2>1. /\ gbm[c] \in Surfaces /\ bo[c] \in Bos \cup {NoBo}
        /\ gbm[c].count = 0 /\ gbm[c].read_idx = gbm[c].write_idx
        /\ bo[c] \in {NoBo, LastDrawn(gbm[c])}
    BY DEF LoopInv, BuffersOK
  <2>2. CASE c \in drawn
    <3>1. /\ gbm'[c] = LockFrontBuffer(SwapBuffers(gbm[c]))
          /\ bo'[c] = FrontBo(SwapBuffers(gbm[c]))
      BY <1>2, <2>2
    <3> QED
      BY <2>1, <3>1, DrawAndLock
  <2>3. CASE c \notin drawn
    <3>1. gbm'[c] = gbm[c] /\ bo'[c] = bo[c]
      BY <1>2, <2>3
    <3> QED
      BY <2>1, <2>3, <3>1
  <2> QED
    BY <2>2, <2>3
<1>10. ASSUME NEW c \in Crtcs \ Range(displays)
       PROVE  shown'[c] = bo'[SurfaceFor(c)']
  <2>1. use = "atomic"
    <3>1. displays = [d \in Crtcs |-> d] => Range(displays) = Crtcs
      BY DEF Range
    <3> QED
      BY <1>1, <3>1
  <2>2. SurfaceFor(c)' = c /\ SurfaceFor(c) = c
    BY <2>1 DEF SurfaceFor
  <2>3. c \notin drawn
    BY <2>1 DEF SurfaceFor, drawn
  <2>4. bo'[c] = bo[c]
    BY <1>2, <2>3
  <2>5. shown[c] = bo[c]
    BY <1>7, <2>2 DEF LoopInv, BuffersOK
  <2> QED
    BY <1>1, <2>2, <2>4, <2>5
<1>11. ASSUME NEW c \in Range(displays)
       PROVE  bo'[SurfaceFor(c)'] = LastDrawn(gbm'[SurfaceFor(c)'])
  <2>1. SurfaceFor(c)' = SurfaceFor(c) /\ SurfaceFor(c) \in drawn
    BY DEF SurfaceFor, drawn
  <2> QED
    BY <1>3, <1>9, <2>1
<1>12. BuffersOK'
  <2>1. gbm' \in [Crtcs -> Surfaces] /\ bo' \in [Crtcs -> Bos \cup {NoBo}]
    BY <1>2, <1>9
  <2>2. shown' \in [Crtcs -> Bos \cup {NoBo}]
    BY <1>1 DEF LoopInv, BuffersOK
  <2> QED
    BY <1>1, <1>9, <1>10, <1>11, <2>1, <2>2 DEF BuffersOK, LastDrawn
<1> QED
  BY <1>4, <1>5, <1>6, <1>8, <1>12 DEF LoopInv

\* The types the steps of the loop rest on.
LEMMA LoopTypes ==
  ASSUME FramesIInv
  PROVE  /\ Loop \in Threads
         /\ todo \in [Threads -> Seq(Crtcs)] /\ pc \in [Threads -> Labels]
         /\ back \in [Threads -> {"idle", "handler"}]
         /\ crtc_id \in [Threads -> 0 .. NCrtcs]
         /\ Pending \in Seq(Crtcs)
         /\ left \in Seq(Crtcs) /\ IsInjective(left)
         /\ Range(left) \subseteq Crtcs
         /\ Range(todo[Loop]) \subseteq Crtcs
         /\ Range(Pending) \subseteq Crtcs
<1>1. Loop \in Threads /\ Pending \in Seq(Crtcs)
  BY LoopIs, RingType DEF FramesIInv
<1>2. left \in Seq(Crtcs) /\ IsInjective(left)
  BY RequestsAre DEF FramesIInv
<1>3. /\ todo \in [Threads -> Seq(Crtcs)] /\ pc \in [Threads -> Labels]
      /\ back \in [Threads -> {"idle", "handler"}]
      /\ crtc_id \in [Threads -> 0 .. NCrtcs]
  BY DEF FramesIInv, IInv, TypeOK
<1>4. todo[Loop] \in Seq(Crtcs)
  BY <1>1, <1>3
<1> QED
  BY <1>1, <1>2, <1>3, <1>4, RangeType

\* The displays of a call move from those to submit to those about to be put into
\* the ring, and show what the client has locked.
LEMMA SubmitKeeps ==
  ASSUME FramesIInv, LoopInv, UNCHANGED use,
         phase = "submit", pc[Loop] = "idle",
         NEW s \in Seq(Crtcs), IsInjective(s), s # << >>, Submit(Loop, s),
         Range(left) = Range(left') \cup Range(s),
         Range(left') \cap Range(s) = {},
         use = "atomic" => left' = << >>,
         shown' = Shows(s),
         UNCHANGED <<phase, waiting, gbm, bo>>
  PROVE  LoopInv'
<1>1. /\ pc' = [pc EXCEPT ![Loop] = "enqueue"]
      /\ back' = [back EXCEPT ![Loop] = "idle"]
      /\ todo' = [todo EXCEPT ![Loop] = s]
      /\ UNCHANGED <<g_flip_events, head, tail, bytes, crtc_id>>
  BY DEF Submit
<1>2. LoopAlone'
  BY <1>1, LoopTypes DEF LoopInv, LoopAlone
<1>3. PhaseOK'
  BY <1>1, LoopTypes DEF LoopInv, PhaseOK
<1>4. OneByte'
  <2>1. left # << >>
    BY LoopTypes, RangeType, EmptyRange
  <2> QED
    BY <1>1, <2>1 DEF LoopInv, OneByte
<1>5. FlipsInOnePlace'
  <2>1. Pending' = Pending
    BY <1>1, RingUnchanged
  <2>2. todo'[Loop] = s /\ pc'[Loop] = "enqueue"
    BY <1>1, LoopTypes
  <2>3. Range(todo[Loop]) = {}
    <3>1. todo[Loop] = << >>
      BY LoopTypes DEF LoopInv, LoopAlone
    <3> QED
      BY <3>1, EmptyRange
  <2>4. Reported = {} /\ Reported' = {}
    BY <2>2 DEF Reported
  <2> QED
    BY <2>1, <2>2, <2>3, <2>4 DEF LoopInv, FlipsInOnePlace
<1>6. BuffersOK'
  <2>1. \A c : (\E i \in DOMAIN s : s[i] = c) <=> c \in Range(s)
    BY DEF Range
  <2>2. shown' = [c \in Crtcs |-> IF c \in Range(s) THEN bo[SurfaceFor(c)]
                                  ELSE shown[c]]
    BY <2>1 DEF Shows
  <2>3. \A c \in Crtcs : SurfaceFor(c)' = SurfaceFor(c) /\ SurfaceFor(c) \in Crtcs
    BY SurfaceType DEF SurfaceFor
  <2>4. shown' \in [Crtcs -> Bos \cup {NoBo}]
    <3>1. \A c \in Crtcs : shown'[c] \in Bos \cup {NoBo}
      BY <2>2, <2>3 DEF LoopInv, BuffersOK
    <3> QED
      BY <2>2, <3>1
  <2>5. ASSUME NEW c \in Crtcs \ Range(left') PROVE shown'[c] = bo'[SurfaceFor(c)']
    <3>1. CASE c \in Range(s)
      BY <2>2, <2>3, <3>1
    <3>2. CASE c \notin Range(s)
      BY <2>2, <2>3, <3>2 DEF LoopInv, BuffersOK
    <3> QED
      BY <3>1, <3>2
  <2>6. ASSUME NEW c \in waiting'
        PROVE  bo'[SurfaceFor(c)'] = LastDrawn(gbm'[SurfaceFor(c)'])
    <3>1. SurfaceFor(c)' = SurfaceFor(c)
      BY DEF SurfaceFor
    <3> QED
      BY <3>1 DEF LoopInv, BuffersOK
  <2> QED
    BY <2>4, <2>5, <2>6 DEF LoopInv, BuffersOK, LastDrawn
<1> QED
  BY <1>2, <1>3, <1>4, <1>5, <1>6 DEF LoopInv

LEMMA SubmitFrameKeeps ==
  ASSUME FramesIInv, LoopInv, use \in {"atomic", "flips"}, UNCHANGED use,
         SubmitFrame(Loop)
  PROVE  LoopInv'
<1>1. /\ phase = "submit" /\ pc[Loop] = "idle" /\ left # << >>
      /\ UNCHANGED <<phase, waiting, gbm, bo>>
  BY DEF SubmitFrame
<1>2. left \in Seq(Crtcs) /\ IsInjective(left)
  BY LoopTypes
<1>3. CASE use = "atomic"
  <2>1. Submit(Loop, left) /\ left' = << >> /\ shown' = Shows(left)
    BY <1>1, <1>3 DEF SubmitFrame, AtomicCommit
  <2>2. Range(left') = {}
    BY <2>1, EmptyRange
  <2>3. /\ Range(left) = Range(left') \cup Range(left)
        /\ Range(left') \cap Range(left) = {}
    BY <2>2
  <2> QED
    BY <1>1, <1>2, <2>1, <2>3, SubmitKeeps
<1>4. CASE use = "flips"
  <2> DEFINE h == <<Head(left)>>
  <2>1. Submit(Loop, h) /\ left' = Tail(left) /\ shown' = Shows(h)
    BY <1>4 DEF SubmitFrame, PageFlip
  <2>2. /\ Head(left) \in Crtcs /\ Head(left) \in Range(left)
        /\ Range(left') = Range(left) \ {Head(left)}
    BY <1>1, <1>2, <2>1, HeadTailProperties, TailRange
  <2>3. /\ h \in Seq(Crtcs) /\ h # << >> /\ DOMAIN h = {1} /\ h[1] = Head(left)
    BY <2>2
  <2> HIDE DEF h
  <2>4. IsInjective(h) /\ Range(h) = {Head(left)}
    BY <2>3 DEF IsInjective, Range
  <2>5. /\ Range(left) = Range(left') \cup Range(h)
        /\ Range(left') \cap Range(h) = {}
    BY <2>2, <2>4
  <2> QED
    BY <1>1, <1>4, <2>1, <2>3, <2>4, <2>5, SubmitKeeps
<1> QED
  BY <1>3, <1>4

LEMMA HandleEventKeeps ==
  ASSUME FramesIInv, LoopInv, UNCHANGED use, HandleEvent(Loop)
  PROVE  LoopInv'
<1>1. /\ phase \in {"submit", "wait"} /\ left = << >> /\ waiting # {}
      /\ pc[Loop] = "idle" /\ bytes > 0 /\ bytes' = bytes - 1
      /\ pc' = [pc EXCEPT ![Loop] = "drain"]
      /\ phase' = "wait"
      /\ UNCHANGED <<g_flip_events, head, tail, back, todo, crtc_id>>
      /\ UNCHANGED <<left, waiting, gbm, bo, shown>>
  BY DEF HandleEvent, ReadByte
<1>2. pc'[Loop] = "drain"
  BY <1>1, LoopTypes
<1>3. LoopAlone'
  BY <1>1, LoopTypes DEF LoopInv, LoopAlone
<1>4. PhaseOK'
  BY <1>1, <1>2 DEF PhaseOK
<1>5. OneByte'
  BY <1>1, <1>2 DEF LoopInv, OneByte
<1>6. FlipsInOnePlace'
  <2>1. Pending' = Pending /\ Reported = {} /\ Reported' = {}
    BY <1>1, <1>2, RingUnchanged DEF Reported
  <2> QED
    BY <1>1, <2>1 DEF LoopInv, FlipsInOnePlace
<1>7. BuffersOK'
  BY <1>1 DEF LoopInv, BuffersOK, SurfaceFor, LastDrawn
<1> QED
  BY <1>3, <1>4, <1>5, <1>6, <1>7 DEF LoopInv

\* The flip that was reported is waited for no longer.
LEMMA HandlerKeeps ==
  ASSUME FramesIInv, LoopInv, UNCHANGED use, Handler(Loop)
  PROVE  LoopInv'
<1>1. /\ pc[Loop] = "handler"
      /\ pc' = [pc EXCEPT ![Loop] = "drain"]
      /\ crtc_id' = [crtc_id EXCEPT ![Loop] = 0]
      /\ waiting' = waiting \ {crtc_id[Loop]}
      /\ UNCHANGED <<g_flip_events, head, tail, bytes, back, todo>>
      /\ UNCHANGED <<phase, left, gbm, bo, shown>>
  BY DEF Handler, HandlerReturn
<1>2. pc'[Loop] = "drain"
  BY <1>1, LoopTypes
<1>3. LoopAlone'
  BY <1>1, LoopTypes DEF LoopInv, LoopAlone
<1>4. PhaseOK'
  BY <1>1, <1>2 DEF LoopInv, PhaseOK
<1>5. OneByte'
  BY <1>1, <1>2 DEF LoopInv, OneByte, PhaseOK
<1>6. FlipsInOnePlace'
  <2>1. Pending' = Pending /\ Reported' = {}
    BY <1>1, <1>2, RingUnchanged DEF Reported
  <2>2. Reported = {crtc_id[Loop]}
    <3>1. crtc_id[Loop] \in Crtcs
      BY <1>1, LoopTypes DEF FramesIInv, IInv, EventsInv, InHandler
    <3> QED
      BY <1>1, <3>1 DEF Reported
  <2> QED
    BY <1>1, <2>1, <2>2 DEF LoopInv, FlipsInOnePlace
<1>7. BuffersOK'
  BY <1>1 DEF LoopInv, BuffersOK, SurfaceFor, LastDrawn
<1> QED
  BY <1>3, <1>4, <1>5, <1>6, <1>7 DEF LoopInv

LEMMA FrameDoneKeeps ==
  ASSUME FramesIInv, LoopInv, UNCHANGED use, FrameDone(Loop)
  PROVE  LoopInv'
<1>1. /\ phase = "wait" /\ pc[Loop] = "idle" /\ waiting = {}
      /\ phase' = "render"
      /\ UNCHANGED <<flipVars, left, waiting, gbm, bo, shown>>
  BY DEF FrameDone
<1>2. LoopAlone' /\ PhaseOK' /\ OneByte'
  BY <1>1 DEF LoopInv, LoopAlone, PhaseOK, OneByte, flipVars
<1>3. FlipsInOnePlace'
  <2>1. Pending' = Pending /\ Reported' = Reported /\ todo' = todo
    BY <1>1, RingUnchanged DEF Reported, flipVars
  <2> QED
    BY <1>1, <2>1 DEF LoopInv, FlipsInOnePlace
<1>4. BuffersOK'
  BY <1>1 DEF LoopInv, BuffersOK, SurfaceFor, LastDrawn
<1> QED
  BY <1>2, <1>3, <1>4 DEF LoopInv

\* A flip goes from those about to be put into the ring to the end of the ring,
\* which has room for it.
LEMMA EnqueueKeeps ==
  ASSUME FramesIInv, LoopInv, UNCHANGED <<use, frameVars>>, Enqueue(Loop)
  PROVE  LoopInv'
<1> DEFINE c == Head(todo[Loop])
<1>1. /\ pc[Loop] = "enqueue"
      /\ todo' = [todo EXCEPT ![Loop] = Tail(@)]
      /\ pc' = [pc EXCEPT ![Loop] = IF Tail(todo[Loop]) = << >> THEN "write" ELSE @]
      /\ UNCHANGED <<bytes, back, crtc_id>>
      /\ UNCHANGED <<phase, left, waiting, gbm, bo, shown>>
  BY DEF Enqueue, frameVars
<1>2. /\ todo[Loop] \in Seq(Crtcs) /\ todo[Loop] # << >>
      /\ IsInjective(todo[Loop])
  BY <1>1, LoopTypes DEF FramesIInv, IInv, TypeOK, LoopInv, FlipsInOnePlace
<1>3. /\ c \in Crtcs /\ c \in Range(todo[Loop])
      /\ IsInjective(todo'[Loop]) /\ Range(todo'[Loop]) = Range(todo[Loop]) \ {c}
      /\ todo'[Loop] = Tail(todo[Loop])
  BY <1>1, <1>2, LoopTypes, TailRange, HeadTailProperties
<1>4. pc'[Loop] \in {"enqueue", "write"} /\ (pc'[Loop] = "write" => todo'[Loop] = << >>)
  BY <1>1, <1>3, LoopTypes
<1>5. LoopAlone'
  BY <1>1, <1>4, LoopTypes DEF LoopInv, LoopAlone
<1>6. PhaseOK'
  BY <1>1, <1>4 DEF LoopInv, PhaseOK
<1>7. OneByte'
  BY <1>1, <1>4 DEF LoopInv, OneByte
<1>8. FlipsInOnePlace'
  <2>1. /\ Pending \in Seq(Crtcs) /\ IsInjective(Pending) /\ c \notin Range(Pending)
    BY <1>3, LoopTypes DEF LoopInv, FlipsInOnePlace
  <2>2. Len(Pending) < MAX_FLIP_EVENTS - 1
    BY <1>3, <2>1, RingHasRoom DEF FramesIInv
  <2>3. Pending' = Append(Pending, c)
    <3>1. Len(Pending) # MAX_FLIP_EVENTS - 1
      BY <2>1, <2>2, LenProperties, RingAssumption
    <3> QED
      BY <3>1, EnqueuePushes, LoopTypes DEF FramesIInv
  <2>4. IsInjective(Pending') /\ Range(Pending') = Range(Pending) \cup {c}
    BY <1>3, <2>1, <2>3, AppendRange
  <2>5. Reported = {} /\ Reported' = {}
    BY <1>1, <1>4 DEF Reported
  <2> QED
    BY <1>1, <1>3, <2>4, <2>5 DEF LoopInv, FlipsInOnePlace
<1>9. BuffersOK'
  BY <1>1 DEF LoopInv, BuffersOK, SurfaceFor, LastDrawn
<1> QED
  BY <1>5, <1>6, <1>7, <1>8, <1>9 DEF LoopInv

LEMMA WriteByteKeeps ==
  ASSUME FramesIInv, LoopInv, UNCHANGED <<use, frameVars>>, WriteByte(Loop)
  PROVE  LoopInv'
<1>1. /\ pc[Loop] = "write" /\ bytes' = bytes + 1
      /\ pc' = [pc EXCEPT ![Loop] = "idle"]
      /\ UNCHANGED <<g_flip_events, head, tail, back, todo, crtc_id>>
      /\ UNCHANGED <<phase, left, waiting, gbm, bo, shown>>
  BY DEF WriteByte, frameVars, LoopInv, LoopAlone
<1>2. pc'[Loop] = "idle"
  BY <1>1, LoopTypes
<1>3. LoopAlone'
  BY <1>1, LoopTypes DEF LoopInv, LoopAlone
<1>4. PhaseOK' /\ phase = "submit"
  BY <1>1, <1>2 DEF LoopInv, PhaseOK
<1>5. OneByte'
  BY <1>1, <1>2, <1>4 DEF LoopInv, OneByte
<1>6. FlipsInOnePlace'
  <2>1. Pending' = Pending /\ Reported = {} /\ Reported' = {}
    BY <1>1, <1>2, RingUnchanged DEF Reported
  <2> QED
    BY <1>1, <2>1 DEF LoopInv, FlipsInOnePlace
<1>7. BuffersOK'
  BY <1>1 DEF LoopInv, BuffersOK, SurfaceFor, LastDrawn
<1> QED
  BY <1>3, <1>4, <1>5, <1>6, <1>7 DEF LoopInv

\* The oldest flip goes from the ring to the handler; when the ring is empty every
\* flip of the frame has been reported.
LEMMA DequeueKeeps ==
  ASSUME FramesIInv, LoopInv, UNCHANGED <<use, frameVars>>, Dequeue(Loop)
  PROVE  LoopInv'
<1>1. /\ pc[Loop] = "drain"
      /\ UNCHANGED <<g_flip_events, head, bytes, back, todo>>
      /\ UNCHANGED <<phase, left, waiting, gbm, bo, shown>>
  BY DEF Dequeue, frameVars
<1>2. phase = "wait" /\ left = << >> /\ todo[Loop] = << >>
  BY <1>1, LoopTypes DEF LoopInv, PhaseOK, LoopAlone
<1>3. Reported = {} /\ Range(todo[Loop]) = {} /\ Range(left) = {}
  BY <1>1, <1>2, EmptyRange DEF Reported
<1>4. pc'[Loop] \in {"idle", "handler"} /\ \A t \in Threads \ {Loop} : pc'[t] = pc[t]
  BY LoopTypes DEF Dequeue
<1>5. LoopAlone'
  BY <1>1, <1>4, LoopTypes DEF LoopInv, LoopAlone
<1>6. OneByte'
  BY <1>1, <1>2, <1>4 DEF LoopInv, OneByte
<1>7. BuffersOK'
  BY <1>1 DEF LoopInv, BuffersOK, SurfaceFor, LastDrawn
<1>8. CASE head = tail
  <2>1. pc'[Loop] = "idle" /\ UNCHANGED <<tail, crtc_id>>
    BY <1>8, LoopTypes DEF Dequeue
  <2>2. Pending' = Pending /\ Reported' = {}
    BY <1>1, <2>1, RingUnchanged DEF Reported
  <2>3. FlipsInOnePlace'
    BY <1>1, <1>3, <2>2 DEF LoopInv, FlipsInOnePlace
  <2>4. Pending = << >>
    <3>1. Len(Pending) = 0
      BY <1>8, RingType, OneLess DEF FramesIInv
    <3> QED
      BY <3>1, LoopTypes, EmptySeq
  <2>5. waiting = {}
    BY <1>3, <2>4, EmptyRange DEF LoopInv, FlipsInOnePlace
  <2>6. PhaseOK'
    BY <1>1, <1>2, <2>1, <2>5 DEF PhaseOK
  <2> QED
    BY <1>5, <1>6, <1>7, <2>3, <2>6 DEF LoopInv
<1>9. CASE head # tail
  <2>1. /\ Pending # << >> /\ Pending' = Tail(Pending)
        /\ g_flip_events[tail] = Head(Pending) /\ Head(Pending) \in Crtcs
    BY <1>9, LoopTypes, DequeuePops DEF FramesIInv
  <2>2. pc'[Loop] = "handler" /\ crtc_id'[Loop] = Head(Pending)
    BY <1>9, <2>1, LoopTypes DEF Dequeue
  <2>3. Reported' = {Head(Pending)}
    BY <2>1, <2>2 DEF Reported
  <2>4. /\ IsInjective(Pending') /\ Range(Pending') = Range(Pending) \ {Head(Pending)}
        /\ Head(Pending) \in Range(Pending)
    BY <2>1, LoopTypes, TailRange DEF LoopInv, FlipsInOnePlace
  <2>5. FlipsInOnePlace'
    BY <1>1, <1>3, <2>3, <2>4 DEF LoopInv, FlipsInOnePlace
  <2>6. PhaseOK'
    BY <1>1, <1>2, <2>2 DEF PhaseOK
  <2> QED
    BY <1>5, <1>6, <1>7, <2>5, <2>6 DEF LoopInv
<1> QED
  BY <1>8, <1>9

\* Every step of the frame loop, or of a free client, keeps the invariant.
LEMMA FramesNext ==
  FramesIInv /\ [FrameLoop \/ FreeUse]_vars => FramesIInv'
<1> SUFFICES ASSUME FramesIInv, [FrameLoop \/ FreeUse]_vars PROVE FramesIInv'
  OBVIOUS
<1>1. IInv' /\ left' \in Requests
  BY FramesStep, NextIInv DEF FramesIInv
<1>2. OneLoop' /\ RoomForAll'
  BY DEF FramesIInv, OneLoop, RoomForAll
<1>3. CASE FrameLoop
  <2>1. use # "free" /\ UNCHANGED use /\ use \in {"atomic", "flips"} /\ LoopInv
    BY <1>3 DEF FrameLoop, FramesIInv
  <2>2. \/ \E displays \in Requests \ {<< >>} : BeginFrame(Loop, displays)
        \/ SubmitFrame(Loop) \/ HandleEvent(Loop) \/ Handler(Loop)
        \/ FrameDone(Loop) \/ Library(Loop)
    BY <1>3, LoopIs DEF FrameLoop, FramesIInv
  <2>3. Library(Loop) => LoopInv'
    BY <2>1, EnqueueKeeps, WriteByteKeeps, DequeueKeeps DEF Library
  <2>4. LoopInv'
    BY <2>1, <2>2, <2>3, BeginFrameKeeps, SubmitFrameKeeps, HandleEventKeeps,
       HandlerKeeps, FrameDoneKeeps
  <2> QED
    BY <1>1, <1>2, <2>1, <2>4 DEF FramesIInv
<1>4. CASE FreeUse
  <2>1. use = "free" /\ UNCHANGED <<use, phase>>
    BY <1>4 DEF FreeUse, frameVars
  <2> QED
    BY <1>1, <1>2, <2>1 DEF FramesIInv
<1>5. CASE UNCHANGED vars
  <2>1. UNCHANGED <<flipVars, use, phase, left, waiting, gbm, bo, shown>>
    BY <1>5 DEF vars, frameVars
  <2>2. LoopInv => LoopInv'
    <3>1. Pending' = Pending /\ Reported' = Reported
      BY <2>1, RingUnchanged DEF flipVars, Reported
    <3>2. LoopAlone' = LoopAlone /\ PhaseOK' = PhaseOK /\ OneByte' = OneByte
      BY <2>1 DEF flipVars, LoopAlone, PhaseOK, OneByte
    <3>3. FlipsInOnePlace => FlipsInOnePlace'
      BY <2>1, <3>1 DEF flipVars, FlipsInOnePlace
    <3>4. BuffersOK => BuffersOK'
      BY <2>1 DEF BuffersOK, SurfaceFor, LastDrawn
    <3> QED
      BY <3>2, <3>3, <3>4 DEF LoopInv
  <2> QED
    BY <1>1, <1>2, <2>1, <2>2 DEF FramesIInv
<1> QED
  BY <1>3, <1>4, <1>5

\* Before the first frame; kmscube -a has shown one already.
LEMMA FramesFirst == OneLoop /\ RoomForAll /\ FramesInit => FramesIInv
<1> SUFFICES ASSUME OneLoop, RoomForAll, FramesInit PROVE FramesIInv
  OBVIOUS
<1>1. IInv /\ Pending = << >>
  BY InitIInv DEF FramesInit
<1>2. left = << >> /\ waiting = {} /\ phase = "render" /\ bytes = 0
      /\ use \in {"atomic", "flips", "free"}
  BY DEF FramesInit, Init
<1>3. left \in Requests
  <2>1. << >> \in [1 .. 0 -> Crtcs] /\ 0 \in 0 .. NCrtcs
    BY CrtcsAssumption
  <2>2. << >> \in UNION {[1 .. n -> Crtcs] : n \in 0 .. NCrtcs}
    BY <2>1
  <2> QED
    BY <1>2, <2>2 DEF Requests
<1>4. Loop \in Threads
  BY LoopIs
<1>5. LoopAlone /\ pc[Loop] = "idle" /\ todo[Loop] = << >>
  BY <1>4 DEF FramesInit, Init, LoopAlone
<1>6. PhaseOK /\ OneByte
  BY <1>2, <1>5 DEF PhaseOK, OneByte
<1>7. FlipsInOnePlace
  <2>1. Reported = {}
    BY <1>5 DEF Reported
  <2> QED
    BY <1>1, <1>2, <1>5, <2>1, EmptyRange DEF FlipsInOnePlace
<1>8. ASSUME use # "free" PROVE BuffersOK
  <2>1. NewSurface \in Surfaces /\ NewSurface.count = 0
        /\ NewSurface.read_idx = NewSurface.write_idx
    BY BuffersAssumption DEF NewSurface, Surfaces, Bos
  <2>2. CASE use = "flips"
    <3> DEFINE s == LockFrontBuffer(SwapBuffers(NewSurface))
               b == FrontBo(SwapBuffers(NewSurface))
    <3>1. /\ s \in Surfaces /\ s.count = 0 /\ s.read_idx = s.write_idx
          /\ b = LastDrawn(s) /\ b \in Bos
      BY <2>1, DrawAndLock
    <3>2. gbm = [c \in Crtcs |-> s] /\ bo = [c \in Crtcs |-> b] /\ shown = bo
      BY <2>2 DEF FramesInit
    <3> HIDE DEF s, b
    <3>3. \A c \in Crtcs : SurfaceFor(c) \in Crtcs
      BY SurfaceType
    <3>4. \A c \in Crtcs : gbm[c] = s /\ bo[c] = b /\ shown[c] = b
      BY <3>2
    <3> QED
      BY <1>2, <3>1, <3>2, <3>3, <3>4 DEF BuffersOK
  <2>3. CASE use = "atomic"
    <3>1. /\ gbm = [c \in Crtcs |-> NewSurface]
          /\ bo = [c \in Crtcs |-> NoBo] /\ shown = bo
      BY <2>3 DEF FramesInit
    <3>2. \A c \in Crtcs : SurfaceFor(c) \in Crtcs
      BY SurfaceType
    <3> QED
      BY <1>2, <2>1, <3>1, <3>2 DEF BuffersOK
  <2> QED
    BY <1>2, <1>8, <2>2, <2>3
<1> QED
  BY <1>1, <1>2, <1>3, <1>5, <1>6, <1>7, <1>8 DEF FramesIInv, LoopInv

-----------------------------------------------------------------------------
\* The uses of DrmFrames are uses of DrmFlip: whatever holds of the library's ring
\* and pipe holds under a frame loop.
THEOREM FramesUseFlips == FramesSpec => Spec
<1>1. FramesInit => Init /\ left \in Requests
  <2>1. << >> \in [1 .. 0 -> Crtcs] /\ 0 \in 0 .. NCrtcs
    BY CrtcsAssumption
  <2>2. << >> \in UNION {[1 .. n -> Crtcs] : n \in 0 .. NCrtcs}
    BY <2>1
  <2> QED
    BY <2>2 DEF FramesInit, Requests
<1>2. left \in Requests /\ [FrameLoop \/ FreeUse]_vars
        => [Next]_flipVars /\ (left \in Requests)'
  BY FramesStep
<1> QED
  BY <1>1, <1>2, PTL DEF FramesSpec, Spec

\* The frame loop's inductive invariant, for one loop and a ring with room for an
\* event of each display.
THEOREM FramesInvariance == OneLoop /\ RoomForAll /\ FramesSpec => []FramesIInv
BY FramesFirst, FramesNext, PTL DEF FramesSpec

\* What a frame loop believes between its steps is so: the flips it waits for are
\* those that will be reported, once each; an atomic client leaves no byte behind;
\* what it waits for to be shown is the frame drawn last.
THEOREM FramesKept == OneLoop /\ RoomForAll /\ FramesSpec => []FramesInv
BY InvariantSays, FramesInvariance, PTL

\* eglSwapBuffers never draws into a buffer a display shows, for any number of
\* buffers of at least two.
THEOREM Untorn == OneLoop /\ RoomForAll /\ FramesSpec => NoTearing
<1> DEFINE Untouched ==
      \A c \in Crtcs :
        gbm'[SurfaceFor(c)] # gbm[SurfaceFor(c)] =>
          shown[c] # gbm[SurfaceFor(c)].write_idx
<1>1. FramesIInv /\ [FrameLoop \/ FreeUse]_vars => [Untouched]_vars
  <2> SUFFICES ASSUME FramesIInv, FrameLoop \/ FreeUse, NEW c \in Crtcs,
                      gbm'[SurfaceFor(c)] # gbm[SurfaceFor(c)]
               PROVE  shown[c] # gbm[SurfaceFor(c)].write_idx
    OBVIOUS
  <2>1. FrameLoop
    BY DEF FreeUse, frameVars
  <2>2. LoopInv
    BY <2>1 DEF FrameLoop, FramesIInv
  <2>3. phase = "render"
    BY <2>1 DEF FrameLoop, BeginFrame, SubmitFrame, HandleEvent, Handler, FrameDone,
                Library, frameVars
  <2>4. Range(left) = {}
    BY <2>2, <2>3 DEF LoopInv, PhaseOK, FlipsInOnePlace
  <2>5. SurfaceFor(c) \in Crtcs
    BY SurfaceType
  <2>6. /\ shown[c] \in {NoBo, LastDrawn(gbm[SurfaceFor(c)])}
        /\ gbm[SurfaceFor(c)].write_idx \in Bos
    BY <2>2, <2>4, <2>5 DEF LoopInv, BuffersOK, Surfaces
  <2>7. LastDrawn(gbm[SurfaceFor(c)]) # gbm[SurfaceFor(c)].write_idx
    BY <2>6, RoundRing DEF LastDrawn
  <2>8. NoBo \notin Bos
    BY BuffersAssumption DEF NoBo, Bos
  <2> QED
    BY <2>6, <2>7, <2>8
<1> QED
  BY <1>1, FramesInvariance, PTL DEF FramesSpec, NoTearing

=============================================================================
