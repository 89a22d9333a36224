------------------------------ MODULE EventFD ------------------------------
(***************************************************************************)
(* The eventfd of shims/epoll (eventfd.c, eventfd_ctx.c, kqueue_event.c):  *)
(* a counter, and a kqueue whose user event stands for "readable".  Reads  *)
(* and writes are made under desc->mutex; a blocking read that finds the   *)
(* counter 0 gives the mutex up and polls the kqueue, so the event and the *)
(* counter have to agree whenever the mutex is free.                       *)
(*                                                                         *)
(* The build has EVFILT_USER (the self-pipe of other systems is not        *)
(* modelled) and kevent() on the descriptor's own kqueue does not fail.    *)
(***************************************************************************)
EXTENDS Integers

CONSTANTS Clients,     \* the threads that read the descriptor
          Values,      \* what is written
          UINT64_MAX   \* 2^64 - 1 in the code

ASSUME MaxAssumption    == UINT64_MAX \in Nat \ {0}
ASSUME ValuesAssumption == Values \subseteq 0 .. UINT64_MAX

VARIABLES
  counter_,
  is_triggered_,  \* what kqueue_event.c remembers of the event
  kq,             \* whether the kqueue has the event, so that poll returns
  semaphore,      \* EVENTFD_CTX_FLAG_SEMAPHORE
  nonblock,       \* O_NONBLOCK
  read_pc         \* where each thread is in eventfd_ctx_read_or_block

eventVars == <<counter_, is_triggered_, kq, semaphore, nonblock, read_pc>>

ReadLabels == {"idle",   \* not in read()
               "read",   \* before the mutex is taken
               "poll"}   \* in poll(), the mutex given up

\* eventfd(initval, flags).
EventInit ==
  /\ counter_ \in 0 .. UINT64_MAX - 1
  /\ is_triggered_ = (counter_ > 0)
  /\ kq = (counter_ > 0)
  /\ semaphore \in BOOLEAN
  /\ nonblock \in BOOLEAN
  /\ read_pc = [t \in Clients |-> "idle"]

Fits(v) == counter_ + v <= UINT64_MAX - 1

\* eventfd_ctx_write; UINT64_MAX is EINVAL, a sum that does not fit EAGAIN.
\* kqueue_event_trigger does nothing when the event is already there.
Write(v) ==
  /\ v # UINT64_MAX
  /\ Fits(v)
  /\ counter_' = counter_ + v
  /\ kq' = IF is_triggered_ THEN kq ELSE TRUE
  /\ is_triggered_' = TRUE
  /\ UNCHANGED <<semaphore, nonblock, read_pc>>

ReadCall(t) ==
  /\ read_pc[t] = "idle"
  /\ read_pc' = [read_pc EXCEPT ![t] = "read"]
  /\ UNCHANGED <<counter_, is_triggered_, kq, semaphore, nonblock>>

\* eventfd_ctx_read finds nothing: EAGAIN goes to a non-blocking caller.
ReadEmpty(t) ==
  /\ read_pc[t] = "read"
  /\ counter_ = 0
  /\ read_pc' = [read_pc EXCEPT ![t] = IF nonblock THEN "idle" ELSE "poll"]
  /\ UNCHANGED <<counter_, is_triggered_, kq, semaphore, nonblock>>

Left == IF semaphore THEN counter_ - 1 ELSE 0

\* A slip: every read clears the event.
ReadValueClear(t) ==
  /\ read_pc[t] = "read"
  /\ counter_ > 0
  /\ counter_' = Left
  /\ is_triggered_' = FALSE
  /\ kq' = FALSE
  /\ read_pc' = [read_pc EXCEPT ![t] = "idle"]
  /\ UNCHANGED <<semaphore, nonblock>>

\* A slip: a semaphore is emptied by one read.
ReadValueAll(t) ==
  /\ read_pc[t] = "read"
  /\ counter_ > 0
  /\ counter_' = 0
  /\ is_triggered_' = FALSE
  /\ kq' = FALSE
  /\ read_pc' = [read_pc EXCEPT ![t] = "idle"]
  /\ UNCHANGED <<semaphore, nonblock>>

\* eventfd_ctx_read: the read that empties the counter clears the event.
ReadValue(t) ==
  /\ read_pc[t] = "read"
  /\ counter_ > 0
  /\ counter_' = Left
  /\ IF Left = 0 /\ is_triggered_
       THEN is_triggered_' = FALSE /\ kq' = FALSE
       ELSE UNCHANGED <<is_triggered_, kq>>
  /\ read_pc' = [read_pc EXCEPT ![t] = "idle"]
  /\ UNCHANGED <<semaphore, nonblock>>

\* poll() returns and the loop tries again.
Wake(t) ==
  /\ read_pc[t] = "poll"
  /\ kq
  /\ read_pc' = [read_pc EXCEPT ![t] = "read"]
  /\ UNCHANGED <<counter_, is_triggered_, kq, semaphore, nonblock>>

\* A signal handler ran: poll() fails with EINTR, and so does read().
Interrupted(t) ==
  /\ read_pc[t] = "poll"
  /\ read_pc' = [read_pc EXCEPT ![t] = "idle"]
  /\ UNCHANGED <<counter_, is_triggered_, kq, semaphore, nonblock>>

\* fcntl(F_SETFL) of another thread.
SetNonblock(b) ==
  /\ nonblock' = b
  /\ UNCHANGED <<counter_, is_triggered_, kq, semaphore, read_pc>>

Reader(t) == ReadEmpty(t) \/ ReadValue(t) \/ Wake(t)

EventNext ==
  \/ \E v \in Values : Write(v)
  \/ \E t \in Clients : ReadCall(t) \/ Reader(t) \/ Interrupted(t)
  \/ \E b \in BOOLEAN : SetNonblock(b)

EventSpec == EventInit /\ [][EventNext]_eventVars

\* A thread that can go on does.  Nobody has to write, or to read again.
EventFairness == \A t \in Clients : WF_eventVars(Reader(t))

EventFairSpec == EventSpec /\ EventFairness

-----------------------------------------------------------------------------
\* The descriptor's state is of its types and the counter within its width.
EventTypeOK ==
  /\ counter_ \in 0 .. UINT64_MAX - 1
  /\ is_triggered_ \in BOOLEAN
  /\ kq \in BOOLEAN
  /\ semaphore \in BOOLEAN
  /\ nonblock \in BOOLEAN
  /\ read_pc \in [Clients -> ReadLabels]

\* A descriptor with something to read is readable to poll and epoll, so no
\* reader sleeps on a counter that is not 0: the flag kqueue_event.c keeps and
\* the kqueue never part.
ReadableIsSignalled ==
  /\ kq = is_triggered_
  /\ counter_ > 0 => kq

\* The read that takes the last of the counter takes the event with it: from
\* then on nobody is told "readable" before somebody writes again.
EmptyingClears == [][counter_ > 0 /\ counter_' = 0 => ~kq']_eventVars

\* If nobody writes 0, what poll calls readable can be read without EAGAIN.
SignalledIsReadable == kq => counter_ > 0

\* Reads and writes are those of a counter: each write is counted once and each
\* read takes what it reports, however threads and wake-ups interleave.
Counter == INSTANCE AbstractEventFD WITH counter <- counter_

CounterSpec == Counter!Spec

\* A reader asleep while there is something to read is served, or another
\* reader has taken it all.
SleeperServed ==
  \A t \in Clients :
    (read_pc[t] = "poll" /\ counter_ > 0) ~> (read_pc[t] = "idle" \/ counter_ = 0)

=============================================================================
