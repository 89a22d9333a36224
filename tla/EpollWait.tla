----------------------------- MODULE EpollWait -----------------------------
(***************************************************************************)
(* Waiting on one epoll descriptor of shims/epoll (epoll.c,                *)
(* epollfd_ctx.c) for files a kqueue cannot watch ("poll-only" nodes).     *)
(* A thread in epoll_wait gives desc->mutex up while it is in ppoll() on a *)
(* snapshot of the poll list; whoever changes the list afterwards has to   *)
(* get every such thread out of ppoll() before it returns                  *)
(* (epollfd_ctx__trigger_repoll).                                          *)
(*                                                                         *)
(* Files a kqueue can watch need none of this and are left out, as are     *)
(* failing allocations and kevent() calls.  The build has EVFILT_USER.     *)
(***************************************************************************)
EXTENDS Integers, FiniteSets

CONSTANTS Threads,
          NoThread,
          Files,   \* the poll-only files
          Events,  \* what they can be ready for: EPOLLIN, EPOLLOUT
          NoFile,
          Registrations,  \* bound: the nodes clients ask for
          Closed,         \* bound: the files closed behind the shim's back
          MaxEvents       \* bound: the largest event array of a client

ASSUME ThreadsAssumption == IsFiniteSet(Threads) /\ NoThread \notin Threads
ASSUME NoFileAssumption  == NoFile \notin Files

\* A node: what it is registered for, and whether once only.
Nodes == [events : SUBSET Events, is_oneshot : BOOLEAN]

ASSUME BoundsAssumption ==
  Registrations \subseteq Nodes /\ Closed \subseteq Files /\ MaxEvents \in Nat

VARIABLES
  opened,    \* the files that have not been closed behind the shim's back
  ready,     \* what each file is ready for
  nodes,     \* registered_fds: the node of each registered file
  poll_fds,  \* the files whose node is_on_pollfd_list
  user,      \* the nodes whose EVFILT_USER event is pending in the kqueue
  repoll,    \* the same of the descriptor's own event
  mutex,     \* the owner of desc->mutex
  nr_polling_threads,
  pc,
  pfds,      \* per thread: what it polls for, as of its snapshot
  left,      \* per thread: what is left of the timeout, if it has one
  todo,      \* per thread: the nodes still to be taken off the list
  arg,       \* per thread: the node being taken off
  then       \* per thread: what follows trigger_repoll

kernel == <<opened, ready>>
epollfd == <<nodes, poll_fds>>
kq == <<user, repoll>>
locals == <<pfds, left, todo, arg, then>>
vars == <<kernel, epollfd, kq, mutex, nr_polling_threads, pc, locals>>

Polling == {"ppoll", "leave"}
Labels == {"idle", "wait", "nval", "kevent", "oneshot", "block",
           "repoll", "trigger", "drain", "asleep", "after"} \cup Polling

Init ==
  /\ opened = Files
  /\ ready = [f \in Files |-> {}]
  /\ nodes = [f \in {} |-> {}]
  /\ poll_fds = {}
  /\ user = {}
  /\ repoll = FALSE
  /\ mutex = NoThread
  /\ nr_polling_threads = 0
  /\ pc = [t \in Threads |-> "idle"]
  /\ pfds = [t \in Threads |-> << >>]
  /\ left = [t \in Threads |-> "none"]
  /\ todo = [t \in Threads |-> {}]
  /\ arg = [t \in Threads |-> NoFile]
  /\ then = [t \in Threads |-> "none"]

\* What poll() says of a file watched for evs: POLLNVAL counts.
IsReady(f, evs) == f \in opened /\ evs \cap ready[f] # {}
Pollable(f, evs) == f \notin opened \/ IsReady(f, evs)

Goto(t, l) == pc' = [pc EXCEPT ![t] = l]

-----------------------------------------------------------------------------
(* trigger_repoll: the caller owns the mutex.                              *)

\* Take f off the list; a node that is not there needs no repoll.
TakeOff(t, f, next) ==
  /\ poll_fds' = poll_fds \ {f}
  /\ arg' = [arg EXCEPT ![t] = f]
  /\ then' = [then EXCEPT ![t] = next]
  /\ Goto(t, IF f \in poll_fds THEN "repoll" ELSE "after")

CountPollers(t) ==
  /\ pc[t] = "repoll"
  /\ Goto(t, IF nr_polling_threads = 0 THEN "after" ELSE "trigger")
  /\ UNCHANGED <<kernel, epollfd, kq, mutex, nr_polling_threads, locals>>

\* A slip: the pollers are woken and not waited for.
TriggerSelfOnly(t) ==
  /\ pc[t] = "trigger"
  /\ repoll' = TRUE
  /\ Goto(t, "after")
  /\ UNCHANGED <<kernel, epollfd, user, mutex, nr_polling_threads, locals>>

TriggerSelf(t) ==
  /\ pc[t] = "trigger"
  /\ repoll' = TRUE
  /\ Goto(t, "drain")
  /\ UNCHANGED <<kernel, epollfd, user, mutex, nr_polling_threads, locals>>

\* The loop around pthread_cond_wait.
AwaitPollers(t) ==
  /\ pc[t] = "drain"
  /\ Goto(t, IF nr_polling_threads = 0 THEN "after" ELSE "asleep")
  /\ UNCHANGED <<kernel, epollfd, kq, mutex, nr_polling_threads, locals>>

-----------------------------------------------------------------------------
(* epoll_ctl.                                                              *)

\* A slip: a node on the list is changed and nobody polls again.
RegisterOnce(t, f, node) ==
  /\ nodes' = [g \in DOMAIN nodes \cup {f} |->
                 IF g = f THEN node ELSE nodes[g]]
  /\ poll_fds' = poll_fds \cup {f}
  /\ arg' = [arg EXCEPT ![t] = f]
  /\ then' = [then EXCEPT ![t] = "ctl"]
  /\ Goto(t, IF f \in poll_fds THEN "after" ELSE "repoll")

\* epollfd_ctx__register_events: a node already on the list polls again too,
\* for its events may have changed.
Register(t, f, node) ==
  /\ nodes' = [g \in DOMAIN nodes \cup {f} |->
                 IF g = f THEN node ELSE nodes[g]]
  /\ poll_fds' = poll_fds \cup {f}
  /\ arg' = [arg EXCEPT ![t] = f]
  /\ then' = [then EXCEPT ![t] = "ctl"]
  /\ Goto(t, "repoll")

CtlLock(t) ==
  /\ pc[t] = "idle"
  /\ mutex = NoThread
  /\ mutex' = t

\* EPOLL_CTL_ADD of a new file or EPOLL_CTL_MOD of a registered one.
CtlRegister(t, f, node) ==
  /\ CtlLock(t)
  /\ f \in opened
  /\ Register(t, f, node)
  /\ UNCHANGED <<kernel, kq, nr_polling_threads, pfds, left, todo>>

\* EPOLL_CTL_DEL, any operation on a file that fstat() no longer finds, and
\* epollfd_ctx_remove_fd, by which the shim's close() forgets a file.
CtlRemove(t, f) ==
  /\ CtlLock(t)
  /\ f \in DOMAIN nodes
  /\ TakeOff(t, f, "remove")
  /\ UNCHANGED <<kernel, nodes, kq, nr_polling_threads, pfds, left, todo>>

\* A slip: the node is freed with its event still in the kqueue.
DropNodeOnly(f) ==
  /\ nodes' = [g \in DOMAIN nodes \ {f} |-> nodes[g]]
  /\ UNCHANGED user

\* epollfd_ctx_remove_node, after the repoll.
DropNode(f) ==
  /\ user' = user \ {f}
  /\ nodes' = [g \in DOMAIN nodes \ {f} |-> nodes[g]]

Unlock(t) ==
  /\ mutex' = NoThread
  /\ Goto(t, "idle")

\* What follows trigger_repoll.
Done(t) ==
  /\ arg' = [arg EXCEPT ![t] = NoFile]
  /\ then' = [then EXCEPT ![t] = "none"]
  /\ UNCHANGED <<pfds, left, todo>>

AfterCtl(t) ==
  /\ pc[t] = "after" /\ then[t] = "ctl"
  /\ Unlock(t) /\ Done(t)
  /\ UNCHANGED <<kernel, epollfd, kq, nr_polling_threads>>

AfterRemove(t) ==
  /\ pc[t] = "after" /\ then[t] = "remove"
  /\ DropNode(arg[t])
  /\ Unlock(t) /\ Done(t)
  /\ UNCHANGED <<kernel, poll_fds, repoll, nr_polling_threads>>

AfterNval(t) ==
  /\ pc[t] = "after" /\ then[t] = "nval"
  /\ DropNode(arg[t])
  /\ Goto(t, "nval") /\ Done(t)
  /\ UNCHANGED <<kernel, poll_fds, repoll, mutex, nr_polling_threads>>

AfterOneshot(t) ==
  /\ pc[t] = "after" /\ then[t] = "oneshot"
  /\ user' = user \ {arg[t]}
  /\ Goto(t, "oneshot") /\ Done(t)
  /\ UNCHANGED <<kernel, epollfd, repoll, mutex, nr_polling_threads>>

-----------------------------------------------------------------------------
(* epoll_wait.                                                             *)

WaitCall(t) ==
  /\ pc[t] = "idle"
  /\ Goto(t, "wait")
  /\ \E l \in {"some", "zero"} : left' = [left EXCEPT ![t] = l]
  /\ UNCHANGED <<kernel, epollfd, kq, mutex, nr_polling_threads,
                 pfds, todo, arg, then>>

\* A pass that found nothing ends the call if no time is left.
Nothing(t) ==
  IF left[t] = "zero"
    THEN Goto(t, "idle") /\ left' = [left EXCEPT ![t] = "none"]
    ELSE Goto(t, "block") /\ UNCHANGED left

\* epollfd_ctx_wait, the poll() without a timeout: nothing at all ends it.
PollNothing(t) ==
  /\ pc[t] = "wait"
  /\ mutex = NoThread
  /\ ~repoll /\ user = {}
  /\ \A f \in poll_fds : ~Pollable(f, nodes[f].events)
  /\ Nothing(t)
  /\ UNCHANGED <<kernel, epollfd, kq, mutex, nr_polling_threads,
                 pfds, todo, arg, then>>

\* Nodes that are ready are triggered; files that are gone are forgotten.
PollSome(t) ==
  /\ pc[t] = "wait"
  /\ mutex = NoThread
  /\ \/ repoll \/ user # {}
     \/ \E f \in poll_fds : Pollable(f, nodes[f].events)
  /\ mutex' = t
  /\ user' = user \cup {f \in poll_fds : IsReady(f, nodes[f].events)}
  /\ todo' = [todo EXCEPT ![t] = poll_fds \ opened]
  /\ Goto(t, "nval")
  /\ UNCHANGED <<kernel, epollfd, repoll, nr_polling_threads,
                 pfds, left, arg, then>>

RemoveInvalid(t) ==
  /\ pc[t] = "nval"
  /\ \/ /\ todo[t] = {}
        /\ Goto(t, "kevent")
        /\ UNCHANGED <<poll_fds, todo, arg, then>>
     \/ \E f \in todo[t] :
          /\ todo' = [todo EXCEPT ![t] = @ \ {f}]
          /\ TakeOff(t, f, "nval")
  /\ UNCHANGED <<kernel, nodes, kq, mutex, nr_polling_threads, pfds, left>>

\* What kevent() may return for an array of cnt: the code enlarges it for a
\* client that has room for all it has registered, else events stay behind.
\* NoFile stands for the descriptor's own event, whose udata is NULL.
Pending == user \cup IF repoll THEN {NoFile} ELSE {}
Returns(batch, cnt) ==
  LET n == Cardinality(Pending) IN
  Cardinality(batch) = IF cnt >= Cardinality(DOMAIN nodes) \/ cnt >= n
                         THEN n ELSE cnt

\* The nodes in the batch that are still ready are reported.  If none is,
\* kevent() is called again, until it returns nothing.
Collect(t, cnt, batch) ==
  LET reported == {f \in batch \ {NoFile} : IsReady(f, nodes[f].events)} IN
  /\ pc[t] = "kevent"
  /\ Returns(batch, cnt)
  /\ user' = user \ batch
  /\ repoll' = (repoll /\ NoFile \notin batch)
  /\ \/ /\ batch = {}
        /\ mutex' = NoThread
        /\ Nothing(t)
        /\ UNCHANGED todo
     \/ /\ batch # {} /\ reported = {}
        /\ Goto(t, "kevent")
        /\ UNCHANGED <<mutex, left, todo>>
     \/ /\ reported # {}
        /\ todo' = [todo EXCEPT ![t] =
                       {f \in reported : nodes[f].is_oneshot}]
        /\ Goto(t, "oneshot")
        /\ UNCHANGED <<mutex, left>>
  /\ UNCHANGED <<kernel, epollfd, nr_polling_threads, pfds, arg, then>>

\* A reported one-shot node is taken out of the kqueue and stays registered.
Disarm(t) ==
  /\ pc[t] = "oneshot"
  /\ \/ /\ todo[t] = {}
        /\ Unlock(t)
        /\ left' = [left EXCEPT ![t] = "none"]
        /\ UNCHANGED <<poll_fds, todo, arg, then>>
     \/ \E f \in todo[t] :
          /\ todo' = [todo EXCEPT ![t] = @ \ {f}]
          /\ TakeOff(t, f, "oneshot")
          /\ UNCHANGED <<mutex, left>>
  /\ UNCHANGED <<kernel, nodes, kq, nr_polling_threads, pfds>>

\* The snapshot; the thread is counted before it gives the mutex up.
Block(t) ==
  /\ pc[t] = "block"
  /\ mutex = NoThread
  /\ pfds' = [pfds EXCEPT ![t] = [f \in poll_fds |-> nodes[f].events]]
  /\ nr_polling_threads' = nr_polling_threads + 1
  /\ Goto(t, "ppoll")
  /\ UNCHANGED <<kernel, epollfd, kq, mutex, left, todo, arg, then>>

\* ppoll() has something to return.
PpollReturns(t) ==
  /\ pc[t] = "ppoll"
  /\ \/ repoll \/ user # {}
     \/ \E f \in DOMAIN pfds[t] : Pollable(f, pfds[t][f])
  /\ Goto(t, "leave")
  /\ UNCHANGED <<kernel, epollfd, kq, mutex, nr_polling_threads, locals>>

\* Time runs out, or a signal handler has run and epoll_wait fails.
PpollEnds(t) ==
  /\ pc[t] = "ppoll"
  /\ \/ left[t] = "some" /\ left' = [left EXCEPT ![t] = "zero"]
     \/ left' = [left EXCEPT ![t] = "error"]
  /\ Goto(t, "leave")
  /\ UNCHANGED <<kernel, epollfd, kq, mutex, nr_polling_threads,
                 pfds, todo, arg, then>>

\* A slip: the sleeper is signalled one thread too early.
SignalsEarly(n) == n = 1

Signals(n) == n = 0

\* The last poller to leave signals the thread that waits for them.
Leave(t) ==
  /\ pc[t] = "leave"
  /\ nr_polling_threads' = nr_polling_threads - 1
  /\ pc' = [u \in Threads |->
              IF u = t THEN IF left[t] = "error" THEN "idle" ELSE "wait"
              ELSE IF pc[u] = "asleep" /\ Signals(nr_polling_threads')
                   THEN "drain" ELSE pc[u]]
  /\ pfds' = [pfds EXCEPT ![t] = << >>]
  /\ left' = [left EXCEPT ![t] = IF @ = "error" THEN "none" ELSE @]
  /\ UNCHANGED <<kernel, epollfd, kq, mutex, todo, arg, then>>

-----------------------------------------------------------------------------
(* The files.                                                              *)

SetReady(f, evs) ==
  /\ f \in opened
  /\ ready' = [ready EXCEPT ![f] = evs]
  /\ UNCHANGED <<opened, epollfd, kq, mutex, nr_polling_threads, pc, locals>>

\* A close() the shim does not see.
CloseFile(f) ==
  /\ f \in opened
  /\ opened' = opened \ {f}
  /\ ready' = [ready EXCEPT ![f] = {}]
  /\ UNCHANGED <<epollfd, kq, mutex, nr_polling_threads, pc, locals>>

-----------------------------------------------------------------------------
\* The steps of a thread that owns the mutex.
Owner(t) ==
  \/ CountPollers(t) \/ TriggerSelf(t) \/ AwaitPollers(t)
  \/ AfterCtl(t) \/ AfterRemove(t) \/ AfterNval(t) \/ AfterOneshot(t)
  \/ RemoveInvalid(t) \/ Disarm(t)
  \/ \E cnt \in 1 .. MaxEvents : \E batch \in SUBSET Pending :
       Collect(t, cnt, batch)

Waiter(t) ==
  \/ PollNothing(t) \/ PollSome(t) \/ Block(t)
  \/ PpollReturns(t) \/ Leave(t)

Ctl(t) ==
  \E f \in Files :
    \/ \E node \in Registrations : CtlRegister(t, f, node)
    \/ CtlRemove(t, f)

Next ==
  \/ \E t \in Threads :
       Ctl(t) \/ WaitCall(t) \/ Owner(t) \/ Waiter(t) \/ PpollEnds(t)
  \/ \E f \in Files :
       \/ f \in Closed /\ CloseFile(f)
       \/ \E evs \in SUBSET Events : SetReady(f, evs)

Spec == Init /\ [][Next]_vars

\* Threads run and ppoll() returns when it can; a thread that keeps trying for
\* the mutex gets it.  Nobody has to call anything, and no timeout to expire.
Fairness ==
  \A t \in Threads :
    /\ WF_vars(Owner(t))
    /\ WF_vars(PpollReturns(t))
    /\ WF_vars(Leave(t))
    /\ SF_vars(PollNothing(t) \/ PollSome(t) \/ Block(t))

FairSpec == Spec /\ Fairness

-----------------------------------------------------------------------------
TypeOK ==
  /\ opened \subseteq Files
  /\ ready \in [Files -> SUBSET Events]
  /\ DOMAIN nodes \subseteq Files /\ nodes \in [DOMAIN nodes -> Nodes]
  /\ poll_fds \subseteq DOMAIN nodes
  /\ user \subseteq Files
  /\ repoll \in BOOLEAN
  /\ mutex \in Threads \cup {NoThread}
  /\ nr_polling_threads \in Nat
  /\ pc \in [Threads -> Labels]
  /\ DOMAIN pfds = Threads
  /\ left \in [Threads -> {"none", "some", "zero", "error"}]
  /\ todo \in [Threads -> SUBSET Files]
  /\ arg \in [Threads -> Files \cup {NoFile}]
  /\ then \in [Threads -> {"none", "ctl", "remove", "nval", "oneshot"}]

\* The counter is the number of threads between their snapshot and their
\* leaving ppoll(), so that 0 means nobody polls an old list.
PollersCounted ==
  nr_polling_threads = Cardinality({t \in Threads : pc[t] \in Polling})

\* Whenever the mutex is free, every thread in ppoll() watches the list as it
\* is now, for the events as they are now.  A file that epoll_ctl has added or
\* changed is never waited for in vain.
FreshPollers ==
  mutex = NoThread =>
    \A t \in Threads : pc[t] = "ppoll" =>
      pfds[t] = [f \in poll_fds |-> nodes[f].events]

\* Every event that kevent() can return names a node that has not been freed.
NoDanglingEvent == user \subseteq DOMAIN nodes

\* Whoever takes the mutex gives it back: a change to the list does not wait
\* for ever for the threads in ppoll(), and with it all who want the mutex.
MutexReleased == mutex # NoThread ~> mutex = NoThread

\* A thread asleep in ppoll() while a registered file is ready wakes up.
ReadyWakes ==
  \A t \in Threads, f \in Files :
    (pc[t] = "ppoll" /\ f \in poll_fds /\ Pollable(f, nodes[f].events))
      ~> (pc[t] # "ppoll" \/ f \notin poll_fds
            \/ ~Pollable(f, nodes[f].events))

=============================================================================
