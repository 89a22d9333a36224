---------------------------- MODULE EpollFilters ----------------------------
(***************************************************************************)
(* How an epoll descriptor of shims/epoll watches one file with the        *)
(* filters of a kqueue (epollfd_ctx.c): which filters a registration       *)
(* needs, level or edge triggered, how they change as ends of file are     *)
(* learnt, and what epoll_wait makes of the events.                        *)
(*                                                                         *)
(* desc->mutex serialises the calls, so there is one thread here, and the  *)
(* file, which changes between any two of its steps.  Files that only      *)
(* poll() can watch and blocking are EpollWait's, several descriptors      *)
(* EpollShimCtx's subject.  The build has EVFILT_USER and EVFILT_EXCEPT    *)
(* and is Apple's.  Errors of a socket come with its end; kevent() and     *)
(* malloc() do not fail otherwise.                                         *)
(***************************************************************************)
EXTENDS Integers, FiniteSets

CONSTANTS
  Types,          \* the kinds of file: socket, fifo_r, fifo_w, fifo_rw, other
  EpollEvents,    \* bound: what clients register
  Crowded,        \* other files are registered, so that events may be left
  OobTaken        \* clients take registrations for EPOLLPRI back

PollBits == {"IN", "OUT", "RDHUP", "PRI"}
Filters == {"read", "write", "except"}

ASSUME FiltersAssumption ==
  /\ Types \subseteq {"socket", "fifo_r", "fifo_w", "fifo_rw", "other"}
  /\ EpollEvents \subseteq
       [events : SUBSET PollBits, et : BOOLEAN, oneshot : BOOLEAN]
  /\ {Crowded, OobTaken} \subseteq BOOLEAN

VARIABLES
  type, file,  \* the file and its state in the kernel
  knotes,      \* what the kqueue has of each filter, and of EVFILT_USER
  node,        \* the RegisteredFDsNode
  stage,
  kevs,        \* the events kevent() returned and not yet fed
  full,        \* n == cnt
  completing,  \* the filters in the kqueue for completion
  news,        \* history: what came up since a client that wants edges heard
  seen         \* history: what was true during the call

filterVars == <<type, file, knotes, node, stage, kevs, full, completing, news, seen>>

\* Data to read, the peer's end, room to write, no reader, an error, urgent
\* data.
Quiet == [in |-> FALSE, reof |-> FALSE, out |-> FALSE, weof |-> FALSE,
          err |-> FALSE, oob |-> FALSE]

\* armed and late are not in the code: a one-shot node that was reported is
\* not armed, and one whose filters lag behind what completion learnt is late.
NoNode == [registered |-> FALSE, events |-> {}, et |-> FALSE,
           oneshot |-> FALSE, armed |-> FALSE, late |-> FALSE,
           eof |-> {}, has |-> {},
           got |-> {}, revents |-> {}]

NoFilters == [k \in Filters \cup {"user"} |-> "none"]

FilterInit ==
  /\ type \in Types
  /\ file = Quiet
  /\ knotes = NoFilters
  /\ node = NoNode
  /\ stage = "idle"
  /\ kevs = {}
  /\ full = FALSE
  /\ completing = {}
  /\ news = {}
  /\ seen = {}

Fifo == type \in {"fifo_r", "fifo_w", "fifo_rw"}

\* What poll() says of a file.
Ready(f) ==
  LET is(e, cond) == IF cond THEN {e} ELSE {}
  IN  CASE type = "socket" ->
             is("IN", f.in \/ f.reof) \cup is("OUT", f.out \/ f.weof)
               \cup is("RDHUP", f.reof) \cup is("HUP", f.reof /\ f.weof)
               \cup is("ERR", f.err) \cup is("PRI", f.oob)
        [] type = "other" ->
             is("IN", f.in \/ f.reof) \cup is("OUT", f.out \/ f.weof)
               \cup is("HUP", f.reof)
        [] type = "fifo_w" -> is("OUT", f.out) \cup is("ERR", f.weof)
        [] OTHER ->
             is("IN", f.in) \cup is("OUT", f.out) \cup is("HUP", f.reof)

\* What may be said of it: writing does not block where it fails.
Excused(f) ==
  Ready(f) \cup IF type = "fifo_w" /\ f.weof THEN {"OUT"} ELSE {}

\* The condition of a filter.
On(f, k) ==
  CASE k = "read"   -> f.in \/ f.reof
    [] k = "write"  -> f.out \/ f.weof
    [] k = "except" -> f.oob

-----------------------------------------------------------------------------
\* get_needed_filters.

\* A slip: an end of file that is known goes on being waited for.
WatchEdge(known) == "clear"

\* A filter that reports nothing yet and waits for an end of file, or reports
\* one that is known.
Watch(known) == IF known THEN "level" ELSE "clear"

If(events, e) == IF e \in events THEN "level" ELSE "none"

\* A socket: EVFILT_READ drives RDHUP and, once both ends are known, HUP;
\* until then the end that is not known is watched.
SocketFilters(nd) ==
  LET r0 == IF "IN" \in nd.events THEN "level"
            ELSE IF "RDHUP" \in nd.events THEN Watch("R" \in nd.eof)
            ELSE "none"
      w0 == If(nd.events, "OUT")
      both == nd.eof = {"R", "W"}
      r1 == IF both /\ r0 # "level" /\ w0 # "level" THEN "level" ELSE r0
      w1 == IF both /\ r1 # "none" THEN "none" ELSE w0
  IN  [read  |-> IF r1 = "none" /\ \/ nd.eof = {} /\ w1 = "none"
                                   \/ nd.eof = {"W"}
                 THEN "clear" ELSE r1,
       write |-> IF w1 = "none" /\ nd.eof = {"R"} THEN "clear" ELSE w1]

OtherFilters(nd) ==
  LET r == If(nd.events, "IN")
      w == If(nd.events, "OUT")
      hup == Watch(nd.eof # {})
  IN  CASE type = "fifo_r" ->
             [read |-> IF r = "none" THEN hup ELSE r, write |-> "none"]
        [] type = "fifo_w" ->
             [read |-> "none", write |-> IF w = "none" THEN hup ELSE w]
        [] OTHER ->
             [read |-> IF nd.events = {} THEN hup ELSE r, write |-> w]

NeededFilters(nd) ==
  LET nf == IF type = "socket" THEN SocketFilters(nd) ELSE OtherFilters(nd)
      all == [k \in Filters |-> IF k = "except" THEN If(nd.events, "PRI")
                                ELSE nf[k]]
  IN  [k \in Filters |-> IF nd.et /\ all[k] # "none" THEN "clear" ELSE all[k]]

-----------------------------------------------------------------------------
\* The kqueue.

\* EV_ADD: an EV_CLEAR filter is pending at once if it holds.
Added(k, how) ==
  IF how = "level" THEN "level" ELSE IF On(file, k) THEN "fired" ELSE "clear"

\* epollfd_ctx__remove_node_from_kq: EVFILT_EXCEPT is not taken out.
RemovedKq == [NoFilters EXCEPT !["except"] = knotes["except"]]

\* The kqueue register_events adds to.
OldKq(nd) == IF nd.registered THEN RemovedKq ELSE knotes

\* epollfd_ctx__register_events.  A FIFO without a reader refuses
\* EVFILT_WRITE (EPIPE): both ends are known, and if nothing else is
\* registered EVFILT_USER is triggered in its place.  Apple's EVFILT_EXCEPT
\* is always EV_CLEAR.
Registered(nd) ==
  LET nf == NeededFilters(nd)
      epipe == Fifo /\ nf["write"] # "none" /\ file.weof
      has == {k \in Filters : nf[k] # "none"}
             \ (IF epipe THEN {"write"} ELSE {})
  IN  /\ node' = [nd EXCEPT !.has = has, !.registered = TRUE, !.late = FALSE,
                            !.eof = IF epipe THEN {"R", "W"} ELSE nd.eof]
      /\ knotes' = [k \in DOMAIN knotes |->
                  IF k \in has
                  THEN Added(k, IF k = "except" THEN "clear" ELSE nf[k])
                  ELSE IF k = "user" /\ epipe /\ nf["read"] = "none"
                  THEN "fired" ELSE OldKq(nd)[k]]

Active == {k \in Filters : knotes[k] \in {"level", "fired"} /\ On(file, k)}
          \cup {k \in {"user"} : knotes[k] = "fired"}

-----------------------------------------------------------------------------
\* epoll_ctl.

\* registered_fds_node_update_flags_from_epoll_event: one-shot is edge
\* triggered.  Only sockets know EPOLLRDHUP and EPOLLPRI.
Updated(nd, reg) ==
  [nd EXCEPT !.events = IF type = "socket" THEN reg.events
                        ELSE reg.events \ {"RDHUP", "PRI"},
             !.et = reg.et \/ reg.oneshot,
             !.oneshot = reg.oneshot, !.armed = TRUE]

\* The bound on EPOLLPRI.
MayTakeBack == OobTaken \/ "PRI" \notin node.events

CtlNode(nd) ==
  /\ stage = "idle"
  /\ Registered(nd)
  /\ news' = IF nd.et THEN Ready(file) ELSE {}
  /\ UNCHANGED <<type, file, stage, kevs, full, completing, seen>>

CtlAdd(reg) == ~node.registered /\ CtlNode(Updated(NoNode, reg))

CtlMod(reg) ==
  node.registered /\ MayTakeBack /\ CtlNode(Updated(node, reg))

\* EPOLL_CTL_DEL, or the shim's close().
CtlDel ==
  /\ stage = "idle"
  /\ node.registered /\ MayTakeBack
  /\ node' = NoNode
  /\ knotes' = RemovedKq
  /\ news' = {}
  /\ UNCHANGED <<type, file, stage, kevs, full, completing, seen>>

-----------------------------------------------------------------------------
\* epollfd_ctx_wait.

Kevent(k) == [filter |-> k,
              eof    |-> \/ k = "read" /\ file.reof
                         \/ k = "write" /\ file.weof,
              err    |-> file.err,
              data   |-> IF k = "read" THEN file.in ELSE file.out]

\* kevent() returns what is active, or one event if the client's array is
\* small and there are other nodes.
Collects ==
  /\ stage \in {"idle", "again"}
  /\ Active # {}
  /\ \E ks \in {Active} \cup IF Crowded THEN {{k} : k \in Active} ELSE {} :
       /\ kevs' = {Kevent(k) : k \in ks}
       /\ full' \in (IF Crowded /\ Cardinality(ks) = 1 THEN BOOLEAN
                     ELSE {FALSE})
       /\ full' \/ ks = Active
       /\ knotes' = [k \in DOMAIN knotes |->
                   IF k \in ks /\ knotes[k] = "fired" THEN "clear" ELSE knotes[k]]
  /\ stage' = "feed"
  /\ seen' = Excused(file)
  /\ UNCHANGED <<type, file, node, completing, news>>

CollectsNothing ==
  /\ stage = "again"
  /\ Active = {}
  /\ stage' = "idle"
  /\ seen' = {}
  /\ UNCHANGED <<type, file, knotes, node, kevs, full, completing, news>>

\* The end of file an event tells of: a socket's of one side, another file's
\* of the whole.
NewEof(ev) ==
  LET side == IF ev.filter = "read" THEN {"R"} ELSE {"W"}
  IN  IF type = "socket"
      THEN IF ev.eof THEN node.eof \cup side ELSE node.eof \ side
      ELSE IF ev.eof THEN {"R", "W"} ELSE {}

Hups(eof) ==
  (IF "R" \in eof THEN {"IN", "RDHUP"} ELSE {})
  \cup (IF "W" \in eof THEN {"OUT"} ELSE {})
  \cup (IF eof = {"R", "W"} THEN {"HUP"} ELSE {})

\* What an event of EVFILT_READ or EVFILT_WRITE says.
Revents(ev, eof) ==
  LET dir == IF ev.filter = "read" THEN {"IN"} ELSE {"OUT"}
  IN  (IF ev.eof /\ ev.err THEN {"ERR"} ELSE {})
      \cup IF eof = {} THEN dir
           ELSE IF type = "socket" THEN dir \cup Hups(eof)
           ELSE IF ~Fifo THEN dir \cup {"HUP"}
           ELSE (IF ev.data THEN dir ELSE {})
                \cup IF ev.filter = "read" THEN {"HUP"} ELSE {"ERR"}

\* registered_fds_node_feed_event, for the filters a file has: the node and
\* what it adds to what will be reported.
Told(nd, revents, k) ==
  LET all == (nd.revents \cup revents) \cap (nd.events \cup {"HUP", "ERR"})
  IN  [nd EXCEPT !.revents = all,
                 !.got = IF all = {} THEN nd.got
                         ELSE nd.got \cup ({k} \cap Filters)]

Fed(ev) ==
  LET eof == NewEof(ev)
  IN  Told([node EXCEPT !.eof = eof], Revents(ev, eof), ev.filter)

\* Filters are registered anew if what was learnt changes them, but not for
\* an edge-triggered file both of whose ends are known.
Changed(nd) ==
  /\ ~(nd.et /\ nd.eof = {"R", "W"} /\ ~Fifo)
  /\ \E k \in {"read", "write"} :
       NeededFilters(nd)[k] # NeededFilters(node)[k]

\* A slip: the filters stay as they were.
ReregistersNot(nd) == node' = nd /\ UNCHANGED knotes

Reregisters(nd) ==
  IF Changed(nd) THEN Registered(nd) ELSE node' = nd /\ UNCHANGED knotes

FeedEvent(ev) ==
  /\ stage = "feed" /\ ev \in kevs
  /\ ev.filter \in {"read", "write"}
  /\ kevs' = kevs \ {ev}
  /\ Reregisters(Fed(ev))
  /\ UNCHANGED <<type, file, stage, full, completing, news, seen>>

\* A slip: without a client that wants edges the filter is not reset.
ResetNot == FALSE

\* Urgent data may be gone, and has to go on being reported.
Reset == ~file.oob \/ ~node.et

\* EVFILT_EXCEPT: whether there is urgent data is asked again.
FeedExcept(ev) ==
  /\ stage = "feed" /\ ev \in kevs
  /\ ev.filter = "except"
  /\ kevs' = kevs \ {ev}
  /\ node' = Told(node, IF file.oob THEN {"PRI"} ELSE {}, "except")
  /\ knotes' = IF Reset THEN [knotes EXCEPT !["except"] = Added("except", "clear")]
           ELSE knotes
  /\ UNCHANGED <<type, file, stage, full, completing, news, seen>>

\* EVFILT_USER of a FIFO that had no reader: EVFILT_WRITE is tried again.
FeedUser(ev) ==
  /\ stage = "feed" /\ ev \in kevs
  /\ ev.filter = "user"
  /\ kevs' = kevs \ {ev}
  /\ IF file.weof
     THEN /\ node' = Told(node, {"ERR", "OUT"}, "user")
          /\ knotes' = [knotes EXCEPT !["user"] = IF node.et THEN @ ELSE "fired"]
     ELSE /\ node' = [node EXCEPT !.has = node.has \cup {"write"}]
          /\ knotes' = [knotes EXCEPT !["write"] =
                      Added("write", NeededFilters(node)["write"])]
  /\ UNCHANGED <<type, file, stage, full, completing, news, seen>>

\* With nothing to report kevent() is called again.
FeedsNothing ==
  /\ stage = "feed" /\ kevs = {} /\ node.revents = {}
  /\ stage' = "again"
  /\ full' = FALSE
  /\ UNCHANGED <<type, file, knotes, node, kevs, completing, news, seen>>

\* registered_fds_node_register_for_completion: the filters that have not
\* been heard, when events may be left or come only once.
Completes ==
  /\ stage = "feed" /\ kevs = {} /\ node.revents # {}
  /\ completing' = IF full \/ node.et THEN node.has \ node.got ELSE {}
  /\ stage' = "complete"
  /\ full' = FALSE
  /\ UNCHANGED <<type, file, knotes, node, kevs, news, seen>>

\* registered_fds_node_complete, as long as there is an event.  An end of file
\* learnt here does not change the filters.
CompleteEvent(k) ==
  /\ stage = "complete"
  /\ k \in completing /\ On(file, k)
  /\ completing' = completing \ {k}
  /\ node' = IF k = "except" THEN Told(node, {"PRI"}, k)
             ELSE LET nd == Fed(Kevent(k))
                  IN  [nd EXCEPT !.late = nd.late \/ Changed(nd)]
  /\ UNCHANGED <<type, file, knotes, stage, kevs, full, news, seen>>

\* A slip: a one-shot node stays in the kqueue.
ReportsOnly ==
  [node EXCEPT !.revents = {}, !.got = {}, !.armed = ~node.oneshot]

\* The node after the report; once reported, a one-shot node is disarmed.
Reported ==
  [node EXCEPT !.revents = {}, !.got = {}, !.armed = ~node.oneshot,
               !.has = IF node.oneshot THEN {} ELSE node.has]

Reports ==
  /\ stage = "complete"
  /\ \A k \in completing : ~On(file, k)
  /\ node' = Reported
  /\ knotes' = IF node.oneshot THEN RemovedKq ELSE knotes
  /\ news' = news \ node.revents
  /\ stage' = "idle"
  /\ completing' = {}
  /\ seen' = {}
  /\ UNCHANGED <<type, file, kevs, full>>

Thread ==
  \/ Collects \/ CollectsNothing
  \/ \E ev \in kevs : FeedEvent(ev) \/ FeedExcept(ev) \/ FeedUser(ev)
  \/ FeedsNothing \/ Completes \/ Reports
  \/ \E k \in Filters : CompleteEvent(k)

-----------------------------------------------------------------------------
\* The file.

\* The file becomes f: edge-triggered filters ks fire.
Becomes(f, ks) ==
  /\ file' = f
  /\ knotes' = [k \in DOMAIN knotes |->
              IF k \in ks /\ knotes[k] = "clear" THEN "fired" ELSE knotes[k]]
  /\ news' = IF node.et THEN (news \cup (Ready(f) \ Ready(file))) \cap Ready(f)
             ELSE {}
  /\ seen' = IF stage = "idle" THEN {} ELSE seen \cup Excused(f)
  /\ UNCHANGED <<type, node, stage, kevs, full, completing>>

CanRead == type # "fifo_w"
CanWrite == type # "fifo_r"

Arrives == CanRead /\ ~file.reof /\ Becomes([file EXCEPT !.in = TRUE], {"read"})
Drained == file.in /\ Becomes([file EXCEPT !.in = FALSE], {})
Room ==
  /\ CanWrite /\ ~file.out /\ ~file.weof
  /\ Becomes([file EXCEPT !.out = TRUE], {"write"})
Filled == file.out /\ Becomes([file EXCEPT !.out = FALSE], {})

\* The peer shuts its side down, or every writer of a FIFO has closed it.
EndsRead ==
  /\ type \in {"socket", "fifo_r"} /\ ~file.reof
  /\ Becomes([file EXCEPT !.reof = TRUE], {"read"})

EndsWrite ==
  /\ type \in {"socket", "fifo_w"} /\ ~file.weof
  /\ Becomes([file EXCEPT !.weof = TRUE], {"write"})

\* A connection is reset; a terminal hangs up.
EndsBoth ==
  /\ type \in {"socket", "other"} /\ ~(file.reof /\ file.weof)
  /\ Becomes([file EXCEPT !.reof = TRUE, !.weof = TRUE,
                          !.err = type = "socket"], {"read", "write"})

\* A FIFO's other end is opened again.
Reopens ==
  /\ Fifo /\ (file.reof \/ file.weof)
  /\ Becomes([file EXCEPT !.reof = FALSE, !.weof = FALSE], {})

Urgent ==
  /\ type = "socket" /\ ~file.oob
  /\ Becomes([file EXCEPT !.oob = TRUE], {"except"})

UrgentRead == file.oob /\ Becomes([file EXCEPT !.oob = FALSE], {})

File ==
  \/ Arrives \/ Drained \/ Room \/ Filled
  \/ EndsRead \/ EndsWrite \/ EndsBoth \/ Reopens \/ Urgent \/ UrgentRead

FilterNext ==
  \/ Thread
  \/ \E reg \in EpollEvents : CtlAdd(reg) \/ CtlMod(reg)
  \/ CtlDel
  \/ File

FilterSpec == FilterInit /\ [][FilterNext]_filterVars

\* The client goes on calling epoll_wait, and a call goes on; no active event
\* is left in the kqueue for ever, for kevent() takes them in turn.
CollectsFilter(k) == Collects /\ \E ev \in kevs' : ev.filter = k

FilterFairness ==
  /\ WF_filterVars(Thread)
  /\ \A k \in Filters : SF_filterVars(CollectsFilter(k))

FairFilterSpec == FilterSpec /\ FilterFairness

-----------------------------------------------------------------------------
States == {"none", "level", "clear", "fired"}

FilterTypeOK ==
  /\ type \in Types
  /\ DOMAIN file = DOMAIN Quiet /\ \A x \in DOMAIN file : file[x] \in BOOLEAN
  /\ knotes \in [Filters \cup {"user"} -> States]
  /\ DOMAIN node = DOMAIN NoNode
  /\ node.events \subseteq PollBits
  /\ node.eof \subseteq {"R", "W"}
  /\ node.has \subseteq Filters /\ node.got \subseteq Filters
  /\ node.revents \subseteq node.events \cup {"HUP", "ERR"}
  /\ stage \in {"idle", "again", "feed", "complete"}
  /\ completing \subseteq Filters
  /\ full \in BOOLEAN

\* What the client is to hear of: what is so, or, edge triggered, what has
\* come up since it last heard.
Wanted ==
  (IF node.et THEN news ELSE Ready(file)) \cap (node.events \cup {"HUP", "ERR"})

\* A FIFO registered edge triggered while it has no reader is reported once;
\* then no filter is left to tell that it has one again.
Unwatched == Fifo /\ node.et /\ node.has = {}

\* epoll_wait does not block while there is something to report: whatever
\* ends of file have been learnt or not, some filter in the kqueue is active.
NothingMissed ==
  stage = "idle" /\ node.armed /\ Wanted # {} /\ ~Unwatched /\ ~node.late
    => Active # {}

\* What is reported was so at some moment of the call.
ReportsAreTrue == node.revents \subseteq seen

\* The has_evfilt flags say which filters the kqueue has, as the assertions
\* before filters are added (epollfd_ctx.c:921) rely on.
FiltersAsRecorded ==
  \A k \in Filters : knotes[k] # "none" <=> k \in node.has

\* A one-shot node that has been reported is silent until it is modified.
OneshotIsSilent == node.registered /\ ~node.armed => Active = {}

\* The assertions of the code: something is always watched, EVFILT_USER is
\* only there for a FIFO with no other filter.
Assertions ==
  /\ node.registered =>
       NeededFilters(node)["read"] # "none" \/ NeededFilters(node)["write"] # "none"
  /\ \A ev \in kevs : ev.filter = "user" =>
       node.has = {} /\ node.revents = {} /\ NeededFilters(node)["write"] # "none"

\* A call of epoll_wait that does not block comes back, if the file does not
\* keep changing: kevent() is not called again for ever over an event that
\* is not reported.
WaitReturns == []<><<File>>_filterVars \/ (stage # "idle" ~> stage = "idle")

\* A level-triggered event that lasts is reported again and again.
Lasts(e) ==
  /\ node.armed /\ ~node.et /\ ~node.late
  /\ e \in Ready(file) \cap (node.events \cup {"HUP", "ERR"})

Reports_(e) == Reports /\ e \in node.revents

LevelIsReported ==
  \A e \in PollBits \cup {"HUP", "ERR"} : <>[]Lasts(e) => []<><<Reports_(e)>>_filterVars

\* What epollfd_ctx.c keeps of a node and its filters: the record of the filters is
\* true, so is what is reported, and the code's assertions hold.
FilterInv ==
  /\ FilterTypeOK
  /\ FiltersAsRecorded
  /\ ReportsAreTrue
  /\ OneshotIsSilent
  /\ Assertions

=============================================================================
