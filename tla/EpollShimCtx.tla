---------------------------- MODULE EpollShimCtx ----------------------------
(***************************************************************************)
(* The descriptor table of shims/epoll (epoll_shim_ctx.c, and epoll_create *)
(* and epoll_ctl of epoll.c): which FileDescription stands behind a file   *)
(* number, who keeps it alive, and what close() does to the epoll          *)
(* descriptors that have the number registered.                            *)
(*                                                                         *)
(* The lock is the one AbstractRWLock describes and RWLock implements.  A  *)
(* section that only reads the table is one step, for nothing it looks at  *)
(* changes during it.  Removing a registration may have to wait for        *)
(* pollers; that is EpollWait's subject and left out here.                 *)
(***************************************************************************)
EXTENDS Integers, FiniteSets, FiniteSetsExt

CONSTANTS Threads,
          Creators,  \* bound: the threads that create descriptors, ...
          Users,     \* ... and those that use and register them
          Numbers,   \* the file numbers there are, a range from 0
          Descs,     \* the FileDescriptions malloc() can return
          NULL,
          Kinds,     \* what clients create: "epoll", "timerfd", "eventfd"
          Watched,   \* bound: the numbers registered, or opened as plain files
          Behind     \* bound: the numbers closed behind the shim's back

ASSUME ShimAssumption ==
  /\ Numbers \subseteq Nat /\ NULL \notin Descs \cup Threads
  /\ IsFiniteSet(Numbers) /\ IsFiniteSet(Threads) /\ IsFiniteSet(Descs)
  /\ "free" \notin Kinds
  /\ Watched \cup Behind \subseteq Numbers
  /\ Creators \cup Users \subseteq Threads

VARIABLES
  readers, writers,  \* rwlock
  open_files,        \* the table
  desc,              \* the FileDescriptions
  mutex,             \* desc->mutex of each: its owner
  kern,              \* what the kernel has at a number
  behind,            \* numbers in the table whose file was closed otherwise
  pc, loc            \* each thread's place and locals

vars == <<readers, writers, open_files, desc, mutex, kern, behind, pc, loc>>
lock == <<readers, writers>>
table == <<open_files, desc, mutex, kern, behind>>

Lock == INSTANCE AbstractRWLock

\* refs is refcount, regs the registered numbers of an epoll descriptor,
\* each with the description its node calls poll_fun of.
FreeDesc == [kind |-> "free", refs |-> 0, regs |-> {}]

NoLocals == [n |-> 0, d |-> NULL, n2 |-> 0, d2 |-> NULL]

Init ==
  /\ Lock!Init
  /\ open_files = [n \in Numbers |-> NULL]
  /\ desc = [d \in Descs |-> FreeDesc]
  /\ mutex = [d \in Descs |-> NULL]
  /\ kern = [n \in Numbers |-> "none"]
  /\ behind = {}
  /\ pc = [t \in Threads |-> "idle"]
  /\ loc = [t \in Threads |-> NoLocals]

Go(t, to) == pc' = [pc EXCEPT ![t] = to]

GoWith(t, to, locals) ==
  /\ pc' = [pc EXCEPT ![t] = to]
  /\ loc' = [loc EXCEPT ![t] = locals]

Reading == writers = {}

Live(d) == d # NULL /\ desc[d].kind # "free"

\* fd_as_pollable_desc: only timerfd and signalfd have a poll function.
Pollable(d) == IF Live(d) /\ desc[d].kind = "timerfd" THEN d ELSE NULL

-----------------------------------------------------------------------------
\* References.

\* A slip: destroying an epoll descriptor forgets what its nodes hold.
UnrefShallow(D, d) ==
  IF d = NULL THEN D
  ELSE IF D[d].refs > 1 THEN [D EXCEPT ![d].refs = @ - 1]
  ELSE [D EXCEPT ![d] = FreeDesc]

\* file_description_unref.  The last reference runs close_fun, and an epoll
\* descriptor's nodes drop theirs (epollfd_ctx_terminate).
Unref(D, d) ==
  IF d = NULL THEN D
  ELSE IF D[d].refs > 1 THEN [D EXCEPT ![d].refs = @ - 1]
  ELSE LET held(e) == Cardinality({r \in D[d].regs : r.desc = e})
       IN  [e \in Descs |->
              IF e = d \/ (held(e) > 0 /\ D[e].refs = held(e))
              THEN FreeDesc
              ELSE [D[e] EXCEPT !.refs = @ - held(e)]]

\* file_description_ref
Ref(D, d) == IF d = NULL THEN D ELSE [D EXCEPT ![d].refs = @ + 1]

\* The file at n is gone: its knotes go with it, the nodes do not.
Gone(D, n) ==
  [d \in Descs |->
     [D[d] EXCEPT !.regs =
        {[r EXCEPT !.live = r.live /\ r.n # n] : r \in D[d].regs}]]

GoneBehind(D, n) ==
  [d \in Descs |->
     [D[d] EXCEPT !.regs =
        {[r EXCEPT !.late = r.late \/ r.n = n] : r \in D[d].regs}]]

-----------------------------------------------------------------------------
\* epoll_create, eventfd, timerfd_create: epoll_shim_ctx_create_desc.
Unused == {n \in Numbers : kern[n] = "none"}

\* The table, the number's old description dropped.
WithoutLeftover(n) == Unref(desc, open_files[n])

\* kqueue1() returns the lowest number; a description left there was closed
\* behind the shim's back.
CreateDesc(t, kind) ==
  /\ pc[t] = "idle"
  /\ Lock!AcquireWrite(t)
  /\ Unused # {}
  /\ LET n == Min(Unused)
         D == WithoutLeftover(n)
         d == CHOOSE e \in Descs : D[e].kind = "free"
     IN  /\ \E e \in Descs : D[e].kind = "free"
         /\ desc' = [D EXCEPT ![d] = [FreeDesc EXCEPT !.kind = kind,
                                                      !.refs = 1]]
         /\ open_files' = [open_files EXCEPT ![n] = NULL]
         /\ behind' = behind \ {n}
         /\ kern' = [kern EXCEPT ![n] = "kq"]
         /\ GoWith(t, "install", [NoLocals EXCEPT !.n = n, !.d = d])
  /\ UNCHANGED mutex

\* EMFILE, ENOMEM: the lock is given back; a left-over description is gone
\* all the same if a number was found.
CreateFails(t) ==
  /\ pc[t] = "idle"
  /\ Reading /\ readers = {}
  /\ IF Unused = {} THEN UNCHANGED <<open_files, desc, behind>>
     ELSE LET n == Min(Unused)
          IN  /\ desc' = WithoutLeftover(n)
              /\ open_files' = [open_files EXCEPT ![n] = NULL]
              /\ behind' = behind \ {n}
  /\ UNCHANGED <<lock, mutex, kern, pc, loc>>

\* epoll_shim_ctx_install_desc
InstallDesc(t) ==
  /\ pc[t] = "install"
  /\ open_files' = [open_files EXCEPT ![loc[t].n] = loc[t].d]
  /\ Lock!ReleaseWrite(t)
  /\ GoWith(t, "idle", NoLocals)
  /\ UNCHANGED <<desc, mutex, kern, behind>>

\* The context could not be made: epoll_shim_ctx_drop_desc.
DropDesc(t) ==
  /\ pc[t] = "install"
  /\ desc' = Gone(Unref(desc, loc[t].d), loc[t].n)
  /\ kern' = [kern EXCEPT ![loc[t].n] = "none"]
  /\ Lock!ReleaseWrite(t)
  /\ GoWith(t, "idle", NoLocals)
  /\ UNCHANGED <<open_files, mutex, behind>>

-----------------------------------------------------------------------------
\* epoll_shim_close: epoll_shim_ctx_remove_desc.
CallClose(t, n) ==
  /\ pc[t] = "idle"
  /\ kern[n] # "none" \/ open_files[n] # NULL
  /\ GoWith(t, "close", [NoLocals EXCEPT !.n = n])
  /\ UNCHANGED <<lock, table>>

CloseClears(t) ==
  LET n == loc[t].n
  IN  /\ pc[t] = "close"
      /\ Lock!AcquireWrite(t)
      /\ open_files' = [open_files EXCEPT ![n] = NULL]
      /\ behind' = behind \ {n}
      /\ GoWith(t, "downgrade", [loc[t] EXCEPT !.d = open_files[n]])
      /\ UNCHANGED <<desc, mutex, kern>>

\* A slip: the lock is given up for a moment.
CloseUnlocks(t) ==
  /\ pc[t] = "downgrade"
  /\ Lock!ReleaseWrite(t)
  /\ Go(t, "lock")
  /\ UNCHANGED <<table, loc>>

CloseDowngrades(t) ==
  /\ pc[t] = "downgrade"
  /\ Lock!Downgrade(t)
  /\ Go(t, "lock")
  /\ UNCHANGED <<table, loc>>

\* epoll_shim_ctx_for_each_unlocked: the epoll descriptors in the table.
Epolls == {n \in Numbers : /\ open_files[n] # NULL
                           /\ desc[open_files[n]].kind = "epoll"}

ToLock(t) == {n \in Epolls : mutex[open_files[n]] # t}

\* A slip: the first one every time.
CloseLocksFirst(t) ==
  /\ pc[t] = "lock"
  /\ ToLock(t) # {}
  /\ LET d == open_files[Min(Epolls)]
     IN  mutex[d] \in {NULL, t} /\ mutex' = [mutex EXCEPT ![d] = t]
  /\ UNCHANGED <<lock, open_files, desc, kern, behind, pc, loc>>

\* One mutex after the other, in the order of their numbers.
CloseLocks(t) ==
  /\ pc[t] = "lock"
  /\ ToLock(t) # {}
  /\ LET d == open_files[Min(ToLock(t))]
     IN  mutex[d] = NULL /\ mutex' = [mutex EXCEPT ![d] = t]
  /\ UNCHANGED <<lock, open_files, desc, kern, behind, pc, loc>>

\* epollfd_remove_fd of every epoll descriptor in the table: the nodes of
\* number n go, and the references they held.
Removed(n) ==
  LET gone(e) == IF \E k \in Epolls : open_files[k] = e
                 THEN {r \in desc[e].regs : r.n = n} ELSE {}
      dropped(d) == Cardinality({e \in Descs : \E r \in gone(e) : r.desc = d})
  IN  [d \in Descs |->
         IF dropped(d) > 0 /\ desc[d].refs = dropped(d) THEN FreeDesc
         ELSE [desc[d] EXCEPT !.regs = @ \ gone(d),
                              !.refs = @ - dropped(d)]]

\* With all of them locked: the nodes, then the table's reference.
CloseRemoves(t) ==
  /\ pc[t] = "lock"
  /\ ToLock(t) = {}
  /\ desc' = Unref(Removed(loc[t].n), loc[t].d)
  /\ GoWith(t, "kclose", [loc[t] EXCEPT !.d = NULL])
  /\ UNCHANGED <<lock, open_files, mutex, kern, behind>>

\* real_close, and everything is unlocked.
CloseCloses(t) ==
  /\ pc[t] = "kclose"
  /\ kern' = [kern EXCEPT ![loc[t].n] = "none"]
  /\ desc' = Gone(desc, loc[t].n)
  /\ mutex' = [d \in Descs |-> IF mutex[d] = t THEN NULL ELSE mutex[d]]
  /\ Lock!ReleaseRead(t)
  /\ GoWith(t, "idle", NoLocals)
  /\ UNCHANGED <<open_files, behind>>

-----------------------------------------------------------------------------
\* epoll_shim_read, epoll_shim_write, epoll_shim_fcntl, epoll_wait: the
\* description is used after the lookup, with its mutex, and given back.

\* epoll_shim_ctx_find_desc: looked up and held under the read lock.
CallUse(t, n) ==
  /\ pc[t] = "idle"
  /\ Reading
  /\ open_files[n] # NULL
  /\ desc' = Ref(desc, open_files[n])
  /\ GoWith(t, "use", [NoLocals EXCEPT !.d = open_files[n]])
  /\ UNCHANGED <<lock, open_files, mutex, kern, behind>>

UseDesc(t) ==
  /\ pc[t] = "use"
  /\ mutex[loc[t].d] = NULL
  /\ Go(t, "unref")
  /\ UNCHANGED <<lock, table, loc>>

UnrefDesc(t) ==
  /\ pc[t] = "unref"
  /\ desc' = Unref(Unref(desc, loc[t].d2), loc[t].d)
  /\ GoWith(t, "idle", NoLocals)
  /\ UNCHANGED <<lock, open_files, mutex, kern, behind>>

\* epoll_ctl_impl of a descriptor that is an epoll: ...
CallCtl(t, n, n2) ==
  /\ pc[t] = "idle"
  /\ open_files[n] # NULL /\ desc[open_files[n]].kind = "epoll"
  /\ n # n2
  /\ Reading
  /\ desc' = Ref(desc, open_files[n])
  /\ \E to \in {"find", "del"} :
       GoWith(t, to, [NoLocals EXCEPT !.d = open_files[n], !.n2 = n2])
  /\ UNCHANGED <<lock, open_files, mutex, kern, behind>>

\* ... EPOLL_CTL_ADD looks for the number's description before it takes
\* the mutex, ...
CtlFinds(t) ==
  /\ pc[t] = "find"
  /\ Reading
  /\ desc' = Ref(desc, open_files[loc[t].n2])
  /\ GoWith(t, "add", [loc[t] EXCEPT !.d2 = open_files[loc[t].n2]])
  /\ UNCHANGED <<lock, open_files, mutex, kern, behind>>

\* The description a number has or is about to get.
Installs(t, n) == pc[t] = "install" /\ loc[t].n = n

Owner(n) ==
  IF \E t \in Threads : Installs(t, n)
  THEN loc[CHOOSE t \in Threads : Installs(t, n)].d
  ELSE open_files[n]

\* The node of number n2 and, if a kqueue is there, description d2; late is
\* not in the code: the number changed, or changes, hands between lookup and
\* mutex.
Node(n2, d2) ==
  LET p == IF kern[n2] = "kq" THEN Pollable(d2) ELSE NULL
  IN  [n |-> n2, desc |-> p, live |-> TRUE,
       late |-> \/ p # Pollable(Owner(n2))
                \/ \E t \in Threads : Installs(t, n2)]

\* RB_FIND: the node of n2, if there is one.
Found(t) == {r \in desc[loc[t].d].regs : r.n = loc[t].n2}

\* A node goes (epollfd_ctx_remove_node), and what it held, if there is one.
RemovesNode(t) ==
  LET D == [desc EXCEPT ![loc[t].d].regs = @ \ Found(t)]
  IN  desc' = IF Found(t) = {} THEN D
              ELSE Unref(D, (CHOOSE r \in Found(t) : TRUE).desc)

\* ... and registers the file that is there when it has it.  Only a kqueue's
\* node keeps the description.
Registers(t) ==
  LET r == Node(loc[t].n2, loc[t].d2)
  IN  desc' = [Ref(desc, r.desc) EXCEPT ![loc[t].d].regs = @ \cup {r}]

\* fstat() fails: EBADF, and a node that was left over is cleared; with a
\* node there already, EEXIST.
CtlAdds(t) ==
  /\ pc[t] = "add"
  /\ mutex[loc[t].d] = NULL
  /\ \/ kern[loc[t].n2] = "none" /\ RemovesNode(t)
     \/ kern[loc[t].n2] # "none" /\ Found(t) # {} /\ UNCHANGED desc
     \/ kern[loc[t].n2] # "none" /\ Found(t) = {} /\ Registers(t)
  /\ GoWith(t, "unref", [loc[t] EXCEPT !.n2 = 0])
  /\ UNCHANGED <<lock, open_files, mutex, kern, behind>>

\* EPOLL_CTL_DEL goes by the number alone, whether fstat() fails or not.
CtlDels(t) ==
  /\ pc[t] = "del"
  /\ mutex[loc[t].d] = NULL
  /\ RemovesNode(t)
  /\ GoWith(t, "unref", [loc[t] EXCEPT !.n2 = 0])
  /\ UNCHANGED <<lock, open_files, mutex, kern, behind>>

-----------------------------------------------------------------------------
\* Outside the shim: a file is opened, or closed by a plain close().
Opens(n) ==
  /\ n \in Watched /\ Unused # {} /\ n = Min(Unused)
  /\ kern' = [kern EXCEPT ![n] = "plain"]
  /\ UNCHANGED <<lock, open_files, desc, mutex, behind, pc, loc>>

RawClose(n) ==
  /\ kern[n] = "kq" /\ open_files[n] # NULL /\ n \in Behind
  /\ kern' = [kern EXCEPT ![n] = "none"]
  /\ behind' = behind \cup {n}
  /\ desc' = GoneBehind(Gone(desc, n), n)
  /\ UNCHANGED <<lock, open_files, mutex, pc, loc>>

ThreadStep(t) ==
  \/ InstallDesc(t) \/ DropDesc(t)
  \/ CloseClears(t) \/ CloseDowngrades(t) \/ CloseLocks(t)
  \/ CloseRemoves(t) \/ CloseCloses(t)
  \/ UseDesc(t) \/ UnrefDesc(t)
  \/ CtlFinds(t) \/ CtlAdds(t) \/ CtlDels(t)

Call(t) ==
  \/ t \in Creators /\ CreateFails(t)
  \/ t \in Creators /\ \E kind \in Kinds : CreateDesc(t, kind)
  \/ \E n \in Numbers : CallClose(t, n)
  \/ t \in Users /\ \E n \in Numbers : CallUse(t, n)
  \/ t \in Users /\ \E n \in Numbers, n2 \in Watched : CallCtl(t, n, n2)

Next ==
  \/ \E t \in Threads : ThreadStep(t) \/ Call(t)
  \/ \E n \in Numbers : Opens(n) \/ RawClose(n)

Spec == Init /\ [][Next]_vars

\* A thread in a call goes on, and gets a lock or a mutex that is free again
\* and again.
FairSpec == Spec /\ \A t \in Threads : SF_vars(ThreadStep(t))

-----------------------------------------------------------------------------
Reg == [n : Numbers, desc : Descs \cup {NULL}, live : BOOLEAN, late : BOOLEAN]

TypeOK ==
  /\ open_files \in [Numbers -> Descs \cup {NULL}]
  /\ \A d \in Descs :
       /\ desc[d].kind \in Kinds \cup {"free"}
       /\ desc[d].refs \in Nat
       /\ desc[d].regs \subseteq Reg
       /\ desc[d].regs # {} => desc[d].kind = "epoll"
  /\ mutex \in [Descs -> Threads \cup {NULL}]
  /\ kern \in [Numbers -> {"none", "plain", "kq"}]
  /\ behind \subseteq Numbers
  /\ pc \in [Threads -> {"idle", "install", "close", "downgrade",
                         "lock", "kclose", "use", "unref", "find", "add",
                         "del"}]

\* Who has a pointer to description d and means to give it back.
Holders(d) ==
  Cardinality({n \in Numbers : open_files[n] = d})
  + Cardinality({t \in Threads : loc[t].d = d})
  + Cardinality({t \in Threads : loc[t].d2 = d})
  + Cardinality({e \in Descs : \E r \in desc[e].regs : r.desc = d})

\* Nobody has a pointer to a description that has been freed, none is freed
\* twice or never, through lookups, registrations, closings and creations in
\* any order: the count is the number of those who hold it.
RefsAddUp == \A d \in Descs : desc[d].refs = Holders(d)

\* A slot of the table that has a description has its kqueue, unless it was
\* closed behind the shim's back (the comment at epoll_shim_ctx.c:281).
SlotIsOpen ==
  \A n \in Numbers :
    open_files[n] # NULL /\ n \notin behind => kern[n] = "kq"

\* Between two closings the nodes of an epoll descriptor in the table are of
\* open files, and call the poll function of the description the table has,
\* unless the number was closed behind the shim's back or changed hands
\* between epoll_ctl's lookup and its mutex.
Closing(n) ==
  \E t \in Threads : pc[t] \in {"downgrade", "lock"} /\ loc[t].n = n

RegistrationsMatch ==
  \A k \in Epolls : \A r \in desc[open_files[k]].regs :
    r.late \/ Closing(r.n) \/ (r.live /\ r.desc = Pollable(Owner(r.n)))

\* close() holds the mutexes of epoll descriptors that are in the table and
\* stay in it: none is destroyed while it is locked or yet to be unlocked.
LockedStayInTable ==
  \A d \in Descs : mutex[d] # NULL =>
    /\ desc[d].kind = "epoll"
    /\ \E n \in Numbers : open_files[n] = d
    /\ pc[mutex[d]] \in {"lock", "kclose"}

\* close() returns, though it waits for the table and for every epoll
\* descriptor in turn.
CloseReturns == \A t \in Threads : pc[t] = "close" ~> pc[t] = "idle"

\* What epoll_shim_ctx.c keeps between any two steps of its callers: the table, the
\* registrations and the mutexes close() holds agree with the open files.
TableInv ==
  /\ TypeOK
  /\ SlotIsOpen
  /\ RegistrationsMatch
  /\ LockedStayInTable

=============================================================================
