# A verification project for iland (libwayland-mac)

iland lets Linux compositors and clients run on macOS: a library is loaded into
the program, libc calls are redirected to it, and it plays the Linux kernel.
This directory holds TLA+ models of that library's core, the TLC configurations
that check them on small instances, and TLAPS proofs of the properties that
matter most for every instance. All paths below are relative to `src/`.

## 1. The system

| part | source | state it keeps | operations |
|---|---|---|---|
| reader-writer lock | `shims/epoll/src/rwlock.c` | two counters, two semaphores, a mutex | lock and unlock for reading and writing, downgrade |
| descriptor table | `epoll_shim_ctx.c` | `open_files`, reference counts | create, install, find, remove, read, write, poll, fcntl |
| epoll | `epoll.c`, `epollfd_ctx.c` | registered nodes, poll list, the kqueue's filters, `nr_polling_threads` | `epoll_ctl`, `epoll_wait`, forgetting a closed file |
| eventfd | `eventfd.c`, `eventfd_ctx.c`, `kqueue_event.c` | counter, remembered event, kqueue user event | read, write |
| timerfd | `timerfd.c`, `timerfd_ctx.c` | timer, expirations, kqueue timers | settime, gettime, read, clock changes |
| realtime step detector | `epoll_shim_ctx.c` 430-570 | a generation, one thread | started and retired by the number of timers that can jump |
| signalfd | `signalfd.c`, `signalfd_ctx.c` | signal set, kqueue signal filters | read |
| system call wrappers | `compat_*.c`, `timespec_util.c`, `wrap.c` | none | `ppoll`, `pipe2`, `kqueue1`, ... |
| DRM flip queue | `shims/drm/drm/src/drm_linux.c` 188-222, 713-784 | ring of events, the pipe behind the virtual descriptor | page flip, atomic commit, `drmHandleEvent` |
| DRM mode setting | `drm_linux.c` 686-742, 852-1557, `drm_ioctl.c` | properties of objects, what each CRTC reports, requests, a pool of requests | SetCrtc, PageFlip, atomic requests and commits, the ioctls |
| DRM buffers | `drm_linux.c` 478-682, `shims/gbm/src/gbm.m` | dumb buffers, GBM handle table, framebuffers, retain counts of surfaces | create and destroy buffers, AddFB, RmFB, present |
| GBM surface, EGL | `gbm.m`, `shims/egl/src/egl.c` | ring of four buffers | swap, lock front, release |
| SDL backend | `shims/sdl/src/sdl_backend.m` | per CRTC a surface, a window, "dirty" | present, pump, shut down |
| libinput | `shims/libinput/input/libinput.c` | event queue, wake-up pipe, key and button state | inject, dispatch, get event |
| Wayland event sources | `shims/wayland/src/wayland-server.c` | table of signal handlers, timers | add, update, remove, dispatch |
| hooks | `shims/wayland-mac.c` | the pipe dup'ed to descriptor 42 | redirect read, write, poll, close, open, ioctl, kevent |
| udev, glibc, display surface | `udev.c`, `glibc-compat.c`, `drm.c`, `DisplaySurface.m` | nothing of consequence | stubs |

How they meet. A hooked libc call goes to the descriptor table, which finds a
file description under the lock and calls the description's operation, which
takes `desc->mutex`. `close()` takes a description out of the table for writing,
*downgrades*, and with the table frozen takes the mutex of every epoll
descriptor to have it forget the file. `ioctl` on descriptor 42 goes to
`drm_ioctl.c`, which calls the same functions as a program linked to libdrm.
A flip presents a surface to the SDL backend, puts an event into the ring and a
byte into the pipe; the program's event loop polls descriptor 42 and calls
`drmHandleEvent`, which calls the program's handler, which may flip again. GBM
buffers reach DRM by a handle looked up in a table.

What is hard here: every operation of epoll-shim is made by several threads; a
thread in `epoll_wait` or a blocking `read` has given its mutex up and sleeps on
state another thread changes; the ring and the pipe are two pieces of one fact
with no lock in common; ring, pipe, tables and requests have fixed sizes;
surfaces have several owners that go in any order; state is set through three
interfaces (legacy, libdrm atomic, ioctl) and read back through one.
`hazards` in `PROJECT.json` lists them line by line.

What makes each part correct:

* lock: a writer alone, no lost and no left-over wake-up, a downgrade nobody can
  get in between, writers not starved;
* descriptor table: a reference keeps its description alive and the last one frees
  it, a closed file is in no epoll descriptor, `close()` returns;
* epoll: nobody sleeps on an old list, nobody waits for ever, no event outlives
  its node, nothing a client asked for is missed or made up;
* eventfd: it is a counter, and readable whenever there is something to read;
* timerfd: no expiration lost or reported twice, a timer that is set has its event,
  a clock that is set is reported once to whoever asked; one detector at most;
* flip queue: FIFO, no lost wake-up, each flip reported once, the frame loop
  never blocks, nothing is drawn into a buffer on a display;
* mode setting: a commit applies its request and nothing else, a test changes
  nothing, and what is reported is what is shown;
* buffers: every surface lives exactly as long as it has an owner, and a handle
  leads to its own surface;
* libinput: no event without a wake-up, the client knows exactly what is pressed;
* Wayland event sources: no callback out of turn, none forgotten;
* SDL backend: what was presented last is shown, surfaces are retained as they are
  held, a block handed to the main thread comes back.

## 2. The modules

| module | models | grain |
|---|---|---|
| `RWLock` | `rwlock.c` | one step per atomic, semaphore or mutex operation |
| `AbstractRWLock` | what a reader-writer lock with downgrade promises | |
| `EpollShimCtx` | `epoll_shim_ctx.c`, `epoll_create` and `epoll_ctl` of `epoll.c`, on top of `AbstractRWLock` | one step per critical section of the table or of a description |
| `EpollWait` | `epoll_wait`, `epoll_ctl` and close for files that only `poll()` can watch | mutex, snapshot, repoll, condition variable |
| `EpollFilters` | the kqueue filters of one file in `epollfd_ctx.c`, and what `epoll_wait` makes of their events | one step per `kevent()` call; the file changes in between |
| `EventFD` | `eventfd.c`, `eventfd_ctx.c`, `kqueue_event.c` | one step per critical section |
| `AbstractEventFD` | the counter of `sys/eventfd.h` | |
| `StepDetector` | the realtime step detector of `epoll_shim_ctx.c` | one step per hold of its lock |
| `TimerFD` | `timerfd.c`, `timerfd_ctx.c`, extending `StepDetector` | split at `kevent()`, at the boot time and at the clock |
| `DrmFlip` | the ring, the pipe, PageFlip, commit, `drmHandleEvent` | one step per lock region or pipe operation |
| `AbstractFlipQueue` | a bounded queue that gives up its oldest | |
| `GbmSurface` | the ring of buffers of a `gbm_surface`, `eglSwapBuffers` | operators on one surface |
| `DrmFrames` | a client's frame loop, composed of `DrmFlip` and `GbmSurface` | one step per call of the client |
| `DrmAtomic` | SetCrtc, PageFlip, atomic requests, commit, `handle_atomic` | one step per call |
| `DrmBuffers` | dumb buffers, GBM objects and table, framebuffers, displays | one step per call |
| `LibInput` | `libinput.c` and the half of `sdl_backend.m` that feeds it | queue, unlock and write apart; pump, tap and compositor |
| `WlEventSources` | timers and signals of `wayland-server.c` | one step per callback begun or ended, per call |
| `SdlBackend` | presenting, rendering and shutting down in `sdl_backend.m`, the pump of `wayland-mac.c` | one step per hold of `g_crtc_lock`, per block of the main queue |
| `ShimLocksProofs` | theorems about `RWLock` and `EventFD`, section 5 | |
| `EpollShimCtxProofs` | about `EpollShimCtx` | |
| `EpollProofs` | about `EpollWait` and `EpollFilters` | |
| `TimerFDProofs` | about `StepDetector` and `TimerFD` | |
| `DrmFramesProofs`, `DrmBuffersProofs` | about `DrmFlip` and `DrmFrames`; about `DrmBuffers` | |
| `DisplayProofs` | about `DrmAtomic` and `SdlBackend` | |
| `CompositorProofs` | about `WlEventSources` and `LibInput` | |
| `MCEpollWait`, `MCEpollFilters`, `MCSdlBackend` | values for TLC that a configuration cannot write | |
| `MCShimLocks`, `MCSurfaces`, `MCCompositor` | two models in one run of TLC: `RWLock` and `EventFD`, `DrmBuffers` and `SdlBackend`, `WlEventSources` and `LibInput` | |

State and actions carry the names of the code's variables and functions.
Definitions whose comment begins "A slip" are not part of any specification:
each is the same operation with one plausible mistake, and shows that the
property it is paired with can fail.

Each module ends with a handful of named properties. Where a module has several
state invariants they are stated one by one, each under its own comment, and
conjoined in one (`TimerInv`, `TableInv`, `FilterInv`, `InputInv`, `SourcesInv`,
`CrtcsInv`, `FramesInv`, `ModeInv`) that the run checks. What follows is how
state and actions correspond to the code.

**RWLock.** `pc[t]` is where thread `t` is between two atomic operations;
`num_pending`, `readers_departing` and the two semaphores are the shared words,
`r` the local of `unlock_common`. `LockRead`, `ReaderWake`, `UnlockRead`,
`ReaderDepart`, `ReaderPost` are the steps of a reader; `LockWrite`,
`WriterAnnounce`, `WriterCount`, `WriterWake`, `UnlockWrite`, `Downgrade`,
`UnlockCommon`, `PostReader`, `UnlockMutex` those of a writer. The atomics are
sequentially consistent in the code, so interleaving is all there is.

**EventFD.** `counter_` and `is_triggered_` are the fields, `kq` is whether the
kqueue has the user event. A blocking reader is in `read`, finds 0, gives the
mutex up, is in `poll` until the event is there, and tries again. A signal may
interrupt it. `O_NONBLOCK` may be changed by another thread meanwhile.

**EpollWait.** A thread in `epoll_wait` polls without a timeout (`PollNothing`,
`PollSome`), triggers the nodes that are ready, drops those whose file is gone
(`RemoveInvalid`), lets `kevent()` return events (`Collect`: all of them, or as
many as the client's array has room for), disarms one-shot nodes (`Disarm`).
With nothing to report it takes a snapshot, counts itself and gives the mutex
up (`Block`), sits in `ppoll`, and on its way out counts itself off and signals
(`Leave`). Whoever takes a node off the list or registers one runs
`CountPollers`, `TriggerSelf`, `AwaitPollers` while holding the mutex. `kq` of
the code is `user` and `repoll`, the events pending in it. `close()` through
the shim is `CtlRemove`; `CloseFile` is a close the shim did not see.
Left out: files a kqueue can watch, failing allocations and `kevent()` calls,
the self-pipe of systems without `EVFILT_USER`.

**EpollShimCtx.** `open_files` is the table, `desc[d]` a FileDescription with its
count and, for an epoll descriptor, its registrations; `kern[n]` is what the
kernel has behind the number, which `RawClose` and `Opens` change behind the
shim's back (`behind` remembers that). `CreateDesc` and `InstallDesc` (or
`DropDesc`, when the context cannot be made) are the two halves of a creation,
`CreateFails` one that finds no number or no memory, `CallUse`, `UseDesc`, `UnrefDesc` a call that looks a
description up and uses it, `CallCtl`, `CtlFinds`, `CtlAdds`, `CtlDels` are
`epoll_ctl` with its lookup of `fd2` before the mutex, `CloseClears`,
`CloseDowngrades`, `CloseLocks` and the steps after them `epoll_shim_close`. An
`EPOLL_CTL_ADD` of a number that is not open any more fails, but takes the node
that was left over with it and gives up its description (`RemovesNode`). The
lock is an instance of `AbstractRWLock`, which `RWLock` is shown to implement.

**EpollFilters.** `file` is the state of the file (readable, writable, out-of-band
data, the ends that are closed), `knotes` the state of each filter (`none`, `level`,
`clear`, an edge filter that waits, or `fired`, one that is pending), `node` the
registered node with its has_* and eof flags. `epoll_ctl` registers, modifies or
removes; `epoll_wait` collects events (`Collects`), feeds them to the node,
completes it, reports and, when nothing was worth reporting, calls `kevent()`
again. `news` is what has come up since an edge-triggered client last heard and
`seen` what was so during the call; neither is read by an action. `Crowded` says
that the client's array may be full before a filter's event is collected.

**StepDetector and TimerFD.** `generation` and `nr_fds` are the context's fields,
`detector[d]` a thread asleep, about to check, or walking over the descriptors.
`mono` is CLOCK_MONOTONIC and `offset` what CLOCK_REALTIME adds to it. `ctx[t]`
is `TimerFDCtx`, `kq[t]` the kqueue timer and the forced cancellation event,
`op[a]` where a call is. `Holding` names the labels at which `desc->mutex` is
held. `hist` remembers what reads have reported and whether the clock was set,
for the properties. A read arms the kernel's timer anew (`ReadRearms`) and then
reports what has expired (`Finish`), or reports ECANCELED (`ReadCancelled`): then
the expirations that `timerfd_gettime` had counted wait for the next read.

**DrmFlip, GbmSurface and DrmFrames.** `Enqueue` and `WriteByte` are the two halves
of a flip, `ReadByte`, `Dequeue` and `HandlerReturn` those of `drmHandleEvent`; a
handler may flip again from the thread that runs it. `PipeCapacity` is where
`write()` blocks. `DrmFrames` adds the client of `test/kmscube.c`: draw and swap,
lock the front buffer, submit to some displays, wait for their flips, release.
`use` says who uses the library: an atomic client, one with a page flip per
display, or threads that flip as they like.

**DrmAtomic.** A request is a sequence of entries for FB_ID or CRTC_X (the one
other property a commit reads back; it stands for CRTC_Y too). `Apply` is the
whole of `drmModeAtomicCommit`: its loop over the entries (`Rounds(r)[i]` are
the locals after the i-th), the block after it, the events. `HandleAtomic` adds
to the pooled request what the call brings (`Pooled`) and commits all of it. A
record is looked up by `obj_id` alone, so there is one record per id. TEST_ONLY is
one of the `FlagSets` and `Apply` does not look at it, as the code does not: what
the properties say of commits is said of those without it (`Commits`), and
`TestChangesNothing` of those with it.

**DrmBuffers.** A surface is its IOSurfaceID, `retains` its retain count. The arrays of
dumb buffers and framebuffers are sets, the GBM table a sequence because removal
moves the last entry into the gap. IOSurfaceIDs are reused once a surface is
gone.

**LibInput.** `todo[t]` are the events a thread has made and not yet queued,
`QueueEvent` and `WriteByte` the two halves of `queue_event`;
`QueueEventUnlocked` and `Overwrite` the same before there is a context, when
`ev_lock` is not a mutex. `HandleSdlEvent` is what a hooked `poll()` pumps,
`RawMouseTap` the other thread. `calls` is the rest of what the main thread does
in this round of its loop. `Known` and `Learnt` are what a client makes of a
sequence of events, `WillKnow` what it will make of those under way.

**WlEventSources.** `wheel[t]` is the timer's kqueue, `source[t]` its event source,
`batch` what the loop's `epoll_wait()` has returned and not yet called, `in` the
callback that runs. `asked` is what the client expects of each timer: no call, a
call later, or one that is due. A callback may do anything to its own timer, also
remove it; `timer_dispatch` then reads the kqueue again and uses freed memory:
it calls what it finds there, or the program ends (`Crashed`).

**SdlBackend.** `g_crtcs`, `g_crtc_count`, `g_pending_surface` and `g_inited` are the
file's variables; `arg[t]` a thread's locals between two holds of the lock;
`block[w]` what a worker has handed to the main queue with `dispatch_sync()`,
`serving` the one the main thread runs inside `SDL_PollEvent()` (`Serve`,
`ServeShutdown`): an init block initialises SDL again when a shutdown came first,
a pump block returns at once then. `Drain` presents the surface that had waited
by the same call as any other, which may initialise SDL or leave the surface
waiting again (`Pend`, `CallEnds`). `HookedCall` is a hooked call of the main
thread and `WorkerCall` one of a worker, with or without the mutex of the epoll
descriptor the thread waits on (`epfd`); the main thread needs it like any other
(`LockMain`). `latest` is what each CRTC's owner presented last, `behind` the CRTCs
of which that cannot be said because their surface had to wait for SDL.

## 3. The runs

| run | configuration | shows | distinct states |
|---|---|---|---|
| `shim_locks` | 4 threads, `MAX_READERS` 5; or 2 threads, values 0, 1, 2, 5, width 5 | the lock: the proofs' invariant (exclusion, wake-ups, tokens), refinement of `AbstractRWLock`, a writer gets it; eventfd: agreement of counter and event, refinement of `AbstractEventFD`, sleepers are served | 2,996 |
| `shim_table` | 2 threads, 3 numbers, 3 descriptions | references add up, table and registrations agree, `close()` returns | 495,080 |
| `epoll_wait` | 2 threads, 2 files, event arrays of 1 | fresh snapshots, no dangling events, the mutex is given back, a ready file wakes its waiters | 180,062 |
| `filters` | 5 types of files, 10 sorts of registrations, arrays that fill up | nothing missed or made up, flags and filters agree, `epoll_wait` comes back, levels are reported again | 76,488 |
| `timerfd` | 1 timer, 1 reader, 1 caller, 2 detectors | timer and kqueue agree, expirations add up, cancellations are exact, one detector, readers come back | 210,477 |
| `frames` | 2 displays, ring of 4, pipe of 3, 4 buffers, 2 threads | no lost wake-up, the ring is the queue, every flip accounted for, no tearing, the loop goes on | 98,371 |
| `atomic_commit` | 2 CRTCs, requests of 2, legacy and libdrm calls or the ioctl | a commit applies its request and only that, a frame is where the request put it; reports are true; the ioctl while its pool has room | 225,971 |
| `surfaces` | 3 surfaces, 1 dumb buffer, 2 framebuffers, 2 displays; or 1 worker, 2 CRTCs, 2 surfaces, an epoll descriptor each | buffers: retain counts, the table is live, handles are found; presenting: retain counts, what is clean is shown, what is presented is rendered, blocks come back | 359,812 |
| `compositor` | 2 timers, 2 signals, tables of 2; or 1 key, 1 button, pipe and queue of 4 | sources: called as asked, timers tracked, none forgotten; input: no lost wake-up, pressed state, an event is noticed | 130,536 |

`shim_locks`, `surfaces` and `compositor` each check two models that share no
state: `part` says which of the two a behaviour is one of, the other stays in an
initial state. Nothing has to happen there, so that its liveness properties say
nothing then, and the fairness of both may be assumed together.

Three runs end in a counterexample: each checks one statement of a comment, a
header or a test, and what they find is under `findings` in `PROJECT.json`.

| run | configuration | finds |
|---|---|---|
| `atomic_test` | a client of libdrm | a TEST_ONLY commit changes what is shown (`TestChangesNothing`) |
| `wl_removed` | 1 timer, 1 signal | a call through a timer that was removed (`RemovedIsSilent`) |
| `present_shared` | one epoll descriptor for both threads | a pump and a mutex that wait for each other (`BlocksServed`) |

The bounds, and why they are enough:

* `shim_locks`, the lock: a writer, a second writer waiting for the mutex, a reader
  inside and a reader arriving are the four roles the code tells apart. `MAX_READERS` has only
  to exceed the number of threads.
* `shim_table`: one thread creates and closes, the other uses and registers
  (`Creators`, `Users`); three numbers let an epoll descriptor, a file it watches
  (`Watched`) and a second epoll descriptor exist at once. Only number 1 is
  closed behind the shim's back (`Behind`). Three descriptions are reused.
* `epoll_wait`: one thread polls and one changes the list, or both poll; two files
  with an array of one leave an event behind in the kqueue. `Registrations` (for
  nothing, for EPOLLIN, for EPOLLIN once), `Closed` (which file may be closed
  unseen) and `MaxEvents` bound the inputs; the proofs have none of these bounds.
* `filters`: one file is enough, because what filters a node has depends on
  nothing outside it; the other files are the full array (`Crowded`). The run has
  ten registrations for the sake of the liveness properties; the invariants are
  proved for all. With `OobTaken = FALSE` a client does not take back a
  registration for EPOLLPRI, nor is there a one-shot one (see section 4).
* `shim_locks`, eventfd: two readers race for one value; a width of 5 has both
  boundaries, the largest counter (4) and the value that is refused (5).
* `timerfd`: time runs to `MAX_TIME` 2 with one clock change (`MAX_STEPS`), two
  settings (`MAX_ARMINGS`): a periodic timer expires twice between two reads, the
  clock jumps between any two steps of a read, a detector is retired and started
  anew before the old one wakes (`Detectors`). The detector with several timers
  is what `TimerFDProofs` is about.
* `frames`: two threads and a ring of three events overflow at the fourth; 64 slots
  do the same at the 64th. A pipe of three blocks writers. The ring of buffers
  has its size in the code.
* `atomic_commit`: two CRTCs to tell right from wrong output, requests of two
  entries for order and overwriting, `MaxFb` framebuffers ever added. `Clients`
  says which interfaces are mixed. Requests are built only between other calls,
  with which they commute.
* `surfaces`, buffers: `MaxDumbHandle` and `MaxFbId` bound how many are ever
  created, so that ids and slots are reused or run out within the bound.
* `compositor`, input: a key and a button for the two maps, a queue of four for a
  press, a motion and both announcements of devices. Input arrives while there is room
  (`Room`): a full pipe blocks the writer, see section 4.
* `compositor`, sources: a timer that is called and one that its callback stops,
  moves or removes; two signals, one of which comes while the other is handled; each table
  can be full.
* `surfaces`, presenting: the main thread owns one CRTC and the worker the other
  (`Owner`); the worker can be between any two holds of the lock at a shutdown. Each waits on an
  epoll descriptor of its own (`Separate`); `present_shared` differs in nothing
  but that (`Shared`).

Deadlock is not checked by `frames` (with the pipe full its writers block, which is
the code's behaviour), `timerfd` (time ends at the bound) and `filters` (a client
need not register anything). All other passing runs check it, though in
`compositor` the sources may rest (`MayStop`): a client need not add a timer or a
signal. `present_shared` leaves it out too, where the deadlock is what the liveness
property shows.

Fairness. `RWLock` assumes that a thread inside an operation of the lock keeps
running and that a reader or writer eventually unlocks; nobody has to lock.
`EventFD` assumes that a reader that can go on does; nobody has to write.
`EpollWait` assumes the same of threads that own the mutex, of `ppoll()` when it
has something to return, and that a thread that keeps trying for the mutex gets
it at last (strong fairness of the steps that need it: a pthread mutex promises
no more and, in practice, no less); no timeout has to expire and no file to
become ready. `EpollShimCtx` assumes no starvation of the table's lock, which is
what `WriterGetsLock` shows of the lock for a writer that owns its mutex, and of
descriptors' mutexes. `EpollFilters` assumes that `kevent()` does not leave out
one and the same active filter for ever (the kernel moves a delivered event to
the end of its list). `TimerFD` assumes that time passes, kernel timers fire and
a mutex is not withheld for ever. `DrmFrames` is one thread that runs while it
can: a blocked `read` or `write` is not enabled. `LibInput` and `SdlBackend`
assume that the main thread comes back to its loop and that a pipe that is
readable again and again is read; nobody has to press a key or present. In
`SdlBackend` the main loop makes hooked calls for ever, but one of them may wait
for a descriptor's mutex, and gets it only if the mutex is free again and again.
`WlEventSources` assumes that timers expire, the loop polls, and each callback
returns; `SourcesServed` also has the premise that signals cease and a timer does
not arm itself without a delay for ever.

## 4. Where the code is not what one would expect

Meanings the models keep because the code has them; each can be seen by removing
the exception named.

* `drm_linux.c` 737 and 757: N flips per frame write N bytes, one `drmHandleEvent`
  takes one byte and reports all N. With one `drmModePageFlip` per display
  (`kmscube -a` on several displays) the pipe fills up and the only reader blocks
  in `write`. `FramesGoOn` and `NoStaleWakeup` are of atomic clients for that
  reason.
* `drm_ioctl.c` 408 and 431: the pooled request of `DRM_IOCTL_MODE_ATOMIC` is never
  emptied, so calls replay all earlier ones, and once 64 properties are in it new
  ones are dropped while the call returns 0, though the comment has the pool
  "always enough". `IoctlAppliesWithRoom` shows that nothing else is wrong: with room for both,
  the replay of the old properties does not disturb the new ones.
* `drm_linux.c` 1543: a TEST_ONLY commit changes the state like any other, though
  `test_drm_system_ties.c` 477 says "no real changes" (`atomic_test`). The test's
  own commit names no object and does not notice.
* `drm_linux.c` 1499: the position of a frame is taken from the record "if set in
  this atomic batch", but the record keeps what any earlier batch has set, and
  `drmModeSetCrtc` moves the CRTC without it. A frame is where its own request
  puts it (`CommitApplies`); if that gives no position it may be where the CRTC no
  longer is.
* `drm_linux.c` 614: dumb-buffer handles count up from 1 and GBM handles are
  IOSurfaceIDs; in a common range the dumb buffer would win. The run keeps the
  ranges apart.
* `epollfd_ctx.c` 868: taking back a registration for EPOLLPRI leaves EVFILT_EXCEPT
  in the kqueue, with a pointer to the node; so does reporting a one-shot one.
  `FiltersAsRecorded` has `OobTaken = FALSE` and no such registration.
* `eventfd_ctx.c` 80: a write of 0 to an empty counter makes it readable, and a
  blocking reader then spins until somebody writes.
* `timerfd_ctx.c`: `timerfd_gettime` of an expired one-shot timer disarms it, and a
  read is refused though `poll()` says readable; a one-shot timer whose event was
  taken by a read that failed with ECANCELED is silent until it is set again
  (the exceptions of `DisarmedIsQuiet` and `ArmedIsScheduled`).
* `epoll.c` 155: `epoll_ctl` may register a number with the description of the file
  that had it before; the node keeps that description alive (`late` in
  `EpollShimCtx`).
* `sdl_backend.m` 481: a worker that presents first hands its initialisation to the
  main thread, which serves it only in a pump, and a pump does nothing before SDL
  is up: the worker waits until the main thread initialises SDL itself, though
  `sdl_backend.h` 11 says "Can be called from any thread" (`BlocksServed` has
  `g_inited` for its premise).
* `wayland-mac.c` 110: the pump of a hooked `kevent()` is handed to the main thread
  with the epoll descriptor's mutex held; a main thread that calls `epoll_wait()`
  or `epoll_ctl()` on the same descriptor waits for that mutex and never pumps
  (`present_shared`). `HandedOverIsServed` is checked with separate descriptors.
* `sdl_backend.m` 522: a slot that a thread has found may be given up by a shutdown
  before it is filled. The surface then stays in a slot that is not counted, or
  has become another CRTC's, though `sdl_backend.h` 15 calls presenting
  "Thread-safe" (`late`; `CrtcsInv` speaks of the time before).
* `sdl_backend.m` 580: a surface that waited for SDL is presented to CRTC 1, whichever
  CRTC it was for (`behind`).
* `libinput.c` 255: with the pipe full, a key pumped by the main thread blocks it,
  the only reader. 282: a context made after `libinput_unref` is not told of the
  devices.
* `wayland-server.c` 138: a callback that arms its timer and removes it is called
  again, through the timer it has freed, when the delay is over at once
  (`wl_removed`). `CalledAsAsked` excepts that one call.
* `wayland-server.c` 213: all signals share one source, and handlers are never taken
  out of the table: removing one removes all, and adding one anew calls it twice.

## 5. What is proved

All proofs are for any values of the constants that satisfy the named
assumptions of the module, and of behaviours of any length. Each module's
invariant is inductive as stated there: one lemma per action, then the theorem.

**ShimLocksProofs.** `RWLock` (`Threads` finite, fewer than `MAX_READERS`): the
difficulty is that `num_pending` and `readers_departing` are only equal to a
number of threads between the operations of a writer, and off by those on
their way in or out. `IInv` says by how much, in each phase: `QuietInv` with no
writer announced, `CountingInv` between its two atomic operations, `WaitingInv`
while it waits, `WritingInv` when it is in, `PendingInv` and `TokenInv` for the
tokens of the semaphores, `MutexInv` for the owner. From it follow
`TypeCorrect`, `Exclusion`, `Quiescence` and `Refinement`: every step is a step
of `AbstractRWLock` or invisible to it. `EventFD` (any width, values, threads):
`EventTypeOK` and `ReadableIsSignalled` are inductive together;
`CounterRefinement` maps `counter_` to the abstract counter; `EmptiedIsClear`:
the read that empties the counter takes the event with it;
`NoSpuriousReadiness`: if no client writes 0, a readable descriptor can be read.
(A write of 0 to an empty counter makes it readable and a blocking reader
spins: that is why the theorem has its premise.)

**EpollShimCtxProofs** (any threads, numbers, descriptions; `ShimAssumption`). A
reference count has two parts: slots of the table and locals of threads, and
nodes of epoll descriptors, which are descriptions themselves and may go while
others stay. `AddsUp` is stated for any set of descriptions and any outside
count, so that one lemma serves each of `Ref`, `Unref`, `Removed` and `Gone`;
`Places` says what a thread holds at each of its labels. That gives `CountsAddUp`.
`TableKept` (the whole of `TableInv`) needs `TInv` besides: that no two slots name
one description (`OneName`), that a description under installation is in no slot
yet, and that close() still has everything locked that is in the table.

**EpollProofs.** `EpollWait` (`Threads` finite). A snapshot is old only while somebody is
inside `trigger_repoll` with the mutex held, and he leaves only when the counter
of pollers is 0. So `IInv` ties `nr_polling_threads` to the threads in `ppoll`
(`PollersCounted`), the mutex to the one thread in a critical section
(`MutexInv`), and says that a node being dropped is off the list (`TakenOff`) and
that outside the repoll all snapshots are current (`FreshInv`). `FreshPollers`
alone is not inductive: it says nothing while the mutex is taken.

`EpollFilters` (any kinds of file, any registrations; `NoOobBack`: none for
EPOLLPRI is taken back or asked for once, the bound of the run, for the reason in
section 4). `FiltersKept` is `FilterInv`; `FInv` adds to it what a file of each
kind can be, that an end of file which is known has been reached and, of every
event that was returned and is not fed, that what it tells was so during the call.
`NothingIsMissed` is `NothingMissed`, which speaks of the time between calls;
`WatchInv` speaks of every moment. Filters are the needed ones (`MatchInv`), save
those of an edge-triggered file that has ended both ways; a filter that waits for
an edge while its end of file is there has told of it or is about to (`EdgeInv`);
an edge not found yet is pending or under way (`NewsInv`); and an event that was
overtaken by an end of file leaves its filter pending again (`KevInv`).
`RegisteredWatches` shows that filters registered anew fire for all that is so,
whatever was known; `FedWatches` that an event fed without new filters leaves
nothing out; `NeedsWhat` is what `get_needed_filters` promises for every state of
knowledge. `FileTurns` reduces the ten ways a file changes to one.

**TimerFDProofs** (`Timers` finite, any threads, times, delays; `TimersExist`,
`BoundsAssumption`). The detector alone: the count of timers that can jump is the
cardinality of the set of them (`StepCounts`), so that the subtraction never goes
below 0; at most one thread is of the current generation (`StepOneDetector`),
because one is only started when the count leaves 0 and the generation has been
raised since the last one was. `Refinement`: `TimerFD` implements
`StepDetector`, so both hold of it too. `TimerKept` is `TimerInv`, which speaks of
a timer whose mutex is free. The inductive invariant speaks of every moment:
`TimerOK` is what a timer's mode, event and counts may be, given that its event
has been taken out by a read or that a setting is half made; `HolderOK` is what
the call that holds the mutex has found and may rely on. `OneTimer` reduces each
action to the one timer it touches.

**DrmFramesProofs.** The ring and the pipe (a ring of at least two slots, any pipe,
threads, displays): the first lemmas replace the remainders of the indices by a
case distinction; `PushAppends` and `PopIsTail` then show that filling the slot at
the head and moving the tail on are `Append` and `Tail` on the contents of the
ring. From these follow `Refinement` (the ring is `AbstractFlipQueue`) and
`OnlyEvents`: a handler is called for a display whose flip was made, also when
the handler is itself in the middle of another (`InHandler`). `WakeUps` is
`NoLostWakeup`. The frame loop: `FramesUseFlips` shows that what its clients do is
what `DrmFlip` allows, so that all of this holds of it too. `FramesKept`
(`FramesInv`) and `Untorn` (`NoTearing`) are about one thread that runs the loop
(`OneLoop`) and no more displays than the ring has room for (`RoomForAll`; 8 and
64 in the code: with more, events are given up and a loop would wait for ever).
Their invariant puts each flip of a frame in exactly one place (yet to make, in
the ring, being reported: `FlipsInOnePlace`) and the indices of a surface
together (`BuffersOK`): what is on a display is what was drawn last, so the next
buffer is another one although releasing a buffer tells the surface nothing.

**DrmBuffersProofs** (any sizes and surfaces). `IInv` adds to the retain counts that
ids are fresh and that an entry of the GBM table is found under its own
surface's id and is the only one (`TableInv`), which swap-removal preserves.
`Accounting`, `LiveTable`, `NothingDangles`, `TypeCorrect`. `BoFound` has two
premises about the behaviour, both of which the code needs: there are never more
buffer objects than the table has entries (`ObjectsFit`: one too many is not
entered), and no dumb buffer has the handle of a buffer object (`HandlesApart`:
it would be found first).

**DisplayProofs.** `DrmAtomic` (any CRTCs, framebuffers, positions, requests of any
length): `ModeKept` is `ModeInv`; `CommitDoes` and `IoctlDoes` are the action
properties `CommitApplies` and `IoctlAppliesWithRoom`. The commit is a loop; `Rounds` is a
recursive function of the number of entries. The library's induction rules take
operators and cannot be used, but that a set of numbers has a least one can be
(`Smallest`, from `WFMin`), and `Upwards` and `LoopRuns` are induction by sets: every
loop has a run, and what each round hands to the next holds at its end. What is
handed on is that each CRTC has been given what the last entry so far asks of
it (`IsLast`), and a frame the position it was given before that (`Placed`). That no framebuffer is named before it is added (`OnlyKnown`) is
needed, since a request may wait in the pool. `SdlBackend` (any threads, CRTCs,
surfaces, size of the table): `CrtcsKept` is `CrtcsInv`. `SInv` adds what a thread
has at each place of a call (`ArgInv`), that a CRTC has one slot (`OneSlotEach`),
and what is under way to a slot when its surface is not the one presented last
(`FreshInv`), also through a shutdown and an initialisation inside one pump. Retain counts are sums over slots, a waiting surface and threads;
`SlotChange` and `OtherKeeps` follow them when one slot or one thread changes.

**CompositorProofs.** `WlEventSources` (any timers, signals and tables; timers are
told from the markers by `TimersAssumption`): `SourcesKept` is `SourcesInv`.
`Tracked`: the table and the live sources are one. `AsAsked`: an expiry the
client has stopped, moved or removed reaches no callback, but for a timer that
its own running callback has removed. A timer's kqueue outlives its source;
`ExpiryInv` says that it has an event only if the client asked for it and its
delay is over, or the source is gone. `LibInput` (any keys, buttons, sizes):
`NoLostWakeup` speaks of a compositor that sleeps; `WakeInv` says of every state
that an event is announced by a byte, by a thread about to write one, or by a
main thread bound to call `libinput_get_event`, which is always the last of its
`Plans`. `ClientKept` is `InputInv`: `Learnt` is a loop again, and the lemmas say
what it makes of one event more (`LearntMore`, when one is queued) and of the
first (`LearntFirst`, when one is taken). `InputIInv` says that the client will
know the `Truth` after the events under way, and, since an event of the tap's may
overtake one the pump made before it, that once the tap is started the pump makes
keys only (`TapStarted`), which commute with the mouse's events
(`InEitherOrder`).

Only model-checked is liveness (`WriterGetsLock`, `SleeperServed`, `MutexReleased`,
`ReadyWakes`, `FramesGoOn`, `BlockedReadReturns`, `CancelReaches`, `CloseReturns`,
`WaitReturns`, `LevelIsReported`, `WokenUp`, `SourcesServed`, `HandedOverIsServed`),
which is beyond the prover, as ENABLED is. Every invariant and every action property
of the passing runs is stated by a theorem.

## 6. Plan

The components of the first plan are modelled. What is left, in order:

1. `SignalFD`: pending signals of the process against several readers. What a read
   does rests on what `sigpending()` and a blocking `sigwait()` do with signals
   sent to the process and to threads.
2. `drm_linux.c`: property blobs, cursors, planes and client capabilities.
3. `compat_ppoll.c`: signals that arrive while masks are swapped.

## 7. Not modelled

The parts marked `not_modelled` in `PROJECT.json`: signalfd and the compatibility
wrappers, which the plan has, and for good the stubs without state (udev, glibc,
display surface), vendored containers and test programs. Within the modelled
parts: rendering and pixel formats, window titles and sizes, logging, failures of
allocation and of thread primitives (after which the code gives up the call),
the self-pipe of systems without `EVFILT_USER`, `epoll_pwait`'s masks, the
enumeration of DRM resources, the getters of input events, EGL's translation to
ANGLE, and the redirection of libc calls itself.

## 8. Running it

    tlc -workers 2 -config MCShimLocks.cfg MCShimLocks.tla
    tlc -workers 2 -config MCDrmFrames.cfg DrmFrames.tla
    tlc -workers 2 -config MCEpollWait.cfg MCEpollWait.tla
    tlapm DrmFramesProofs.tla

`PROJECT.json` has the module and configuration of every run, the lines of the
source each definition translates, and the hazards the properties are for.
