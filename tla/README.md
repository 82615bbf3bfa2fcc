# zlynx in TLA+

Specifications of the concurrent core of zlynx, the TLC configurations that
check them and the TLAPS proofs about them. zlynx is a stack of five C++
libraries:

    zhttp    HTTP and WebSocket
      -> znet    TCP and TLS connections, one actor per connection
           -> zco    coroutines, their scheduler and synchronisation
                -> zlog   logging
    zmalloc  an allocator that may replace malloc below all of them

What a unit test of this code hardly reaches is the order in which two threads
pass two points a few instructions apart. Most modules are about that: what an
action does is what the code does between two points another thread or
coroutine can observe.

## Inventory

### zco: the scheduler

*State.* A `Processor` (one per thread) owns `Fiber` objects; each has an atomic
`state_` (kReady, kRunning, kWaiting, kDone), `timed_out_` and a task. The
processor has a run queue and a steal queue of tasks, each under a mutex, a
timer queue and an epoll descriptor used by its thread alone, and a pool of
finished fibers.
*Operations.* `run_loop`: drain tasks, run ready fibers, timers, run ready
fibers, wait for IO. Fibers yield, prepare a wait, park, finish. Anyone calls
`resume_fiber`: a compare-exchange kWaiting to kReady, then `enqueue_ready`.
*Hard.* A wake may fall anywhere between `prepare_wait_current` and the load of
the state after the swap. Finished fibers are reused.
*Correct when* no wake is lost, a woken fiber runs, a park returns only after a
wake, a timed wait ends, each task runs on one fiber.

### zco: Mutex, Event, WaitGroup, Channel

*State.* Each has a small record under a `std::mutex`, a list of coroutine
waiters with an `active` token and, for threads, a condition variable.
*Operations.* lock, try_lock, unlock; wait (timed or not), signal, notify_all,
reset; add, done, wait; read, write, close.
*Hard.* Wakes are issued after the unlock. Coroutines and threads wait for the
same thing by different means. The event of a wait group or a channel changes
in a step after the count or the ring it stands for.
*Correct when* a mutex has one owner and hands itself over, nobody sleeps on
what is there, no signal serves two waiters, a channel is a bounded FIFO queue.

### zco: runtime, handles, stacks, Pool

*State.* The `RuntimeManager` (started flag, processors, settings), one
`StealQueue` per processor, a registry that maps handles to fibers, a few shared
stacks with an owner each and a pool of snapshot buffers, `Pool`'s buckets of
objects per thread.
*Operations.* init, submit, steal, shutdown; `current_coroutine`, resume by
handle; switching a fiber in on a stack another one used; pop, push and clear
with the user's callbacks.
*Hard.* Start and stop race submissions. A handle outlives its fiber, and the
fiber object its task. The frames on a shared stack belong to whoever ran last.
*Correct when* a submitted task is in one place and runs, shutdown ends, a handle
reaches its taker or nobody, a fiber finds its own frames, an object has one user.

### zco: poller, timers, hooked IO

*State.* Per descriptor a read and a write waiter in the `Epoller`, the interest
registered with the kernel, the timer heap, an eventfd with a `wake_pending`
flag, the table of descriptor metadata.
*Operations.* `wait_fd`, `cancel_fd_waiters`, timeouts, `wake`; `co_recv`,
`co_recvn`, `co_send`, `co_connect`, `co_accept`, `co_close`.
*Hard.* Readiness, timeout and the close of another thread compete for one
waiter while the descriptor number is given to the next file.
*Correct when* a wake ends the wait it was meant for, an open file has no
metadata of a closed one, an idle processor is woken, every wait ends.

### zlog

*State.* Two buffers, `stop_`, a worker thread; around them loggers, sinks and a
formatter.
*Operations.* `push` (blocking on a full buffer in the SAFE mode, growing it in
the UNSAFE one), the worker's swap and callback, `stop`.
*Correct when* no record is lost or repeated, no copy leaves its buffer,
producers go on, `stop()` returns after what was pushed is delivered.

### zmalloc

*State.* The replaced malloc, free and new with their bootstrap allocator, over
thread caches and transfer caches, over the `CentralCache` (per size class: two
lists of spans and a lock), over the `PageCache` (free spans by size, page map,
one lock), over mmap.
*Operations.* allocate and free of small objects by batches, of large ones by
spans; splitting and coalescing of spans; telling from a pointer alone who made
it.
*Hard.* Long sequences of splits and merges keep a page map that is only partly
maintained. The central cache drops its lock in the middle of a release.
*Correct when* nobody shares memory, objects and pages are conserved, a span
goes back when all its objects are home, the two locks never deadlock, free and
realloc find the block of every pointer.

### znet

*State.* A `TcpConnection`: connection state, input and output buffers, a
mailbox and who is its actor. A `TcpServer`: connections by descriptor. The
`Acceptor`.
*Operations.* read, send, flush, shutdown, close, each run by the actor, inline
or by a worker coroutine; callbacks that call the connection again; accept,
the read loop of a connection, stop.
*Hard.* Who becomes the actor, calls from inside callbacks, partial writes,
half-closed states.
*Correct when* one coroutine is inside the connection at a time, messages reach
the wire whole and once, what was acknowledged is not lost, `shutdown()`
delivers first, every call returns.

### zhttp

*State.* Per connection a parser or a websocket session; per server the tables
of sessions and asynchronous streams by descriptor, a radix tree of routes,
middleware; cookie sessions, rate limiters, a cache of files; around it all a
daemon process with its worker.
*Operations.* the message callback (parse, route, middleware, respond, upgrade),
frames of a websocket in both directions, chunks of a stream, lookup and expiry
of sessions, ranges and validators of a file, fork, restart and signals.
*Hard.* Tables keyed by a descriptor that is -1 after a close. Locks and
thread-local buffers held over sends that may suspend. Bytes that arrive in any
pieces. Clocks read before the lock.
*Correct when* a live connection is listed and a closed one is not, `stop()`
ends, the pieces do not matter, the most exact route is taken, a limiter keeps
its limit, a session keeps what was written, a client assembles one version of a
file, a crashed worker is replaced and a told daemon stops.

`PROJECT.json` lists the hazards of all of these at their lines.

## Modules

| Module | Code | Abstraction |
|---|---|---|
| `FiberSched` | `processor.cc`, `fiber.cc`, `fiber_pool.cc`, `runtime_manager.cc` (resume) | One processor, its fibers, any number of foreign wakers. Stacks and the context switch are left out; a descriptor or timer is what may end a wait. |
| `IoWait` | `processor.cc` (wait_fd), `epoller.cc`, `timer.cc`, `io_event.cc`, `hook.cc` | One processor's thread, split where another thread may come in, the swap and the second queueing after it included. Files are numbered as they are opened, descriptor numbers are reused. |
| `Runtime` | `runtime_manager.cc`, `steal_queue.cc`, `processor.cc` (tasks) | Processors as task loops; a task runs to its end. |
| `FiberHandles` | `fiber_handle_registry.cc`, `runtime_manager.cc`, `fiber.cc` | Handles are numbers never used twice. |
| `SharedStack` | `processor.cc`, `shared_stack_buffer.cc`, `snapshot_buffer_pool.cc` | A stack is a row of cells tagged with the run that wrote them. |
| `Pool` | `pool.cc` | Objects without content, buckets per thread; whether a callback may suspend is a constant. |
| `CoMutex`, `LockSpec` | `mutex.cc`, `coroutine_waiter.h` | Fiber states and run-queue entries as the scheduler provides them. `LockSpec` is what a client may rely on. |
| `CoEvent`, `MC_CoEvent` | `event.cc` | As above, timeouts as a choice. |
| `WaitGroup` | `wait_group.cc` | An atomic count composed with an instance of `CoEvent`. |
| `CoChannel`, `ChannelSpec` | `channel.h` | Ring and two manual-reset events. Of `Event::wait` it has each step (list, unlock, prepare, park; a thread's `cv.wait` with its re-check), of `signal` the claim and the resumes after it; the flag, the live tokens and the list of a signaller are kept. `ChannelSpec` is a closable bounded queue. |
| `AsyncLooper` | zlog's `looper.cc`, `buffer.cc` | Records have a length and an author, no text. |
| `Zmalloc` | - | What the modules of zmalloc share: the threads, and whether the system may run out of memory. |
| `PageCache`, `PageAllocSpec` | `page_cache.cc`, `system_alloc.cc` | A few pages; the page map without its radix tree. `PageAllocSpec`: runs that do not overlap. |
| `CentralCache` | `central_cache.cc` | One size class; a free list is a set; the page cache is its lock and its spans. |
| `ThreadCache` | `thread_cache.cc`, `transfer_cache.cc`, `free_list.cc` | One size class, all four builds of the two `kEnable` flags; the central cache is a set of objects. |
| `SizeClass` | `size_class.cc` | The tables with their real numbers, for each size up to 256 KiB. |
| `Override` | `override.cc` | Memory is cells of a word; zmalloc returns any free block of the class. |
| `TcpConnection` | `tcp_connection.cc`, znet's `buffer.cc` | Plain and TLS socket that takes any number of bytes, blocks, or is reset. No input buffer, no handshake. |
| `HttpServer` | `tcp_server.cc`, `acceptor.cc`, `http_server.cc` | One coroutine per connection; what a request asks for and what callbacks do is chosen. |
| `HttpParser` | `http_parser.cc` | A line's text counts as one byte; what frames a request is kept. |
| `Router` | `router.cc`, `radix_tree.cc`, `mid/middleware.cc` | A path is its segments, a regular expression the set of paths it matches. |
| `WsFrames`, `WsConnection` | `websocket_frame.cc`, `websocket.cc` | Real frame layout with small length limits; real UTF-8 ranges; the handshake over right and wrong headers; users and reader of one connection. |
| `RateLimiter` | `mid/rate_limiter_middleware.cc` | One key; a token is divided into the shares a tick brings. |
| `Sessions` | `session.cc`, `mid/session_middleware.cc` | One key per session, ids drawn in order. |
| `StaticFile` | `mid/static_file_middleware.cc`, `range_parse.cc`, `http_utils.cc` | One path; content is a version; clients keep, revalidate by tag, by date or by both, and resume. All files have one size, so that tags differ by mtime alone. |
| `Daemon` | `daemon.cc`, `http_server_builder.cc` (run) | Parent and worker process, signals, crashes. |
| `MC_Sync`, `MC_CoEvent`, `MC_Memory`, `MC_Lifecycle`, `MC_Http` | - | Instances of the above for TLC, see Runs. |
| `Queues`, `QueueLemmas` | - | Helpers on sequences and proved facts about them. |
| `FiberSched_proofs`, `PageCache_proofs`, `IoWait_proofs`, `TcpConnection_proofs` | - | Theorems about the module each is named after. |
| `Sync_proofs` | - | Theorems about `CoMutex`, `CoChannel` and `AsyncLooper`. |
| `Lifecycle_proofs` | - | Theorems about `Runtime` and `HttpServer`. |
| `Memory_proofs` | - | Theorems about `CentralCache`, `FiberHandles` and `SharedStack`. |

Variables have the names of the members they stand for without the trailing
underscore, actions the names of the functions. A function that releases a lock
or reaches a callback in the middle is split there and the parts are named for
what they do. `pc`, `at`, `place`, `stage` and `step` say where somebody stands.
Definitions marked *Mutant* are faulty variants of the definition below them;
no behaviour of the specification uses them.

How the modules rest on each other: `CoMutex`, `CoEvent` and what is built on it
assume of the scheduler what `FiberSched` checks (a queued coroutine runs).
`TcpConnection` takes the completion of an event to be a `WaitGroup` that keeps
its promise, `HttpServer` and `WsConnection` take `TcpConnection` to keep its
own, `IoWait` and `CoChannel` take `try_wake` with `enqueue_ready` as one step, `ThreadCache`
takes the central cache and `Override` all of zmalloc as memory that is free.

## Runs

Components that share no state are checked in one run. Such a run has a
variable `subject` that is chosen at the start and never changes: a behaviour
exercises its subject and leaves the others as they began. A property is asked
of the behaviours about its subject; where one name covers two subjects it says
what it asks of each. The fairness of a module applies to its subject only. The
state space is the sum, never the product.

| Run | Asks | Instance |
|---|---|---|
| `FiberSched_wakes` | Is a wake ever lost? Does a woken fiber run, a timed wait end? | Two fibers, two tasks, one foreign waker: the waker may act at each step of the fiber it wakes while the other is queued before or behind it. |
| `FiberSched_local` | Without foreign wakers: is one wake one queue entry, does a park return only after a wake, does each task stay with one fiber? | Three tasks on two fibers, so that a fiber is reused; batches of two. |
| `MC_Sync` | Mutex: one owner through the hand-over, no thread asleep on a free lock, refinement of `LockSpec`, waiting coroutines get it. Wait group: returns at zero only, and everybody then. Channel: nobody sleeps past a value or a slot but a coroutine whose resume came before it had prepared its wait, refinement of `ChannelSpec`, `close()` wakes every coroutine it finds waiting, although no timeout has to pass. Looper: nothing lost, no overrun, delivery, `stop()` returns. | Two coroutines and two threads on the mutex. Two workers, counts up to 2, one surplus `done()`, two rounds. On two slots, so that the ring wraps, three callers: a coroutine that reads and closes, one that reads and writes, a thread that reads and writes; the writers write 0 and 1. Both modes of the looper, three pushes of length 1 or 2 into a buffer of 2 that doubles, then grows by 1, and ends at 7. 87,000 states. |
| `MC_CoEvent` | `EventSound`: an auto-reset event grants no more waits than it was signalled for; a cached signal passes over neither a listed coroutine nor a blocked thread. | Both modes, two coroutines, a thread, two signallers, two listed waits each, two signals. Symmetry in coroutines, threads and signallers. 1.7 million states. |
| `MC_Memory` | Spans divide the pages and refine `PageAllocSpec`; objects conserved, spans returned when empty, somebody can always go on; each object of the thread and transfer caches in one place; each size gets a class that holds it; free finds each block; a pooled object has one user; handles reach their taker; fibers find their frames. | `NPAGES` 4, six pages and three span objects: two refills of three pages that must not merge into six, a run split in three, and the large path. Two spans of three objects, batches of two. Three objects through lists and a ring of two slots in all four builds. Sizes 1 to 256 KiB. One span of 12 words with four classes, two own pointers. Two fibers on one stack; three tasks on two fibers with two handles. Three coroutines on two threads with pool capacities 0, 1 and none. mmap may fail. 1.2 million states. |
| `MC_Lifecycle` | Runtime: tasks in one place and none let go of, each runs, a submission finds its processor. Server: a live connection is listed, a stream is alone on its connection, `stop()` ends. Daemon: a told daemon stops, a crashed worker is replaced. | Two processors, three tasks, two starts, steal limits at which each branch of the thief is taken. Two connections that share one descriptor number, two requests. Two crashes. 118,000 states. |
| `IoWait` | Does the wake of a canceller end the wait it was meant for (for fibers not yet queued twice), is the metadata that of the open file, is an idle processor woken, does every wait end? | Two fibers and an outsider on one descriptor number that two files get, two waits, a call that loops (`co_recvn` of 2) and one that may end with its first wait (`co_connect`). 207,000 states. |
| `TcpConnection` | One actor, whole messages, nothing acknowledged is lost, shutdown delivers, calls return. | One caller on the actor's scheduler and one outside, two messages of two bytes with the high-water mark at two, three calls, two levels of callbacks: a send within a send, overtaking and partial writes all occur. 238,000 states. |
| `MC_Http` | Routes: the most exact one, in any order of registration, `after` mirrors `before`. Parser: the pieces do not matter. Files: one version of one variant. Frames: messages up to the first fault, UTF-8, one Close frame, one `on_close`. Limits and sessions. | Nine overlapping routes and two regexes, three registered at a time. Requests of up to 16 symbols, bodies of 2. Two versions of a file of two cells, with and without brotli. 16 frames, three at a time; 1,861 byte sequences on the borders of the UTF-8 ranges. 448 handshakes; two users and a reader. Three callers, capacity 2, four ticks. Two requests, two ids. 1.2 million states. |
| `CoEvent_gap` | Does a claimed coroutine return? Violated, see below. | One of each suffices. |
| `HttpServer_sessions` | Is a connection fed to its own websocket session? Violated, see below. | Two connections that get one descriptor number after each other. |
| `Override_huge` | Does free find an aligned block of more than 128 pages? Violated, see below. | A span of three pages where `NPAGES - 1` is two. |

Bounds on calls, depth and queue lengths are constants with "bound" in their
comment; they are guards, never state constraints. `CHECK_DEADLOCK FALSE` stands
where all clients may have made their calls and nobody has to make another, and
in `MC_Memory`, where the exception of a failed mmap leaves `page_mtx_` locked. The
scheduler's loop never stops, and its runs check deadlock.

### What the code does not guarantee

Three runs are expected to fail; they show what the code does against what it
says.

- `CoEvent_gap`: `Event::wait` unlocks before `prepare_current_wait`
  (event.cc:118). A signal in between claims the token, finds the fiber running,
  and nobody resumes it again.
- `HttpServer_sessions`: the websocket session is removed under `conn->fd()`,
  which is -1 once the connection was shut down (http_server.cc:422). The entry
  stays, and the next connection with that number is fed to it.
- `Override_huge`: the header of an aligned block is looked up through its page
  (override.cc:266), and of a span of more than 128 pages only the first page is
  in the map (page_cache.cc:36). The pointer then goes to glibc's free.

Other disagreements were met while modelling. A constant leaves each of them
out of the passing runs so that the rest can be checked; set it to see it.

| Restriction | What it leaves out |
|---|---|
| `FiberSched_local`: `Wakers = {}` | A foreign `resume_fiber` between `mark_waiting` and the load in `finalize_after_switch`: it and `dispatch_resumed_fiber` both queue the fiber (processor.cc:588), a later wait returns that nobody ended, and a recycled fiber may serve two tasks (fiber_pool.cc:24). |
| `TimedWaitEndsIfDrained` assumes the queue is drained | A fiber that yields in a loop keeps timers from being looked at (processor.cc:359). |
| `CoMutex`: `WindowWakes = FALSE` (run only) | The double entry, met by a hand-over to a coroutine that is still swapping (mutex.cc:118): a later `lock()` may then return without the lock. The theorems do not restrict it, see Proofs. |
| `WaitGroup`: event with `GapWakes = FALSE` | The gap of `Event::wait`. |
| `WaitGroup`: `LateAdds = FALSE` | An `add()` from zero overtakes the signal of the last `done()`: `wait()` then returns with tasks running (wait_group.cc:46). |
| `AsyncLooper`: `bounded` in the properties | `thread_` is initialised before `milliseco_` (looper.h:70), so the worker's first wait may be of any length. |
| `AsyncLooper`: `Lengths` within the buffer | A SAFE push longer than the buffer blocks for ever (looper.cc:15). |
| `CentralCache`: `Abandoned` | A `bad_alloc` leaves the page lock and the bucket lock locked (central_cache.cc:96). |
| `TcpConnection`: `SplitTimeouts = FALSE` | A `co_send` that times out after some bytes forgets them (hook.cc:640), and the whole message is buffered again (tcp_connection.cc:424). |
| `Runtime`: `Concurrent = FALSE` | A submission that meets an init or a shutdown in progress: `started_` is set before the processors exist (runtime_manager.cc:125), and a processor chosen before `processors_.clear()` is gone after it (runtime_manager.cc:180). The model counts the task as lost; in the code it is a use after free. |
| `Runtime`: `PollersStart = TRUE` | A processor whose poller cannot start ends at once; tasks given to it stay until they are stolen. |
| `FiberHandles`: `SlowResume = FALSE` | `resume` looks the fiber up and wakes it later (runtime_manager.cc:279): it may by then run another task. |
| `IoWait`: `LateCalls = FALSE` | A call on a descriptor another thread is closing registers after the cancellation (hook.cc:426) and waits on a number that is closed or another file's. |
| `HttpServer`: `LongSends = FALSE` | A send that suspends while the thread-local `response_buffer` is being sent: another response overwrites it (http_server.cc:594, `BufferIsOwn`). |
| `Daemon`: `Repeated = TRUE` | A single SIGTERM between `fork` and `waitpid` sets the parent's flag and interrupts nothing: the worker is not told (daemon.cc:55). |
| `Pool`: `CallbackSuspends = FALSE` | A callback that suspends keeps the `std::mutex`: a second coroutine of the thread then blocks the thread the first one needs (`HolderRuns`). |
| `StaticFile`: `ReplacedInUse = FALSE` | A file replaced between `stat` and read: the new content is cached under the old validators. |
| `StaticFile`: `SameMtime = FALSE` | Variants of a file given one mtime have one `Last-Modified`, and one `ETag` if their sizes agree as well: the tag is size and mtime, without the encoding (http_utils.cc:195). A client that resumes by date then joins parts of two of them. Within one second the dates agree even if the mtimes do not. |
| `Override`: `HugeAligned = FALSE` | The finding of `Override_huge`. |

Four disagreements are in the models that run, and a property is stated so that it
says exactly where they end:

- `CoChannel`, `missed`: the gap of `Event::wait` (event.cc:118). A resume that
  comes while its coroutine is listed but has not prepared its wait does nothing,
  and the coroutine parks past the value, the slot or the `close()`.
  `NobodySleepsPast` and `CloseReleases` leave these coroutines out, and say that this
  is the only way: every other sleeper has a reason or a resume under way.
- `CoChannel`: a call that fails on the closed channel resets the event `close()`
  has just notified (channel.h:253). A caller between its look and its wait, and a
  thread that was notified but has not looked at its predicate again, then sleep
  until their timeout, if they have one. `CloseReleases` is about the coroutines
  `close()` finds waiting, whom the reset cannot reach.
- `IoWait`, `twice`: a canceller of another thread makes a fiber ready between its
  preparation and the load in `finalize_after_switch`, and `dispatch_resumed_fiber`
  queues it again (processor.cc:588). The stale entry may end a later wait, whose
  own canceller then comes too late. `ResumesItsOwnWait` excepts such fibers from
  then on; the other three properties hold for them as well.
- `CoMutex`, `overlapped`: the same double entry through a hand-over. `MutexSound`
  promises one owner up to the first such hand-over, and no forgotten thread always.

Smaller observations, each visible in the module it names:

- `CoEvent`: an auto-reset signal that claims a coroutine whose timer has already
  fired is consumed by a wait that reports a timeout (event.cc:158).
  `GrantsBacked` allows that: it bounds the grants, it does not promise one per
  signal.
- `IoWait`: a wait that times out leaves EAGAIN (io_event.cc:55), while the
  server counts only ETIMEDOUT as a keep-alive timeout (tcp_server.cc:216).
- `HttpServer`: `on_close` is not called for connections the server or the user
  closes; the mark of an asynchronous stream may outlive its connection;
  `stop()` waits for the read timeout of an idle connection.
- `Router`: a second route that names the parameter of a segment differently
  keeps the name of the first; the model gives a node its first name.
- `WsFrames`: a fault drops the complete messages of the same read
  (websocket.cc:435), and the size limit is looked at once the whole frame is in
  the buffer.
- `WsConnection`: a data frame may follow the Close frame, as `send_frame` looks
  at `closed_` and sends later; `ClosesOnce` bounds them by the senders that had
  passed the check.
- `Sessions`: the last writer wins, and a `save` after a `destroy` brings the
  record back. The property says what is kept given that.
- `RateLimiter`: a reading of the clock may be overtaken by a later one before it
  gets the lock. `RateBound` counts the readings that were not.
- `Pool`: the capacity, "每线程桶容量上限" in pool.h:30, is only looked at when a
  destroy callback was given.

### Fairness

- Threads keep running: weak fairness of the scheduler's loop, of what follows
  an unlock, of a call that has begun.
- Scheduling is cooperative: a running fiber gives the thread back at some time
  (weak fairness of `SwapOut`). A coroutine that is queued is switched to: that
  is `ReadyRuns`, checked in `FiberSched` and assumed by the modules above it.
- Locks: strong fairness where a thread competes for a `std::mutex` that is free
  again and again (`AsyncLooper`).
- Time passes: a finite wait ends (`TimeOut`; no timeout of a channel has to), and a timer the
  loop looks at again and again is found due (strong fairness of `TimerDue` in
  `FiberSched` and `IoWait`). A task that makes no more calls ends (strong
  fairness of `Finish` in `IoWait`).
- A holder of a mutex unlocks it, a callback returns, a read on a connection
  ends, a peer with a full window reads on or resets.
- A processor's thread and the thread that starts or stops the runtime go on;
  the steps of `stop()`, of a connection's coroutine and of an accept loop that
  was told to end are taken. A daemon's processes run, and its signal is sent
  again while it runs (`Repeated`).
- Nothing is assumed of when anyone begins a call.

## Proofs

Each theorem holds for every value of the constants that the assumptions below
admit. A module states what it assumes of its constants with `ASSUME`: that sizes
are natural numbers, that what stands for "none" is none of the real values, and
where a proof counts or lists them, that sets are finite. A hypothesis of a theorem
(`~SplitTimeouts` and the like) is one of the restrictions of the table above;
without it TLC finds the property violated. A theorem is about the specification
without fairness (`Spec`, or `ChSpec`, `LooperSpec`, `CentralSpec`, `HandleSpec`,
`StackSpec` and `ServerSpec` in modules that are extended beside others); the runs add
fairness, which only leaves out behaviours.

Every invariant below was checked by TLC on the run's instance before it was
proved. None of the properties is inductive by itself; what had to be added is
given with each.

### Scheduler: `FiberSched_proofs`

- `TypeCorrect`: `Spec => []TypeOK`. An entry that is queued must be a fiber,
  which depends on `current` being one whenever a fiber runs or is dispatched.
  The induction carries `CurrentOK`.
- `WakesAreNotLost`: `Spec => []NoLostWake`. The argument goes action by action
  over where the witness of a ready fiber moves: from the waker to the run queue,
  from the queue to the batch, from the swap to the load, from the load to the
  queue. A wake after the load is the waker's, a wake before it is the
  dispatcher's as well: nothing is lost, and this is also where an entry is
  duplicated.
- `OwnThreadWakesQueueOnce` and `OwnThreadWakesAreNotSpurious`: with no foreign
  wakers (`Wakers = {}`, the restriction of `FiberSched_local`) a fiber stands in
  line at most once, never while it runs, and a park returns only after a wake.
  The invariant adds that everything in line is ready (`LineInv`), that pooled
  fibers are done and pooled once (`PoolInv`), and what the loaded state says of
  the current fiber (`StepInv`). Without the second, the reuse of a fiber could
  put it in line twice.
- `OwnThreadWakesConserveTasks`: under the same restriction `[]TaskConserved`.
  `HolderInv` adds that the steal queue is free of duplicates and holds only
  submitted tasks that have not finished, and that a fiber which is alive carries
  such a task. `FiberAlive` adds that the fiber that runs is alive, so that its
  end finishes a task that nobody else holds.

### Mutex, channel, logger: `Sync_proofs`

- `MutexIsSound`: `Spec => []MutexSound`, with or without `WindowWakes`.
- `MutexImplementsLock`: `Spec => LocksUntilOverlap`, step by step: the hand-over
  inside `unlock()` is the abstract acquisition, everything after it a stutter.
  `MutexInv` says which state a coroutine has at each place (`StatesOK`), that a
  run-queue entry or a client about to make one belongs to one coroutine that was
  handed the lock and is parked (`EntriesOK`), and that nobody is listed while the
  lock is free (`ListedOK`). Nothing in the code keeps `unlock()` from handing over
  to a coroutine inside its swap, and from then on `EntriesOK` is false; so the
  history variable `overlapped` is raised by that step, and what rests on
  `EntriesOK` is claimed up to it. `NoForgottenThread` needs less and holds always.
  Where no such step is taken (`~WindowWakes`, the run) `LocksUntilOverlap` is
  `ImplementsLock`.
- `SleepersHaveReason`: `ChSpec => []NobodySleepsPast`. `EventsOK` says an event is
  signalled whenever what its waiters want is there, `SleepersOK` that nobody is in
  `cv.wait` or holds a live token while his event is, and `ClaimedOK` that who is
  parked without a live token is in some signaller's list, or `missed`.
- `ChannelIsQueue`: `ChSpec => ImplementsChannel`, the refinement of
  `ChannelSpec` by the ring. `RingOK` ties `tail` to `head` and `size` modulo the
  capacity. The refinement maps the ring to a sequence: a write stores behind its
  last element, a read takes the first and shifts the mapping by one, by
  `ModSmall` and `ModWrap`.
- `LooperIsSound`: `LooperSpec => []LooperSound`: what was pushed is what
  was delivered followed by the two buffers, and no buffer is overrun. Added:
  the consumer's buffer is empty except while the callback has it (`ConsumedOK`),
  and a waiting producer has a record (`WaitersOK`). `PushedOK` is the lemma on
  growth: whenever the condition `push()` waits for holds,
  `ensure_enough_size` makes room without passing the limit.

### Connection: `TcpConnection_proofs`

- `ConnectionTypes`: `Spec => []TypeOK`; no call stands at "stuck", where a
  callback of the actor would wait for an event it has to drain itself.
- `ActorSerialises`: `Spec => [](ActorIsAlone /\ AckedIsKept /\ ShutdownDelivers)`,
  with or without sends that forget bytes.
- `ConnectionIsSound`: `~SplitTimeouts`, `Spec => []ConnectionSound`, which adds
  `MessagesWhole`.

`ActorInv`: whoever is between becoming the actor and giving it up is alone and
has set `actor_running_`. `EventInv`: an event is in the mailbox, taken or
completed, in one of these only, and its caller has not left. `CallsInv`: what a
call knows at each place, and that only the innermost call of a stack of
callbacks may be anywhere but in a callback; so the bytes a write has counted
cannot be moved under it. `FreshInv`: a message that is unsent, called or begun
is so once, and nothing of it is anywhere but what its own direct write has
handed over. `StreamInv` is about the bytes: between two writes the buffer goes on
where the wire ends, and without TLS that is between two messages; within a
write, where the write stands. `SplitTimeouts` breaks `StreamInv` and nothing
else.

### Runtime and server: `Lifecycle_proofs`

- `RuntimeTypes`: `Spec => []TypeOK`.
- `TasksAreKept`: `~Concurrent`, `Spec => NoTaskVanishes`, an action property.
- `TasksAreNotDoubled`: no task is in two places, the first part of
  `TasksConserved`.
- `RuntimeIsSound`: `~Concurrent`, `Spec => []RuntimeSound`.

`RuntimeTypes` and `TasksAreNotDoubled` hold whatever meets an init or a shutdown.
`OneHome`: no task is
twice in one of the sequences, in two of them, or in one and run, destroyed or
with a submitter. Draining, stealing and appending each cut a sequence in two or
join two; lemmas on prefixes and suffixes say that members and distinctness go
with the parts, for all limits. `LifeInv` is for the other two: one call at a time
starts or stops the runtime, and between two of them it is complete or gone; a
submitter meets only a complete one, so that `Enqueue` never finds its processor
gone and only `processors_.clear()` lets go of a task. `Concurrent` breaks `LifeInv`.

- `ServerIsSound`: `ServerSpec => []ServerSound`, with or without `LongSends`,
  for any number of starts (the run has one).

`ListedOK` strengthens `LiveIsListed` to all times: a served connection is in
`connections_` or in the snapshot that `do_stop` has yet to close, so that a start
after the stop finds none that is served and not listed. It rests on `NumbersOK`:
open connections have different numbers, so that registering one takes no other's
place, and a connection that is being removed has number -1 by then, so that
`remove_connection` never takes the entry of the number's next owner (it takes
none). `MarkedOK`: while its stream is open the mark of a connection that had its
number alone is set, and parsing waits. Most steps of a connection's coroutine
touch no table and are covered by one lemma (`QuietKeeps`).

### Central cache, handles and shared stacks: `Memory_proofs`

- `CentralIsSound`: `CentralSpec => []CentralSound`, whether `new_span` throws or
  not. `Agree` says what `ObjectsConserved` and `NothingOutOfPagedSpan` say, in
  terms of what each thread has (`Owned`) and which span it is about to give to
  the page cache (`Giving`); it is proved of each change once, without the
  program counters. It adds that a span on its way to the page cache has nothing
  in its free list, has one thread giving it, and is not there already. `Tidy`
  says that the groups of `release_list_to_spans` are of different spans, not
  empty, and apart from what the thread still has: without it the splice of a
  second group could count objects that the first returned. `Locked`: who is
  inside a lock holds it.
- `HandlesAreTrue`: `~SlowResume`, `HandleSpec => []HandleReachesItsTaker`.
  `HandleInv`: a pooled fiber has no handle, the handle of one in use was taken by
  the task in it, and the registry names a fiber only by the handle it has now.
- `FibersFindTheirFrames`: `StackSpec => []RunsOnOwnFrames`. `FramesOK`: the
  frames of a live fiber are on its stack while it is the occupant and in its
  snapshot otherwise. That holds through a switch because the occupant on record
  is a live fiber of that very stack under its present id (`OwnersOK`), so that
  `prepare_shared_stack_for` saves whoever must be saved, and because a snapshot
  buffer belongs to one fiber or lies in one bucket once (`BuffersApart`), so that
  a save overwrites nobody else's. `PoolOK`: a recycled object is the occupant of
  no stack. The module assumes that there are more buffer addresses than fibers
  and bucket places: `new char[]` finds one (`FreshOK` counts them).

### Page cache: `PageCache_proofs`

- `SpansAreConsistent`: `Spec => []SpansConsistent`.
- `PageCacheImplementsAlloc`: `Spec => ImplementsPageAlloc`.

The invariant speaks of single pages (`Owns`) where the property speaks of sets:
each mapped page has exactly one span (`PartOK`), a map entry points to a span
that owns the page (`MapOK`), bucket k lists exactly the free spans of k pages,
each once (`ListsOK`), a pooled span object has none (`DeadOK`). For the calls in
progress: a span that is being freed is still in use and freed by one thread
(`FreeingOK`), and each run a client holds is a live span nobody frees, found
under every page `zfree` may look up (`HeldOK`). One lemma per action; splitting
rests on `SplitNumbers`, coalescing on `Neighbours` (the map entry before or
behind a span is a whole neighbour that starts or ends there) and `MergeOK`. For
the refinement, runs handed out do not overlap those held (`HeldAreApart`).

### IO waits: `IoWait_proofs`

- `ResumesAreOwn`: `Spec => []ResumesItsOwnWait`, with or without `LateCalls`. An
  active waiter is that of its fiber's latest wait, which is not over
  (`ActiveOK`); who has taken a token is alone in it and the wait is still
  the same (`ClaimsOK`). That needs the run queue to hold ready fibers, each once
  (`QueueOK`), the place of a fiber to go with who runs (`PlacesOK`), and what
  the Epoller or a canceller points at to have been registered (`ListedOK`): a
  new wait is in no slot and on no list. Parts that a second run-queue entry would
  break are stated of the fibers outside `twice`; a step that puts a fiber there
  only weakens them.
- `SleeperIsWoken`: `Spec => []IdleIsWoken`. `FlagOK`: a raised `wake_pending_`
  stands for a write that is done, to be done, or being consumed.
- `NumbersAreReusedCleanly`: with `~LateCalls`, `Spec => []DescriptorsAreOwn`.
  `InterestOK`: the kernel's set is what `registered_events` says and has every
  live waiter. `GoneOK` and `LastWaits`: a number that is closed or being closed
  has no waiter, and every call still on it has failed and will not come back.
  `CloserOK`: one outsider closes it. `MetaOK`: timeouts are forgotten before the
  close. `LateCalls` breaks `LastWaits`, which is the disagreement listed above.

`QueueLemmas` proves the facts on sequences and intervals these rest on: what
appending, taking a prefix, concatenating and `SpanList::erase` do to members
and to distinctness, and that a bounded set of numbers has a least and a largest.

### Only model-checked

- Out of the prover's reach: all liveness (it needs fairness); `CentralGoesOn`,
  the part of `MC_Memory`'s `CachesSound` about the central cache (it is about
  `ENABLED`); what the recursive operators of `HttpParser`, `Router`
  and `WsFrames` compute for every input; `CoEvent`, whose list is filtered with
  `SelectSeq`, defined by recursion.
- Not proved: `Pool`, `ThreadCache`, `Override`, `WaitGroup`,
  `WsConnection`, `RateLimiter`, `Sessions`, `StaticFile` and `Daemon`; of
  `HttpServer`, that a stop ends.

## Not modelled

- The context switch: assembly. `SharedStack` has what surrounds it.
- Formatting, sinks and loggers of zlog: conversions of text, and files.
- Socket options, addresses, OpenSSL set-up; the hooks that only pass options to
  the kernel and copy them into the metadata without a lock.
- The input buffer and the TLS handshake of a connection.
- Two senders of one HTTP stream on one thread, where the stream's `write_mutex`
  is held over a send that suspends (http_server.cc:287).
- In zhttp: accessors of requests and responses, forms and multipart bodies,
  configuration files, compression, CORS and security headers, MIME types and
  the normalisation of paths. They convert data and keep no state. (A partial
  answer may be compressed by a middleware behind the one for files.)
- The queue limit of a processor (EBUSY) and the batch of 256 tasks that one
  turn of its loop drains: the batch is `BatchLimit` and `DrainLimit`, the limit
  is not.
- The C++ memory model: atomics are taken as sequentially consistent. The
  separate stores that another thread may observe apart are separate actions.

## Plan

The components are modelled as far as the list above says, and the theorems cover
the scheduler, IO waits, the runtime, the server's tables, mutex, channel, logger,
page and central cache, handles, shared stacks and connections. What is left is
proof:

1. `Pool`: objects in one place.
2. `ThreadCache`: objects in one place through the ring of the transfer cache.
