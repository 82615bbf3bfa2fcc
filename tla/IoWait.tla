------------------------------- MODULE IoWait -------------------------------
(***************************************************************************)
(* The IO side of one zco::Processor: hooked calls (co_recv, co_recvn,     *)
(* co_send, co_connect, co_accept), Processor::wait_fd, the Epoller with   *)
(* its two waiter slots per descriptor, the timers of those waits, the     *)
(* eventfd that interrupts epoll_wait, and other threads that close a      *)
(* descriptor.                                                             *)
(*                                                                         *)
(* The processor's thread is sequential; its steps are split where an      *)
(* outsider may come in between: at waiter_mutex_, at waiter->active, at   *)
(* the fiber's state, at the eventfd.  A resume that falls between the     *)
(* fiber's preparation and the end of its swap leaves the fiber in the run *)
(* queue twice, and the second entry ends whatever wait it finds the fiber *)
(* in.  try_wake with enqueue_ready is one step (FiberSched takes it       *)
(* apart).  A descriptor number is reused: files are numbered in the order *)
(* they are opened.                                                        *)
(***************************************************************************)
EXTENDS Queues, SequencesExt

CONSTANTS
  Fibers,
  Fds,        \* descriptor numbers
  Outsiders,  \* other threads
  Ops,        \* hooked calls that are made, of {"recv", "recvn", "send", "connect", "accept"}
  Wanted,     \* the count of co_recvn and co_send
  MaxWaits,   \* bound: waits of all fibers together
  MaxFiles,   \* bound: files ever opened
  LateCalls,  \* may a call begin or go on with a descriptor that is being
              \* closed?  FALSE leaves those runs out.
  None

ASSUME BoundsAssumption ==
  /\ Wanted \in Nat \ {0} /\ MaxWaits \in Nat /\ MaxFiles \in Nat
  /\ LateCalls \in BOOLEAN
ASSUME OpsAssumption == Ops \subseteq {"recv", "recvn", "send", "connect", "accept"}
ASSUME FibersAssumption == IsFiniteSet(Fibers)
ASSUME NoneAssumption == None \notin Fibers \cup Fds \cup (Fibers \X Nat)

VARIABLES
  file,          \* the file a descriptor stands for; 0: closed
  files,         \* files opened so far
  ready,         \* directions in which the file would not block
  interest,      \* what the kernel's epoll set has for the descriptor
  slot,          \* FdWaitState: read_waiter and write_waiter
  registered,    \* FdWaitState: registered_events, {} if not registered
  meta,          \* FdMetadataStore: the file whose timeouts are cached
  active,        \* waiters whose IoWaiter::active is TRUE
  failed,        \* waiters whose IoWaiter::error is EBADF
  timers,        \* waiters with a TimerEntry that is not cancelled
  turn,          \* the number of each fiber's latest wait
  call,          \* the hooked call each fiber is in
  pc,            \* where it stands
  state,         \* Fiber::state_
  timed_out,     \* Fiber::timed_out_
  run_queue,
  current,       \* current_fiber_
  twice,         \* history: fibers that were queued a second time
  loop,          \* where run_loop stands
  events,        \* epoll_wait's result: descriptors, the wake event as None
  batch,         \* ready_waiters of wait_events
  wake_pending,  \* wake_pending_
  wake_fd,       \* the eventfd is readable
  out            \* what each outsider is doing

kvars == <<file, files, ready, interest>>
evars == <<slot, registered, meta>>
wvars == <<active, failed, timers, turn>>
fvars == <<call, pc, state, timed_out>>
pvars == <<run_queue, current, twice>>
lvars == <<loop, events, batch>>
uvars == <<wake_pending, wake_fd>>
vars  == <<kvars, evars, wvars, fvars, pvars, lvars, uvars, out>>

Dirs    == {"in", "out"}
Waiter(f) == <<f, turn[f]>>
Waits == Max({turn[f] : f \in Fibers})
NoCall  == [op |-> "none"]
Away    == [pc |-> "away"]
Dir(op) == IF op \in {"send", "connect"} THEN "out" ELSE "in"

Init ==
  /\ file = [d \in Fds |-> IF d = CHOOSE e \in Fds : TRUE THEN 1 ELSE 0]
  /\ files = 1
  /\ ready = [d \in Fds |-> {}]
  /\ interest = [d \in Fds |-> {}]
  /\ slot = [d \in Fds |-> [r \in Dirs |-> None]]
  /\ registered = [d \in Fds |-> {}]
  /\ meta = [d \in Fds |-> file[d]]
  /\ active = {} /\ failed = {} /\ timers = {}
  /\ turn = [f \in Fibers |-> 0]
  /\ call = [f \in Fibers |-> NoCall]
  /\ pc = [f \in Fibers |-> "idle"]
  /\ state = [f \in Fibers |-> "ready"]
  /\ timed_out = [f \in Fibers |-> FALSE]
  /\ run_queue = SetToSeq(Fibers) /\ current = None /\ twice = {}
  /\ loop = "run" /\ events = {} /\ batch = <<>>
  /\ wake_pending = FALSE /\ wake_fd = FALSE
  /\ out = [k \in Outsiders |-> Away]

-----------------------------------------------------------------------------
(* The Epoller, under waiter_mutex_                                        *)

\* update_interest_locked with the waiters s: what it wants, and what it
\* leaves in registered and in the kernel.  epoll_ctl on a closed descriptor
\* fails and changes nothing.
Desired(s) == {r \in Dirs : s[r] # None /\ s[r] \in active'}
UpdateInterest(d, s) ==
  IF Desired(s) = registered[d] \/ file[d] = 0
    THEN UNCHANGED <<interest, registered>>
    ELSE /\ interest' = [interest EXCEPT ![d] = Desired(s)]
         /\ registered' = [registered EXCEPT ![d] = Desired(s)]

\* Does update_interest_locked return true?
Updates(d, s) == Desired(s) = registered[d] \/ file[d] # 0

\* unregister_waiter
Without(d, w) == [r \in Dirs |-> IF slot[d][r] = w THEN None ELSE slot[d][r]]
Unregister(d, w) ==
  IF \E r \in Dirs : slot[d][r] = w
    THEN slot' = [slot EXCEPT ![d] = Without(d, w)] /\ UpdateInterest(d, Without(d, w))
    ELSE UNCHANGED <<slot, interest, registered>>

\* wake(): the flag, then the write; on the processor's own thread at once.
WakeHere == /\ wake_pending' = TRUE
            /\ wake_fd' = (wake_fd \/ ~wake_pending)

Resume(f, late) ==
  IF state[f] = "waiting"
    THEN /\ state' = [state EXCEPT ![f] = "ready"]
         /\ timed_out' = [timed_out EXCEPT ![f] = late]
         /\ run_queue' = Append(run_queue, f)
    ELSE UNCHANGED <<state, timed_out, run_queue>>

-----------------------------------------------------------------------------
(* Hooked calls, on the fiber                                              *)

Runs(f, place) == current = f /\ pc[f] = place
To(f, place)   == pc' = [pc EXCEPT ![f] = place]

Closing(d) == \E k \in Outsiders : out[k].pc # "away" /\ out[k].fd = d
MayUse(d)  == LateCalls \/ ~Closing(d)

\* resolve_timeout_ms caches the socket's timeouts if nobody has.
EnsureCached(d) == meta' = [meta EXCEPT ![d] = IF @ = 0 THEN file[d] ELSE @]

Begin(f, d, op, timed) ==
  /\ Runs(f, "idle") /\ Waits < MaxWaits
  /\ op \in Ops /\ file[d] # 0 /\ MayUse(d)
  /\ call' = [call EXCEPT ![f] = [op |-> op, fd |-> d, timed |-> timed, left |->
                IF op \in {"recvn", "send"} THEN Wanted ELSE 1]]
  /\ To(f, "try")
  /\ IF timed THEN UNCHANGED meta ELSE EnsureCached(d)
  /\ UNCHANGED <<kvars, slot, registered, wvars, state, timed_out, pvars, lvars, uvars, out>>

Return(f) == pc' = [pc EXCEPT ![f] = "idle"] /\ call' = [call EXCEPT ![f] = NoCall]

\* The system call moved something: run_io_loop returns, co_recvn and co_send
\* go on until they have moved everything.
Moves(f) ==
  /\ Runs(f, "try") /\ MayUse(call[f].fd)
  /\ Dir(call[f].op) \in ready[call[f].fd] /\ file[call[f].fd] # 0
  /\ ready' = [ready EXCEPT ![call[f].fd] = @ \ {Dir(call[f].op)}]
  /\ IF call[f].left = 1 THEN Return(f)
     ELSE call' = [call EXCEPT ![f].left = @ - 1] /\ UNCHANGED pc
  /\ UNCHANGED <<file, files, interest, evars, wvars, state, timed_out, pvars, lvars, uvars, out>>

\* The call fails: the descriptor is closed, the connection is broken, there
\* is no free descriptor, or remaining_timeout_ms found no time left.
Fails(f) ==
  /\ Runs(f, "try")
  /\ Return(f)
  /\ UNCHANGED <<kvars, evars, wvars, state, timed_out, pvars, lvars, uvars, out>>

\* EAGAIN, EINPROGRESS: IoEvent::wait makes an IoWaiter and marks the fiber.
Blocks(f) ==
  /\ Runs(f, "try") /\ MayUse(call[f].fd)
  /\ file[call[f].fd] # 0 /\ Dir(call[f].op) \notin ready[call[f].fd]
  /\ Waits < MaxWaits
  /\ turn' = [turn EXCEPT ![f] = Waits + 1]
  /\ active' = active \cup {<<f, Waits + 1>>}
  /\ state' = [state EXCEPT ![f] = "waiting"]
  /\ timed_out' = [timed_out EXCEPT ![f] = FALSE]
  /\ To(f, "prepared")
  /\ UNCHANGED <<kvars, evars, failed, timers, call, pvars, lvars, uvars, out>>

-----------------------------------------------------------------------------
(* wait_fd, on the fiber                                                   *)

\* Slots whose waiter is not active any more are emptied first.
Swept(d) == [r \in Dirs |-> IF slot[d][r] \in active THEN slot[d][r] ELSE None]
Busy(d, r, w) == Swept(d)[r] \notin {None, w}
Entered(d, r, w) == [Swept(d) EXCEPT ![r] = w]

RegisterWaiter(f) ==
  LET d == call[f].fd
      r == Dir(call[f].op)
      s == Entered(d, r, Waiter(f))
  IN  /\ Runs(f, "prepared") /\ MayUse(d)
      /\ ~Busy(d, r, Waiter(f))
      /\ active' = active
      /\ Updates(d, s)
      /\ slot' = [slot EXCEPT ![d] = s]
      /\ UpdateInterest(d, s)
      /\ To(f, "registered")
      /\ UNCHANGED <<file, files, ready, meta, failed, timers, turn, call, state, timed_out,
                     pvars, lvars, uvars, out>>

\* EBUSY, or epoll_ctl failed and the old state is put back: the fiber runs on.
RegisterFails(f) ==
  LET d == call[f].fd
      r == Dir(call[f].op)
  IN  /\ Runs(f, "prepared") /\ MayUse(d)
      /\ active' = active \ {Waiter(f)}
      /\ IF Busy(d, r, Waiter(f)) THEN slot' = [slot EXCEPT ![d] = Swept(d)]
         ELSE file[d] = 0 /\ UNCHANGED slot
      /\ state' = [state EXCEPT ![f] = "running"]
      /\ Return(f)
      /\ UNCHANGED <<kvars, registered, meta, failed, timers, turn, timed_out, pvars, lvars,
                     uvars, out>>

\* add_timer, and the start of park_current.
Park(f) ==
  /\ Runs(f, "registered")
  /\ IF call[f].timed THEN timers' = timers \cup {Waiter(f)} /\ WakeHere
     ELSE UNCHANGED <<timers, uvars>>
  /\ To(f, "parked")
  /\ UNCHANGED <<kvars, evars, active, failed, turn, call, state, timed_out, pvars, lvars, out>>

\* The fiber's task makes no more calls.
Finish(f) ==
  /\ Runs(f, "idle")
  /\ To(f, "done")
  /\ state' = [state EXCEPT ![f] = "done"]
  /\ current' = None
  /\ UNCHANGED <<kvars, evars, wvars, call, timed_out, run_queue, twice, lvars, uvars, out>>

\* The wait failed: so does the call.  If not, co_connect looks at SO_ERROR
\* and may be done, or tries again like the others.
WaitFailed(f) == Waiter(f) \in failed \/ timed_out[f]

\* What wait_fd does after park_current returned.
AfterPark(f) ==
  LET w == Waiter(f)
      d == call[f].fd
  IN  /\ active' = active \ {w}
      /\ timers' = timers \ {w}
      /\ Unregister(d, w)
      /\ \/ (WaitFailed(f) \/ call[f].op = "connect") /\ Return(f)
         \/ ~WaitFailed(f) /\ To(f, "try") /\ UNCHANGED call

-----------------------------------------------------------------------------
(* run_loop                                                                *)

\* switch_to_fiber: it does not look at the state.
Switch ==
  /\ loop \in {"run", "again"} /\ current = None /\ run_queue # <<>>
  /\ state[Head(run_queue)] # "done"
  /\ LET f == Head(run_queue)
     IN  /\ current' = f
         /\ run_queue' = Tail(run_queue)
         /\ state' = [state EXCEPT ![f] = "running"]
         /\ IF pc[f] = "parked" THEN AfterPark(f)
            ELSE UNCHANGED <<active, timers, slot, interest, registered, pc, call>>
  /\ UNCHANGED <<file, files, ready, meta, failed, turn, timed_out, twice, lvars, uvars, out>>

\* recycle_if_done_before_run: what is left of a fiber that is done is dropped.
Drop ==
  /\ loop \in {"run", "again"} /\ current = None /\ run_queue # <<>>
  /\ state[Head(run_queue)] = "done"
  /\ run_queue' = Tail(run_queue)
  /\ UNCHANGED <<kvars, evars, wvars, fvars, current, twice, lvars, uvars, out>>

\* The swap is over.  finalize_after_switch loads the state, and
\* dispatch_resumed_fiber queues a fiber it finds ready, although whoever made
\* it ready has queued it too.
Dispatch ==
  /\ loop \in {"run", "again"} /\ current # None /\ pc[current] = "parked"
  /\ current' = None
  /\ IF state[current] = "ready"
       THEN /\ run_queue' = Append(run_queue, current)
            /\ twice' = twice \cup {current}
            /\ WakeHere
       ELSE UNCHANGED <<run_queue, twice, uvars>>
  /\ UNCHANGED <<kvars, evars, wvars, fvars, lvars, out>>

\* run_ready_tasks is over; has_ready_tasks is looked at once more.
Drained ==
  /\ loop \in {"run", "again"} /\ current = None /\ run_queue = <<>>
  /\ loop' = IF loop = "run" THEN "timers" ELSE "poll"
  /\ UNCHANGED <<kvars, evars, wvars, fvars, pvars, events, batch, uvars, out>>

\* process_due pops a timer of wait_fd: it competes for active.
TimerDue(w) ==
  /\ loop = "timers" /\ w \in timers
  /\ timers' = timers \ {w}
  /\ active' = active \ {w}
  /\ IF w \in active
       THEN Unregister(call[w[1]].fd, w) /\ Resume(w[1], TRUE) /\ WakeHere
       ELSE UNCHANGED <<slot, interest, registered, state, timed_out, run_queue, uvars>>
  /\ UNCHANGED <<file, files, ready, meta, failed, turn, call, pc, current, twice, lvars, out>>

TimersDone ==
  /\ loop = "timers"
  /\ loop' = "again"
  /\ UNCHANGED <<kvars, evars, wvars, fvars, pvars, events, batch, uvars, out>>

\* epoll_wait returns: with events, or because the time is over.
Watched(d) == interest[d] \cap ready[d] # {}
EpollReturns ==
  /\ loop = "poll"
  /\ events' = {d \in Fds : Watched(d)} \cup (IF wake_fd THEN {None} ELSE {})
  /\ loop' = "events"
  /\ UNCHANGED <<kvars, evars, wvars, fvars, pvars, batch, uvars, out>>

\* wait_events for one event, under waiter_mutex_.  The readiness is that of
\* the event; of a file opened since, whatever it is.
TakeEvent(d) ==
  /\ loop = "events" /\ d \in events \ {None}
  /\ events' = events \ {d}
  /\ active' = active
  /\ \E rs \in SUBSET Dirs \ {{}} :
       LET ws == {r \in rs : slot[d][r] # None}
           s  == [r \in Dirs |-> IF r \in rs THEN None ELSE slot[d][r]]
       IN  /\ rs \cap ready[d] # {} \/ file[d] = 0 \/ ready[d] = {}
           /\ slot' = [slot EXCEPT ![d] = s]
           /\ \E q \in [1..Cardinality(ws) -> ws] :
                /\ Distinct(q)
                /\ batch' = batch \o [i \in DOMAIN q |-> slot[d][q[i]]]
           /\ UpdateInterest(d, s)
  /\ UNCHANGED <<file, files, ready, meta, failed, timers, turn, fvars, pvars, loop, uvars, out>>

\* consume_wakeup_fd: read until empty, then clear the flag.
ConsumeRead ==
  /\ loop = "events" /\ None \in events /\ wake_fd
  /\ wake_fd' = FALSE
  /\ UNCHANGED <<kvars, evars, wvars, fvars, pvars, lvars, wake_pending, out>>

\* Mutant: the flag stays up.
ConsumeKeepsFlag ==
  /\ loop = "events" /\ None \in events /\ ~wake_fd
  /\ events' = events \ {None}
  /\ UNCHANGED <<kvars, evars, wvars, fvars, pvars, loop, batch, uvars, out>>

ConsumeStore ==
  /\ loop = "events" /\ None \in events /\ ~wake_fd
  /\ wake_pending' = FALSE
  /\ events' = events \ {None}
  /\ UNCHANGED <<kvars, evars, wvars, fvars, pvars, loop, batch, wake_fd, out>>

HandleIoReady ==
  /\ loop = "events" /\ events = {} /\ batch # <<>>
  /\ batch' = Tail(batch)
  /\ active' = active \ {Head(batch)}
  /\ timers' = timers \ {Head(batch)}
  /\ IF Head(batch) \in active THEN Resume(Head(batch)[1], FALSE) /\ WakeHere
     ELSE UNCHANGED <<state, timed_out, run_queue, uvars>>
  /\ UNCHANGED <<kvars, evars, failed, turn, call, pc, current, twice, loop, events, out>>

PollDone ==
  /\ loop = "events" /\ events = {} /\ batch = <<>>
  /\ loop' = "run"
  /\ UNCHANGED <<kvars, evars, wvars, fvars, pvars, events, batch, uvars, out>>

-----------------------------------------------------------------------------
(* Other threads                                                           *)

Go(k, s) == out' = [out EXCEPT ![k] = s]

\* wake(): somebody else has raised the flag, or the write is ours to do.
RaiseFlag(k) ==
  /\ out[k].pc = "wake"
  /\ wake_pending' = TRUE
  /\ Go(k, [out[k] EXCEPT !.pc = IF wake_pending THEN "next" ELSE "write"])
  /\ UNCHANGED <<kvars, evars, wvars, fvars, pvars, lvars, wake_fd>>

WriteFd(k) ==
  /\ out[k].pc = "write"
  /\ wake_fd' = TRUE
  /\ Go(k, [out[k] EXCEPT !.pc = "next"])
  /\ UNCHANGED <<kvars, evars, wvars, fvars, pvars, lvars, wake_pending>>

\* A fiber in a call on d whose waiter is not in a slot.
Between(f, d) ==
  /\ call[f] # NoCall /\ call[f].fd = d
  /\ ~(pc[f] \in {"registered", "parked"} /\ Waiter(f) \in active /\ \E r \in Dirs : slot[d][r] = Waiter(f))

\* co_close: cancel_fd takes the waiters and forgets the descriptor.
CancelFd(k, d) ==
  /\ out[k] = Away /\ file[d] # 0 /\ ~Closing(d)
  /\ LateCalls \/ \A f \in Fibers : ~Between(f, d)
  /\ LET ws == {slot[d][r] : r \in Dirs} \ {None}
     IN  /\ failed' = failed \cup ws
         /\ Go(k, [pc |-> "next", fd |-> d, list |-> ws])
  /\ slot' = [slot EXCEPT ![d] = [r \in Dirs |-> None]]
  /\ registered' = [registered EXCEPT ![d] = {}]
  /\ interest' = [interest EXCEPT ![d] = {}]
  /\ UNCHANGED <<file, files, ready, meta, active, timers, turn, fvars, pvars, lvars, uvars>>

\* Mutant: resumes without taking the waiter's token.
CancelWaiterUnclaimed(k, w) ==
  /\ out[k].pc = "next" /\ w \in out[k].list
  /\ active' = active
  /\ timers' \in {timers, timers \ {w}}
  /\ Go(k, [pc |-> IF w \in active THEN "resume" ELSE "next", fd |-> out[k].fd,
            list |-> out[k].list \ {w}, whom |-> w])
  /\ UNCHANGED <<kvars, evars, failed, turn, fvars, pvars, lvars, uvars>>

\* Mutant: a fiber that has not been swapped out yet is taken to run on.
CancelWaiterParked(k, w) ==
  /\ out[k].pc = "next" /\ w \in out[k].list
  /\ active' = active \ {w}
  /\ timers' \in {timers, timers \ {w}}
  /\ Go(k, [pc |-> IF w \in active /\ pc[w[1]] = "parked" THEN "resume" ELSE "next",
            fd |-> out[k].fd, list |-> out[k].list \ {w}, whom |-> w])
  /\ UNCHANGED <<kvars, evars, failed, turn, fvars, pvars, lvars, uvars>>

\* The exchange of active; waiter->timer is read while wait_fd may be
\* writing it: seen or not seen.
CancelWaiter(k, w) ==
  /\ out[k].pc = "next" /\ w \in out[k].list
  /\ active' = active \ {w}
  /\ timers' \in {timers, timers \ {w}}
  /\ Go(k, [pc |-> IF w \in active THEN "resume" ELSE "next", fd |-> out[k].fd,
            list |-> out[k].list \ {w}, whom |-> w])
  /\ UNCHANGED <<kvars, evars, failed, turn, fvars, pvars, lvars, uvars>>

CancelResume(k) ==
  /\ out[k].pc = "resume"
  /\ Resume(out[k].whom[1], FALSE)
  /\ Go(k, [out[k] EXCEPT !.pc = "wake"])
  /\ UNCHANGED <<kvars, evars, wvars, call, pc, current, twice, lvars, uvars>>

\* Mutant: close() leaves the cached timeouts behind.
EraseMetaForgotten(k) ==
  /\ out[k].pc = "next" /\ out[k].list = {}
  /\ Go(k, [out[k] EXCEPT !.pc = "close"])
  /\ UNCHANGED <<kvars, evars, wvars, fvars, pvars, lvars, uvars>>

\* sync_fd_metadata_on_close
EraseMeta(k) ==
  /\ out[k].pc = "next" /\ out[k].list = {}
  /\ meta' = [meta EXCEPT ![out[k].fd] = 0]
  /\ Go(k, [out[k] EXCEPT !.pc = "close"])
  /\ UNCHANGED <<kvars, slot, registered, wvars, fvars, pvars, lvars, uvars>>

\* ::close, after which the number may be given to another file.
CloseFd(k) ==
  /\ out[k].pc = "close"
  /\ file' = [file EXCEPT ![out[k].fd] = 0]
  /\ interest' = [interest EXCEPT ![out[k].fd] = {}]
  /\ ready' = [ready EXCEPT ![out[k].fd] = {}]
  /\ Go(k, Away)
  /\ UNCHANGED <<files, evars, wvars, fvars, pvars, lvars, uvars>>

\* ensure_timeout_cached in co_socket: what is cached already is kept.
NewMeta(d) == IF meta[d] = 0 THEN files + 1 ELSE meta[d]

\* sync_fd_metadata_on_dup: the entry of a number co_accept or co_dup returned
\* is overwritten, with the timeouts the new socket has from its source.
SyncedMeta == files + 1

\* co_socket, co_accept, co_dup: a file gets the number.
Open(d) ==
  /\ file[d] = 0 /\ files < MaxFiles
  /\ files' = files + 1
  /\ file' = [file EXCEPT ![d] = files + 1]
  /\ \E m \in {NewMeta(d), SyncedMeta} : meta' = [meta EXCEPT ![d] = m]
  /\ UNCHANGED <<ready, interest, slot, registered, wvars, fvars, pvars, lvars, uvars, out>>

\* The peer sends, reads, or breaks the connection.  Nobody can tell
\* readiness that came before a call from readiness that came as it began.
PeerActs(d, r) ==
  /\ file[d] # 0 /\ r \notin ready[d]
  /\ \E f \in Fibers : call[f] # NoCall /\ call[f].fd = d /\ Dir(call[f].op) = r
  /\ ready' = [ready EXCEPT ![d] = @ \cup {r}]
  /\ UNCHANGED <<file, files, interest, evars, wvars, fvars, pvars, lvars, uvars, out>>

-----------------------------------------------------------------------------
FiberStep(f) ==
  \/ Moves(f) \/ Fails(f) \/ Blocks(f) \/ RegisterWaiter(f) \/ RegisterFails(f)
  \/ Park(f)

Loop ==
  \/ Switch \/ Drop \/ Dispatch \/ Drained \/ TimersDone \/ EpollReturns \/ ConsumeRead \/ ConsumeStore
  \/ HandleIoReady \/ PollDone \/ \E d \in Fds : TakeEvent(d)

GoesOn(k) ==
  \/ RaiseFlag(k) \/ WriteFd(k) \/ CancelResume(k) \/ EraseMeta(k) \/ CloseFd(k)
  \/ \E f \in Fibers, n \in 1..MaxWaits : CancelWaiter(k, <<f, n>>)

Next ==
  \/ Loop
  \/ \E f \in Fibers : FiberStep(f) \/ Finish(f)
  \/ \E f \in Fibers, d \in Fds, op \in Ops, timed \in BOOLEAN : Begin(f, d, op, timed)
  \/ \E f \in Fibers, n \in 1..MaxWaits : TimerDue(<<f, n>>)
  \/ \E k \in Outsiders : GoesOn(k) \/ \E d \in Fds : CancelFd(k, d)
  \/ \E d \in Fds : Open(d) \/ \E r \in Dirs : PeerActs(d, r)

Spec == Init /\ [][Next]_vars

(* Threads keep running, a fiber goes on with a call and ends,            *)
(* and a deadline passes.  Nobody has to call, to close or to send.        *)
FairSpec ==
  /\ Spec
  /\ WF_vars(Loop)
  /\ WF_vars(\E f \in Fibers : FiberStep(f))
  /\ SF_vars(\E f \in Fibers : Finish(f))
  /\ SF_vars(\E f \in Fibers, n \in 1..MaxWaits : TimerDue(<<f, n>>))
  /\ WF_vars(\E k \in Outsiders : GoesOn(k))

-----------------------------------------------------------------------------
(* A resume that is on its way belongs to the wait it was won from: the    *)
(* timer, the readiness and a cancellation compete for waiter->active, and *)
(* the loser or a late winner never resumes a later wait of the fiber.     *)
(* Not claimed of a fiber that was resumed inside its swap: its second     *)
(* run-queue entry ends a later wait, and the resume of that one is late.  *)
ResumesItsOwnWait ==
  \A k \in Outsiders : out[k].pc = "resume" /\ out[k].whom[1] \notin twice =>
     LET f == out[k].whom[1]
     IN  /\ out[k].whom = Waiter(f) /\ call[f] # NoCall
         /\ state[f] = "waiting" /\ pc[f] \in {"registered", "parked"}

(* What is remembered under a descriptor number is about the file that has *)
(* the number now: a listed waiter of an open descriptor is watched by the *)
(* kernel in its direction, and cached timeouts are those of this file.    *)
DescriptorsAreOwn ==
  \A d \in Fds : file[d] # 0 =>
     /\ \A r \in Dirs : slot[d][r] \in active => r \in interest[d]
     /\ meta[d] \in {0, file[d]}

(* A loop that sleeps in epoll_wait with a fiber in its queue is woken: the *)
(* eventfd is readable, or whoever queued the fiber has yet to call wake() *)
(* or to write.  wake_pending_ never swallows the last wake.               *)
IdleIsWoken ==
  loop = "poll" /\ run_queue # <<>> =>
     wake_fd \/ \E k \in Outsiders : out[k].pc \in {"wake", "write"}

InWait(f) == pc[f] = "parked"

(* A wait ends when its time is over, and when its descriptor is closed,   *)
(* although timer, readiness and close race and numbers are reused.        *)
WaitsEnd ==
  \A f \in Fibers :
     (InWait(f) /\ Waiter(f) \in timers \cup failed) ~> ~InWait(f)
=============================================================================
