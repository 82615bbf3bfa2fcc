--------------------------- MODULE IoWait_proofs ---------------------------
(***************************************************************************)
(* Theorems about IoWait, for any number of fibers, descriptors, outsiders,*)
(* waits and files: a resume belongs to its own wait as long as the fiber  *)
(* was not queued a second time, a loop asleep in epoll_wait with work is  *)
(* woken, and, when no call meets a close, what is remembered under a      *)
(* descriptor number is about the file that has it.                        *)
(***************************************************************************)
EXTENDS IoWait, QueueLemmas, FiniteSetTheorems

W     == Fibers \X Nat
Calls == [op : Ops, fd : Fds, timed : BOOLEAN, left : Nat \ {0}]
Early == [pc : {"next", "close"}, fd : Fds, list : SUBSET W]
Late  == [pc : {"next", "close", "resume", "wake", "write"}, fd : Fds, list : SUBSET W, whom : W]

(* What each variable holds.                                               *)
TypeOK ==
  /\ file \in [Fds -> Nat] /\ files \in Nat
  /\ ready \in [Fds -> SUBSET Dirs]
  /\ interest \in [Fds -> SUBSET Dirs] /\ registered \in [Fds -> SUBSET Dirs]
  /\ slot \in [Fds -> [Dirs -> W \cup {None}]]
  /\ meta \in [Fds -> Nat]
  /\ active \subseteq W /\ failed \subseteq W /\ timers \subseteq W
  /\ turn \in [Fibers -> 0..MaxWaits]
  /\ call \in [Fibers -> Calls \cup {NoCall}]
  /\ pc \in [Fibers -> {"idle", "try", "prepared", "registered", "parked", "done"}]
  /\ state \in [Fibers -> {"ready", "running", "waiting", "done"}]
  /\ timed_out \in [Fibers -> BOOLEAN]
  /\ run_queue \in Seq(Fibers) /\ current \in Fibers \cup {None} /\ twice \subseteq Fibers
  /\ loop \in {"run", "timers", "again", "poll", "events"}
  /\ events \subseteq Fds \cup {None} /\ batch \in Seq(W)
  /\ wake_pending \in BOOLEAN /\ wake_fd \in BOOLEAN
  /\ out \in [Outsiders -> {Away} \cup Early \cup Late]

-----------------------------------------------------------------------------
(* Fibers and waiters                                                      *)

(* Where a fiber stands goes with who runs: only the current fiber is      *)
(* between two calls and the swap, and only while run_loop runs fibers.    *)
(* Here and below, what may fail once a fiber was resumed inside its swap  *)
(* is not said of the fibers in twice.                                     *)
PlacesOK ==
  /\ current # None => loop \in {"run", "again"}
  /\ \A f \in Fibers :
       /\ pc[f] \in {"try", "prepared", "registered"} => current = f
       /\ pc[f] \in {"try", "prepared", "registered", "parked"} => call[f] # NoCall
       /\ pc[f] = "prepared" /\ f \notin twice => state[f] = "waiting"
       /\ current = f /\ pc[f] \in {"idle", "try"} => state[f] = "running"

(* The run queue holds ready fibers, each once.                            *)
DistinctBut(s, T) == \A i, j \in DOMAIN s : s[i] = s[j] => i = j \/ s[i] \in T
QueueOK ==
  /\ DistinctBut(run_queue, twice)
  /\ \A f \in Members(run_queue) \ twice : state[f] = "ready"

(* An active waiter is that of its fiber's latest wait, which is not over. *)
ActiveOK ==
  \A w \in active : /\ w = Waiter(w[1])
                    /\ w[1] \notin twice => state[w[1]] = "waiting"
                    /\ pc[w[1]] \in {"prepared", "registered", "parked"}

(* Waiters the Epoller or a canceller has a pointer to have been registered. *)
WasRegistered(w) == /\ w[2] <= turn[w[1]]
                    /\ w[2] = turn[w[1]] => pc[w[1]] # "prepared"
ListedOK ==
  /\ \A d \in Fds, r \in Dirs : slot[d][r] # None => WasRegistered(slot[d][r])
  /\ \A k \in Outsiders : out[k].pc # "away" => \A w \in out[k].list : WasRegistered(w)

(* Who has taken a waiter's token is the only one who has, and the wait is *)
(* still the one the token stood for.                                      *)
Resumes(k, f) == out[k].pc = "resume" /\ out[k].whom[1] = f
ClaimsOK ==
  /\ \A k \in Outsiders : out[k].pc = "resume" /\ out[k].whom[1] \notin twice =>
       LET f == out[k].whom[1]
       IN  /\ out[k].whom = Waiter(f) /\ out[k].whom \notin active
           /\ state[f] = "waiting" /\ pc[f] \in {"registered", "parked"}
  /\ \A k, m \in Outsiders, f \in Fibers \ twice : Resumes(k, f) /\ Resumes(m, f) => k = m

WaitInv == PlacesOK /\ QueueOK /\ ActiveOK /\ ListedOK /\ ClaimsOK

-----------------------------------------------------------------------------
(* Descriptors                                                             *)

(* The kernel's set is what registered_events says, and has every listed   *)
(* waiter that is still to be resumed.                                     *)
InterestOK ==
  \A d \in Fds :
    /\ interest[d] = registered[d]
    /\ file[d] # 0 => \A r \in Dirs : slot[d][r] \in active => r \in registered[d]

(* A number that is closed, or being closed by one outsider, has no waiter, *)
(* no interest, and no call in progress that would come back to it.        *)
Gone(d) == Closing(d) \/ file[d] = 0
GoneOK ==
  \A d \in Fds : Gone(d) => registered[d] = {} /\ \A r \in Dirs : slot[d][r] = None
LastWaits ==
  \A d \in Fds, f \in Fibers : Gone(d) /\ call[f] # NoCall /\ call[f].fd = d =>
    pc[f] \in {"registered", "parked"} /\ Waiter(f) \in failed
CloserOK ==
  /\ \A k \in Outsiders : out[k].pc # "away" => file[out[k].fd] # 0
  /\ \A k, m \in Outsiders : out[k].pc # "away" /\ out[m].pc # "away" /\ out[k].fd = out[m].fd
       => k = m

(* Cached timeouts are those of the file, and forgotten before it closes.  *)
MetaOK ==
  /\ \A d \in Fds : meta[d] \in {0, file[d]}
  /\ \A k \in Outsiders : out[k].pc = "close" => meta[out[k].fd] = 0

FdInv == InterestOK /\ GoneOK /\ LastWaits /\ CloserOK /\ MetaOK

-----------------------------------------------------------------------------
(* The eventfd                                                             *)

(* A raised flag stands for a write: done, to be done, or being consumed.  *)
FlagOK ==
  wake_pending => \/ wake_fd
                  \/ \E k \in Outsiders : out[k].pc = "write"
                  \/ loop = "events" /\ None \in events

WakeInv == FlagOK /\ IdleIsWoken

(* One step keeps the flag and the sleep in epoll_wait right, whichever    *)
(* thread takes it.                                                        *)
LEMMA WakeStep ==
  ASSUME TypeOK, WakeInv, [Next]_vars
  PROVE  WakeInv'
<1> DEFINE wv == <<wake_pending, wake_fd, loop, events, run_queue, out>>
<1> USE DEF WakeInv, FlagOK, IdleIsWoken, TypeOK
<1>0. CASE UNCHANGED wv
  BY <1>0
<1>1. CASE UNCHANGED vars
  BY <1>0, <1>1 DEF vars, uvars, lvars, pvars
<1>2. CASE Loop
  <2>1. CASE Switch
    BY <2>1 DEF Switch, lvars, uvars
  <2>2. CASE Drained
    BY <2>2 DEF Drained, pvars, uvars
  <2>3. CASE TimersDone
    BY <2>3 DEF TimersDone, pvars, uvars
  <2>4. CASE EpollReturns
    BY <2>4 DEF EpollReturns, pvars, uvars
  <2>5. CASE ConsumeRead
    BY <2>5 DEF ConsumeRead, pvars, lvars
  <2>6. CASE ConsumeStore
    BY <2>6 DEF ConsumeStore, pvars
  <2>7. CASE HandleIoReady
    BY <2>7 DEF HandleIoReady, WakeHere, uvars
  <2>8. CASE PollDone
    BY <2>8 DEF PollDone, pvars, uvars
  <2>9. ASSUME NEW d \in Fds, TakeEvent(d) PROVE WakeInv'
    BY <2>9, NoneAssumption DEF TakeEvent, pvars, uvars
  <2>10. CASE Drop
    BY <2>10 DEF Drop, lvars, uvars
  <2>11. CASE Dispatch
    BY <2>11 DEF Dispatch, WakeHere, lvars, uvars
  <2> QED BY <1>2, <2>1, <2>2, <2>3, <2>4, <2>5, <2>6, <2>7, <2>8, <2>9, <2>10, <2>11 DEF Loop
<1>3. ASSUME NEW f \in Fibers, FiberStep(f) \/ Finish(f) PROVE WakeInv'
  <2>1. CASE Park(f)
    BY <2>1 DEF Park, WakeHere, uvars, pvars, lvars
  <2>2. CASE Moves(f) \/ Fails(f) \/ Blocks(f) \/ RegisterWaiter(f) \/ RegisterFails(f) \/ Finish(f)
    BY <2>2, <1>0 DEF Moves, Fails, Blocks, RegisterWaiter, RegisterFails, Finish, pvars, lvars, uvars
  <2> QED BY <1>3, <2>1, <2>2 DEF FiberStep
<1>4. ASSUME NEW f \in Fibers, NEW d \in Fds, NEW op \in Ops, NEW timed \in BOOLEAN,
             Begin(f, d, op, timed)
      PROVE  WakeInv'
  BY <1>4, <1>0 DEF Begin, pvars, lvars, uvars
<1>5. ASSUME NEW w, TimerDue(w) PROVE WakeInv'
  BY <1>5 DEF TimerDue, WakeHere, uvars, lvars
<1>6. ASSUME NEW k \in Outsiders, GoesOn(k) PROVE WakeInv'
  <2>1. CASE RaiseFlag(k)
    BY <2>1 DEF RaiseFlag, Go, pvars, lvars, Away, Early, Late
  <2>2. CASE WriteFd(k)
    BY <2>2 DEF WriteFd, Go, pvars, lvars, Away, Early, Late
  <2>3. CASE CancelResume(k)
    BY <2>3 DEF CancelResume, Resume, Go, lvars, uvars, Away, Early, Late
  <2>4. CASE EraseMeta(k)
    BY <2>4 DEF EraseMeta, Go, pvars, lvars, uvars, Away, Early, Late
  <2>6. CASE CloseFd(k)
    BY <2>6 DEF CloseFd, Go, pvars, lvars, uvars, Away, Early, Late
  <2>5. ASSUME NEW w, CancelWaiter(k, w) PROVE WakeInv'
    BY <2>5 DEF CancelWaiter, Go, pvars, lvars, uvars, Away, Early, Late
  <2> QED BY <1>6, <2>1, <2>2, <2>3, <2>4, <2>5, <2>6 DEF GoesOn
<1>7. ASSUME NEW k \in Outsiders, NEW d \in Fds, CancelFd(k, d) PROVE WakeInv'
  BY <1>7 DEF CancelFd, Go, pvars, lvars, uvars, Away, Early, Late
<1>8. ASSUME NEW d \in Fds, Open(d) \/ \E r \in Dirs : PeerActs(d, r) PROVE WakeInv'
  BY <1>8, <1>0 DEF Open, PeerActs, pvars, lvars, uvars
<1> HIDE DEF WakeInv, FlagOK, IdleIsWoken, TypeOK
<1> QED BY <1>1, <1>2, <1>3, <1>4, <1>5, <1>6, <1>7, <1>8 DEF Next

-----------------------------------------------------------------------------
(* Types                                                                   *)

(* Waits is the largest turn.                                              *)
LEMMA WaitsIsLargest ==
  ASSUME TypeOK, NEW f \in Fibers
  PROVE  /\ Waits \in 0..MaxWaits
         /\ \A g \in Fibers : turn[g] <= Waits
<1> DEFINE T == {turn[g] : g \in Fibers}
           I == {t + 1 : t \in T}
<1>1. T \subseteq 0..MaxWaits /\ MaxWaits \in Nat
  BY BoundsAssumption DEF TypeOK
<1>2. I \subseteq 1..(MaxWaits + 1) /\ I # {} /\ MaxWaits + 1 \in Nat
  BY <1>1, SMTT(30)
<1>3. PICK i \in I : \A j \in I : j <= i
  BY <1>2, MaxOfInterval
<1>4. PICK t \in T : i = t + 1
  BY <1>3
<1>5. \A u \in T : u + 1 \in I /\ u \in Nat
  BY <1>1
<1>6. ASSUME NEW u \in T PROVE t >= u
  <2> HIDE DEF T, I
  <2>1. u + 1 \in I /\ u \in Nat /\ t \in Nat
    BY <1>5
  <2>2. u + 1 <= t + 1
    BY <2>1, <1>3, <1>4
  <2> QED BY <2>1, <2>2
<1>7. Waits \in T /\ \A u \in T : Waits >= u
  BY <1>6 DEF Waits, Max
<1> QED BY <1>1, <1>7

(* Unregistering a waiter keeps the Epoller's types.                       *)
LEMMA UnregisterType ==
  ASSUME TypeOK, NEW d \in Fds, NEW w, Unregister(d, w)
  PROVE  /\ slot' \in [Fds -> [Dirs -> W \cup {None}]]
         /\ interest' \in [Fds -> SUBSET Dirs]
         /\ registered' \in [Fds -> SUBSET Dirs]
<1>1. Without(d, w) \in [Dirs -> W \cup {None}]
  BY DEF TypeOK, Without
<1>2. \A s : Desired(s) \subseteq Dirs
  BY DEF Desired
<1>3. slot' = slot \/ slot' = [slot EXCEPT ![d] = Without(d, w)]
  BY DEF Unregister
<1>4. PICK D \in SUBSET Dirs :
        /\ interest' = interest \/ interest' = [interest EXCEPT ![d] = D]
        /\ registered' = registered \/ registered' = [registered EXCEPT ![d] = D]
  BY <1>2 DEF Unregister, UpdateInterest
<1>5. slot' \in [Fds -> [Dirs -> W \cup {None}]]
  BY <1>1, <1>3 DEF TypeOK
<1>6. interest' \in [Fds -> SUBSET Dirs] /\ registered' \in [Fds -> SUBSET Dirs]
  BY <1>4 DEF TypeOK
<1> QED BY <1>5, <1>6

(* Resuming a fiber keeps the types of what it changes.                    *)
LEMMA ResumeType ==
  ASSUME TypeOK, NEW f \in Fibers, NEW late \in BOOLEAN, Resume(f, late)
  PROVE  /\ state' \in [Fibers -> {"ready", "running", "waiting", "done"}]
         /\ timed_out' \in [Fibers -> BOOLEAN]
         /\ run_queue' \in Seq(Fibers)
<1>1. run_queue' = run_queue \/ run_queue' = Append(run_queue, f)
  BY DEF Resume
<1>2. run_queue \in Seq(Fibers)
  BY DEF TypeOK
<1>3. run_queue' \in Seq(Fibers)
  BY <1>1, <1>2
<1> QED BY <1>3 DEF TypeOK, Resume

(* Each step of an outsider leaves it in a known place.                    *)
LEMMA OutType ==
  ASSUME TypeOK, NEW k \in Outsiders, NEW o \in {Away} \cup Early \cup Late, Go(k, o)
  PROVE  out' \in [Outsiders -> {Away} \cup Early \cup Late]
BY DEF TypeOK, Go

(* A fiber that is in a call has a real one.                               *)
LEMMA InCall ==
  ASSUME TypeOK, PlacesOK, NEW f \in Fibers,
         pc[f] \in {"try", "prepared", "registered", "parked"}
  PROVE  call[f] \in Calls
BY DEF TypeOK, PlacesOK

(* Fibers' own steps keep the types.                                       *)
LEMMA FiberTypes ==
  ASSUME TypeOK, PlacesOK, NEW f \in Fibers,
         \/ FiberStep(f) \/ Finish(f)
         \/ \E d \in Fds, op \in Ops, timed \in BOOLEAN : Begin(f, d, op, timed)
  PROVE  TypeOK'
<1>1. CASE \E d \in Fds, op \in Ops, timed \in BOOLEAN : Begin(f, d, op, timed)
  <2>1. PICK d \in Fds, op \in Ops, timed \in BOOLEAN : Begin(f, d, op, timed)
    BY <1>1
  <2>2. [op |-> op, fd |-> d, timed |-> timed, left |->
                IF op \in {"recvn", "send"} THEN Wanted ELSE 1] \in Calls
    BY BoundsAssumption DEF Calls
  <2>3. meta' \in [Fds -> Nat]
    <3>1. meta' = meta \/ meta' = [meta EXCEPT ![d] = IF @ = 0 THEN file[d] ELSE @]
      BY <2>1 DEF Begin, EnsureCached
    <3>2. file[d] \in Nat /\ meta \in [Fds -> Nat]
      BY DEF TypeOK
    <3> QED BY <3>1, <3>2
  <2> QED BY <2>1, <2>2, <2>3 DEF TypeOK, Begin, To, kvars, wvars, pvars, lvars, uvars
<1>2. CASE Moves(f)
  <2>1. call[f] \in Calls
    BY <1>2, InCall DEF Moves, Runs
  <2>2. call' \in [Fibers -> Calls \cup {NoCall}]
    <3>1. CASE call[f].left = 1
      BY <1>2, <3>1 DEF Moves, Return, TypeOK
    <3>2. CASE call[f].left # 1
      <4>1. call' = [call EXCEPT ![f].left = @ - 1]
        BY <1>2, <3>2 DEF Moves
      <4>2. [call[f] EXCEPT !.left = @ - 1] \in Calls
        BY <3>2, <2>1 DEF Calls
      <4> QED BY <4>1, <4>2 DEF TypeOK
    <3> QED BY <3>1, <3>2
  <2>3. pc' \in [Fibers -> {"idle", "try", "prepared", "registered", "parked", "done"}]
    BY <1>2 DEF Moves, Return, TypeOK
  <2>4. ready' \in [Fds -> SUBSET Dirs]
    BY <1>2, <2>1 DEF Moves, TypeOK, Calls
  <2> QED BY <1>2, <2>2, <2>3, <2>4 DEF TypeOK, Moves, evars, wvars, pvars, lvars, uvars
<1>3. CASE Fails(f)
  BY <1>3 DEF TypeOK, Fails, Return, kvars, evars, wvars, pvars, lvars, uvars
<1>4. CASE Blocks(f)
  <2>1. Waits \in Nat /\ Waits + 1 \in 0..MaxWaits /\ <<f, Waits + 1>> \in W
    BY <1>4, WaitsIsLargest, BoundsAssumption DEF Blocks, W
  <2> QED BY <1>4, <2>1 DEF TypeOK, Blocks, To, kvars, evars, pvars, lvars, uvars
<1>5. CASE RegisterWaiter(f)
  <2> DEFINE d == call[f].fd
             s == Entered(d, Dir(call[f].op), Waiter(f))
  <2>1. call[f] \in Calls /\ d \in Fds
    BY <1>5, InCall DEF RegisterWaiter, Runs, Calls
  <2>2. Waiter(f) \in W
    BY BoundsAssumption DEF TypeOK, Waiter, W
  <2>3. s \in [Dirs -> W \cup {None}]
    BY <2>1, <2>2 DEF Entered, Swept, TypeOK
  <2>4. \A q : Desired(q) \subseteq Dirs
    BY DEF Desired
  <2>5. PICK D \in SUBSET Dirs :
        /\ interest' = interest \/ interest' = [interest EXCEPT ![d] = D]
        /\ registered' = registered \/ registered' = [registered EXCEPT ![d] = D]
    BY <1>5, <2>4 DEF RegisterWaiter, UpdateInterest
  <2>6. interest' \in [Fds -> SUBSET Dirs] /\ registered' \in [Fds -> SUBSET Dirs]
    BY <2>5 DEF TypeOK
  <2>7. slot' \in [Fds -> [Dirs -> W \cup {None}]]
    BY <1>5, <2>3 DEF TypeOK, RegisterWaiter
  <2> QED BY <1>5, <2>6, <2>7 DEF TypeOK, RegisterWaiter, To, pvars, lvars, uvars
<1>6. CASE RegisterFails(f)
  <2>1. call[f] \in Calls /\ call[f].fd \in Fds
    BY <1>6, InCall DEF RegisterFails, Runs, Calls
  <2>2. Swept(call[f].fd) \in [Dirs -> W \cup {None}]
    BY <2>1 DEF Swept, TypeOK
  <2>3. slot' \in [Fds -> [Dirs -> W \cup {None}]]
    BY <1>6, <2>2 DEF TypeOK, RegisterFails
  <2> QED BY <1>6, <2>3 DEF TypeOK, RegisterFails, Return, kvars, pvars, lvars, uvars
<1>7. CASE Park(f)
  <2>1. Waiter(f) \in W
    BY BoundsAssumption DEF TypeOK, Waiter, W
  <2> QED BY <1>7, <2>1 DEF TypeOK, Park, WakeHere, To, kvars, evars, uvars, pvars, lvars
<1>8. CASE Finish(f)
  BY <1>8 DEF TypeOK, Finish, To, kvars, evars, wvars, lvars, uvars
<1> QED BY <1>1, <1>2, <1>3, <1>4, <1>5, <1>6, <1>7, <1>8 DEF FiberStep

(* The steps of run_loop keep the types.                                   *)
LEMMA LoopTypes ==
  ASSUME TypeOK, PlacesOK, ActiveOK,
         Loop \/ \E f \in Fibers, n \in 1..MaxWaits : TimerDue(<<f, n>>)
  PROVE  TypeOK'
<1>1. CASE Switch
  <2> DEFINE f == Head(run_queue)
  <2>1. f \in Fibers /\ Tail(run_queue) \in Seq(Fibers)
    BY <1>1 DEF Switch, TypeOK
  <2>2. CASE pc[f] = "parked"
    <3>1. call[f] \in Calls /\ call[f].fd \in Fds
      BY <2>1, <2>2, InCall DEF Calls
    <3>2. AfterPark(f)
      BY <1>1, <2>2 DEF Switch
    <3>3. Unregister(call[f].fd, Waiter(f)) /\ active' \subseteq active /\ timers' \subseteq timers
      BY <3>2 DEF AfterPark
    <3>4. /\ pc' \in [Fibers -> {"idle", "try", "prepared", "registered", "parked", "done"}]
          /\ call' \in [Fibers -> Calls \cup {NoCall}]
      BY <2>1, <3>2 DEF AfterPark, Return, To, TypeOK
    <3> QED BY <1>1, <2>1, <3>1, <3>3, <3>4, UnregisterType DEF TypeOK, Switch, lvars, uvars
  <2>3. CASE pc[f] # "parked"
    BY <1>1, <2>1, <2>3 DEF TypeOK, Switch, lvars, uvars
  <2> QED BY <2>2, <2>3
<1>2. CASE Drained \/ TimersDone \/ PollDone
  BY <1>2 DEF TypeOK, Drained, TimersDone, PollDone, kvars, evars, wvars, fvars, pvars, uvars
<1>3. CASE EpollReturns
  BY <1>3 DEF TypeOK, EpollReturns, kvars, evars, wvars, fvars, pvars, uvars
<1>4. CASE ConsumeRead \/ ConsumeStore
  BY <1>4 DEF TypeOK, ConsumeRead, ConsumeStore, kvars, evars, wvars, fvars, pvars, lvars, uvars
<1>5. CASE HandleIoReady
  <2>1. Head(batch) \in W /\ Tail(batch) \in Seq(W) /\ Head(batch)[1] \in Fibers
    BY <1>5 DEF HandleIoReady, TypeOK, W
  <2>2. /\ state' \in [Fibers -> {"ready", "running", "waiting", "done"}]
        /\ timed_out' \in [Fibers -> BOOLEAN]
        /\ run_queue' \in Seq(Fibers)
    BY <1>5, <2>1, ResumeType DEF HandleIoReady, TypeOK
  <2>3. wake_pending' \in BOOLEAN /\ wake_fd' \in BOOLEAN
    BY <1>5 DEF HandleIoReady, TypeOK, WakeHere, uvars
  <2> QED BY <1>5, <2>1, <2>2, <2>3 DEF TypeOK, HandleIoReady, kvars, evars
<1>6. ASSUME NEW d \in Fds, TakeEvent(d) PROVE TypeOK'
  <2>1. PICK rs \in SUBSET Dirs \ {{}} :
       LET ws == {r \in rs : slot[d][r] # None}
           s  == [r \in Dirs |-> IF r \in rs THEN None ELSE slot[d][r]]
       IN  /\ slot' = [slot EXCEPT ![d] = s]
           /\ \E q \in [1..Cardinality(ws) -> ws] :
                batch' = batch \o [i \in DOMAIN q |-> slot[d][q[i]]]
           /\ UpdateInterest(d, s)
    BY <1>6 DEF TakeEvent
  <2> DEFINE ws == {r \in rs : slot[d][r] # None}
             s  == [r \in Dirs |-> IF r \in rs THEN None ELSE slot[d][r]]
  <2>2. s \in [Dirs -> W \cup {None}]
    BY DEF TypeOK
  <2>3. slot' \in [Fds -> [Dirs -> W \cup {None}]]
    BY <2>1, <2>2 DEF TypeOK
  <2>4. \A q : Desired(q) \subseteq Dirs
    BY DEF Desired
  <2>5. PICK D \in SUBSET Dirs :
        /\ interest' = interest \/ interest' = [interest EXCEPT ![d] = D]
        /\ registered' = registered \/ registered' = [registered EXCEPT ![d] = D]
    BY <2>1, <2>4 DEF UpdateInterest
  <2>6. interest' \in [Fds -> SUBSET Dirs] /\ registered' \in [Fds -> SUBSET Dirs]
    BY <2>5 DEF TypeOK
  <2>7. Cardinality(ws) \in Nat
    <3>1. IsFiniteSet({"in", "out"})
      <4>1. IsFiniteSet({"in"})
        BY FS_Singleton
      <4>2. IsFiniteSet({"in"} \cup {"out"})
        BY <4>1, FS_AddElement
      <4>3. {"in", "out"} = {"in"} \cup {"out"}
        OBVIOUS
      <4> QED BY <4>2, <4>3
    <3>2. IsFiniteSet(ws)
      BY <3>1, FS_Subset, ws \subseteq {"in", "out"} DEF Dirs
    <3> QED BY <3>2, FS_CardinalityType
  <2>8. batch' \in Seq(W)
    <3>1. PICK q \in [1..Cardinality(ws) -> ws] :
            batch' = batch \o [i \in DOMAIN q |-> slot[d][q[i]]]
      BY <2>1
    <3>2. \A r \in ws : slot[d][r] \in W
      BY DEF TypeOK
    <3> HIDE DEF ws
    <3> DEFINE t == [i \in DOMAIN q |-> slot[d][q[i]]]
    <3>3. t \in Seq(W)
      BY <2>7, <3>2
    <3>4. batch \in Seq(W)
      BY DEF TypeOK
    <3>5. batch' = batch \o t
      BY <3>1
    <3> HIDE DEF t
    <3> QED BY <3>3, <3>4, <3>5
  <2> QED BY <1>6, <2>3, <2>6, <2>8 DEF TypeOK, TakeEvent, fvars, pvars, uvars
<1>7. ASSUME NEW f \in Fibers, NEW n \in 1..MaxWaits, TimerDue(<<f, n>>) PROVE TypeOK'
  <2> DEFINE w == <<f, n>>
  <2>1. CASE w \in active
    <3>1. call[f] \in Calls /\ call[f].fd \in Fds
      BY <2>1, InCall DEF ActiveOK, Calls
    <3>2. Unregister(call[f].fd, w) /\ Resume(f, TRUE) /\ WakeHere
      BY <1>7, <2>1 DEF TimerDue
    <3> QED BY <1>7, <3>1, <3>2, UnregisterType, ResumeType DEF TypeOK, TimerDue, WakeHere, lvars
  <2>2. CASE w \notin active
    BY <1>7, <2>2 DEF TypeOK, TimerDue, lvars, uvars
  <2> QED BY <2>1, <2>2
<1>8. CASE Drop
  <2>1. Tail(run_queue) \in Seq(Fibers)
    BY <1>8 DEF Drop, TypeOK
  <2> QED BY <1>8, <2>1 DEF TypeOK, Drop, kvars, evars, wvars, fvars, lvars, uvars
<1>9. CASE Dispatch
  <2>1. current \in Fibers /\ Append(run_queue, current) \in Seq(Fibers)
    BY <1>9 DEF Dispatch, TypeOK
  <2>2. run_queue' \in Seq(Fibers) /\ twice' \subseteq Fibers /\ current' = None
    BY <1>9, <2>1 DEF Dispatch, TypeOK
  <2> QED BY <1>9, <2>2 DEF TypeOK, Dispatch, WakeHere, kvars, evars, wvars, fvars, lvars, uvars
<1> QED BY <1>1, <1>2, <1>3, <1>4, <1>5, <1>6, <1>7, <1>8, <1>9 DEF Loop

(* What outsiders and the kernel do keeps the types.                       *)
LEMMA OutsiderTypes ==
  ASSUME TypeOK, PlacesOK,
         \/ \E k \in Outsiders : GoesOn(k) \/ \E d \in Fds : CancelFd(k, d)
         \/ \E d \in Fds : Open(d) \/ \E r \in Dirs : PeerActs(d, r)
  PROVE  TypeOK'
<1>1. ASSUME NEW k \in Outsiders, RaiseFlag(k) \/ WriteFd(k) PROVE TypeOK'
  <2>1. out[k] \in Late
    <3>1. out[k] \in {Away} \cup Early \cup Late /\ out[k].pc \in {"wake", "write"}
      BY <1>1 DEF RaiseFlag, WriteFd, TypeOK
    <3> QED BY <3>1 DEF Away, Early
  <2>2. /\ [out[k] EXCEPT !.pc = IF wake_pending THEN "next" ELSE "write"] \in Late
        /\ [out[k] EXCEPT !.pc = "next"] \in Late
    BY <2>1 DEF Late
  <2>3. out' \in [Outsiders -> {Away} \cup Early \cup Late]
    BY <1>1, <2>2, OutType DEF RaiseFlag, WriteFd
  <2> QED BY <1>1, <2>3 DEF TypeOK, RaiseFlag, WriteFd, kvars, evars, wvars, fvars, pvars, lvars
<1>2. ASSUME NEW k \in Outsiders, CancelResume(k) PROVE TypeOK'
  <2>1. out[k] \in Late
    <3>1. out[k] \in {Away} \cup Early \cup Late /\ out[k].pc = "resume"
      BY <1>2 DEF CancelResume, TypeOK
    <3> QED BY <3>1 DEF Away, Early
  <2>2. [out[k] EXCEPT !.pc = "wake"] \in Late /\ out[k].whom[1] \in Fibers
    BY <2>1 DEF Late, W
  <2>3. out' \in [Outsiders -> {Away} \cup Early \cup Late]
    BY <1>2, <2>2, OutType DEF CancelResume
  <2> QED BY <1>2, <2>2, <2>3, ResumeType DEF TypeOK, CancelResume, kvars, evars, wvars, lvars, uvars
<1>3. ASSUME NEW k \in Outsiders, EraseMeta(k) PROVE TypeOK'
  <2>1. out[k] \in Early \cup Late
    BY <1>3 DEF EraseMeta, TypeOK, Away
  <2>2. [out[k] EXCEPT !.pc = "close"] \in Early \cup Late /\ out[k].fd \in Fds
    BY <2>1 DEF Late, Early
  <2>3. out' \in [Outsiders -> {Away} \cup Early \cup Late]
    BY <1>3, <2>2, OutType DEF EraseMeta
  <2> QED BY <1>3, <2>2, <2>3 DEF TypeOK, EraseMeta, kvars, wvars, fvars, pvars, lvars, uvars
<1>4. ASSUME NEW k \in Outsiders, CloseFd(k) PROVE TypeOK'
  <2>1. out[k] \in Early \cup Late
    BY <1>4 DEF CloseFd, TypeOK, Away
  <2>2. out[k].fd \in Fds
    BY <2>1 DEF Late, Early
  <2>3. out' \in [Outsiders -> {Away} \cup Early \cup Late]
    BY <1>4, OutType DEF CloseFd
  <2> QED BY <1>4, <2>2, <2>3 DEF TypeOK, CloseFd, evars, wvars, fvars, pvars, lvars, uvars
<1>5. ASSUME NEW k \in Outsiders, NEW f \in Fibers, NEW n \in 1..MaxWaits, CancelWaiter(k, <<f, n>>)
      PROVE  TypeOK'
  <2> DEFINE w == <<f, n>>
             o == [pc |-> IF w \in active THEN "resume" ELSE "next", fd |-> out[k].fd,
                   list |-> out[k].list \ {w}, whom |-> w]
  <2>1. out[k] \in Early \cup Late /\ w \in W
    BY <1>5 DEF CancelWaiter, TypeOK, Away, W
  <2>2. out[k].fd \in Fds /\ out[k].list \in SUBSET W
    BY <2>1 DEF Late, Early
  <2>3. o \in Late
    BY <2>1, <2>2 DEF Late
  <2>4. Go(k, o)
    BY <1>5 DEF CancelWaiter
  <2>5. out' \in [Outsiders -> {Away} \cup Early \cup Late]
    BY <2>3, <2>4, OutType
  <2> QED BY <1>5, <2>5 DEF TypeOK, CancelWaiter, kvars, evars, fvars, pvars, lvars, uvars
<1>6. ASSUME NEW k \in Outsiders, NEW d \in Fds, CancelFd(k, d) PROVE TypeOK'
  <2> DEFINE ws == {slot[d][r] : r \in Dirs} \ {None}
             o == [pc |-> "next", fd |-> d, list |-> ws]
  <2>1. ws \in SUBSET W
    BY DEF TypeOK
  <2>2. o \in Early
    BY <2>1 DEF Early
  <2>3. Go(k, o) /\ failed' = failed \cup ws
    BY <1>6 DEF CancelFd
  <2>4. out' \in [Outsiders -> {Away} \cup Early \cup Late]
    BY <2>2, <2>3, OutType
  <2>5. failed' \subseteq W
    BY <2>1, <2>3 DEF TypeOK
  <2> QED BY <1>6, <2>4, <2>5 DEF TypeOK, CancelFd, fvars, pvars, lvars, uvars
<1>7. ASSUME NEW d \in Fds, Open(d) PROVE TypeOK'
  <2>1. \A m \in {NewMeta(d), SyncedMeta} : m \in Nat
    BY DEF NewMeta, SyncedMeta, TypeOK
  <2> QED BY <1>7, <2>1 DEF TypeOK, Open, wvars, fvars, pvars, lvars, uvars
<1>8. ASSUME NEW d \in Fds, NEW r \in Dirs, PeerActs(d, r) PROVE TypeOK'
  BY <1>8 DEF TypeOK, PeerActs, evars, wvars, fvars, pvars, lvars, uvars
<1> QED BY <1>1, <1>2, <1>3, <1>4, <1>5, <1>6, <1>7, <1>8 DEF GoesOn

(* Every step keeps the types.                                             *)
LEMMA TypeStep ==
  ASSUME TypeOK, PlacesOK, ActiveOK, [Next]_vars
  PROVE  TypeOK'
<1>1. CASE UNCHANGED vars
  BY <1>1 DEF TypeOK, vars, kvars, evars, wvars, fvars, pvars, lvars, uvars
<1> QED BY <1>1, FiberTypes, LoopTypes, OutsiderTypes DEF Next

-----------------------------------------------------------------------------
(* Waits                                                                   *)

(* Steps that begin no wait keep what is listed, given where new entries   *)
(* come from.                                                              *)
LEMMA ListedKept ==
  ASSUME TypeOK, ListedOK, turn' = turn,
         \A f \in Fibers : pc'[f] = "prepared" => pc[f] = "prepared",
         \A d \in Fds, r \in Dirs : slot'[d][r] \in {None, slot[d][r]},
         \A k \in Outsiders : out'[k].pc # "away" =>
            \A w \in out'[k].list :
               w \in W /\ (WasRegistered(w) \/ (out[k].pc # "away" /\ w \in out[k].list))
  PROVE  ListedOK'
<1>1. ASSUME NEW w \in W, WasRegistered(w) PROVE WasRegistered(w)'
  BY <1>1 DEF WasRegistered, W
<1>2. ASSUME NEW d \in Fds, NEW r \in Dirs, slot'[d][r] # None
      PROVE  WasRegistered(slot[d][r])' /\ slot'[d][r] = slot[d][r]
  <2>1. slot'[d][r] = slot[d][r] /\ slot[d][r] \in W
    BY <1>2 DEF TypeOK
  <2>2. WasRegistered(slot[d][r])
    BY <1>2, <2>1 DEF ListedOK
  <2> QED BY <2>1, <2>2, <1>1 DEF WasRegistered
<1>3. ASSUME NEW k \in Outsiders, out'[k].pc # "away", NEW w \in out'[k].list
      PROVE  WasRegistered(w)'
  BY <1>3, <1>1 DEF ListedOK
<1> QED BY <1>2, <1>3 DEF ListedOK, WasRegistered

(* A queue grows by an element that is fresh or may repeat.                *)
LEMMA AppendBut ==
  ASSUME NEW S, NEW s \in Seq(S), NEW e \in S, NEW T, DistinctBut(s, T),
         e \in T \/ e \notin Members(s)
  PROVE  DistinctBut(Append(s, e), T)
BY DEF DistinctBut, Members

(* A queue without its head repeats nothing new.                           *)
LEMMA TailBut ==
  ASSUME NEW S, NEW s \in Seq(S), s # <<>>, NEW T, DistinctBut(s, T)
  PROVE  /\ DistinctBut(Tail(s), T)
         /\ Head(s) \in T \/ Head(s) \notin Members(Tail(s))
<1>1. DistinctBut(Tail(s), T)
  BY DEF DistinctBut
<1>2. ASSUME NEW i \in DOMAIN Tail(s), Tail(s)[i] = Head(s) PROVE Head(s) \in T
  <2>1. i + 1 \in DOMAIN s /\ 1 \in DOMAIN s /\ s[i + 1] = s[1] /\ i + 1 # 1 /\ s[1] = Head(s)
    BY <1>2
  <2> QED BY <2>1 DEF DistinctBut
<1> QED BY <1>1, <1>2 DEF Members

(* A fiber whose token was taken is resumed: nothing else refers to that   *)
(* wait, and it enters the run queue once.                                 *)
LEMMA ResumeKeeps ==
  ASSUME TypeOK, TypeOK', WaitInv, NEW f \in Fibers, NEW late \in BOOLEAN, Resume(f, late),
         f \notin twice => state[f] = "waiting" /\ pc[f] # "prepared",
         UNCHANGED <<pc, call, current, loop, turn, twice>>,
         active' \subseteq active, f \notin twice => Waiter(f) \notin active',
         \A k \in Outsiders : out'[k].pc = "resume" =>
            out'[k] = out[k] /\ (f \notin twice => ~Resumes(k, f))
  PROVE  PlacesOK' /\ QueueOK' /\ ActiveOK' /\ ClaimsOK'
<1> USE DEF WaitInv
<1>0. /\ state \in [Fibers -> {"ready", "running", "waiting", "done"}]
      /\ run_queue \in Seq(Fibers)
  BY DEF TypeOK
<1>1. /\ \A g \in Fibers \ {f} : state'[g] = state[g]
      /\ state[f] # "waiting" => state' = state /\ run_queue' = run_queue
      /\ state[f] = "waiting" => state'[f] = "ready" /\ run_queue' = Append(run_queue, f)
  BY <1>0 DEF Resume
<1>2. DistinctBut(run_queue', twice) /\ Members(run_queue') \subseteq Members(run_queue) \cup {f}
  <2>1. CASE state[f] # "waiting"
    BY <1>1, <2>1 DEF QueueOK
  <2>2. CASE state[f] = "waiting"
    <3>1. f \in twice \/ f \notin Members(run_queue)
      BY <2>2 DEF QueueOK
    <3>2. DistinctBut(Append(run_queue, f), twice)
      BY <1>0, <3>1, AppendBut DEF QueueOK
    <3>3. Members(Append(run_queue, f)) = Members(run_queue) \cup {f}
      BY <1>0, MembersAppend
    <3> QED BY <1>1, <2>2, <3>2, <3>3
  <2> QED BY <2>1, <2>2
<1>3. Members(run_queue) \subseteq Fibers
  BY <1>0 DEF Members
<1>4. QueueOK'
  <2>1. ASSUME NEW g \in Members(run_queue') \ twice PROVE state'[g] = "ready"
    BY <1>1, <1>2, <1>3, <2>1 DEF QueueOK
  <2> QED BY <2>1, <1>2 DEF QueueOK
<1>5. PlacesOK'
  BY <1>1 DEF PlacesOK
<1>6. ActiveOK'
  <2>1. ASSUME NEW w \in active' PROVE w[1] \in Fibers /\ w \in active /\ (w[1] \in twice \/ w[1] # f)
    BY DEF ActiveOK, TypeOK, W
  <2> QED BY <1>1, <2>1 DEF ActiveOK, Waiter
<1>7. ClaimsOK'
  <2>1. ASSUME NEW k \in Outsiders, out'[k].pc = "resume", out'[k].whom[1] \notin twice
        PROVE  LET g == out'[k].whom[1]
               IN  /\ out'[k].whom = <<g, turn[g]>> /\ out'[k].whom \notin active'
                   /\ state'[g] = "waiting" /\ pc[g] \in {"registered", "parked"}
    <3>1. out'[k] = out[k] /\ out[k].pc = "resume" /\ out[k].whom[1] # f
      BY <2>1 DEF Resumes
    <3>2. out[k] \in {Away} \cup Early \cup Late
      BY DEF TypeOK
    <3>3. out[k].whom[1] \in Fibers
      BY <3>1, <3>2 DEF Away, Early, Late, W
    <3> QED BY <1>1, <2>1, <3>1, <3>3 DEF ClaimsOK, Waiter
  <2>2. ASSUME NEW k \in Outsiders, NEW m \in Outsiders, NEW g \in Fibers \ twice,
               Resumes(k, g)', Resumes(m, g)'
        PROVE  k = m
    BY <2>2 DEF ClaimsOK, Resumes
  <2> QED BY <2>1, <2>2 DEF ClaimsOK, Waiter, Resumes
<1> QED BY <1>4, <1>5, <1>6, <1>7

(* Taking waiters out of the slots of one descriptor leaves the rest alone. *)
LEMMA SlotsEmptied ==
  ASSUME TypeOK, NEW d, NEW s, slot' = slot \/ slot' = [slot EXCEPT ![d] = s],
         \A r \in Dirs : s[r] \in {None, slot[d][r]}
  PROVE  \A e \in Fds, r \in Dirs : slot'[e][r] \in {None, slot[e][r]}
<1> SUFFICES ASSUME NEW e \in Fds, NEW r \in Dirs PROVE slot'[e][r] \in {None, slot[e][r]}
  OBVIOUS
<1>1. DOMAIN slot = Fds
  BY DEF TypeOK
<1>2. CASE e = d
  BY <1>1, <1>2
<1>3. CASE e # d
  BY <1>1, <1>3
<1> QED BY <1>2, <1>3

(* A fiber nobody has claimed goes on: claims on others stay what they are. *)
LEMMA ClaimsOfOthers ==
  ASSUME TypeOK, ClaimsOK, out' = out, twice' = twice, NEW f \in Fibers,
         f \in twice \/ pc[f] \notin {"registered", "parked"} \/ state[f] # "waiting",
         \A g \in Fibers \ {f} : turn'[g] = turn[g] /\ state'[g] = state[g] /\ pc'[g] = pc[g],
         \A w \in active' : w \in active \/ w[1] = f
  PROVE  ClaimsOK'
<1>1. ASSUME NEW k \in Outsiders, out[k].pc = "resume", out[k].whom[1] \notin twice
      PROVE  out[k].whom[1] \in Fibers \ {f}
  <2>1. out[k] \in {Away} \cup Early \cup Late
    BY DEF TypeOK
  <2>2. out[k].whom[1] \in Fibers
    BY <1>1, <2>1 DEF Away, Early, Late, W
  <2> QED BY <1>1, <2>2 DEF ClaimsOK
<1>2. ASSUME NEW k \in Outsiders, out[k].pc = "resume", out[k].whom[1] \notin twice
      PROVE  LET g == out[k].whom[1]
             IN  /\ out[k].whom = <<g, turn'[g]>> /\ out[k].whom \notin active'
                 /\ state'[g] = "waiting" /\ pc'[g] \in {"registered", "parked"}
  BY <1>1, <1>2 DEF ClaimsOK, Waiter
<1> QED BY <1>2 DEF ClaimsOK, Waiter, Resumes

(* The same for the waiters that are active.                               *)
LEMMA ActiveOfOthers ==
  ASSUME TypeOK, ActiveOK, twice' = twice, NEW f \in Fibers,
         \A g \in Fibers \ {f} : turn'[g] = turn[g] /\ state'[g] = state[g] /\ pc'[g] = pc[g],
         active' \subseteq active \ {Waiter(f)}
  PROVE  ActiveOK'
<1>1. ASSUME NEW w \in active' PROVE w \in active /\ w[1] \in Fibers \ {f}
  BY DEF ActiveOK, TypeOK, W
<1> QED BY <1>1 DEF ActiveOK, Waiter

(* A fiber that is not queued may change its state.                        *)
LEMMA QueueOfOthers ==
  ASSUME TypeOK, QueueOK, run_queue' = run_queue, twice' = twice, NEW f \in Fibers,
         f \in twice \/ state[f] # "ready",
         \A g \in Fibers \ {f} : state'[g] = state[g]
  PROVE  QueueOK'
<1>1. \A g \in Members(run_queue) : g \in Fibers
  BY DEF Members, TypeOK
<1> QED BY <1>1 DEF QueueOK

(* Fibers' own steps keep waits apart.                                     *)
LEMMA FiberWaits ==
  ASSUME TypeOK, TypeOK', WaitInv, NEW f \in Fibers,
         \/ FiberStep(f) \/ Finish(f)
         \/ \E d \in Fds, op \in Ops, timed \in BOOLEAN : Begin(f, d, op, timed)
  PROVE  WaitInv'
<1> USE DEF WaitInv
<1>0. /\ pc \in [Fibers -> {"idle", "try", "prepared", "registered", "parked", "done"}]
      /\ state \in [Fibers -> {"ready", "running", "waiting", "done"}]
      /\ call \in [Fibers -> Calls \cup {NoCall}]
      /\ turn \in [Fibers -> 0..MaxWaits] /\ MaxWaits \in Nat
  BY BoundsAssumption DEF TypeOK
<1>o. \A k \in Outsiders : out[k].pc # "away" => \A w \in out[k].list : w \in W
  <2>1. \A k \in Outsiders : out[k] \in {Away} \cup Early \cup Late
    BY DEF TypeOK
  <2> QED BY <2>1 DEF Away, Early, Late
<1>a. ASSUME turn' = turn, state' = state, active' = active, run_queue' = run_queue, out' = out,
             slot' = slot, current' = current, twice' = twice, loop' = loop, pc[f] \notin {"registered", "parked"},
             pc' = [pc EXCEPT ![f] = pc'[f]], pc'[f] \in {"idle", "try"}, pc[f] \in {"idle", "try"},
             call' = [call EXCEPT ![f] = call'[f]], pc'[f] = "try" => call'[f] # NoCall, current = f
      PROVE  WaitInv'
  <2>1. PlacesOK'
    BY <1>0, <1>a DEF PlacesOK
  <2>2. QueueOK'
    BY <1>a DEF QueueOK
  <2>3. ActiveOK'
    <3>1. \A w \in active : w[1] \in Fibers \ {f}
      BY <1>a DEF ActiveOK, TypeOK, W
    <3> QED BY <1>0, <1>a, <3>1 DEF ActiveOK, Waiter
  <2>4. ListedOK'
    BY <1>0, <1>a, <1>o, ListedKept
  <2>5. ClaimsOK'
    BY <1>0, <1>a, ClaimsOfOthers
  <2> QED BY <2>1, <2>2, <2>3, <2>4, <2>5
<1>1. CASE \E d \in Fds, op \in Ops, timed \in BOOLEAN : Begin(f, d, op, timed)
  <2>1. PICK d \in Fds, op \in Ops, timed \in BOOLEAN : Begin(f, d, op, timed)
    BY <1>1
  <2>2. [op |-> op, fd |-> d, timed |-> timed, left |->
                IF op \in {"recvn", "send"} THEN Wanted ELSE 1] # NoCall
    BY OpsAssumption DEF NoCall
  <2> QED BY <1>0, <1>a, <2>1, <2>2 DEF Begin, Runs, To, wvars, pvars, lvars
<1>2. CASE Moves(f)
  <2>1. CASE call[f].left = 1
    BY <1>0, <1>a, <1>2, <2>1 DEF Moves, Runs, Return, evars, wvars, pvars, lvars
  <2>2. CASE call[f].left # 1
    <3>1. call[f] \in Calls
      BY <1>2, InCall DEF Moves, Runs
    <3>2. call' = [call EXCEPT ![f].left = @ - 1]
      BY <1>2, <2>2 DEF Moves
    <3>3. call'[f].op = call[f].op /\ call[f].op \in Ops
      BY <3>1, <3>2, <1>0 DEF Calls
    <3>4. call'[f] # NoCall
      BY <3>3, OpsAssumption DEF NoCall
    <3>5. call' = [call EXCEPT ![f] = call'[f]]
      BY <3>2, <1>0
    <3> QED BY <1>0, <1>a, <1>2, <2>2, <3>4, <3>5 DEF Moves, Runs, evars, wvars, pvars, lvars
  <2> QED BY <2>1, <2>2
<1>3. CASE Fails(f)
  BY <1>0, <1>a, <1>3 DEF Fails, Runs, Return, evars, wvars, pvars, lvars
<1>4. CASE Blocks(f)
  <2>0. /\ Runs(f, "try") /\ turn' = [turn EXCEPT ![f] = Waits + 1]
        /\ active' = active \cup {<<f, Waits + 1>>}
        /\ state' = [state EXCEPT ![f] = "waiting"] /\ pc' = [pc EXCEPT ![f] = "prepared"]
        /\ UNCHANGED <<slot, call, run_queue, current, twice, loop, out>>
        /\ Waits \in Nat /\ \A g \in Fibers : turn[g] <= Waits
    BY <1>4, WaitsIsLargest, <1>0 DEF Blocks, To, evars, pvars, lvars
  <2>1. PlacesOK'
    BY <1>0, <2>0 DEF PlacesOK, Runs
  <2>2. QueueOK'
    BY <1>0, <2>0, QueueOfOthers DEF PlacesOK, Runs
  <2>3. ActiveOK'
    <3>1. \A w \in active : w[1] \in Fibers \ {f}
      BY <2>0 DEF ActiveOK, TypeOK, W, Runs
    <3> QED BY <1>0, <2>0, <3>1 DEF ActiveOK, Waiter
  <2>4. ListedOK'
    <3>1. ASSUME NEW w \in W, WasRegistered(w) PROVE WasRegistered(w)'
      <4>1. w[1] \in Fibers /\ w[2] \in Nat
        BY DEF W
      <4>2. CASE w[1] = f
        BY <1>0, <2>0, <3>1, <4>1, <4>2 DEF WasRegistered
      <4>3. CASE w[1] # f
        BY <1>0, <2>0, <3>1, <4>1, <4>3 DEF WasRegistered
      <4> QED BY <4>2, <4>3
    <3>2. \A d \in Fds, r \in Dirs : slot[d][r] # None => WasRegistered(slot[d][r])' /\ slot'[d][r] = slot[d][r]
      <4> SUFFICES ASSUME NEW d \in Fds, NEW r \in Dirs, slot[d][r] # None
                   PROVE  WasRegistered(slot[d][r])' /\ slot'[d][r] = slot[d][r]
        OBVIOUS
      <4>1. slot[d][r] \in W /\ WasRegistered(slot[d][r]) /\ slot' = slot
        BY <2>0 DEF ListedOK, TypeOK
      <4> QED BY <4>1, <3>1 DEF WasRegistered
    <3>3. \A k \in Outsiders : out[k].pc # "away" => \A w \in out[k].list : WasRegistered(w)'
      BY <3>1, <1>o DEF ListedOK
    <3> QED BY <2>0, <3>2, <3>3 DEF ListedOK, WasRegistered
  <2>5. ClaimsOK'
    BY <1>0, <2>0, ClaimsOfOthers DEF Runs
  <2> QED BY <2>1, <2>2, <2>3, <2>4, <2>5
<1>5. CASE RegisterWaiter(f)
  <2> DEFINE d == call[f].fd
             r == Dir(call[f].op)
  <2>0. /\ Runs(f, "prepared") /\ slot' = [slot EXCEPT ![d] = Entered(d, r, Waiter(f))]
        /\ active' = active /\ pc' = [pc EXCEPT ![f] = "registered"]
        /\ UNCHANGED <<turn, call, state, run_queue, current, twice, loop, out>>
    BY <1>5 DEF RegisterWaiter, To, pvars, lvars
  <2>1. PlacesOK'
    BY <1>0, <2>0 DEF PlacesOK, Runs
  <2>2. QueueOK'
    BY <2>0 DEF QueueOK
  <2>3. ActiveOK'
    <3>1. \A w \in active : w[1] \in Fibers
      BY DEF TypeOK, W
    <3> QED BY <1>0, <2>0, <3>1 DEF ActiveOK, Waiter
  <2>4. ListedOK'
    <3>1. ASSUME NEW w \in W, WasRegistered(w) PROVE WasRegistered(w)'
      BY <1>0, <2>0, <3>1 DEF WasRegistered, W
    <3>2. WasRegistered(Waiter(f))'
      BY <1>0, <2>0 DEF WasRegistered, Waiter
    <3>3. ASSUME NEW e \in Fds, NEW q \in Dirs
          PROVE  slot'[e][q] \in {None, slot[e][q], Waiter(f)}
      BY <2>0 DEF TypeOK, Entered, Swept
    <3>4. ASSUME NEW e \in Fds, NEW q \in Dirs, NEW v, v = slot'[e][q], v # None
          PROVE  WasRegistered(v)'
      <4>1. CASE v = slot[e][q]
        <5>1. v \in W /\ WasRegistered(v)
          BY <3>4, <4>1 DEF ListedOK, TypeOK
        <5> QED BY <5>1, <3>1
      <4>2. CASE v = Waiter(f)
        BY <3>2, <4>2, <2>0 DEF WasRegistered, Waiter
      <4> QED BY <3>3, <3>4, <4>1, <4>2
    <3>5. \A k \in Outsiders : out[k].pc # "away" => \A w \in out[k].list : WasRegistered(w)'
      BY <3>1, <1>o DEF ListedOK
    <3> QED BY <2>0, <3>4, <3>5 DEF ListedOK, WasRegistered
  <2>5. ClaimsOK'
    BY <1>0, <2>0, ClaimsOfOthers DEF Runs
  <2> QED BY <2>1, <2>2, <2>3, <2>4, <2>5
<1>6. CASE RegisterFails(f)
  <2>0. /\ Runs(f, "prepared")
        /\ active' = active \ {Waiter(f)} /\ pc' = [pc EXCEPT ![f] = "idle"]
        /\ state' = [state EXCEPT ![f] = "running"] /\ call' = [call EXCEPT ![f] = NoCall]
        /\ UNCHANGED <<turn, run_queue, current, twice, loop, out>>
    BY <1>6 DEF RegisterFails, Return, pvars, lvars
  <2>1. PlacesOK'
    BY <1>0, <2>0 DEF PlacesOK, Runs
  <2>2. QueueOK'
    BY <1>0, <2>0, QueueOfOthers DEF PlacesOK, Runs
  <2>3. ActiveOK'
    BY <1>0, <2>0, ActiveOfOthers
  <2>4. ListedOK'
    <3>1. \A d \in Fds, r \in Dirs : slot'[d][r] \in {None, slot[d][r]}
      <4>1. slot' = slot \/ slot' = [slot EXCEPT ![call[f].fd] = Swept(call[f].fd)]
        BY <1>6 DEF RegisterFails
      <4>2. \A r \in Dirs : Swept(call[f].fd)[r] \in {None, slot[call[f].fd][r]}
        BY DEF Swept
      <4> QED BY <4>1, <4>2, SlotsEmptied
    <3> QED BY <1>0, <2>0, <3>1, <1>o, ListedKept
  <2>5. ClaimsOK'
    BY <1>0, <2>0, ClaimsOfOthers DEF Runs
  <2> QED BY <2>1, <2>2, <2>3, <2>4, <2>5
<1>7. CASE Park(f)
  <2>0. /\ Runs(f, "registered") /\ pc' = [pc EXCEPT ![f] = "parked"]
        /\ UNCHANGED <<active, turn, slot, call, state, run_queue, current, twice, loop, out>>
    BY <1>7 DEF Park, To, evars, pvars, lvars
  <2>1. PlacesOK'
    BY <1>0, <2>0, NoneAssumption DEF PlacesOK, Runs
  <2>2. QueueOK'
    BY <2>0 DEF QueueOK
  <2>3. ActiveOK'
    <3>1. \A w \in active : w[1] \in Fibers
      BY DEF TypeOK, W
    <3> QED BY <1>0, <2>0, <3>1 DEF ActiveOK, Waiter
  <2>4. ListedOK'
    BY <1>0, <2>0, <1>o, ListedKept
  <2>5. ClaimsOK'
    <3>1. \A k \in Outsiders : out[k].pc = "resume" => out[k].whom[1] \in Fibers
      <4>1. \A k \in Outsiders : out[k] \in {Away} \cup Early \cup Late
        BY DEF TypeOK
      <4> QED BY <4>1 DEF Away, Early, Late, W
    <3> QED BY <1>0, <2>0, <3>1 DEF ClaimsOK, Waiter, Resumes
  <2> QED BY <2>1, <2>2, <2>3, <2>4, <2>5
<1>8. CASE Finish(f)
  <2>0. /\ Runs(f, "idle") /\ pc' = [pc EXCEPT ![f] = "done"] /\ current' = None
        /\ state' = [state EXCEPT ![f] = "done"]
        /\ UNCHANGED <<active, turn, slot, call, run_queue, twice, loop, out>>
    BY <1>8 DEF Finish, To, evars, wvars, lvars
  <2>1. PlacesOK'
    BY <1>0, <2>0, NoneAssumption DEF PlacesOK, Runs
  <2>2. QueueOK'
    BY <1>0, <2>0, QueueOfOthers DEF PlacesOK, Runs
  <2>3. ActiveOK'
    <3>1. \A w \in active : w[1] \in Fibers \ {f}
      BY <2>0 DEF ActiveOK, TypeOK, W, Runs
    <3> QED BY <1>0, <2>0, <3>1 DEF ActiveOK, Waiter
  <2>4. ListedOK'
    BY <1>0, <2>0, <1>o, ListedKept
  <2>5. ClaimsOK'
    BY <1>0, <2>0, ClaimsOfOthers DEF Runs
  <2> QED BY <2>1, <2>2, <2>3, <2>4, <2>5
<1> QED BY <1>1, <1>2, <1>3, <1>4, <1>5, <1>6, <1>7, <1>8 DEF FiberStep

(* The steps of run_loop keep waits apart.                                 *)
LEMMA LoopWaits ==
  ASSUME TypeOK, TypeOK', WaitInv,
         Loop \/ \E f \in Fibers, n \in 1..MaxWaits : TimerDue(<<f, n>>)
  PROVE  WaitInv'
<1> USE DEF WaitInv
<1>0. /\ pc \in [Fibers -> {"idle", "try", "prepared", "registered", "parked", "done"}]
      /\ state \in [Fibers -> {"ready", "running", "waiting", "done"}]
      /\ call \in [Fibers -> Calls \cup {NoCall}]
      /\ turn \in [Fibers -> 0..MaxWaits] /\ MaxWaits \in Nat
  BY BoundsAssumption DEF TypeOK
<1>o. \A k \in Outsiders : out[k].pc # "away" => \A w \in out[k].list : w \in W
  <2>1. \A k \in Outsiders : out[k] \in {Away} \cup Early \cup Late
    BY DEF TypeOK
  <2> QED BY <2>1 DEF Away, Early, Late
<1>u. \A d \in Fds : \A w : Unregister(d, w) => \A e \in Fds, r \in Dirs : slot'[e][r] \in {None, slot[e][r]}
  <2> SUFFICES ASSUME NEW d \in Fds, NEW w, Unregister(d, w), NEW e \in Fds, NEW r \in Dirs
               PROVE  slot'[e][r] \in {None, slot[e][r]}
    OBVIOUS
  <2>1. slot' = slot \/ slot' = [slot EXCEPT ![d] = Without(d, w)]
    BY DEF Unregister
  <2>2. \A q \in Dirs : Without(d, w)[q] \in {None, slot[d][q]}
    BY DEF Without
  <2> QED BY <2>1, <2>2, SlotsEmptied
<1>1. CASE Switch
  <2> DEFINE f == Head(run_queue)
  <2>0. /\ loop \in {"run", "again"} /\ current = None /\ run_queue # <<>>
        /\ current' = f /\ run_queue' = Tail(run_queue)
        /\ state' = [state EXCEPT ![f] = "running"]
        /\ UNCHANGED <<turn, twice, loop, out>>
    BY <1>1 DEF Switch, lvars
  <2>1. f \in Fibers /\ run_queue \in Seq(Fibers) /\ f \in Members(run_queue)
    BY <2>0 DEF TypeOK, Members
  <2>2. f \notin twice => state[f] = "ready"
    BY <2>1 DEF QueueOK
  <2>3. /\ pc[f] = "parked" => AfterPark(f)
        /\ pc[f] # "parked" => UNCHANGED <<active, timers, slot, interest, registered, pc, call>>
    BY <1>1 DEF Switch
  <2>4. /\ pc' = [pc EXCEPT ![f] = pc'[f]]
        /\ pc'[f] \in {"idle", "try", pc[f]} /\ (pc'[f] = "try" => pc[f] \in {"parked", "try"})
        /\ call' = call \/ (call' = [call EXCEPT ![f] = NoCall] /\ pc'[f] = "idle")
        /\ pc[f] = "parked" => pc'[f] \in {"idle", "try"}
        /\ active' \subseteq active /\ (pc[f] = "parked" => active' = active \ {Waiter(f)})
    BY <1>0, <2>1, <2>3 DEF AfterPark, Return, To
  <2>5. pc[f] \notin {"try", "prepared", "registered"}
    BY <2>0, <2>1, NoneAssumption DEF PlacesOK
  <2> HIDE DEF f
  <2>6. PlacesOK'
    <3>1. ASSUME NEW g \in Fibers
          PROVE  /\ pc'[g] \in {"try", "prepared", "registered"} => f = g
                 /\ pc'[g] \in {"try", "prepared", "registered", "parked"} => call'[g] # NoCall
                 /\ pc'[g] = "prepared" /\ g \notin twice => state'[g] = "waiting"
                 /\ f = g /\ pc'[g] \in {"idle", "try"} => state'[g] = "running"
      <4>1. CASE g = f
        BY <1>0, <2>0, <2>1, <2>4, <2>5, <4>1 DEF PlacesOK
      <4>2. CASE g # f
        BY <1>0, <2>0, <2>1, <2>4, <4>2, NoneAssumption DEF PlacesOK
      <4> QED BY <4>1, <4>2
    <3> QED BY <2>0, <3>1 DEF PlacesOK
  <2>7. QueueOK'
    <3>1. /\ DistinctBut(run_queue', twice) /\ Members(run_queue') \subseteq Members(run_queue)
          /\ f \in twice \/ f \notin Members(run_queue')
      BY <2>0, <2>1, TailBut, MembersTail DEF QueueOK, f
    <3>2. \A g \in Members(run_queue) : g \in Fibers
      BY <2>1 DEF Members
    <3> QED BY <1>0, <2>0, <3>1, <3>2 DEF QueueOK
  <2>8. ActiveOK'
    <3>1. active' \subseteq active \ {Waiter(f)}
      BY <2>4, <2>5 DEF ActiveOK, Waiter
    <3> QED BY <1>0, <2>0, <2>1, <2>4, <3>1, ActiveOfOthers
  <2>9. ListedOK'
    <3>1. \A d \in Fds, r \in Dirs : slot'[d][r] \in {None, slot[d][r]}
      <4>1. CASE pc[f] = "parked"
        <5>1. call[f].fd \in Fds /\ Unregister(call[f].fd, Waiter(f))
          BY <2>1, <2>3, <4>1, InCall DEF AfterPark, Calls
        <5> QED BY <5>1, <1>u
      <4>2. CASE pc[f] # "parked"
        BY <2>3, <4>2
      <4> QED BY <4>1, <4>2
    <3> QED BY <1>0, <2>0, <2>1, <2>4, <3>1, <1>o, ListedKept
  <2>10. ClaimsOK'
    BY <1>0, <2>0, <2>1, <2>2, <2>4, ClaimsOfOthers
  <2> QED BY <2>6, <2>7, <2>8, <2>9, <2>10
<1>2. CASE Drained \/ TimersDone \/ EpollReturns \/ ConsumeRead \/ ConsumeStore \/ PollDone
  <2>0. /\ UNCHANGED <<active, turn, slot, call, pc, state, run_queue, current, twice, out>>
        /\ current # None => loop' = loop
    BY <1>2 DEF PlacesOK, Drained, TimersDone, EpollReturns, ConsumeRead, ConsumeStore, PollDone,
                evars, wvars, fvars, pvars, lvars
  <2>1. PlacesOK'
    BY <2>0 DEF PlacesOK
  <2>2. QueueOK' /\ ActiveOK' /\ ListedOK' /\ ClaimsOK'
    BY <2>0 DEF QueueOK, ActiveOK, ListedOK, WasRegistered, ClaimsOK, Resumes, Waiter
  <2> QED BY <2>1, <2>2
<1>3. ASSUME NEW d \in Fds, TakeEvent(d) PROVE WaitInv'
  <2>0. /\ UNCHANGED <<active, turn, call, pc, state, run_queue, current, twice, loop, out>>
    BY <1>3 DEF TakeEvent, fvars, pvars
  <2>1. PlacesOK' /\ QueueOK' /\ ActiveOK' /\ ClaimsOK'
    BY <2>0 DEF PlacesOK, QueueOK, ActiveOK, ClaimsOK, Resumes, Waiter
  <2>2. PICK rs : slot' = [slot EXCEPT ![d] = [r \in Dirs |-> IF r \in rs THEN None ELSE slot[d][r]]]
    BY <1>3 DEF TakeEvent
  <2>3. \A e \in Fds, r \in Dirs : slot'[e][r] \in {None, slot[e][r]}
    BY <2>2 DEF TypeOK
  <2>4. ListedOK'
    BY <2>0, <2>3, <1>o, ListedKept
  <2> QED BY <2>1, <2>4
<1>4. ASSUME NEW w \in W, loop \notin {"run", "again"}, active' = active \ {w},
             w \in active => \E late \in BOOLEAN : Resume(w[1], late),
             w \notin active => UNCHANGED <<state, run_queue>>,
             UNCHANGED <<pc, call, current, twice, loop, turn, out>>,
             \A e \in Fds, r \in Dirs : slot'[e][r] \in {None, slot[e][r]}
      PROVE  WaitInv'
  <2>1. ListedOK'
    BY <1>4, <1>o, ListedKept
  <2>2. CASE w \in active
    <3>1. PICK late \in BOOLEAN : Resume(w[1], late)
      BY <1>4, <2>2
    <3>2. w[1] \in Fibers /\ w = Waiter(w[1]) /\ (w[1] \notin twice => state[w[1]] = "waiting")
      BY <2>2 DEF ActiveOK, W
    <3>3. pc[w[1]] # "prepared"
      BY <1>4, <3>2, NoneAssumption DEF PlacesOK
    <3>4. w[1] \notin twice => \A k \in Outsiders : ~Resumes(k, w[1])
      BY <2>2, <3>2 DEF ClaimsOK, Resumes
    <3> QED BY <1>4, <2>1, <3>1, <3>2, <3>3, <3>4, ResumeKeeps
  <2>3. CASE w \notin active
    <3>1. active' = active
      BY <1>4, <2>3
    <3> QED BY <1>4, <2>1, <2>3, <3>1 DEF PlacesOK, QueueOK, ActiveOK, ClaimsOK, Resumes, Waiter
  <2> QED BY <2>2, <2>3
<1>5. CASE HandleIoReady
  <2>1. Head(batch) \in W
    BY <1>5 DEF HandleIoReady, TypeOK
  <2>2. slot' = slot
    BY <1>5 DEF HandleIoReady, evars
  <2>3. \A e \in Fds, r \in Dirs : slot'[e][r] \in {None, slot[e][r]}
    BY <2>2
  <2> QED BY <1>4, <1>5, <2>1, <2>3 DEF HandleIoReady
<1>6. ASSUME NEW f \in Fibers, NEW n \in 1..MaxWaits, TimerDue(<<f, n>>) PROVE WaitInv'
  <2>1. <<f, n>> \in W /\ <<f, n>>[1] = f
    BY DEF W
  <2>2. \A e \in Fds, r \in Dirs : slot'[e][r] \in {None, slot[e][r]}
    <3>1. CASE <<f, n>> \in active
      <4>1. call[f].fd \in Fds
        BY <3>1, InCall DEF ActiveOK, Calls
      <4> QED BY <1>6, <3>1, <4>1, <1>u DEF TimerDue
    <3>2. CASE <<f, n>> \notin active
      BY <1>6, <3>2 DEF TimerDue
    <3> QED BY <3>1, <3>2
  <2> QED BY <1>4, <1>6, <2>1, <2>2 DEF TimerDue, lvars
<1>7. CASE Drop
  <2>0. /\ run_queue # <<>> /\ run_queue' = Tail(run_queue)
        /\ UNCHANGED <<active, turn, slot, call, pc, state, current, twice, loop, out>>
    BY <1>7 DEF Drop, evars, wvars, fvars, lvars
  <2>1. run_queue \in Seq(Fibers)
    BY DEF TypeOK
  <2>2. DistinctBut(run_queue', twice) /\ Members(run_queue') \subseteq Members(run_queue)
    BY <2>0, <2>1, TailBut, MembersTail DEF QueueOK
  <2>3. QueueOK'
    BY <2>0, <2>2 DEF QueueOK
  <2>4. PlacesOK' /\ ActiveOK' /\ ListedOK' /\ ClaimsOK'
    BY <2>0 DEF PlacesOK, ActiveOK, ListedOK, WasRegistered, ClaimsOK, Resumes, Waiter
  <2> QED BY <2>3, <2>4
<1>8. CASE Dispatch
  <2>0. /\ current \in Fibers /\ current # None /\ pc[current] = "parked" /\ current' = None
        /\ \/ run_queue' = run_queue /\ twice' = twice
           \/ run_queue' = Append(run_queue, current) /\ twice' = twice \cup {current}
        /\ UNCHANGED <<active, turn, slot, call, pc, state, loop, out>>
    BY <1>8 DEF Dispatch, TypeOK, evars, wvars, fvars, lvars
  <2>1. run_queue \in Seq(Fibers) /\ twice \subseteq twice'
    BY <2>0 DEF TypeOK
  <2>2. DistinctBut(run_queue, twice')
    BY <2>1 DEF QueueOK, DistinctBut
  <2>3. DistinctBut(run_queue', twice') /\ Members(run_queue') \subseteq Members(run_queue) \cup twice'
    <3>1. CASE run_queue' = run_queue
      BY <2>2, <3>1
    <3>2. CASE run_queue' = Append(run_queue, current) /\ current \in twice'
      <4>1. DistinctBut(Append(run_queue, current), twice')
        BY <2>0, <2>1, <2>2, <3>2, AppendBut
      <4>2. Members(Append(run_queue, current)) = Members(run_queue) \cup {current}
        BY <2>0, <2>1, MembersAppend
      <4> QED BY <3>2, <4>1, <4>2
    <3> QED BY <2>0, <3>1, <3>2
  <2>4. QueueOK'
    BY <2>0, <2>1, <2>3 DEF QueueOK
  <2>5. PlacesOK'
    BY <2>0, <2>1, NoneAssumption DEF PlacesOK
  <2>6. ActiveOK'
    BY <2>0, <2>1 DEF ActiveOK, Waiter
  <2>7. ListedOK' /\ ClaimsOK'
    BY <2>0, <2>1 DEF ListedOK, WasRegistered, ClaimsOK, Resumes, Waiter
  <2> QED BY <2>4, <2>5, <2>6, <2>7
<1> QED BY <1>1, <1>2, <1>3, <1>5, <1>6, <1>7, <1>8 DEF Loop

(* Outsiders and the kernel keep waits apart.                              *)
LEMMA OutsiderWaits ==
  ASSUME TypeOK, TypeOK', WaitInv,
         \/ \E k \in Outsiders : GoesOn(k) \/ \E d \in Fds : CancelFd(k, d)
         \/ \E d \in Fds : Open(d) \/ \E r \in Dirs : PeerActs(d, r)
  PROVE  WaitInv'
<1> USE DEF WaitInv
<1>o. \A k \in Outsiders : out[k].pc # "away" => \A w \in out[k].list : w \in W
  <2>1. \A k \in Outsiders : out[k] \in {Away} \cup Early \cup Late
    BY DEF TypeOK
  <2> QED BY <2>1 DEF Away, Early, Late
<1>d. DOMAIN out = Outsiders /\ \A m \in Outsiders : out[m] \in {Away} \cup Early \cup Late
  BY DEF TypeOK
<1>a. ASSUME NEW k \in Outsiders, NEW o, out' = [out EXCEPT ![k] = o], o.pc # "resume",
             o.pc # "away" => \A w \in o.list :
                w \in W /\ (WasRegistered(w) \/ (out[k].pc # "away" /\ w \in out[k].list)),
             \A e \in Fds, r \in Dirs : slot'[e][r] \in {None, slot[e][r]},
             UNCHANGED <<active, turn, call, pc, state, run_queue, current, twice, loop>>
      PROVE  WaitInv'
  <2>1. ListedOK'
    BY <1>a, <1>d, <1>o, ListedKept
  <2>2. PlacesOK' /\ QueueOK' /\ ActiveOK'
    BY <1>a DEF PlacesOK, QueueOK, ActiveOK, Waiter
  <2>3. \A m \in Outsiders : out'[m].pc = "resume" => m # k /\ out'[m] = out[m]
    BY <1>a, <1>d
  <2>4. ClaimsOK'
    BY <1>a, <2>3 DEF ClaimsOK, Waiter, Resumes
  <2> QED BY <2>1, <2>2, <2>4
<1>1. ASSUME NEW k \in Outsiders, RaiseFlag(k) \/ WriteFd(k) \/ EraseMeta(k) PROVE WaitInv'
  <2>1. PICK p \in {"next", "write", "close"} : out' = [out EXCEPT ![k] = [out[k] EXCEPT !.pc = p]]
    BY <1>1 DEF RaiseFlag, WriteFd, EraseMeta, Go
  <2>2. out[k] \in Early \cup Late /\ out[k].pc # "away"
    BY <1>1, <1>d DEF RaiseFlag, WriteFd, EraseMeta, Away
  <2>3. [out[k] EXCEPT !.pc = p].pc = p /\ [out[k] EXCEPT !.pc = p].list = out[k].list
    BY <2>2 DEF Early, Late
  <2>4. UNCHANGED <<active, turn, call, pc, state, run_queue, current, twice, loop, slot>>
    BY <1>1 DEF RaiseFlag, WriteFd, EraseMeta, evars, wvars, fvars, pvars, lvars
  <2>5. \A e \in Fds, r \in Dirs : slot'[e][r] \in {None, slot[e][r]}
    BY <2>4
  <2> DEFINE o == [out[k] EXCEPT !.pc = p]
  <2>6. out' = [out EXCEPT ![k] = o] /\ o.pc # "resume" /\ o.list = out[k].list
    BY <2>1, <2>3
  <2> HIDE DEF o
  <2> QED BY <1>a, <1>o, <2>2, <2>4, <2>5, <2>6
<1>2. ASSUME NEW k \in Outsiders, CloseFd(k) PROVE WaitInv'
  <2>1. out' = [out EXCEPT ![k] = Away] /\ Away.pc = "away"
    BY <1>2 DEF CloseFd, Go, Away
  <2>2. UNCHANGED <<active, turn, call, pc, state, run_queue, current, twice, loop, slot>>
    BY <1>2 DEF CloseFd, evars, wvars, fvars, pvars, lvars
  <2>3. \A e \in Fds, r \in Dirs : slot'[e][r] \in {None, slot[e][r]}
    BY <2>2
  <2> QED BY <1>a, <2>1, <2>2, <2>3
<1>3. ASSUME NEW k \in Outsiders, NEW d \in Fds, CancelFd(k, d) PROVE WaitInv'
  <2> DEFINE ws == {slot[d][r] : r \in Dirs} \ {None}
             o == [pc |-> "next", fd |-> d, list |-> ws]
  <2>1. out' = [out EXCEPT ![k] = o] /\ o.pc = "next" /\ o.list = ws
    BY <1>3 DEF CancelFd, Go
  <2>2. \A w \in ws : w \in W /\ WasRegistered(w)
    BY DEF ListedOK, TypeOK
  <2>3. UNCHANGED <<active, turn, call, pc, state, run_queue, current, twice, loop>>
    BY <1>3 DEF CancelFd, fvars, pvars, lvars
  <2>4. \A e \in Fds, r \in Dirs : slot'[e][r] \in {None, slot[e][r]}
    <3>1. slot' = [slot EXCEPT ![d] = [r \in Dirs |-> None]]
      BY <1>3 DEF CancelFd
    <3> QED BY <3>1 DEF TypeOK
  <2>5. out' = [out EXCEPT ![k] = o] /\ o.pc # "resume" /\ \A w \in o.list : w \in W /\ WasRegistered(w)
    BY <2>1, <2>2
  <2>6. o.pc # "away" => \A w \in o.list :
                w \in W /\ (WasRegistered(w) \/ (out[k].pc # "away" /\ w \in out[k].list))
    BY <2>5
  <2> HIDE DEF o
  <2> QED BY <1>a, <2>3, <2>4, <2>5, <2>6
<1>4. ASSUME NEW k \in Outsiders, NEW f \in Fibers, NEW n \in 1..MaxWaits, CancelWaiter(k, <<f, n>>)
      PROVE  WaitInv'
  <2> DEFINE w == <<f, n>>
             o == [pc |-> IF w \in active THEN "resume" ELSE "next", fd |-> out[k].fd,
                   list |-> out[k].list \ {w}, whom |-> w]
  <2>1. /\ out' = [out EXCEPT ![k] = o] /\ o.list = out[k].list \ {w} /\ o.whom = w
        /\ o.pc = IF w \in active THEN "resume" ELSE "next"
        /\ active' = active \ {w} /\ out[k].pc = "next" /\ w \in out[k].list
        /\ UNCHANGED <<turn, call, pc, state, run_queue, current, twice, loop, slot>>
    BY <1>4 DEF CancelWaiter, Go, evars, fvars, pvars, lvars
  <2>2. \A e \in Fds, r \in Dirs : slot'[e][r] \in {None, slot[e][r]}
    BY <2>1
  <2>3. w \in W /\ w[1] = f /\ w[2] = n
    BY DEF W
  <2> HIDE DEF o, w
  <2>4. CASE w \notin active
    <3>1. active' = active
      BY <2>1, <2>4
    <3> QED BY <1>a, <1>o, <2>1, <2>2, <2>4, <3>1
  <2>5. CASE w \in active
    <3>1. ListedOK'
      BY <1>d, <1>o, <2>1, <2>2, ListedKept
    <3>2. PlacesOK' /\ QueueOK' /\ ActiveOK'
      BY <2>1 DEF PlacesOK, QueueOK, ActiveOK, Waiter
    <3>3. w = Waiter(f) /\ (f \notin twice => state[f] = "waiting") /\ pc[f] \in {"registered", "parked"}
      <4>1. /\ w = Waiter(f) /\ (f \notin twice => state[f] = "waiting")
            /\ pc[f] \in {"prepared", "registered", "parked"}
        BY <2>3, <2>5 DEF ActiveOK
      <4>2. WasRegistered(w)
        BY <2>1 DEF ListedOK
      <4> QED BY <4>1, <4>2 DEF WasRegistered, Waiter
    <3>4. ASSUME NEW m \in Outsiders, out'[m].pc = "resume"
          PROVE  \/ m = k /\ out'[m].whom = w
                 \/ m # k /\ out'[m] = out[m] /\ out[m].pc = "resume"
      BY <1>d, <2>1, <3>4
    <3>5. ASSUME NEW m \in Outsiders, out[m].pc = "resume", f \notin twice PROVE out[m].whom[1] # f
      BY <3>3, <2>5, <3>5 DEF ClaimsOK
    <3>6. ASSUME NEW m \in Outsiders, out'[m].pc = "resume", out'[m].whom[1] \notin twice
          PROVE  LET g == out'[m].whom[1]
                 IN  /\ out'[m].whom = <<g, turn[g]>> /\ out'[m].whom \notin active'
                     /\ state[g] = "waiting" /\ pc[g] \in {"registered", "parked"}
      <4>1. CASE m = k
        BY <2>1, <2>3, <3>3, <3>4, <3>6, <4>1 DEF Waiter
      <4>2. CASE m # k
        BY <2>1, <3>4, <3>6, <4>2 DEF ClaimsOK, Waiter
      <4> QED BY <4>1, <4>2
    <3>7. ASSUME NEW m \in Outsiders, NEW i \in Outsiders, NEW g \in Fibers \ twice,
                 Resumes(m, g)', Resumes(i, g)'
          PROVE  m = i
      <4>1. /\ out'[m].pc = "resume" /\ out'[m].whom[1] = g
            /\ out'[i].pc = "resume" /\ out'[i].whom[1] = g
        BY <3>7 DEF Resumes
      <4> QED BY <4>1, <3>4, <3>5, <2>3 DEF ClaimsOK, Resumes
    <3>8. ClaimsOK'
      BY <2>1, <3>6, <3>7 DEF ClaimsOK, Waiter
    <3> QED BY <3>1, <3>2, <3>8
  <2> QED BY <2>4, <2>5
<1>5. ASSUME NEW k \in Outsiders, CancelResume(k) PROVE WaitInv'
  <2> DEFINE f == out[k].whom[1]
             o == [out[k] EXCEPT !.pc = "wake"]
  <2>1. out[k].pc = "resume" /\ out[k] \in Late
    BY <1>5, <1>d DEF CancelResume, Away, Early
  <2>2. f \in Fibers /\ o.pc = "wake" /\ o.list = out[k].list
    BY <2>1 DEF Late, W
  <2>3. /\ Resume(f, FALSE) /\ out' = [out EXCEPT ![k] = o]
        /\ UNCHANGED <<active, turn, call, pc, current, twice, loop, slot>>
    BY <1>5 DEF CancelResume, Go, evars, wvars, lvars
  <2>4. f \notin twice => /\ out[k].whom = Waiter(f) /\ Waiter(f) \notin active
                         /\ state[f] = "waiting" /\ pc[f] # "prepared"
    BY <2>1 DEF ClaimsOK
  <2>5. Resumes(k, f)
    BY <2>1 DEF Resumes
  <2> HIDE DEF f, o
  <2>6. ListedOK'
    <3>1. \A e \in Fds, r \in Dirs : slot'[e][r] \in {None, slot[e][r]}
      BY <2>3
    <3> QED BY <1>d, <1>o, <2>1, <2>2, <2>3, <3>1, ListedKept
  <2>7. \A m \in Outsiders : out'[m].pc = "resume" =>
           out'[m] = out[m] /\ (f \notin twice => ~Resumes(m, f))
    <3> SUFFICES ASSUME NEW m \in Outsiders, out'[m].pc = "resume"
                 PROVE  out'[m] = out[m] /\ (f \notin twice => ~Resumes(m, f))
      OBVIOUS
    <3>1. m # k
      BY <1>d, <2>2, <2>3
    <3> QED BY <1>d, <2>2, <2>3, <2>5, <3>1 DEF ClaimsOK
  <2> QED BY <2>2, <2>3, <2>4, <2>6, <2>7, ResumeKeeps
<1>6. ASSUME NEW d \in Fds, Open(d) \/ \E r \in Dirs : PeerActs(d, r) PROVE WaitInv'
  <2>1. UNCHANGED <<active, turn, call, pc, state, run_queue, current, twice, loop, slot, out>>
    BY <1>6 DEF Open, PeerActs, evars, wvars, fvars, pvars, lvars
  <2> QED BY <2>1 DEF PlacesOK, QueueOK, ActiveOK, ListedOK, WasRegistered, ClaimsOK, Resumes, Waiter
<1> QED BY <1>1, <1>2, <1>3, <1>4, <1>5, <1>6 DEF GoesOn

(* Every step keeps waits apart.                                           *)
LEMMA WaitStep ==
  ASSUME TypeOK, TypeOK', WaitInv, [Next]_vars
  PROVE  WaitInv'
<1>1. CASE UNCHANGED vars
  BY <1>1 DEF WaitInv, PlacesOK, QueueOK, ActiveOK, ListedOK, WasRegistered, ClaimsOK, Resumes,
              Waiter, vars, kvars, evars, wvars, fvars, pvars, lvars, uvars
<1> QED BY <1>1, FiberWaits, LoopWaits, OutsiderWaits DEF Next

-----------------------------------------------------------------------------
(* Descriptors                                                             *)

(* New slots for one descriptor, followed by update_interest_locked.       *)
LEMMA UpdateKeeps ==
  ASSUME TypeOK, InterestOK, GoneOK, NEW d \in Fds, NEW s \in [Dirs -> W \cup {None}],
         slot' = [slot EXCEPT ![d] = s], UpdateInterest(d, s), file' = file,
         active' \subseteq active, Gone(d) => \A r \in Dirs : s[r] = None
  PROVE  /\ InterestOK'
         /\ \A e \in Fds : Gone(e) => registered'[e] = {} /\ \A r \in Dirs : slot'[e][r] = None
<1> DEFINE D == Desired(s)
<1>1. D \subseteq Dirs /\ \A r \in Dirs : s[r] # None /\ s[r] \in active' => r \in D
  BY DEF Desired
<1>2. (\A r \in Dirs : s[r] = None) => D = {}
  BY DEF Desired
<1>3. \/ D = registered[d] /\ interest' = interest /\ registered' = registered
      \/ file[d] = 0 /\ interest' = interest /\ registered' = registered
      \/ /\ file[d] # 0 /\ interest' = [interest EXCEPT ![d] = D]
         /\ registered' = [registered EXCEPT ![d] = D]
  BY DEF UpdateInterest
<1>4. /\ slot \in [Fds -> [Dirs -> W \cup {None}]] /\ interest \in [Fds -> SUBSET Dirs]
      /\ registered \in [Fds -> SUBSET Dirs] /\ active \subseteq W /\ None \notin W
  BY NoneAssumption DEF TypeOK, W
<1> HIDE DEF D
<1>5. ASSUME NEW e \in Fds
      PROVE  /\ interest'[e] = registered'[e]
             /\ file[e] # 0 => \A r \in Dirs : slot'[e][r] \in active' => r \in registered'[e]
  <2>1. CASE e = d
    BY <1>1, <1>3, <1>4, <2>1 DEF InterestOK
  <2>2. CASE e # d
    BY <1>3, <1>4, <2>2 DEF InterestOK
  <2> QED BY <2>1, <2>2
<1>6. ASSUME NEW e \in Fds, Gone(e)
      PROVE  registered'[e] = {} /\ \A r \in Dirs : slot'[e][r] = None
  <2>1. CASE e = d
    BY <1>2, <1>3, <1>4, <1>6, <2>1 DEF GoneOK
  <2>2. CASE e # d
    BY <1>3, <1>4, <1>6, <2>2 DEF GoneOK
  <2> QED BY <2>1, <2>2
<1> QED BY <1>5, <1>6 DEF InterestOK

(* unregister_waiter of a waiter that is not active any more.              *)
LEMMA UnregisterKeeps ==
  ASSUME TypeOK, InterestOK, GoneOK, NEW d \in Fds, NEW w, Unregister(d, w), file' = file,
         active' \subseteq active
  PROVE  /\ InterestOK'
         /\ \A e \in Fds : Gone(e) => registered'[e] = {} /\ \A r \in Dirs : slot'[e][r] = None
<1>1. CASE UNCHANGED <<slot, interest, registered>>
  <2>1. InterestOK'
    BY <1>1 DEF InterestOK
  <2> QED BY <1>1, <2>1 DEF GoneOK
<1>2. CASE slot' = [slot EXCEPT ![d] = Without(d, w)] /\ UpdateInterest(d, Without(d, w))
  <2>1. Without(d, w) \in [Dirs -> W \cup {None}]
    BY DEF TypeOK, Without
  <2>2. Gone(d) => \A r \in Dirs : Without(d, w)[r] = None
    BY DEF GoneOK, Without
  <2> QED BY <1>2, <2>1, <2>2, UpdateKeeps
<1> QED BY <1>1, <1>2 DEF Unregister

(* A closing outsider that goes on with its descriptor.                    *)
LEMMA CloserGoesOn ==
  ASSUME TypeOK, CloserOK, NEW k \in Outsiders, NEW o, out' = [out EXCEPT ![k] = o],
         out[k].pc # "away", o.pc # "away", o.fd = out[k].fd, file' = file
  PROVE  /\ CloserOK'
         /\ \A d \in Fds : Gone(d)' <=> Gone(d)
<1>1. \A m \in Outsiders : /\ out'[m].pc = "away" <=> out[m].pc = "away"
                           /\ out'[m].fd = out[m].fd
  BY DEF TypeOK
<1> QED BY <1>1 DEF CloserOK, Gone, Closing

(* A fiber whose call is over, or on a descriptor that stays, changes      *)
(* nothing for the calls on those that go.                                 *)
LEMMA LastKept ==
  ASSUME LastWaits, UNCHANGED <<file, out, failed>>, NEW f \in Fibers,
         \A g \in Fibers \ {f} : call'[g] = call[g] /\ pc'[g] = pc[g] /\ turn'[g] = turn[g],
         \/ call'[f] = NoCall
         \/ ~Gone(call'[f].fd)
         \/ call'[f] = call[f] /\ turn'[f] = turn[f] /\ pc'[f] \in {"registered", "parked"}
  PROVE  LastWaits'
<1>1. \A d \in Fds : Gone(d)' <=> Gone(d)
  BY DEF Gone, Closing
<1> SUFFICES ASSUME NEW d \in Fds, NEW g \in Fibers, Gone(d), call'[g] # NoCall, call'[g].fd = d
             PROVE  pc'[g] \in {"registered", "parked"} /\ Waiter(g)' \in failed
  BY <1>1 DEF LastWaits, Waiter
<1>2. CASE g = f
  BY <1>2 DEF LastWaits, Waiter
<1>3. CASE g # f
  BY <1>3 DEF LastWaits, Waiter
<1> QED BY <1>2, <1>3

(* Steps that touch neither the Epoller nor a descriptor.                  *)
LEMMA FdFrame ==
  ASSUME FdInv, UNCHANGED <<file, interest, registered, slot, out, meta>>, active' \subseteq active,
         LastWaits'
  PROVE  FdInv'
<1>1. \A d \in Fds : Gone(d)' <=> Gone(d)
  BY DEF Gone, Closing
<1>2. InterestOK'
  BY DEF FdInv, InterestOK
<1>3. GoneOK'
  BY <1>1 DEF FdInv, GoneOK
<1> QED BY <1>2, <1>3 DEF FdInv, CloserOK, MetaOK

(* A fiber in the middle of a call is on a descriptor that stays.          *)
LEMMA CallStays ==
  ASSUME TypeOK, WaitInv, FdInv, NEW f \in Fibers, pc[f] \in {"try", "prepared"}
  PROVE  call[f] \in Calls /\ call[f].fd \in Fds /\ ~Gone(call[f].fd) /\ call[f] # NoCall
<1>1. call[f] \in Calls /\ call[f] # NoCall
  BY InCall DEF WaitInv, PlacesOK
<1>2. call[f].fd \in Fds
  BY <1>1 DEF Calls
<1> QED BY <1>1, <1>2 DEF FdInv, LastWaits

(* Fibers' own steps keep descriptors apart.                               *)
LEMMA FiberFds ==
  ASSUME TypeOK, WaitInv, FdInv, ~LateCalls, NEW f \in Fibers,
         \/ FiberStep(f) \/ Finish(f)
         \/ \E d \in Fds, op \in Ops, timed \in BOOLEAN : Begin(f, d, op, timed)
  PROVE  FdInv'
<1>0. /\ pc \in [Fibers -> {"idle", "try", "prepared", "registered", "parked", "done"}]
      /\ call \in [Fibers -> Calls \cup {NoCall}]
      /\ turn \in [Fibers -> 0..MaxWaits]
      /\ slot \in [Fds -> [Dirs -> W \cup {None}]] /\ None \notin W
  BY NoneAssumption DEF TypeOK, W
<1>l. LastWaits
  BY DEF FdInv
<1>1. CASE \E d \in Fds, op \in Ops, timed \in BOOLEAN : Begin(f, d, op, timed)
  <2>1. PICK d \in Fds, op \in Ops, timed \in BOOLEAN : Begin(f, d, op, timed)
    BY <1>1
  <2>2. ~Gone(d)
    BY <2>1 DEF Begin, MayUse, Gone
  <2>3. /\ call' = [call EXCEPT ![f] = [op |-> op, fd |-> d, timed |-> timed, left |->
                     IF op \in {"recvn", "send"} THEN Wanted ELSE 1]]
        /\ pc' = [pc EXCEPT ![f] = "try"]
        /\ meta' = meta \/ meta' = [meta EXCEPT ![d] = IF @ = 0 THEN file[d] ELSE @]
        /\ UNCHANGED <<file, interest, slot, registered, active, failed, turn, out>>
    BY <2>1 DEF Begin, To, EnsureCached, kvars, wvars
  <2>4. call'[f].fd = d
    BY <1>0, <2>3
  <2>5. LastWaits'
    BY <1>0, <1>l, <2>2, <2>3, <2>4, LastKept
  <2>6. InterestOK' /\ CloserOK'
    BY <2>3 DEF FdInv, InterestOK, CloserOK
  <2>7. GoneOK'
    BY <2>3 DEF FdInv, GoneOK, Gone, Closing
  <2>8. MetaOK'
    <3>1. \A e \in Fds : meta'[e] = meta[e] \/ (e = d /\ meta'[e] = file[e])
      BY <2>3 DEF TypeOK
    <3>2. \A k \in Outsiders : out[k].pc = "close" => out[k].fd # d /\ out[k].fd \in Fds
      <4> SUFFICES ASSUME NEW k \in Outsiders, out[k].pc = "close"
                   PROVE  out[k].fd # d /\ out[k].fd \in Fds
        OBVIOUS
      <4>1. out[k] \in {Away} \cup Early \cup Late
        BY DEF TypeOK
      <4> QED BY <2>2, <4>1 DEF Gone, Closing, Away, Early, Late
    <3> QED BY <2>3, <3>1, <3>2 DEF FdInv, MetaOK
  <2> QED BY <2>5, <2>6, <2>7, <2>8 DEF FdInv
<1>2. CASE Moves(f)
  <2>1. call[f] \in Calls /\ ~Gone(call[f].fd)
    BY <1>2, CallStays DEF Moves, Runs
  <2>2. call'[f] = NoCall \/ call'[f].fd = call[f].fd
    BY <1>0, <1>2, <2>1 DEF Moves, Return, Calls
  <2>3. LastWaits'
    <3>1. \A g \in Fibers \ {f} : call'[g] = call[g] /\ pc'[g] = pc[g] /\ turn'[g] = turn[g]
      BY <1>0, <1>2 DEF Moves, Return, wvars
    <3>2. UNCHANGED <<file, out, failed>>
      BY <1>2 DEF Moves, wvars
    <3> QED BY <1>l, <2>1, <2>2, <3>1, <3>2, LastKept
  <2> QED BY <1>2, <2>3, FdFrame DEF Moves, evars, wvars
<1>3. CASE Fails(f)
  <2>1. LastWaits'
    BY <1>0, <1>3, <1>l, LastKept DEF Fails, Return, kvars, wvars
  <2> QED BY <1>3, <2>1, FdFrame DEF Fails, kvars, evars, wvars
<1>4. CASE Blocks(f)
  <2>1. call[f] \in Calls /\ ~Gone(call[f].fd)
    BY <1>4, CallStays DEF Blocks, Runs
  <2>2. /\ active' = active \cup {<<f, Waits + 1>>} /\ turn' = [turn EXCEPT ![f] = Waits + 1]
        /\ pc' = [pc EXCEPT ![f] = "prepared"]
        /\ UNCHANGED <<file, interest, slot, registered, meta, call, failed, out>>
    BY <1>4 DEF Blocks, To, kvars, evars
  <2>3. LastWaits'
    BY <1>0, <1>l, <2>1, <2>2, LastKept
  <2>4. \A d \in Fds, r \in Dirs : slot[d][r] # <<f, Waits + 1>>
    <3>1. Waits \in Nat /\ turn[f] <= Waits /\ turn[f] \in Nat
      BY WaitsIsLargest, BoundsAssumption, <1>0
    <3> SUFFICES ASSUME NEW d \in Fds, NEW r \in Dirs, slot[d][r] = <<f, Waits + 1>> PROVE FALSE
      OBVIOUS
    <3>2. <<f, Waits + 1>> \in W /\ <<f, Waits + 1>> # None
      BY <1>0, <3>1 DEF W
    <3>3. Waits + 1 <= turn[f]
      BY <3>2 DEF WaitInv, ListedOK, WasRegistered
    <3> QED BY <3>1, <3>3
  <2>5. InterestOK'
    BY <2>2, <2>4 DEF FdInv, InterestOK
  <2>6. GoneOK'
    BY <2>2 DEF FdInv, GoneOK, Gone, Closing
  <2>7. CloserOK' /\ MetaOK'
    BY <2>2 DEF FdInv, CloserOK, MetaOK
  <2> QED BY <2>3, <2>5, <2>6, <2>7 DEF FdInv
<1>5. CASE RegisterWaiter(f)
  <2> DEFINE d == call[f].fd
             s == Entered(d, Dir(call[f].op), Waiter(f))
  <2>1. call[f] \in Calls /\ ~Gone(d) /\ d \in Fds
    BY <1>5, CallStays DEF RegisterWaiter, Runs
  <2>2. /\ slot' = [slot EXCEPT ![d] = s] /\ active' = active /\ UpdateInterest(d, s)
        /\ pc' = [pc EXCEPT ![f] = "registered"]
        /\ UNCHANGED <<file, meta, turn, call, failed, out>>
    BY <1>5 DEF RegisterWaiter, To
  <2>3. Waiter(f) \in W
    BY BoundsAssumption DEF TypeOK, Waiter, W
  <2>4. s \in [Dirs -> W \cup {None}]
    BY <1>0, <2>1, <2>3 DEF Entered, Swept
  <2>5. LastWaits'
    BY <1>0, <1>l, <2>1, <2>2, LastKept
  <2>6. /\ InterestOK'
        /\ \A e \in Fds : Gone(e) => registered'[e] = {} /\ \A r \in Dirs : slot'[e][r] = None
    <3> HIDE DEF s, d
    <3> QED BY <2>1, <2>2, <2>4, UpdateKeeps DEF FdInv
  <2>7. GoneOK'
    BY <2>2, <2>6 DEF GoneOK, Gone, Closing
  <2>8. CloserOK' /\ MetaOK'
    BY <2>2 DEF FdInv, CloserOK, MetaOK
  <2> QED BY <2>5, <2>6, <2>7, <2>8 DEF FdInv
<1>6. CASE RegisterFails(f)
  <2>1. call[f] \in Calls /\ ~Gone(call[f].fd) /\ call[f].fd \in Fds
    BY <1>6, CallStays DEF RegisterFails, Runs
  <2>2. /\ active' \subseteq active
        /\ slot' = slot \/ slot' = [slot EXCEPT ![call[f].fd] = Swept(call[f].fd)]
        /\ pc' = [pc EXCEPT ![f] = "idle"] /\ call' = [call EXCEPT ![f] = NoCall]
        /\ UNCHANGED <<file, interest, registered, meta, turn, failed, out>>
    BY <1>6 DEF RegisterFails, Return, kvars
  <2>3. LastWaits'
    BY <1>0, <1>l, <2>2, LastKept
  <2>4. \A d \in Fds, r \in Dirs : slot'[d][r] \in {None, slot[d][r]}
    <3>1. \A r \in Dirs : Swept(call[f].fd)[r] \in {None, slot[call[f].fd][r]}
      BY DEF Swept
    <3> QED BY <2>2, <3>1, SlotsEmptied
  <2>5. InterestOK'
    <3>1. None \notin active'
      BY <1>0, <2>2 DEF TypeOK
    <3> QED BY <2>2, <2>4, <3>1 DEF FdInv, InterestOK
  <2>6. GoneOK'
    BY <2>2, <2>4 DEF FdInv, GoneOK, Gone, Closing
  <2>7. CloserOK' /\ MetaOK'
    BY <2>2 DEF FdInv, CloserOK, MetaOK
  <2> QED BY <2>3, <2>5, <2>6, <2>7 DEF FdInv
<1>7. CASE Park(f)
  <2>1. LastWaits'
    BY <1>0, <1>7, <1>l, LastKept DEF Park, To, kvars
  <2> QED BY <1>7, <2>1, FdFrame DEF Park, kvars, evars
<1>8. CASE Finish(f)
  <2>1. call[f] = NoCall \/ ~Gone(call[f].fd) \/ call[f].fd \notin Fds
    BY <1>8, <1>l DEF Finish, Runs, LastWaits
  <2>2. call[f] = NoCall \/ call[f].fd \in Fds
    BY <1>0 DEF Calls
  <2>3. LastWaits'
    BY <1>0, <1>8, <1>l, <2>1, <2>2, LastKept DEF Finish, To, kvars, wvars
  <2> QED BY <1>8, <2>3, FdFrame DEF Finish, kvars, evars, wvars
<1> QED BY <1>1, <1>2, <1>3, <1>4, <1>5, <1>6, <1>7, <1>8 DEF FiberStep

(* The steps of run_loop keep descriptors apart.                           *)
LEMMA LoopFds ==
  ASSUME TypeOK, WaitInv, FdInv,
         Loop \/ \E f \in Fibers, n \in 1..MaxWaits : TimerDue(<<f, n>>)
  PROVE  FdInv'
<1>0. /\ pc \in [Fibers -> {"idle", "try", "prepared", "registered", "parked", "done"}]
      /\ call \in [Fibers -> Calls \cup {NoCall}]
      /\ turn \in [Fibers -> 0..MaxWaits]
      /\ slot \in [Fds -> [Dirs -> W \cup {None}]]
  BY DEF TypeOK
<1>l. LastWaits /\ InterestOK /\ GoneOK
  BY DEF FdInv
<1>u. ASSUME NEW d \in Fds, NEW w, Unregister(d, w), active' \subseteq active,
             UNCHANGED <<file, meta, out>>, LastWaits'
      PROVE  FdInv'
  <2>1. /\ InterestOK'
        /\ \A e \in Fds : Gone(e) => registered'[e] = {} /\ \A r \in Dirs : slot'[e][r] = None
    BY <1>l, <1>u, UnregisterKeeps
  <2>2. GoneOK'
    BY <1>u, <2>1 DEF GoneOK, Gone, Closing
  <2>3. CloserOK' /\ MetaOK'
    BY <1>u DEF FdInv, CloserOK, MetaOK
  <2> QED BY <1>u, <2>1, <2>2, <2>3 DEF FdInv
<1>k. ASSUME UNCHANGED <<file, out, failed, call, pc, turn>> PROVE LastWaits'
  BY <1>k, <1>l DEF LastWaits, Gone, Closing, Waiter
<1>1. CASE Switch
  <2> DEFINE f == Head(run_queue)
  <2>1. f \in Fibers
    BY <1>1 DEF Switch, TypeOK
  <2>2. UNCHANGED <<file, meta, failed, turn, out>>
    BY <1>1 DEF Switch
  <2>3. CASE pc[f] = "parked"
    <3>1. AfterPark(f)
      BY <1>1, <2>3 DEF Switch
    <3>2. call[f] \in Calls /\ call[f].fd \in Fds
      BY <2>1, <2>3, InCall DEF WaitInv, Calls
    <3> HIDE DEF f
    <3>3. LastWaits'
      <4>1. CASE Return(f)
        BY <1>0, <1>l, <2>1, <2>2, <4>1, LastKept DEF Return
      <4>2. CASE ~WaitFailed(f) /\ To(f, "try") /\ UNCHANGED call
        <5>1. Waiter(f) \notin failed
          BY <4>2 DEF WaitFailed
        <5>2. call[f] # NoCall
          BY <2>1, <2>3 DEF WaitInv, PlacesOK
        <5>3. ~Gone(call[f].fd)
          BY <1>l, <2>1, <3>2, <5>1, <5>2 DEF LastWaits
        <5> QED BY <1>0, <1>l, <2>1, <2>2, <4>2, <5>3, LastKept DEF To
      <4> QED BY <3>1, <4>1, <4>2 DEF AfterPark
    <3>4. Unregister(call[f].fd, Waiter(f)) /\ active' \subseteq active
      BY <3>1 DEF AfterPark
    <3> QED BY <1>u, <2>2, <3>2, <3>3, <3>4
  <2>4. CASE pc[f] # "parked"
    <3>1. UNCHANGED <<active, slot, interest, registered, pc, call>>
      BY <1>1, <2>4 DEF Switch
    <3> QED BY <1>k, <2>2, <3>1, FdFrame
  <2> QED BY <2>3, <2>4
<1>2. CASE Drained \/ TimersDone \/ EpollReturns \/ ConsumeRead \/ ConsumeStore \/ PollDone
  <2>1. UNCHANGED <<file, interest, registered, slot, meta, active, failed, turn, call, pc, out>>
    BY <1>2 DEF Drained, TimersDone, EpollReturns, ConsumeRead, ConsumeStore, PollDone,
                kvars, evars, wvars, fvars
  <2> QED BY <1>k, <2>1, FdFrame
<1>3. CASE HandleIoReady
  <2>1. /\ UNCHANGED <<file, interest, registered, slot, meta, failed, turn, call, pc, out>>
        /\ active' \subseteq active
    BY <1>3 DEF HandleIoReady, kvars, evars
  <2> QED BY <1>k, <2>1, FdFrame
<1>6. CASE Drop \/ Dispatch
  <2>1. UNCHANGED <<file, interest, registered, slot, meta, active, failed, turn, call, pc, out>>
    BY <1>6 DEF Drop, Dispatch, kvars, evars, wvars, fvars
  <2> QED BY <1>k, <2>1, FdFrame
<1>4. ASSUME NEW d \in Fds, TakeEvent(d) PROVE FdInv'
  <2>1. PICK rs \in SUBSET Dirs :
       LET s  == [r \in Dirs |-> IF r \in rs THEN None ELSE slot[d][r]]
       IN  slot' = [slot EXCEPT ![d] = s] /\ UpdateInterest(d, s)
    BY <1>4 DEF TakeEvent
  <2> DEFINE s == [r \in Dirs |-> IF r \in rs THEN None ELSE slot[d][r]]
  <2>2. UNCHANGED <<file, meta, active, failed, turn, call, pc, out>>
    BY <1>4 DEF TakeEvent, fvars
  <2>3. s \in [Dirs -> W \cup {None}]
    BY <1>0
  <2>4. Gone(d) => \A r \in Dirs : s[r] = None
    BY <1>l DEF GoneOK
  <2>5. slot' = [slot EXCEPT ![d] = s] /\ UpdateInterest(d, s)
    BY <2>1
  <2> HIDE DEF s
  <2>6. /\ InterestOK'
        /\ \A e \in Fds : Gone(e) => registered'[e] = {} /\ \A r \in Dirs : slot'[e][r] = None
    BY <1>l, <2>2, <2>3, <2>4, <2>5, UpdateKeeps
  <2>7. GoneOK'
    BY <2>2, <2>6 DEF GoneOK, Gone, Closing
  <2>8. CloserOK' /\ MetaOK'
    BY <2>2 DEF FdInv, CloserOK, MetaOK
  <2> QED BY <1>k, <2>2, <2>6, <2>7, <2>8 DEF FdInv
<1>5. ASSUME NEW f \in Fibers, NEW n \in 1..MaxWaits, TimerDue(<<f, n>>) PROVE FdInv'
  <2>1. UNCHANGED <<file, meta, failed, turn, call, pc, out>> /\ active' \subseteq active
    BY <1>5 DEF TimerDue
  <2>2. CASE <<f, n>> \in active
    <3>1. call[f].fd \in Fds
      BY <2>2, InCall DEF WaitInv, ActiveOK, Calls
    <3>2. Unregister(call[f].fd, <<f, n>>)
      BY <1>5, <2>2 DEF TimerDue
    <3> QED BY <1>k, <1>u, <2>1, <3>1, <3>2
  <2>3. CASE <<f, n>> \notin active
    <3>1. UNCHANGED <<slot, interest, registered>>
      BY <1>5, <2>3 DEF TimerDue
    <3> QED BY <1>k, <2>1, <3>1, FdFrame
  <2> QED BY <2>2, <2>3
<1> QED BY <1>1, <1>2, <1>3, <1>4, <1>5, <1>6 DEF Loop

(* Outsiders that close and the kernel that gives numbers away keep         *)
(* descriptors apart.                                                      *)
LEMMA OutsiderFds ==
  ASSUME TypeOK, WaitInv, FdInv, ~LateCalls,
         \/ \E k \in Outsiders : GoesOn(k) \/ \E d \in Fds : CancelFd(k, d)
         \/ \E d \in Fds : Open(d) \/ \E r \in Dirs : PeerActs(d, r)
  PROVE  FdInv'
<1> USE DEF FdInv
<1>d. /\ DOMAIN out = Outsiders
      /\ \A m \in Outsiders : out[m].pc = "away" \/ (out[m] \in Early \cup Late /\ out[m].fd \in Fds)
  <2>1. DOMAIN out = Outsiders /\ \A m \in Outsiders : out[m] \in {Away} \cup Early \cup Late
    BY DEF TypeOK
  <2> QED BY <2>1 DEF Away, Early, Late
<1>0. /\ file \in [Fds -> Nat] /\ files \in Nat /\ meta \in [Fds -> Nat]
      /\ interest \in [Fds -> SUBSET Dirs] /\ registered \in [Fds -> SUBSET Dirs]
      /\ slot \in [Fds -> [Dirs -> W \cup {None}]] /\ None \notin active
  BY NoneAssumption DEF TypeOK, W
<1>a. ASSUME NEW k \in Outsiders, NEW o, out' = [out EXCEPT ![k] = o], out[k].pc # "away",
             o.pc # "away", o.pc # "close", o.fd = out[k].fd, active' \subseteq active,
             UNCHANGED <<file, interest, registered, slot, meta, failed, turn, call, pc>>
      PROVE  FdInv'
  <2>1. CloserOK' /\ \A d \in Fds : Gone(d)' <=> Gone(d)
    BY <1>a, CloserGoesOn
  <2>2. InterestOK' /\ GoneOK'
    BY <1>a, <2>1 DEF InterestOK, GoneOK
  <2>3. LastWaits'
    BY <1>a, <2>1 DEF LastWaits, Waiter
  <2>4. MetaOK'
    BY <1>a, <1>d DEF MetaOK
  <2> QED BY <2>1, <2>2, <2>3, <2>4
<1>1. ASSUME NEW k \in Outsiders, RaiseFlag(k) \/ WriteFd(k) \/ CancelResume(k) PROVE FdInv'
  <2>1. PICK p \in {"next", "write", "wake"} : out' = [out EXCEPT ![k] = [out[k] EXCEPT !.pc = p]]
    BY <1>1 DEF RaiseFlag, WriteFd, CancelResume, Go
  <2>2. out[k] \in Early \cup Late /\ out[k].pc # "away"
    BY <1>1, <1>d DEF RaiseFlag, WriteFd, CancelResume
  <2> DEFINE o == [out[k] EXCEPT !.pc = p]
  <2>3. o.pc = p /\ o.fd = out[k].fd /\ out' = [out EXCEPT ![k] = o]
    BY <2>1, <2>2 DEF Early, Late
  <2>4. UNCHANGED <<file, interest, registered, slot, meta, active, failed, turn, call, pc>>
    BY <1>1 DEF RaiseFlag, WriteFd, CancelResume, kvars, evars, wvars, fvars
  <2>5. o.pc # "away" /\ o.pc # "close"
    BY <2>3
  <2> HIDE DEF o
  <2> QED BY <1>a, <2>2, <2>3, <2>4, <2>5
<1>2. ASSUME NEW k \in Outsiders, NEW w, CancelWaiter(k, w) PROVE FdInv'
  <2> DEFINE o == [pc |-> IF w \in active THEN "resume" ELSE "next", fd |-> out[k].fd,
                   list |-> out[k].list \ {w}, whom |-> w]
  <2>1. /\ out' = [out EXCEPT ![k] = o] /\ o.fd = out[k].fd /\ o.pc # "away" /\ o.pc # "close"
        /\ out[k].pc # "away" /\ active' \subseteq active
        /\ UNCHANGED <<file, interest, registered, slot, meta, failed, turn, call, pc>>
    BY <1>2 DEF CancelWaiter, Go, kvars, evars, fvars
  <2> HIDE DEF o
  <2> QED BY <1>a, <2>1
<1>3. ASSUME NEW k \in Outsiders, EraseMeta(k) PROVE FdInv'
  <2> DEFINE o == [out[k] EXCEPT !.pc = "close"]
  <2>1. out[k] \in Early \cup Late /\ out[k].pc # "away" /\ out[k].fd \in Fds
    BY <1>3, <1>d DEF EraseMeta
  <2>2. /\ o.pc = "close" /\ o.fd = out[k].fd /\ out' = [out EXCEPT ![k] = o]
        /\ meta' = [meta EXCEPT ![out[k].fd] = 0]
    BY <1>3, <2>1 DEF EraseMeta, Go, Early, Late
  <2>3. UNCHANGED <<file, interest, registered, slot, active, failed, turn, call, pc>>
    BY <1>3 DEF EraseMeta, kvars, wvars, fvars
  <2> HIDE DEF o
  <2>4. CloserOK' /\ \A d \in Fds : Gone(d)' <=> Gone(d)
    BY <2>1, <2>2, <2>3, CloserGoesOn
  <2>5. InterestOK' /\ GoneOK'
    BY <2>3, <2>4 DEF InterestOK, GoneOK
  <2>6. LastWaits'
    BY <2>3, <2>4 DEF LastWaits, Waiter
  <2>7. MetaOK'
    <3>1. \A d \in Fds : meta'[d] \in {0, meta[d]}
      BY <1>0, <2>2
    <3>2. ASSUME NEW m \in Outsiders, out'[m].pc = "close" PROVE meta'[out'[m].fd] = 0
      <4>1. CASE m = k
        BY <1>0, <1>d, <2>1, <2>2, <4>1
      <4>2. CASE m # k
        BY <1>d, <2>2, <3>1, <3>2, <4>2 DEF MetaOK
      <4> QED BY <4>1, <4>2
    <3>3. ASSUME NEW d \in Fds PROVE meta'[d] \in {0, file'[d]}
      BY <2>3, <3>1 DEF MetaOK
    <3> QED BY <3>2, <3>3 DEF MetaOK
  <2> QED BY <2>4, <2>5, <2>6, <2>7
<1>4. ASSUME NEW k \in Outsiders, CloseFd(k) PROVE FdInv'
  <2> DEFINE d == out[k].fd
  <2>1. /\ out[k].pc = "close" /\ d \in Fds
        /\ file' = [file EXCEPT ![d] = 0] /\ interest' = [interest EXCEPT ![d] = {}]
        /\ out' = [out EXCEPT ![k] = Away]
        /\ UNCHANGED <<registered, slot, meta, active, failed, turn, call, pc>>
    BY <1>4, <1>d DEF CloseFd, Go, evars, wvars, fvars
  <2>2. Gone(d) /\ Closing(d) /\ meta[d] = 0
    BY <2>1 DEF Gone, Closing, MetaOK
  <2>3. \A m \in Outsiders : out'[m].pc # "away" => m # k /\ out'[m] = out[m] /\ out[m].fd # d
    <3> SUFFICES ASSUME NEW m \in Outsiders, out'[m].pc # "away"
                 PROVE  m # k /\ out'[m] = out[m] /\ out[m].fd # d
      OBVIOUS
    <3>1. m # k /\ out'[m] = out[m]
      BY <1>d, <2>1 DEF Away
    <3> QED BY <2>1, <3>1 DEF CloserOK
  <2> HIDE DEF d
  <2>4. \A e \in Fds : Gone(e)' => Gone(e)
    <3> SUFFICES ASSUME NEW e \in Fds, Gone(e)' PROVE Gone(e)
      OBVIOUS
    <3>1. CASE file'[e] = 0
      BY <1>0, <2>1, <2>2, <3>1 DEF Gone
    <3>2. CASE Closing(e)'
      BY <2>3, <3>2 DEF Gone, Closing
    <3> QED BY <3>1, <3>2 DEF Gone
  <2>5. InterestOK'
    <3>1. ASSUME NEW e \in Fds
          PROVE  /\ interest'[e] = registered[e]
                 /\ file'[e] # 0 => \A r \in Dirs : slot[e][r] \in active => r \in registered[e]
      <4>1. CASE e = d
        BY <1>0, <2>1, <2>2, <4>1 DEF GoneOK
      <4>2. CASE e # d
        BY <1>0, <2>1, <4>2 DEF InterestOK
      <4> QED BY <4>1, <4>2
    <3> QED BY <2>1, <3>1 DEF InterestOK
  <2>6. GoneOK'
    BY <2>1, <2>4 DEF GoneOK
  <2>7. LastWaits'
    BY <2>1, <2>4 DEF LastWaits, Waiter
  <2>8. CloserOK'
    <3>1. ASSUME NEW m \in Outsiders, out'[m].pc # "away" PROVE file'[out'[m].fd] # 0
      BY <1>0, <1>d, <2>1, <2>3, <3>1 DEF CloserOK
    <3>2. ASSUME NEW m \in Outsiders, NEW i \in Outsiders, out'[m].pc # "away", out'[i].pc # "away",
                 out'[m].fd = out'[i].fd
          PROVE  m = i
      BY <2>3, <3>2 DEF CloserOK
    <3> QED BY <3>1, <3>2 DEF CloserOK
  <2>9. MetaOK'
    <3>1. ASSUME NEW e \in Fds PROVE meta[e] \in {0, file'[e]}
      <4>1. CASE e = d
        BY <2>2, <4>1
      <4>2. CASE e # d
        BY <1>0, <2>1, <4>2 DEF MetaOK
      <4> QED BY <4>1, <4>2
    <3> QED BY <2>1, <2>3, <3>1 DEF MetaOK
  <2> QED BY <2>5, <2>6, <2>7, <2>8, <2>9
<1>5. ASSUME NEW k \in Outsiders, NEW d \in Fds, CancelFd(k, d) PROVE FdInv'
  <2> DEFINE ws == {slot[d][r] : r \in Dirs} \ {None}
             o == [pc |-> "next", fd |-> d, list |-> ws]
  <2>1. /\ out[k] = Away /\ file[d] # 0 /\ ~Closing(d)
        /\ \A f \in Fibers : ~Between(f, d)
        /\ failed' = failed \cup ws /\ out' = [out EXCEPT ![k] = o]
        /\ slot' = [slot EXCEPT ![d] = [r \in Dirs |-> None]]
        /\ registered' = [registered EXCEPT ![d] = {}]
        /\ interest' = [interest EXCEPT ![d] = {}]
        /\ UNCHANGED <<file, meta, active, turn, call, pc>>
    BY <1>5 DEF CancelFd, Go, fvars
  <2>2. o.pc = "next" /\ o.fd = d
    OBVIOUS
  <2> HIDE DEF o
  <2>3. \A m \in Outsiders : out'[m].pc # "away" =>
           \/ m = k /\ out'[m].pc = "next" /\ out'[m].fd = d
           \/ m # k /\ out'[m] = out[m] /\ out[m].fd # d
    BY <1>d, <2>1, <2>2 DEF Closing
  <2>4. \A e \in Fds : Gone(e)' => e = d \/ Gone(e)
    BY <2>1, <2>3 DEF Gone, Closing
  <2>5. InterestOK'
    <3>1. ASSUME NEW e \in Fds
          PROVE  /\ interest'[e] = registered'[e]
                 /\ file[e] # 0 => \A r \in Dirs : slot'[e][r] \in active => r \in registered'[e]
      <4>1. CASE e = d
        BY <1>0, <2>1, <4>1
      <4>2. CASE e # d
        BY <1>0, <2>1, <4>2 DEF InterestOK
      <4> QED BY <4>1, <4>2
    <3> QED BY <2>1, <3>1 DEF InterestOK
  <2>6. GoneOK'
    <3>1. ASSUME NEW e \in Fds, Gone(e)'
          PROVE  registered'[e] = {} /\ \A r \in Dirs : slot'[e][r] = None
      <4>1. CASE e = d
        BY <1>0, <2>1, <4>1
      <4>2. CASE e # d
        BY <1>0, <2>1, <2>4, <3>1, <4>2 DEF GoneOK
      <4> QED BY <4>1, <4>2
    <3> QED BY <3>1 DEF GoneOK
  <2>7. LastWaits'
    <3>1. ASSUME NEW e \in Fds, NEW f \in Fibers, Gone(e)', call[f] # NoCall, call[f].fd = e
          PROVE  pc[f] \in {"registered", "parked"} /\ Waiter(f) \in failed'
      <4>1. CASE e = d
        <5>1. pc[f] \in {"registered", "parked"} /\ Waiter(f) \in active
              /\ \E r \in Dirs : slot[d][r] = Waiter(f)
          BY <2>1, <3>1, <4>1 DEF Between
        <5> QED BY <1>0, <2>1, <5>1
      <4>2. CASE e # d
        BY <2>1, <2>4, <3>1, <4>2 DEF LastWaits
      <4> QED BY <4>1, <4>2
    <3> QED BY <2>1, <3>1 DEF LastWaits, Waiter
  <2>8. CloserOK'
    <3>1. ASSUME NEW m \in Outsiders, out'[m].pc # "away" PROVE file[out'[m].fd] # 0
      BY <2>1, <2>3, <3>1 DEF CloserOK
    <3>2. ASSUME NEW m \in Outsiders, NEW i \in Outsiders, out'[m].pc # "away", out'[i].pc # "away",
                 out'[m].fd = out'[i].fd
          PROVE  m = i
      BY <2>3, <3>2 DEF CloserOK
    <3> QED BY <2>1, <3>1, <3>2 DEF CloserOK
  <2>9. MetaOK'
    BY <2>1, <2>3 DEF MetaOK
  <2> QED BY <2>5, <2>6, <2>7, <2>8, <2>9
<1>6. ASSUME NEW d \in Fds, Open(d) PROVE FdInv'
  <2>1. /\ file[d] = 0 /\ file' = [file EXCEPT ![d] = files + 1]
        /\ \E m \in {NewMeta(d), SyncedMeta} : meta' = [meta EXCEPT ![d] = m]
        /\ UNCHANGED <<interest, slot, registered, active, failed, turn, call, pc, out>>
    BY <1>6 DEF Open, wvars, fvars
  <2>2. meta[d] = 0
    BY <2>1 DEF MetaOK
  <2>3. meta' = [meta EXCEPT ![d] = files + 1]
    BY <2>1, <2>2 DEF NewMeta, SyncedMeta
  <2>4. Gone(d) /\ \A m \in Outsiders : out[m].pc # "away" => out[m].fd # d
    BY <2>1 DEF Gone, CloserOK
  <2>5. \A e \in Fds : Gone(e)' => Gone(e)
    BY <1>0, <2>1, <2>4 DEF Gone, Closing
  <2>6. InterestOK'
    <3>1. ASSUME NEW e \in Fds, file'[e] # 0, NEW r \in Dirs, slot[e][r] \in active
          PROVE  r \in registered[e]
      <4>1. CASE e = d
        BY <1>0, <2>4, <3>1, <4>1 DEF GoneOK
      <4>2. CASE e # d
        BY <1>0, <2>1, <3>1, <4>2 DEF InterestOK
      <4> QED BY <4>1, <4>2
    <3> QED BY <2>1, <3>1 DEF InterestOK
  <2>7. GoneOK'
    BY <2>1, <2>5 DEF GoneOK
  <2>8. LastWaits'
    BY <2>1, <2>5 DEF LastWaits, Waiter
  <2>9. CloserOK'
    <3>1. ASSUME NEW m \in Outsiders, out[m].pc # "away" PROVE file'[out[m].fd] # 0
      BY <1>0, <1>d, <2>1, <2>4, <3>1 DEF CloserOK
    <3> QED BY <2>1, <3>1 DEF CloserOK
  <2>10. MetaOK'
    <3>1. ASSUME NEW e \in Fds PROVE meta'[e] \in {0, file'[e]}
      BY <1>0, <2>1, <2>3 DEF MetaOK
    <3>2. ASSUME NEW m \in Outsiders, out[m].pc = "close" PROVE meta'[out[m].fd] = 0
      BY <1>0, <1>d, <2>3, <2>4, <3>2 DEF MetaOK
    <3> QED BY <2>1, <3>1, <3>2 DEF MetaOK
  <2> QED BY <2>6, <2>7, <2>8, <2>9, <2>10
<1>7. ASSUME NEW d \in Fds, NEW r \in Dirs, PeerActs(d, r) PROVE FdInv'
  <2>1. UNCHANGED <<file, interest, registered, slot, meta, active, failed, turn, call, pc, out>>
    BY <1>7 DEF PeerActs, evars, wvars, fvars
  <2>2. LastWaits'
    BY <2>1 DEF LastWaits, Gone, Closing, Waiter
  <2> QED BY <2>1, <2>2, FdFrame
<1> QED BY <1>1, <1>2, <1>3, <1>4, <1>5, <1>6, <1>7 DEF GoesOn

(* Every step keeps descriptors apart.                                     *)
LEMMA FdStep ==
  ASSUME TypeOK, WaitInv, FdInv, ~LateCalls, [Next]_vars
  PROVE  FdInv'
<1>1. CASE UNCHANGED vars
  <2>1. UNCHANGED <<file, interest, registered, slot, meta, active, failed, turn, call, pc, out>>
    BY <1>1 DEF vars, kvars, evars, wvars, fvars
  <2>2. LastWaits'
    BY <2>1 DEF FdInv, LastWaits, Gone, Closing, Waiter
  <2> QED BY <2>1, <2>2, FdFrame
<1> QED BY <1>1, FiberFds, LoopFds, OutsiderFds DEF Next

-----------------------------------------------------------------------------
(* Theorems                                                                *)

(* A finite set listed by SetToSeq is a queue without repetition.          *)
LEMMA SetToSeqOK ==
  ASSUME NEW S, IsFiniteSet(S)
  PROVE  SetToSeq(S) \in Seq(S) /\ Distinct(SetToSeq(S))
<1>1. Cardinality(S) \in Nat /\ ExistsBijection(1..Cardinality(S), S)
  BY FS_CardinalityType
<1>2. \E g \in [1..Cardinality(S) -> S] : IsInjective(g)
  BY <1>1 DEF ExistsBijection, Bijection, Injection, IsInjective
<1>3. SetToSeq(S) \in [1..Cardinality(S) -> S] /\ IsInjective(SetToSeq(S))
  BY <1>2 DEF SetToSeq
<1>4. SetToSeq(S) \in Seq(S)
  BY <1>1, <1>3
<1> QED BY <1>3, <1>4 DEF IsInjective, Distinct

(* The loop starts with all fibers queued and no wait.                     *)
LEMMA InitOK ==
  ASSUME Init
  PROVE  TypeOK /\ WaitInv /\ FdInv /\ WakeInv
<1>1. run_queue \in Seq(Fibers) /\ Distinct(run_queue)
  BY FibersAssumption, SetToSeqOK DEF Init
<1>2. TypeOK
  <2>1. <<>> \in Seq(W)
    OBVIOUS
  <2>2. file \in [Fds -> Nat] /\ files \in Nat /\ meta \in [Fds -> Nat]
    BY DEF Init
  <2>3. /\ ready \in [Fds -> SUBSET Dirs] /\ interest \in [Fds -> SUBSET Dirs]
        /\ registered \in [Fds -> SUBSET Dirs] /\ slot \in [Fds -> [Dirs -> W \cup {None}]]
    BY DEF Init
  <2>4. 0 \in 0..MaxWaits
    BY BoundsAssumption
  <2>5. /\ turn \in [Fibers -> 0..MaxWaits] /\ call \in [Fibers -> Calls \cup {NoCall}]
        /\ pc \in [Fibers -> {"idle", "try", "prepared", "registered", "parked", "done"}]
        /\ state \in [Fibers -> {"ready", "running", "waiting", "done"}]
        /\ timed_out \in [Fibers -> BOOLEAN]
    BY <2>4 DEF Init
  <2>6. out \in [Outsiders -> {Away} \cup Early \cup Late]
    BY DEF Init
  <2>7. batch \in Seq(W)
    BY <2>1 DEF Init
  <2> QED BY <1>1, <2>2, <2>3, <2>5, <2>6, <2>7 DEF TypeOK, Init
<1>3. WaitInv
  <2>1. \A f \in Members(run_queue) : f \in Fibers
    BY <1>1 DEF Members
  <2>2. PlacesOK
    BY NoneAssumption DEF Init, PlacesOK
  <2>3. QueueOK
    BY <1>1, <2>1 DEF Init, QueueOK, Distinct, DistinctBut
  <2>4. ActiveOK /\ ListedOK
    BY DEF Init, ActiveOK, ListedOK, Away
  <2>5. ClaimsOK
    BY DEF Init, ClaimsOK, Resumes, Away
  <2> QED BY <2>2, <2>3, <2>4, <2>5 DEF WaitInv
<1>4. FdInv
  <2>1. InterestOK
    BY DEF Init, InterestOK
  <2>2. GoneOK /\ LastWaits
    BY DEF Init, GoneOK, LastWaits
  <2>3. CloserOK /\ MetaOK
    BY DEF Init, CloserOK, MetaOK, Away
  <2> QED BY <2>1, <2>2, <2>3 DEF FdInv
<1>5. WakeInv
  BY DEF Init, WakeInv, FlagOK, IdleIsWoken
<1> QED BY <1>2, <1>3, <1>4, <1>5

(* Types, waits and the eventfd stay as the invariant says.                *)
LEMMA WaitsInductive == Spec => [](TypeOK /\ WaitInv /\ WakeInv)
<1>1. Init => TypeOK /\ WaitInv /\ WakeInv
  BY InitOK
<1>2. TypeOK /\ WaitInv /\ WakeInv /\ [Next]_vars => (TypeOK /\ WaitInv /\ WakeInv)'
  BY TypeStep, WaitStep, WakeStep DEF WaitInv
<1> QED BY <1>1, <1>2, PTL DEF Spec

(* Timer, readiness and cancellation compete for waiter->active, and the   *)
(* winner's try_wake meets the wait the token was taken from, also when    *)
(* calls are made on a descriptor that is being closed: for every fiber    *)
(* that was never resumed inside its swap, and until it is.                *)
THEOREM ResumesAreOwn == Spec => []ResumesItsOwnWait
<1>1. TypeOK /\ WaitInv /\ WakeInv => ResumesItsOwnWait
  <2> SUFFICES ASSUME TypeOK, WaitInv, NEW k \in Outsiders, out[k].pc = "resume",
                      out[k].whom[1] \notin twice
               PROVE  LET f == out[k].whom[1]
                      IN  /\ out[k].whom = Waiter(f) /\ call[f] # NoCall
                          /\ state[f] = "waiting" /\ pc[f] \in {"registered", "parked"}
    BY DEF ResumesItsOwnWait
  <2>1. out[k] \in {Away} \cup Early \cup Late
    BY DEF TypeOK
  <2>2. out[k].whom[1] \in Fibers
    BY <2>1 DEF Away, Early, Late, W
  <2> QED BY <2>2 DEF WaitInv, ClaimsOK, PlacesOK
<1> QED BY <1>1, WaitsInductive, PTL

(* A processor asleep in epoll_wait with a fiber in its queue is woken:    *)
(* wake_pending_ swallows a wake only when a write is done or on its way.  *)
THEOREM SleeperIsWoken == Spec => []IdleIsWoken
<1>1. TypeOK /\ WaitInv /\ WakeInv => IdleIsWoken
  BY DEF WakeInv
<1> QED BY <1>1, WaitsInductive, PTL

(* If no call meets a close of its descriptor, every listed waiter of an   *)
(* open file is watched by the kernel, and cached timeouts are the file's, *)
(* although numbers are reused.                                            *)
THEOREM NumbersAreReusedCleanly ==
  ASSUME ~LateCalls
  PROVE  Spec => []DescriptorsAreOwn
<1>1. Init => FdInv
  BY InitOK
<1>2. TypeOK /\ WaitInv /\ WakeInv /\ FdInv /\ [Next]_vars => FdInv'
  BY FdStep
<1>3. FdInv => DescriptorsAreOwn
  BY DEF FdInv, InterestOK, MetaOK, DescriptorsAreOwn
<1> QED BY <1>1, <1>2, <1>3, WaitsInductive, PTL DEF Spec
=============================================================================
