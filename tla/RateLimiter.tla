---------------------------- MODULE RateLimiter -----------------------------
(***************************************************************************)
(* The three limiters of zhttp::mid and RateLimiterMiddleware::before for  *)
(* one key (the states of two keys share nothing).                         *)
(*                                                                         *)
(* isAllowed reads the clock before it takes the limiter's mutex, so a     *)
(* reading may be older than what the limiter has already counted.  Time   *)
(* is counted in ticks; tokens in the share of one token that one tick     *)
(* brings, so that a token is Window shares and a tick brings Capacity.    *)
(***************************************************************************)
EXTENDS Naturals, Integers, Sequences, FiniteSets

CONSTANTS
  Callers,    \* request handlers that share the limiter
  Capacity,   \* capacity_
  Window,     \* unit_to_ms(unit_), in ticks
  Second,     \* ticks of a second of the Retry-After header
  MaxTime     \* bound: ticks the run lasts

VARIABLES
  kind,       \* which limiter newRateLimiter built
  now,        \* the clock
  reading,    \* the time a caller has read; -1: it is not in isAllowed
  fixed,      \* State: initialized, window_start, count
  queue,      \* the deque of the sliding window
  bucket,     \* Bucket: initialized, tokens, last
  newest,     \* history: the newest reading the limiter has handled
  passed      \* history: for each tick, the calls let through on a reading
              \* that was not older than newest

vars == <<kind, now, reading, fixed, queue, bucket, newest, passed>>

Cap == IF Capacity = 0 THEN 1 ELSE Capacity

Init ==
  /\ kind \in {"FIXED_WINDOW", "SLIDING_WINDOW", "TOKEN_BUCKET"}
  /\ now = 0 /\ newest = 0
  /\ reading = [c \in Callers |-> -1]
  /\ fixed = [initialized |-> FALSE, window_start |-> 0, count |-> 0]
  /\ queue = <<>>
  /\ bucket = [initialized |-> FALSE, tokens |-> 0, last |-> 0]
  /\ passed = [t \in 0..MaxTime |-> 0]

-----------------------------------------------------------------------------
Fixed(t) ==
  IF ~fixed.initialized \/ t - fixed.window_start >= Window
  THEN [initialized |-> TRUE, window_start |-> t, count |-> 0]
  ELSE fixed

\* Entries leave at the front only, up to the first that is young enough.
\* Mutant: an entry leaves a tick before it is as old as the window.
SlideEarly(t) ==
  LET young == {i \in DOMAIN queue : t - queue[i] < Window - 1}
  IN  IF young = {} THEN <<>>
      ELSE SubSeq(queue, CHOOSE i \in young : \A j \in young : i <= j, Len(queue))
Slide(t) ==
  LET young == {i \in DOMAIN queue : t - queue[i] < Window}
  IN  IF young = {} THEN <<>>
      ELSE SubSeq(queue, CHOOSE i \in young : \A j \in young : i <= j, Len(queue))

Refill(t) ==
  LET b      == IF bucket.initialized THEN bucket
                ELSE [initialized |-> TRUE, tokens |-> Cap * Window, last |-> t]
      tokens == b.tokens + (t - b.last) * Cap
  IN  [b EXCEPT !.last = t,
                !.tokens = IF tokens > Cap * Window THEN Cap * Window ELSE tokens]

Allows(t) ==
  CASE kind = "FIXED_WINDOW"   -> Fixed(t).count < Cap
    [] kind = "SLIDING_WINDOW" -> Len(Slide(t)) < Cap
    [] kind = "TOKEN_BUCKET"   -> Refill(t).tokens >= Window

Left(t, start) == IF t - start >= Window THEN 0 ELSE Window - (t - start)
FixedRetry(t)  == IF fixed.initialized THEN Left(t, fixed.window_start) ELSE 0
SlideRetry(t)  == IF queue # <<>> THEN Left(t, queue[1]) ELSE 0
BucketRetry    ==
  LET deficit == Window - bucket.tokens
  IN  IF bucket.initialized /\ deficit > 0 THEN (deficit + Cap - 1) \div Cap ELSE 0

retryAfter(t) ==
  CASE kind = "FIXED_WINDOW"   -> FixedRetry(t)
    [] kind = "SLIDING_WINDOW" -> SlideRetry(t)
    [] kind = "TOKEN_BUCKET"   -> BucketRetry

\* The header that comes with 429, in ticks.
Advice(t) ==
  LET seconds == (retryAfter(t) + Second - 1) \div Second
  IN  IF seconds = 0 THEN Second ELSE seconds * Second

-----------------------------------------------------------------------------
Tick ==
  /\ now < MaxTime
  /\ now' = now + 1
  /\ UNCHANGED <<kind, reading, fixed, queue, bucket, newest, passed>>

\* isAllowed reads the clock ...
ReadClock(c) ==
  /\ reading[c] = -1
  /\ reading' = [reading EXCEPT ![c] = now]
  /\ UNCHANGED <<kind, now, fixed, queue, bucket, newest, passed>>

\* ... and decides under the mutex.
isAllowed(c) ==
  LET t  == reading[c]
      ok == Allows(t)
      one == IF ok THEN 1 ELSE 0
  IN  /\ t # -1
      /\ reading' = [reading EXCEPT ![c] = -1]
      /\ newest' = IF t > newest THEN t ELSE newest
      /\ passed' = IF t >= newest THEN [passed EXCEPT ![t] = @ + one] ELSE passed
      /\ fixed' = IF kind # "FIXED_WINDOW" THEN fixed
                  ELSE [Fixed(t) EXCEPT !.count = @ + one]
      /\ queue' = IF kind # "SLIDING_WINDOW" THEN queue
                  ELSE IF ok THEN Append(Slide(t), t) ELSE Slide(t)
      /\ bucket' = IF kind # "TOKEN_BUCKET" THEN bucket
                   ELSE [Refill(t) EXCEPT !.tokens = @ - one * Window]
      /\ UNCHANGED <<kind, now>>

Next == Tick \/ \E c \in Callers : ReadClock(c) \/ isAllowed(c)

Spec == Init /\ [][Next]_vars

-----------------------------------------------------------------------------
Sum(f, S) ==
  LET sum[T \in SUBSET S] ==
        IF T = {} THEN 0 ELSE LET x == CHOOSE x \in T : TRUE IN f[x] + sum[T \ {x}]
  IN  sum[S]

(* Of the calls handled on a reading that no later reading had overtaken,  *)
(* any stretch of one window holds at most Capacity with the sliding       *)
(* window and twice that with the other two (the burst at the border of a  *)
(* fixed window, a full bucket and its refill), whatever late readings     *)
(* were handled in between.                                                *)
RateBound ==
  \A s \in 0..(MaxTime - Window + 1) :
    Sum(passed, s..(s + Window - 1)) <= Cap * (IF kind = "SLIDING_WINDOW" THEN 1 ELSE 2)

(* A caller that is refused and comes back when Retry-After says, with     *)
(* nobody let through in between, is let through.                          *)
AdviceIsEnough ==
  \A t \in newest..now : ~Allows(t) => Allows(t + Advice(t))
=============================================================================
