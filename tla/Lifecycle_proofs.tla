-------------------------- MODULE Lifecycle_proofs --------------------------
(***************************************************************************)
(* Theorems about Runtime, for any number of users, tasks and processors   *)
(* and any limits of draining and stealing: no step doubles a task; and,   *)
(* where no call meets an init or a shutdown in progress, only shutdown's  *)
(* processors_.clear() drops one, and a submission finds the processors    *)
(* made as they were configured.                                           *)
(* And about HttpServer, for any number of connections, descriptor numbers *)
(* and restarts: its tables speak of the connections they were filled for. *)
(***************************************************************************)
EXTENDS Runtime, HttpServer, QueueLemmas, FiniteSetTheorems

Asking  == [pc : {"build", "launch", "pick"}, task : Tasks]
Pushing == [pc : {"push"}, task : Tasks, index : 0..Count]
Ending  == [pc : {"stop", "join", "clear"}]

(* What each variable holds.                                               *)
TypeOK ==
  /\ started \in BOOLEAN /\ made \in {0, Count} /\ starts \in Nat
  /\ config \in {"default", "set"} /\ wanted \in {"default", "set"} /\ built \in {"default", "set"}
  /\ running \in [Procs -> BOOLEAN]
  /\ loop \in [Procs -> {"off", "drain", "run", "sleep", "steal", "ended"}]
  /\ queue \in [Procs -> Seq(Tasks)] /\ fibers \in [Procs -> Seq(Tasks)]
  /\ hand \in [Procs -> Seq(Tasks)]
  /\ done \in SUBSET Tasks /\ lost \in SUBSET Tasks
  /\ user \in [Users -> {Away} \cup Asking \cup Pushing \cup Ending]

-----------------------------------------------------------------------------
(* Where a task is                                                         *)

Homes  == {"queue", "fibers", "hand"} \X Procs
Box(h) == IF h[1] = "queue" THEN queue[h[2]]
          ELSE IF h[1] = "fibers" THEN fibers[h[2]] ELSE hand[h[2]]
Asked  == {user[u].task : u \in {v \in Users : Submits(v)}}
Out    == done \cup lost \cup Asked

(* No task is twice in a sequence, in two of them, or in one and run,      *)
(* destroyed or with a submitter.                                          *)
OneHome ==
  /\ \A h \in Homes : Distinct(Box(h)) /\ Members(Box(h)) \cap Out = {}
  /\ \A h, g \in Homes : h # g => Members(Box(h)) \cap Members(Box(g)) = {}
  /\ done \cap lost = {} /\ (done \cup lost) \cap Asked = {}
  /\ \A u, v \in Users : Submits(u) /\ Submits(v) /\ user[u].task = user[v].task => u = v

-----------------------------------------------------------------------------
(* The life of the runtime, when no call meets an init or a shutdown       *)

Free   == \A v \in Users : ~Lifecycle(v)
AllOff == \A p \in Procs : loop[p] = "off"

(* One call at a time starts or stops the runtime.  Between two of them    *)
(* the runtime is complete or gone, and only a complete one has submitters.*)
LifeInv ==
  /\ \A u, v \in Users : Lifecycle(u) /\ Lifecycle(v) => u = v
  /\ Free /\ started  => made = Count /\ built = wanted
  /\ Free /\ ~started => made = 0 /\ config = wanted /\ AllOff
  /\ \A u \in Users :
       /\ user[u].pc \in {"pick", "push"} => started /\ Free
       /\ user[u].pc = "push" => user[u].index \in 1..Count
       /\ user[u].pc = "build" => started /\ config = wanted /\ AllOff
       /\ user[u].pc = "launch" => started /\ made = Count /\ built = wanted /\ AllOff
       /\ user[u].pc \in {"stop", "join", "clear"} => ~started
       /\ user[u].pc = "clear" => ThreadsJoined
  /\ \A p \in Procs : hand[p] # <<>> => loop[p] = "steal"
-----------------------------------------------------------------------------
(* Queues and limits                                                       *)

(* The smaller of two numbers, and of three.                               *)
LEMMA MinFacts ==
  ASSUME NEW a \in Nat, NEW b \in Nat
  PROVE  Min({a, b}) \in Nat /\ Min({a, b}) <= a /\ Min({a, b}) <= b
<1>1. \E x \in {a, b} : \A y \in {a, b} : x =< y
  OBVIOUS
<1>2. Min({a, b}) \in {a, b} /\ \A y \in {a, b} : Min({a, b}) =< y
  BY <1>1, Zenon DEF Min
<1> QED BY <1>2

LEMMA MinFacts3 ==
  ASSUME NEW a \in Nat, NEW b \in Nat, NEW c \in Nat
  PROVE  Min({a, b, c}) \in {a, b, c} /\ Min({a, b, c}) <= c
<1>1. \E x \in {a, b, c} : \A y \in {a, b, c} : x =< y
  <2>1. CASE a <= b /\ a <= c
    BY <2>1
  <2>2. CASE b <= a /\ b <= c
    BY <2>2
  <2>3. CASE c <= a /\ c <= b
    BY <2>3
  <2> QED BY <2>1, <2>2, <2>3
<1>2. Min({a, b, c}) \in {a, b, c} /\ \A y \in {a, b, c} : Min({a, b, c}) =< y
  BY <1>1, Zenon DEF Min
<1> QED BY <1>2

(* StealQueue::steal takes at most what is there.                          *)
LEMMA StealCountOK ==
  ASSUME NEW n \in Nat
  PROVE  StealCount(n) \in Nat /\ StealCount(n) <= n
<1>1. CASE n <= MinReserve
  BY <1>1 DEF StealCount
<1>2. CASE ~(n <= MinReserve)
  <2>1. n - MinReserve \in Nat /\ n - MinReserve <= n /\ MaxSteal \in Nat
    BY <1>2, RuntimeAssumption
  <2>2. StealTarget(n) \in Nat
    BY RuntimeAssumption DEF StealTarget
  <2>3. PICK m : m = Min({MaxSteal, StealTarget(n), n - MinReserve})
    OBVIOUS
  <2>4. m \in {MaxSteal, StealTarget(n), n - MinReserve} /\ m <= n - MinReserve
    BY <2>1, <2>2, <2>3, MinFacts3
  <2>5. StealCount(n) = m
    BY <1>2, <2>3 DEF StealCount
  <2> QED BY <2>1, <2>2, <2>4, <2>5
<1> QED BY <1>1, <1>2

(* A queue without repetitions, cut in two.                                *)
LEMMA CutFacts ==
  ASSUME NEW S, NEW s \in Seq(S), Distinct(s), NEW n \in 0..Len(s)
  PROVE  LET a == SubSeq(s, 1, n)
             b == SubSeq(s, n + 1, Len(s))
         IN  /\ a \in Seq(S) /\ b \in Seq(S) /\ Distinct(a) /\ Distinct(b)
             /\ Members(a) \cap Members(b) = {} /\ Members(a) \cup Members(b) = Members(s)
<1> DEFINE a == SubSeq(s, 1, n)
           b == SubSeq(s, n + 1, Len(s))
<1>1. Len(s) \in Nat /\ n \in Nat /\ n <= Len(s)
  OBVIOUS
<1>2. a \in Seq(S) /\ Len(a) = n /\ \A i \in 1..n : a[i] = s[i]
  BY <1>1
<1>3. b \in Seq(S) /\ Len(b) = Len(s) - n /\ \A i \in 1..(Len(s) - n) : b[i] = s[n + i]
  BY <1>1
<1> HIDE DEF a, b
<1>4. DOMAIN a = 1..n /\ DOMAIN b = 1..(Len(s) - n) /\ DOMAIN s = 1..Len(s)
  BY <1>1, <1>2, <1>3
<1>5. ASSUME NEW i \in DOMAIN a PROVE i \in DOMAIN s /\ a[i] = s[i] /\ i <= n
  BY <1>1, <1>2, <1>4
<1>6. ASSUME NEW i \in DOMAIN b PROVE n + i \in DOMAIN s /\ b[i] = s[n + i] /\ ~(n + i <= n) /\ i \in Nat
  BY <1>1, <1>3, <1>4
<1>7. Distinct(a)
  BY <1>5 DEF Distinct
<1>8. Distinct(b)
  <2> SUFFICES ASSUME NEW i \in DOMAIN b, NEW j \in DOMAIN b, b[i] = b[j] PROVE i = j
    BY DEF Distinct
  <2>1. n + i = n + j
    BY <1>6 DEF Distinct
  <2> QED BY <1>1, <1>6, <2>1
<1>9. ASSUME NEW i \in DOMAIN a, NEW j \in DOMAIN b PROVE a[i] # b[j]
  BY <1>5, <1>6 DEF Distinct
<1>10. Members(a) \cap Members(b) = {}
  BY <1>9 DEF Members
<1>11. Members(a) \cup Members(b) \subseteq Members(s)
  BY <1>5, <1>6 DEF Members
<1>12. Members(s) \subseteq Members(a) \cup Members(b)
  BY MembersCut DEF a, b
<1> QED BY <1>2, <1>3, <1>7, <1>8, <1>10, <1>11, <1>12 DEF a, b

(* Turning a batch around keeps what is in it.                             *)
LEMMA ReverseFacts ==
  ASSUME NEW S, NEW s \in Seq(S), Distinct(s)
  PROVE  Reverse(s) \in Seq(S) /\ Distinct(Reverse(s)) /\ Members(Reverse(s)) = Members(s)
<1> DEFINE r == Reverse(s)
<1>1. Len(s) \in Nat /\ DOMAIN s = 1..Len(s)
  OBVIOUS
<1>2. \A i \in 1..Len(s) : (Len(s) - i) + 1 \in 1..Len(s) /\ (Len(s) - ((Len(s) - i) + 1)) + 1 = i
  BY <1>1
<1>3. r = [i \in 1..Len(s) |-> s[(Len(s) - i) + 1]]
  BY DEF Reverse
<1>4. r \in [1..Len(s) -> S] /\ DOMAIN r = 1..Len(s)
        /\ \A i \in 1..Len(s) : r[i] = s[(Len(s) - i) + 1]
  BY <1>1, <1>2, <1>3
<1> HIDE DEF r
<1>5. r \in Seq(S)
  BY <1>1, <1>4
<1>6. Distinct(r)
  <2> SUFFICES ASSUME NEW i \in 1..Len(s), NEW j \in 1..Len(s), r[i] = r[j] PROVE i = j
    BY <1>4 DEF Distinct
  <2>1. (Len(s) - i) + 1 = (Len(s) - j) + 1
    BY <1>1, <1>2, <1>4 DEF Distinct
  <2> QED BY <1>2, <2>1
<1>7. Members(r) \subseteq Members(s)
  BY <1>1, <1>2, <1>4 DEF Members
<1>8. ASSUME NEW i \in 1..Len(s) PROVE s[i] \in Members(r)
  <2>1. PICK j : j = (Len(s) - i) + 1
    OBVIOUS
  <2>2. j \in DOMAIN r /\ r[j] = s[i]
    BY <1>2, <1>4, <2>1
  <2> QED BY <2>2 DEF Members
<1>9. Members(s) \subseteq Members(r)
  BY <1>1, <1>8 DEF Members
<1> QED BY <1>5, <1>6, <1>7, <1>9 DEF r

-----------------------------------------------------------------------------
(* Homes                                                                   *)

(* The tasks that are given are those in a home and those that are out.    *)
LEMMA GivenParts ==
  ASSUME NEW t
  PROVE  t \in Given <=> (\E h \in Homes : t \in Members(Box(h))) \/ t \in Out
<1>1. ASSUME NEW p \in Procs
      PROVE  /\ <<"queue", p>> \in Homes /\ Box(<<"queue", p>>) = queue[p]
             /\ <<"fibers", p>> \in Homes /\ Box(<<"fibers", p>>) = fibers[p]
             /\ <<"hand", p>> \in Homes /\ Box(<<"hand", p>>) = hand[p]
  BY DEF Homes, Box
<1>2. ASSUME NEW h \in Homes
      PROVE  h[2] \in Procs /\ Box(h) \in {queue[h[2]], fibers[h[2]], hand[h[2]]}
  BY DEF Homes, Box
<1>3. \A s : Range(s) = Members(s)
  BY DEF Range, Members
<1>4. t \in Given <=> \/ \E p \in Procs : t \in Members(queue[p]) \cup Members(fibers[p]) \cup Members(hand[p])
                      \/ t \in Out
  <2> DEFINE In(p) == Range(queue[p]) \cup Range(fibers[p]) \cup Range(hand[p])
             U     == UNION {In(p) : p \in Procs}
  <2>1. Given = U \cup done \cup lost \cup Asked
    BY DEF Given, Held, Asked
  <2>2. t \in U <=> \E p \in Procs : t \in In(p)
    <3> HIDE DEF In
    <3> QED OBVIOUS
  <2>3. \A p : In(p) = Members(queue[p]) \cup Members(fibers[p]) \cup Members(hand[p])
    BY <1>3
  <2> HIDE DEF In, U
  <2> QED BY <2>1, <2>2, <2>3 DEF Out
<1> QED BY <1>1, <1>2, <1>4

LEMMA GivenPartsNext ==
  \A t : (t \in Given)' <=> (\E x \in Homes : t \in Members(Box(x))') \/ t \in Out'
<1>1. \A p \in Procs :
        /\ <<"queue", p>> \in Homes /\ Box(<<"queue", p>>)' = queue'[p]
        /\ <<"fibers", p>> \in Homes /\ Box(<<"fibers", p>>)' = fibers'[p]
        /\ <<"hand", p>> \in Homes /\ Box(<<"hand", p>>)' = hand'[p]
  BY DEF Homes, Box
<1>2. \A h \in Homes : h[2] \in Procs /\ Box(h)' \in {queue'[h[2]], fibers'[h[2]], hand'[h[2]]}
  BY DEF Homes, Box
<1>3. \A s : Range(s) = Members(s)
  BY DEF Range, Members
<1>4. \A h : Members(Box(h))' = Members(Box(h)')
  BY DEF Members
<1>5. \A t : t \in Given' <=>
        \/ \E p \in Procs : t \in Members(queue'[p]) \cup Members(fibers'[p]) \cup Members(hand'[p])
        \/ t \in Out'
  <2> DEFINE In(p) == Range(queue'[p]) \cup Range(fibers'[p]) \cup Range(hand'[p])
             U     == UNION {In(p) : p \in Procs}
  <2>1. Given' = U \cup done' \cup lost' \cup Asked'
    BY DEF Given, Held, Asked
  <2>2. \A t : t \in U <=> \E p \in Procs : t \in In(p)
    <3> HIDE DEF In
    <3> QED OBVIOUS
  <2>3. \A p : In(p) = Members(queue'[p]) \cup Members(fibers'[p]) \cup Members(hand'[p])
    BY <1>3
  <2> HIDE DEF In, U
  <2> QED BY <2>1, <2>2, <2>3 DEF Out
<1> QED BY <1>1, <1>2, <1>4, <1>5

(* Two homes share out what they hold: drain_some, steal, and the return   *)
(* of what was stolen.                                                     *)
LEMMA HomesShare ==
  ASSUME OneHome, NEW h \in Homes, NEW g \in Homes, h # g,
         \A x \in Homes : x # h /\ x # g => Box(x)' = Box(x),
         Distinct(Box(h))', Distinct(Box(g))',
         (Members(Box(h)) \cap Members(Box(g)) = {})',
         Members(Box(h))' \cup Members(Box(g))' = Members(Box(h)) \cup Members(Box(g)),
         UNCHANGED <<done, lost, user>>
  PROVE  OneHome' /\ Given \subseteq Given'
<1>1. Out' = Out /\ Asked' = Asked /\ \A u \in Users : (Submits(u)' <=> Submits(u))
  BY DEF Out, Asked, Submits
<1>2. ASSUME NEW x \in Homes PROVE Distinct(Box(x))' /\ Members(Box(x))' \cap Out' = {}
  <2>1. CASE x # h /\ x # g
    <3>1. Box(x)' = Box(x)
      BY <2>1
    <3>2. Distinct(Box(x))' /\ Members(Box(x))' = Members(Box(x))
      BY <3>1 DEF OneHome, Distinct, Members
    <3> QED BY <1>1, <3>2 DEF OneHome
  <2>2. CASE x = h \/ x = g
    <3>1. Members(Box(x))' \subseteq Members(Box(h)) \cup Members(Box(g))
      BY <2>2
    <3> QED BY <1>1, <2>2, <3>1 DEF OneHome
  <2> QED BY <2>1, <2>2
<1>3. \A x \in Homes : x # h /\ x # g => Members(Box(x))' = Members(Box(x))
  BY DEF Members
<1>4. ASSUME NEW x \in Homes, NEW y \in Homes, x # y
      PROVE  Members(Box(x))' \cap Members(Box(y))' = {}
  <2>1. CASE x \in {h, g} /\ y \in {h, g}
    BY <1>4, <2>1
  <2>2. CASE x \notin {h, g} /\ y \notin {h, g}
    BY <1>3, <1>4, <2>2 DEF OneHome
  <2>3. CASE x \in {h, g} /\ y \notin {h, g}
    <3>1. Members(Box(x))' \subseteq Members(Box(h)) \cup Members(Box(g)) /\ Members(Box(y))' = Members(Box(y))
      BY <1>3, <2>3
    <3>2. Members(Box(h)) \cap Members(Box(y)) = {} /\ Members(Box(g)) \cap Members(Box(y)) = {}
      BY <2>3 DEF OneHome
    <3> QED BY <3>1, <3>2
  <2>4. CASE x \notin {h, g} /\ y \in {h, g}
    <3>1. Members(Box(y))' \subseteq Members(Box(h)) \cup Members(Box(g)) /\ Members(Box(x))' = Members(Box(x))
      BY <1>3, <2>4
    <3>2. Members(Box(h)) \cap Members(Box(x)) = {} /\ Members(Box(g)) \cap Members(Box(x)) = {}
      BY <2>4 DEF OneHome
    <3> QED BY <3>1, <3>2
  <2> QED BY <2>1, <2>2, <2>3, <2>4
<1>5. OneHome'
  BY <1>1, <1>2, <1>4 DEF OneHome
<1>6. \A t : (t \in Given)' <=> (\E x \in Homes : t \in Members(Box(x))') \/ t \in Out'
  BY GivenPartsNext
<1>7. ASSUME NEW t \in Given PROVE t \in Given'
  <2>1. (\E x \in Homes : t \in Members(Box(x))) \/ t \in Out
    BY GivenParts
  <2>2. ASSUME NEW x \in Homes, t \in Members(Box(x)) PROVE \E y \in Homes : t \in Members(Box(y))'
    <3>1. CASE x # h /\ x # g
      BY <1>3, <2>2, <3>1
    <3>2. CASE x = h \/ x = g
      BY <2>2, <3>2
    <3> QED BY <3>1, <3>2
  <2> QED BY <1>1, <1>6, <2>1, <2>2
<1> QED BY <1>5, <1>7

-----------------------------------------------------------------------------
(* Users                                                                   *)

Busy == {"build", "launch", "pick", "push"}
UserStates == {Away} \cup Asking \cup Pushing \cup Ending

(* What a user's record holds, by where the user is.                       *)
LEMMA UserFacts ==
  ASSUME NEW s \in UserStates
  PROVE  /\ s.pc \in {"away", "build", "launch", "pick", "push", "stop", "join", "clear"}
         /\ s.pc \in {"build", "launch", "pick"} => s \in Asking
         /\ s.pc = "push" => s \in Pushing
         /\ s.pc \in Busy => s.task \in Tasks
<1>1. CASE s = Away
  BY <1>1 DEF Away, Busy
<1>2. CASE s \in Asking
  BY <1>2 DEF Asking, Busy
<1>3. CASE s \in Pushing
  BY <1>3 DEF Pushing, Busy
<1>4. CASE s \in Ending
  BY <1>4 DEF Ending, Busy
<1> QED BY <1>1, <1>2, <1>3, <1>4 DEF UserStates

(* A user goes from one place to another.                                  *)
LEMMA UserGoes ==
  ASSUME TypeOK, NEW u \in Users, NEW s \in UserStates, Go(u, s)
  PROVE  /\ user' \in [Users -> UserStates] /\ user'[u] = s
         /\ \A v \in Users : v # u => user'[v] = user[v]
         /\ user[u] \in UserStates
BY DEF TypeOK, Go, UserStates

(* ... with the task it has, if it has one.                                *)
LEMMA UserKeepsTask ==
  ASSUME TypeOK, OneHome, NEW u \in Users, NEW s \in UserStates, Go(u, s), UNCHANGED taskVars,
         Submits(u) <=> s.pc \in Busy, Submits(u) => s.task = user[u].task
  PROVE  OneHome' /\ Given \subseteq Given'
<1>1. /\ user' \in [Users -> UserStates] /\ user'[u] = s
      /\ \A v \in Users : v # u => user'[v] = user[v]
  BY UserGoes
<1>2. \A v \in Users : (Submits(v)' <=> Submits(v)) /\ (Submits(v) => user'[v].task = user[v].task)
  BY <1>1 DEF Submits, Busy
<1>3. UNCHANGED <<queue, fibers, hand, done, lost>>
  BY DEF taskVars
<1>4. Asked' = Asked
  BY <1>2 DEF Asked
<1>5. Out' = Out /\ \A h \in Homes : Box(h)' = Box(h)
  BY <1>3, <1>4 DEF Out, Box
<1>6. \A h \in Homes : Members(Box(h))' = Members(Box(h)) /\ (Distinct(Box(h))' <=> Distinct(Box(h)))
  BY <1>5 DEF Members, Distinct
<1>7. OneHome'
  BY <1>2, <1>3, <1>4, <1>5, <1>6 DEF OneHome
<1>8. Given \subseteq Given'
  BY <1>5, <1>6, GivenParts, GivenPartsNext
<1> QED BY <1>7, <1>8

(* A user gets a task nobody was given before.                             *)
LEMMA UserGetsTask ==
  ASSUME TypeOK, OneHome, NEW u \in Users, NEW s \in UserStates, Go(u, s), UNCHANGED taskVars,
         ~Submits(u), s.pc \in Busy, s.task \notin Given
  PROVE  OneHome' /\ Given \subseteq Given'
<1>0. PICK t : t = s.task
  OBVIOUS
<1>1. /\ user' \in [Users -> UserStates] /\ user'[u] = s
      /\ \A v \in Users : v # u => user'[v] = user[v]
  BY UserGoes
<1>2. Submits(u)' /\ \A v \in Users : v # u => (Submits(v)' <=> Submits(v))
  BY <1>1 DEF Submits, Busy
<1>3. UNCHANGED <<queue, fibers, hand, done, lost>>
  BY DEF taskVars
<1>4. Asked' = Asked \cup {t}
  BY <1>0, <1>1, <1>2 DEF Asked
<1>5. Out' = Out \cup {t} /\ \A h \in Homes : Box(h)' = Box(h)
  BY <1>3, <1>4 DEF Out, Box
<1>6. \A h \in Homes : Members(Box(h))' = Members(Box(h)) /\ (Distinct(Box(h))' <=> Distinct(Box(h)))
  BY <1>5 DEF Members, Distinct
<1>7. (\A h \in Homes : t \notin Members(Box(h))) /\ t \notin Out
  BY <1>0, GivenParts
<1>8. \A v \in Users : Submits(v) => user[v].task # t
  BY <1>7 DEF Out, Asked
<1>9. \A x, y \in Users : Submits(x)' /\ Submits(y)' /\ user'[x].task = user'[y].task => x = y
  BY <1>0, <1>1, <1>2, <1>8 DEF OneHome
<1>10. OneHome'
  <2>1. \A h \in Homes : Distinct(Box(h))' /\ Members(Box(h))' \cap Out' = {}
    BY <1>5, <1>6, <1>7 DEF OneHome
  <2>2. \A h, g \in Homes : h # g => Members(Box(h))' \cap Members(Box(g))' = {}
    BY <1>6 DEF OneHome
  <2>3. done' \cap lost' = {} /\ (done' \cup lost') \cap Asked' = {}
    BY <1>3, <1>4, <1>7 DEF OneHome, Out
  <2> QED BY <1>9, <2>1, <2>2, <2>3 DEF OneHome
<1>11. Given \subseteq Given'
  BY <1>5, <1>6, GivenParts, GivenPartsNext
<1> QED BY <1>10, <1>11

(* Processor::enqueue_task: the task goes from the submitter to a queue.   *)
LEMMA UserGivesTask ==
  ASSUME TypeOK, OneHome, NEW u \in Users, NEW p \in Procs, Submits(u), Go(u, Away),
         queue' = [queue EXCEPT ![p] = Append(@, user[u].task)], UNCHANGED <<fibers, hand, done, lost>>
  PROVE  OneHome' /\ Given \subseteq Given' /\ queue' \in [Procs -> Seq(Tasks)]
<1>0. PICK t, k : t = user[u].task /\ k = <<"queue", p>>
  OBVIOUS
<1>1. /\ user' \in [Users -> UserStates] /\ user'[u] = Away
      /\ \A v \in Users : v # u => user'[v] = user[v]
      /\ user[u] \in UserStates
  BY UserGoes DEF UserStates
<1>2. ~Submits(u)' /\ \A v \in Users : v # u => (Submits(v)' <=> Submits(v))
  BY <1>1 DEF Submits, Away
<1>3. t \in Tasks
  BY <1>0, <1>1, UserFacts DEF Submits, Busy
<1>4. /\ queue'[p] = Append(queue[p], t) /\ queue[p] \in Seq(Tasks)
      /\ \A x \in Procs : x # p => queue'[x] = queue[x]
  BY <1>0 DEF TypeOK
<1>5. queue' \in [Procs -> Seq(Tasks)]
  BY <1>0, <1>3, <1>4, AppendType DEF TypeOK
<1>6. k \in Homes /\ Box(k) = queue[p] /\ Box(k)' = Append(queue[p], t)
  BY <1>0, <1>4 DEF Homes, Box
<1>7. \A h \in Homes : h # k => Box(h)' = Box(h)
  <2> SUFFICES ASSUME NEW h \in Homes, h # k PROVE Box(h)' = Box(h)
    OBVIOUS
  <2>1. h = <<h[1], h[2]>> /\ h[2] \in Procs
    BY DEF Homes
  <2> QED BY <1>0, <1>4, <2>1 DEF Box
<1>8. Asked' = Asked \ {t} /\ t \in Asked
  <2>1. \A v \in Users : v # u /\ Submits(v) => user[v].task # t
    BY <1>0 DEF OneHome
  <2> QED BY <1>0, <1>1, <1>2, <2>1 DEF Asked
<1>9. Out' = Out \ {t} /\ t \in Out
  BY <1>8 DEF Out, OneHome
<1>10. t \notin Members(Box(k)) /\ Distinct(Box(k))
  BY <1>6, <1>9 DEF OneHome
<1>11. Members(Box(k))' = Members(Box(k)) \cup {t}
  <2>1. Members(Append(queue[p], t)) = Members(queue[p]) \cup {t}
    BY <1>3, <1>4, MembersAppend
  <2> QED BY <1>6, <2>1 DEF Members
<1>12. Distinct(Box(k))'
  <2>1. Distinct(Append(queue[p], t))
    BY <1>3, <1>4, <1>6, <1>10, DistinctAppend
  <2> QED BY <1>6, <2>1 DEF Distinct
<1>13. \A h \in Homes : h # k => Members(Box(h))' = Members(Box(h)) /\ (Distinct(Box(h))' <=> Distinct(Box(h)))
  BY <1>7 DEF Members, Distinct
<1>14. OneHome'
  <2>1. \A h \in Homes : Distinct(Box(h))' /\ Members(Box(h))' \cap Out' = {}
    <3> SUFFICES ASSUME NEW h \in Homes PROVE Distinct(Box(h))' /\ Members(Box(h))' \cap Out' = {}
      OBVIOUS
    <3>1. CASE h = k
      BY <1>9, <1>11, <1>12, <3>1 DEF OneHome
    <3>2. CASE h # k
      BY <1>9, <1>13, <3>2 DEF OneHome
    <3> QED BY <3>1, <3>2
  <2>2. \A h \in Homes : t \notin Members(Box(h))
    BY <1>9 DEF OneHome
  <2>3. ASSUME NEW h \in Homes, NEW g \in Homes, h # g
        PROVE  Members(Box(h))' \cap Members(Box(g))' = {}
    <3>1. Members(Box(h)) \cap Members(Box(g)) = {}
      BY <2>3 DEF OneHome
    <3>2. CASE h = k
      BY <1>11, <1>13, <2>2, <2>3, <3>1, <3>2
    <3>3. CASE g = k
      BY <1>11, <1>13, <2>2, <2>3, <3>1, <3>3
    <3>4. CASE h # k /\ g # k
      BY <1>13, <3>1, <3>4
    <3> QED BY <3>2, <3>3, <3>4
  <2>4. done' \cap lost' = {} /\ (done' \cup lost') \cap Asked' = {}
    BY <1>8 DEF OneHome
  <2>5. \A x, y \in Users : Submits(x)' /\ Submits(y)' /\ user'[x].task = user'[y].task => x = y
    BY <1>1, <1>2 DEF OneHome
  <2> QED BY <2>1, <2>3, <2>4, <2>5 DEF OneHome
<1>15. Given \subseteq Given'
  <2>1. ASSUME NEW a \in Given PROVE a \in Given'
    <3>1. CASE a = t
      BY <1>6, <1>11, <3>1, GivenPartsNext
    <3>2. CASE a # t /\ a \in Out
      BY <1>9, <3>2, GivenPartsNext
    <3>3. ASSUME NEW h \in Homes, a \in Members(Box(h)) PROVE a \in Members(Box(h))'
      BY <1>11, <1>13, <3>3
    <3> QED BY <3>1, <3>2, <3>3, GivenParts, GivenPartsNext
  <2> QED BY <2>1
<1> QED BY <1>5, <1>14, <1>15

(* A submission that finds no processor: the task is gone.                 *)
LEMMA UserLosesTask ==
  ASSUME TypeOK, OneHome, NEW u \in Users, Submits(u), Go(u, Away),
         lost' = lost \cup {user[u].task}, UNCHANGED <<queue, fibers, hand, done>>
  PROVE  OneHome' /\ Given \subseteq Given' /\ lost' \in SUBSET Tasks
<1>0. PICK t : t = user[u].task
  OBVIOUS
<1>1. /\ user' \in [Users -> UserStates] /\ user'[u] = Away
      /\ \A v \in Users : v # u => user'[v] = user[v]
      /\ user[u] \in UserStates
  BY UserGoes DEF UserStates
<1>2. ~Submits(u)' /\ \A v \in Users : v # u => (Submits(v)' <=> Submits(v))
  BY <1>1 DEF Submits, Away
<1>3. t \in Tasks
  BY <1>0, <1>1, UserFacts DEF Submits, Busy
<1>4. Asked' = Asked \ {t} /\ t \in Asked
  <2>1. \A v \in Users : v # u /\ Submits(v) => user[v].task # t
    BY <1>0 DEF OneHome
  <2> QED BY <1>0, <1>1, <1>2, <2>1 DEF Asked
<1>5. Out' = Out /\ done' \cap lost' = {} /\ (done' \cup lost') \cap Asked' = {}
  BY <1>0, <1>4 DEF Out, OneHome
<1>6. \A h \in Homes : Members(Box(h))' = Members(Box(h)) /\ (Distinct(Box(h))' <=> Distinct(Box(h)))
  BY DEF Box, Members, Distinct
<1>7. \A x, y \in Users : Submits(x)' /\ Submits(y)' /\ user'[x].task = user'[y].task => x = y
  BY <1>1, <1>2 DEF OneHome
<1>8. OneHome'
  BY <1>5, <1>6, <1>7 DEF OneHome
<1>9. Given \subseteq Given'
  BY <1>5, <1>6, GivenParts, GivenPartsNext
<1> QED BY <1>0, <1>3, <1>8, <1>9 DEF TypeOK

-----------------------------------------------------------------------------
(* Loops                                                                   *)

(* What the homes of a processor are called.                               *)
LEMMA BoxOf ==
  ASSUME NEW p \in Procs
  PROVE  /\ <<"queue", p>> \in Homes /\ Box(<<"queue", p>>) = queue[p]
         /\ <<"fibers", p>> \in Homes /\ Box(<<"fibers", p>>) = fibers[p]
         /\ <<"hand", p>> \in Homes /\ Box(<<"hand", p>>) = hand[p]
         /\ Box(<<"queue", p>>)' = queue'[p] /\ Box(<<"fibers", p>>)' = fibers'[p]
         /\ Box(<<"hand", p>>)' = hand'[p]
BY DEF Homes, Box

(* Only the queue of p and the k-home of q change.                         *)
LEMMA TwoChange ==
  ASSUME NEW p \in Procs, NEW q \in Procs, NEW k \in {"fibers", "hand"},
         \A x \in Procs : x # p => queue'[x] = queue[x],
         k = "fibers" => hand' = hand /\ \A x \in Procs : x # q => fibers'[x] = fibers[x],
         k = "hand" => fibers' = fibers /\ \A x \in Procs : x # q => hand'[x] = hand[x]
  PROVE  \A x \in Homes : x # <<"queue", p>> /\ x # <<k, q>> => Box(x)' = Box(x)
<1> SUFFICES ASSUME NEW x \in Homes, x # <<"queue", p>>, x # <<k, q>> PROVE Box(x)' = Box(x)
  OBVIOUS
<1>1. x = <<x[1], x[2]>> /\ x[2] \in Procs /\ x[1] \in {"queue", "fibers", "hand"}
  BY DEF Homes
<1>2. CASE x[1] = "queue"
  BY <1>1, <1>2 DEF Box
<1>3. CASE x[1] = "fibers"
  BY <1>1, <1>3 DEF Box
<1>4. CASE x[1] = "hand"
  BY <1>1, <1>4 DEF Box
<1> QED BY <1>1, <1>2, <1>3, <1>4

(* drain_some makes fibers of the front of the queue.                      *)
LEMMA DrainKeeps ==
  ASSUME TypeOK, OneHome, NEW p \in Procs, Drain(p)
  PROVE  /\ OneHome' /\ Given \subseteq Given'
         /\ queue' \in [Procs -> Seq(Tasks)] /\ fibers' \in [Procs -> Seq(Tasks)]
<1>1. PICK n, a, b : /\ n = Min({DrainLimit, Len(queue[p])})
                     /\ a = SubSeq(queue[p], 1, n) /\ b = SubSeq(queue[p], n + 1, Len(queue[p]))
  OBVIOUS
<1>2. /\ fibers' = [fibers EXCEPT ![p] = fibers[p] \o a] /\ queue' = [queue EXCEPT ![p] = b]
      /\ UNCHANGED <<hand, done, lost, user>>
  BY <1>1 DEF Drain
<1>3. queue[p] \in Seq(Tasks) /\ fibers[p] \in Seq(Tasks) /\ Len(queue[p]) \in Nat
  BY DEF TypeOK
<1>4. n \in 0..Len(queue[p])
  BY <1>1, <1>3, MinFacts, RuntimeAssumption
<1>5. PICK h, g : h = <<"queue", p>> /\ g = <<"fibers", p>>
  OBVIOUS
<1>6. /\ h \in Homes /\ g \in Homes /\ h # g /\ Box(h) = queue[p] /\ Box(g) = fibers[p]
      /\ Box(h)' = queue'[p] /\ Box(g)' = fibers'[p]
  BY <1>5, BoxOf
<1>7. /\ Distinct(queue[p]) /\ Distinct(fibers[p]) /\ Members(queue[p]) \cap Members(fibers[p]) = {}
  BY <1>6 DEF OneHome
<1>8. /\ a \in Seq(Tasks) /\ b \in Seq(Tasks) /\ Distinct(a) /\ Distinct(b)
      /\ Members(a) \cap Members(b) = {} /\ Members(a) \cup Members(b) = Members(queue[p])
  <2>1. LET c == SubSeq(queue[p], 1, n)
            d == SubSeq(queue[p], n + 1, Len(queue[p]))
        IN  /\ c \in Seq(Tasks) /\ d \in Seq(Tasks) /\ Distinct(c) /\ Distinct(d)
            /\ Members(c) \cap Members(d) = {} /\ Members(c) \cup Members(d) = Members(queue[p])
    BY <1>3, <1>4, <1>7, CutFacts
  <2> QED BY <1>1, <2>1, Zenon
<1>9. PICK f : f = fibers[p] \o a
  OBVIOUS
<1>10. f \in Seq(Tasks) /\ Distinct(f) /\ Members(f) = Members(fibers[p]) \cup Members(a)
  <2>1. Members(fibers[p]) \cap Members(a) = {}
    BY <1>7, <1>8
  <2>2. Distinct(fibers[p] \o a)
    BY <1>3, <1>7, <1>8, <2>1, DistinctConcat
  <2>3. Members(fibers[p] \o a) = Members(fibers[p]) \cup Members(a)
    BY <1>3, <1>8, MembersConcat
  <2>4. fibers[p] \o a \in Seq(Tasks)
    BY <1>3, <1>8
  <2> QED BY <1>9, <2>2, <2>3, <2>4, Zenon
<1>11. /\ fibers'[p] = f /\ queue'[p] = b
       /\ \A x \in Procs : x # p => fibers'[x] = fibers[x] /\ queue'[x] = queue[x]
  BY <1>2, <1>9 DEF TypeOK
<1>12. queue' \in [Procs -> Seq(Tasks)] /\ fibers' \in [Procs -> Seq(Tasks)]
  BY <1>2, <1>8, <1>9, <1>10 DEF TypeOK
<1>13. \A x \in Homes : x # h /\ x # g => Box(x)' = Box(x)
  BY <1>2, <1>5, <1>11, TwoChange
<1>14. Members(Box(h))' = Members(b) /\ Members(Box(g))' = Members(f)
  BY <1>6, <1>11 DEF Members
<1>15. Distinct(Box(h))' /\ Distinct(Box(g))'
  BY <1>6, <1>8, <1>10, <1>11 DEF Distinct
<1>16. /\ (Members(Box(h)) \cap Members(Box(g)) = {})'
       /\ Members(Box(h))' \cup Members(Box(g))' = Members(Box(h)) \cup Members(Box(g))
  BY <1>6, <1>7, <1>8, <1>10, <1>14
<1>17. UNCHANGED <<done, lost, user>>
  BY <1>2
<1>18. OneHome' /\ Given \subseteq Given'
  BY <1>6, <1>13, <1>15, <1>16, <1>17, HomesShare
<1> QED BY <1>12, <1>18

(* A thief takes the back of another's queue, newest first.                *)
LEMMA StealKeeps ==
  ASSUME TypeOK, OneHome, NEW p \in Procs, NEW v \in Procs, Steal(p, v)
  PROVE  /\ OneHome' /\ Given \subseteq Given'
         /\ queue' \in [Procs -> Seq(Tasks)] /\ hand' \in [Procs -> Seq(Tasks)]
<1>1. PICK n, m, a, b : /\ n = StealCount(Len(queue[v])) /\ m = Len(queue[v]) - n
                        /\ a = SubSeq(queue[v], 1, m) /\ b = SubSeq(queue[v], m + 1, Len(queue[v]))
  OBVIOUS
<1>2. /\ hand' = [hand EXCEPT ![p] = Reverse(b)] /\ queue' = [queue EXCEPT ![v] = a]
      /\ hand[p] = <<>> /\ UNCHANGED <<fibers, done, lost, user>>
  BY <1>1 DEF Steal, LeftBehind
<1>3. queue[v] \in Seq(Tasks) /\ Len(queue[v]) \in Nat
  BY DEF TypeOK
<1>4. m \in 0..Len(queue[v])
  <2>1. n \in Nat /\ n <= Len(queue[v])
    BY <1>1, <1>3, StealCountOK
  <2> QED BY <1>1, <1>3, <2>1
<1>5. PICK h, g : h = <<"queue", v>> /\ g = <<"hand", p>>
  OBVIOUS
<1>6. /\ h \in Homes /\ g \in Homes /\ h # g /\ Box(h) = queue[v] /\ Box(g) = hand[p]
      /\ Box(h)' = queue'[v] /\ Box(g)' = hand'[p]
  BY <1>5, BoxOf
<1>7. Distinct(queue[v]) /\ Members(hand[p]) = {}
  BY <1>2, <1>6 DEF OneHome, Members
<1>8. /\ a \in Seq(Tasks) /\ b \in Seq(Tasks) /\ Distinct(a) /\ Distinct(b)
      /\ Members(a) \cap Members(b) = {} /\ Members(a) \cup Members(b) = Members(queue[v])
  <2>1. LET c == SubSeq(queue[v], 1, m)
            d == SubSeq(queue[v], m + 1, Len(queue[v]))
        IN  /\ c \in Seq(Tasks) /\ d \in Seq(Tasks) /\ Distinct(c) /\ Distinct(d)
            /\ Members(c) \cap Members(d) = {} /\ Members(c) \cup Members(d) = Members(queue[v])
    BY <1>3, <1>4, <1>7, CutFacts
  <2> QED BY <1>1, <2>1, Zenon
<1>9. PICK f : f = Reverse(b)
  OBVIOUS
<1>10. f \in Seq(Tasks) /\ Distinct(f) /\ Members(f) = Members(b)
  BY <1>8, <1>9, ReverseFacts
<1>11. /\ hand'[p] = f /\ queue'[v] = a
       /\ \A x \in Procs : x # p => hand'[x] = hand[x]
       /\ \A x \in Procs : x # v => queue'[x] = queue[x]
  BY <1>2, <1>9 DEF TypeOK
<1>12. queue' \in [Procs -> Seq(Tasks)] /\ hand' \in [Procs -> Seq(Tasks)]
  BY <1>2, <1>8, <1>9, <1>10 DEF TypeOK
<1>13. \A x \in Homes : x # h /\ x # g => Box(x)' = Box(x)
  BY <1>2, <1>5, <1>11, TwoChange
<1>14. Members(Box(h))' = Members(a) /\ Members(Box(g))' = Members(f)
  BY <1>6, <1>11 DEF Members
<1>15. Distinct(Box(h))' /\ Distinct(Box(g))'
  BY <1>6, <1>8, <1>10, <1>11 DEF Distinct
<1>16. /\ (Members(Box(h)) \cap Members(Box(g)) = {})'
       /\ Members(Box(h))' \cup Members(Box(g))' = Members(Box(h)) \cup Members(Box(g))
  BY <1>6, <1>7, <1>8, <1>10, <1>14
<1>17. UNCHANGED <<done, lost, user>>
  BY <1>2
<1>18. OneHome' /\ Given \subseteq Given'
  BY <1>6, <1>13, <1>15, <1>16, <1>17, HomesShare
<1> QED BY <1>12, <1>18

(* enqueue_stolen_tasks puts what was stolen behind the thief's own queue. *)
LEMMA StealEndsKeeps ==
  ASSUME TypeOK, OneHome, NEW p \in Procs, StealEnds(p)
  PROVE  /\ OneHome' /\ Given \subseteq Given'
         /\ queue' \in [Procs -> Seq(Tasks)] /\ hand' \in [Procs -> Seq(Tasks)]
<1>2. /\ queue' = [queue EXCEPT ![p] = queue[p] \o hand[p]] /\ hand' = [hand EXCEPT ![p] = <<>>]
      /\ UNCHANGED <<fibers, done, lost, user>>
  BY DEF StealEnds
<1>3. queue[p] \in Seq(Tasks) /\ hand[p] \in Seq(Tasks)
  BY DEF TypeOK
<1>5. PICK h, g : h = <<"queue", p>> /\ g = <<"hand", p>>
  OBVIOUS
<1>6. /\ h \in Homes /\ g \in Homes /\ h # g /\ Box(h) = queue[p] /\ Box(g) = hand[p]
      /\ Box(h)' = queue'[p] /\ Box(g)' = hand'[p]
  BY <1>5, BoxOf
<1>7. Distinct(queue[p]) /\ Distinct(hand[p]) /\ Members(queue[p]) \cap Members(hand[p]) = {}
  BY <1>6 DEF OneHome
<1>9. PICK f : f = queue[p] \o hand[p]
  OBVIOUS
<1>10. f \in Seq(Tasks) /\ Distinct(f) /\ Members(f) = Members(queue[p]) \cup Members(hand[p])
  <2>2. Distinct(queue[p] \o hand[p])
    BY <1>3, <1>7, DistinctConcat
  <2>3. Members(queue[p] \o hand[p]) = Members(queue[p]) \cup Members(hand[p])
    BY <1>3, MembersConcat
  <2>4. queue[p] \o hand[p] \in Seq(Tasks)
    BY <1>3
  <2> QED BY <1>9, <2>2, <2>3, <2>4, Zenon
<1>11. /\ hand'[p] = <<>> /\ queue'[p] = f
       /\ \A x \in Procs : x # p => hand'[x] = hand[x] /\ queue'[x] = queue[x]
  BY <1>2, <1>9 DEF TypeOK
<1>12. queue' \in [Procs -> Seq(Tasks)] /\ hand' \in [Procs -> Seq(Tasks)]
  BY <1>2, <1>9, <1>10 DEF TypeOK
<1>13. \A x \in Homes : x # h /\ x # g => Box(x)' = Box(x)
  BY <1>2, <1>5, <1>11, TwoChange
<1>14. Members(Box(h))' = Members(f) /\ Members(Box(g))' = {}
  BY <1>6, <1>11 DEF Members
<1>15. Distinct(Box(h))' /\ Distinct(Box(g))'
  BY <1>6, <1>10, <1>11 DEF Distinct
<1>16. /\ (Members(Box(h)) \cap Members(Box(g)) = {})'
       /\ Members(Box(h))' \cup Members(Box(g))' = Members(Box(h)) \cup Members(Box(g))
  BY <1>6, <1>10, <1>14
<1>17. UNCHANGED <<done, lost, user>>
  BY <1>2
<1>18. OneHome' /\ Given \subseteq Given'
  BY <1>6, <1>13, <1>15, <1>16, <1>17, HomesShare
<1> QED BY <1>12, <1>18

(* A fiber runs its task.                                                  *)
LEMMA RunKeeps ==
  ASSUME TypeOK, OneHome, NEW p \in Procs, RunTask(p)
  PROVE  /\ OneHome' /\ Given \subseteq Given'
         /\ fibers' \in [Procs -> Seq(Tasks)] /\ done' \in SUBSET Tasks
<1>1. PICK t, r, k : t = Head(fibers[p]) /\ r = Tail(fibers[p]) /\ k = <<"fibers", p>>
  OBVIOUS
<1>2. /\ fibers[p] # <<>> /\ done' = done \cup {t} /\ fibers' = [fibers EXCEPT ![p] = r]
      /\ UNCHANGED <<queue, hand, lost, user>>
  BY <1>1 DEF RunTask
<1>3. fibers[p] \in Seq(Tasks)
  BY DEF TypeOK
<1>4. t \in Tasks /\ r \in Seq(Tasks) /\ Members(fibers[p]) = Members(r) \cup {t}
  <2>1. /\ Head(fibers[p]) \in Tasks /\ Tail(fibers[p]) \in Seq(Tasks)
        /\ Members(fibers[p]) = Members(Tail(fibers[p])) \cup {Head(fibers[p])}
    BY <1>2, <1>3, MembersTail
  <2> QED BY <1>1, <2>1, Zenon
<1>5. k \in Homes /\ Box(k) = fibers[p] /\ Box(k)' = fibers'[p]
  BY <1>1, BoxOf
<1>6. Distinct(r) /\ t \notin Members(r)
  <2>1. Distinct(fibers[p])
    BY <1>5 DEF OneHome
  <2>2. Distinct(Tail(fibers[p])) /\ Head(fibers[p]) \notin Members(Tail(fibers[p]))
    BY <1>2, <1>3, <2>1, DistinctTail
  <2> QED BY <1>1, <2>2, Zenon
<1>7. fibers'[p] = r /\ \A x \in Procs : x # p => fibers'[x] = fibers[x]
  BY <1>2 DEF TypeOK
<1>8. fibers' \in [Procs -> Seq(Tasks)] /\ done' \in SUBSET Tasks
  BY <1>2, <1>4 DEF TypeOK
<1>9. \A h \in Homes : h # k => Box(h)' = Box(h)
  <2> SUFFICES ASSUME NEW h \in Homes, h # k PROVE Box(h)' = Box(h)
    OBVIOUS
  <2>1. h = <<h[1], h[2]>> /\ h[2] \in Procs
    BY DEF Homes
  <2> QED BY <1>1, <1>2, <1>7, <2>1 DEF Box
<1>10. Asked' = Asked /\ Out' = Out \cup {t} /\ \A u \in Users : Submits(u)' <=> Submits(u)
  BY <1>2 DEF Asked, Out, Submits
<1>11. Members(Box(k))' = Members(Box(k)) \ {t} /\ t \in Members(Box(k)) /\ Distinct(Box(k))'
  <2>1. Members(Box(k))' = Members(r) /\ Distinct(Box(k))'
    BY <1>5, <1>6, <1>7 DEF Members, Distinct
  <2> QED BY <1>4, <1>5, <1>6, <2>1
<1>12. \A h \in Homes : h # k => Members(Box(h))' = Members(Box(h)) /\ (Distinct(Box(h))' <=> Distinct(Box(h)))
  BY <1>9 DEF Members, Distinct
<1>13. t \notin Out /\ \A h \in Homes : h # k => t \notin Members(Box(h))
  BY <1>5, <1>11 DEF OneHome
<1>14. OneHome'
  <2>1. \A h \in Homes : Distinct(Box(h))' /\ Members(Box(h))' \cap Out' = {}
    <3> SUFFICES ASSUME NEW h \in Homes PROVE Distinct(Box(h))' /\ Members(Box(h))' \cap Out' = {}
      OBVIOUS
    <3>1. CASE h = k
      BY <1>10, <1>11, <3>1 DEF OneHome
    <3>2. CASE h # k
      BY <1>10, <1>12, <1>13, <3>2 DEF OneHome
    <3> QED BY <3>1, <3>2
  <2>2. ASSUME NEW h \in Homes, NEW g \in Homes, h # g
        PROVE  Members(Box(h))' \cap Members(Box(g))' = {}
    <3>1. Members(Box(h))' \subseteq Members(Box(h)) /\ Members(Box(g))' \subseteq Members(Box(g))
      BY <1>11, <1>12
    <3> QED BY <2>2, <3>1 DEF OneHome
  <2>3. done' \cap lost' = {} /\ (done' \cup lost') \cap Asked' = {}
    BY <1>2, <1>10, <1>13 DEF OneHome, Out
  <2>4. \A x, y \in Users : Submits(x)' /\ Submits(y)' /\ user'[x].task = user'[y].task => x = y
    BY <1>2, <1>10 DEF OneHome
  <2> QED BY <2>1, <2>2, <2>3, <2>4 DEF OneHome
<1>15. ASSUME NEW a \in Given PROVE a \in Given'
  <2>1. CASE a = t \/ a \in Out
    BY <1>10, <2>1, GivenPartsNext
  <2>2. ASSUME NEW h \in Homes, a \in Members(Box(h)), a # t PROVE a \in Members(Box(h))'
    BY <1>11, <1>12, <2>2
  <2> QED BY <2>1, <2>2, GivenParts, GivenPartsNext
<1> QED BY <1>8, <1>14, <1>15

(* processors_.clear() destroys what the queues hold, and counts it.       *)
LEMMA ClearKeeps ==
  ASSUME TypeOK, OneHome, NEW u \in Users, Clear(u)
  PROVE  /\ OneHome' /\ Given \subseteq Given'
         /\ queue' \in [Procs -> Seq(Tasks)] /\ fibers' \in [Procs -> Seq(Tasks)]
         /\ lost' \in SUBSET Tasks /\ user' \in [Users -> UserStates]
<1> DEFINE Q == Destroyed
<1>1. /\ user[u].pc = "clear" /\ Go(u, Away) /\ UNCHANGED <<hand, done>>
      /\ queue' = [p \in Procs |-> <<>>] /\ fibers' = [p \in Procs |-> <<>>] /\ lost' = lost \cup Q
  BY DEF Clear, At
<1>2. Away \in UserStates
  BY DEF UserStates
<1>3. /\ user' \in [Users -> UserStates] /\ user'[u] = Away
      /\ \A v \in Users : v # u => user'[v] = user[v]
  BY <1>1, <1>2, UserGoes
<1>4. \A v \in Users : (Submits(v)' <=> Submits(v)) /\ (Submits(v) => user'[v] = user[v])
  BY <1>1, <1>3 DEF Submits, Away
<1>5. Asked' = Asked
  BY <1>4 DEF Asked
<1>6. \A t : t \in Q <=> \E p \in Procs : t \in Members(queue[p]) \/ t \in Members(fibers[p])
  <2> DEFINE In(p) == Range(queue[p]) \cup Range(fibers[p])
  <2>1. Q = UNION {In(p) : p \in Procs}
    BY DEF Destroyed
  <2>2. \A p : In(p) = Members(queue[p]) \cup Members(fibers[p])
    BY DEF Range, Members
  <2> HIDE DEF In, Q
  <2> QED BY <2>1, <2>2
<1> HIDE DEF Q
<1>7. \A t : t \in Q => \E h \in Homes : h[1] # "hand" /\ t \in Members(Box(h))
  <2> SUFFICES ASSUME NEW t \in Q PROVE \E h \in Homes : h[1] # "hand" /\ t \in Members(Box(h))
    OBVIOUS
  <2>1. PICK p \in Procs : t \in Members(queue[p]) \/ t \in Members(fibers[p])
    BY <1>6
  <2>2. <<"queue", p>>[1] # "hand" /\ <<"fibers", p>>[1] # "hand"
    OBVIOUS
  <2> QED BY <2>1, <2>2, BoxOf
<1>8. ASSUME NEW h \in Homes
      PROVE  /\ h[1] = "hand" => Box(h)' = Box(h)
             /\ h[1] # "hand" => Box(h)' = <<>> /\ Members(Box(h)) \subseteq Q
  <2>1. h[2] \in Procs /\ h[1] \in {"queue", "fibers", "hand"}
    BY DEF Homes
  <2>2. CASE h[1] = "hand"
    BY <1>1, <2>2 DEF Box
  <2>3. CASE h[1] # "hand"
    <3>1. Box(h)' = <<>>
      BY <1>1, <2>1, <2>3 DEF Box
    <3>2. Box(h) = queue[h[2]] \/ Box(h) = fibers[h[2]]
      BY <2>1, <2>3 DEF Box
    <3> QED BY <1>6, <2>1, <2>3, <3>1, <3>2
  <2> QED BY <2>2, <2>3
<1>9. ASSUME NEW h \in Homes
      PROVE  /\ h[1] = "hand" => Members(Box(h))' = Members(Box(h)) /\ (Distinct(Box(h))' <=> Distinct(Box(h)))
             /\ h[1] # "hand" => Members(Box(h))' = {} /\ Distinct(Box(h))'
  BY <1>8 DEF Members, Distinct
<1>10. Q \cap Out = {} /\ Out' = Out \cup Q
  <2>1. Q \cap Out = {}
    BY <1>7 DEF OneHome
  <2> QED BY <1>1, <1>5, <2>1 DEF Out
<1>11. \A h \in Homes : h[1] = "hand" => Members(Box(h)) \cap Q = {}
  <2> SUFFICES ASSUME NEW h \in Homes, h[1] = "hand", NEW t \in Q, t \in Members(Box(h)) PROVE FALSE
    OBVIOUS
  <2>1. PICK g \in Homes : g[1] # "hand" /\ t \in Members(Box(g))
    BY <1>7
  <2>2. g # h
    BY <2>1
  <2> QED BY <2>1, <2>2 DEF OneHome
<1>12. OneHome'
  <2>1. \A h \in Homes : Distinct(Box(h))' /\ Members(Box(h))' \cap Out' = {}
    BY <1>9, <1>10, <1>11 DEF OneHome
  <2>2. ASSUME NEW h \in Homes, NEW g \in Homes, h # g
        PROVE  Members(Box(h))' \cap Members(Box(g))' = {}
    <3>1. Members(Box(h))' \subseteq Members(Box(h)) /\ Members(Box(g))' \subseteq Members(Box(g))
      BY <1>9
    <3> QED BY <2>2, <3>1 DEF OneHome
  <2>3. done' \cap lost' = {} /\ (done' \cup lost') \cap Asked' = {}
    BY <1>1, <1>5, <1>10 DEF OneHome, Out
  <2>4. \A x, y \in Users : Submits(x)' /\ Submits(y)' /\ user'[x].task = user'[y].task => x = y
    BY <1>4 DEF OneHome
  <2> QED BY <2>1, <2>2, <2>3, <2>4 DEF OneHome
<1>13. ASSUME NEW a \in Given PROVE a \in Given'
  <2>1. CASE a \in Out \/ a \in Q
    BY <1>10, <2>1, GivenPartsNext
  <2>2. ASSUME NEW h \in Homes, a \in Members(Box(h)), a \notin Q PROVE a \in Members(Box(h))'
    BY <1>8, <1>9, <2>2
  <2> QED BY <2>1, <2>2, GivenParts, GivenPartsNext
<1>14. Q \subseteq Tasks
  <2>1. \A p \in Procs : Members(queue[p]) \subseteq Tasks /\ Members(fibers[p]) \subseteq Tasks
    BY DEF TypeOK, Members
  <2> QED BY <1>6, <2>1
<1>15. queue' \in [Procs -> Seq(Tasks)] /\ fibers' \in [Procs -> Seq(Tasks)] /\ lost' \in SUBSET Tasks
  <2>1. <<>> \in Seq(Tasks)
    OBVIOUS
  <2> QED BY <1>1, <1>14, <2>1 DEF TypeOK
<1> QED BY <1>3, <1>12, <1>13, <1>15

-----------------------------------------------------------------------------
(* Every step keeps every task, and keeps it in one place                  *)

LEMMA LoopKeeps ==
  ASSUME TypeOK, OneHome, NEW p \in Procs, LoopStep(p)
  PROVE  TypeOK' /\ OneHome' /\ Given \subseteq Given'
<1>1. UNCHANGED <<lifeVars, running, user>>
  BY DEF LoopStep, Drain, LoopEnds, RunTask, Sleep, WakeUp, StealEnds, Steal, procVars
<1>2. loop' \in [Procs -> {"off", "drain", "run", "sleep", "steal", "ended"}]
  BY DEF LoopStep, Drain, LoopEnds, RunTask, Sleep, WakeUp, StealEnds, Steal, procVars, Loops, TypeOK
<1>3. CASE Drain(p)
  <2>1. UNCHANGED <<hand, done, lost>>
    BY <1>3 DEF Drain
  <2> QED BY <1>1, <1>2, <1>3, <2>1, DrainKeeps DEF TypeOK, lifeVars
<1>4. CASE LoopEnds(p) \/ Sleep(p) \/ WakeUp(p)
  <2>1. UNCHANGED <<queue, fibers, hand, done, lost, user>>
    BY <1>4 DEF LoopEnds, Sleep, WakeUp, taskVars
  <2>2. \A h \in Homes : Members(Box(h))' = Members(Box(h)) /\ (Distinct(Box(h))' <=> Distinct(Box(h)))
    BY <2>1 DEF Box, Members, Distinct
  <2>3. Asked' = Asked /\ Out' = Out /\ \A u \in Users : Submits(u)' <=> Submits(u)
    BY <2>1 DEF Asked, Out, Submits
  <2>4. OneHome'
    BY <2>1, <2>2, <2>3 DEF OneHome
  <2>5. Given \subseteq Given'
    BY <2>2, <2>3, GivenParts, GivenPartsNext
  <2> QED BY <1>1, <1>2, <2>1, <2>4, <2>5 DEF TypeOK, lifeVars
<1>5. CASE RunTask(p)
  <2>1. UNCHANGED <<queue, hand, lost>>
    BY <1>5 DEF RunTask
  <2> QED BY <1>1, <1>2, <1>5, <2>1, RunKeeps DEF TypeOK, lifeVars
<1>6. CASE StealEnds(p)
  <2>1. UNCHANGED <<fibers, done, lost>>
    BY <1>6 DEF StealEnds
  <2> QED BY <1>1, <1>2, <1>6, <2>1, StealEndsKeeps DEF TypeOK, lifeVars
<1>7. ASSUME NEW v \in Procs, Steal(p, v) PROVE TypeOK' /\ OneHome' /\ Given \subseteq Given'
  <2>1. UNCHANGED <<fibers, done, lost>>
    BY <1>7 DEF Steal
  <2> QED BY <1>1, <1>2, <1>7, <2>1, StealKeeps DEF TypeOK, lifeVars
<1> QED BY <1>3, <1>4, <1>5, <1>6, <1>7 DEF LoopStep

LEMMA UserKeeps ==
  ASSUME TypeOK, OneHome, NEW u \in Users,
         UserStep(u) \/ Configure(u) \/ Shutdown(u) \/ \E t \in Tasks : Submit(u, t)
  PROVE  TypeOK' /\ OneHome' /\ Given \subseteq Given'
<1>0. user[u] \in UserStates /\ user \in [Users -> UserStates]
  BY DEF TypeOK, UserStates
<1>a. Count \in Nat
  BY RuntimeAssumption
\* A user that goes on with what it has.
<1> DEFINE Goes(s) == /\ s \in UserStates /\ Go(u, s) /\ UNCHANGED taskVars
                      /\ Submits(u) <=> s.pc \in Busy
                      /\ Submits(u) => s.task = user[u].task
<1>b. ASSUME NEW s, Goes(s) PROVE OneHome' /\ Given \subseteq Given' /\ user' \in [Users -> UserStates]
  BY <1>b, UserKeepsTask, UserGoes
<1> HIDE DEF Goes
<1>1. CASE Configure(u)
  <2>1. UNCHANGED <<queue, fibers, hand, done, lost, user, running, loop, started, made, built, starts>>
        /\ config' = "set" /\ wanted' = "set"
    BY <1>1 DEF Configure, taskVars, procVars
  <2>2. \A h \in Homes : Members(Box(h))' = Members(Box(h)) /\ (Distinct(Box(h))' <=> Distinct(Box(h)))
    BY <2>1 DEF Box, Members, Distinct
  <2>3. Asked' = Asked /\ Out' = Out /\ \A v \in Users : Submits(v)' <=> Submits(v)
    BY <2>1 DEF Asked, Out, Submits
  <2>4. OneHome'
    BY <2>1, <2>2, <2>3 DEF OneHome
  <2>5. Given \subseteq Given'
    BY <2>2, <2>3, GivenParts, GivenPartsNext
  <2> QED BY <2>1, <2>4, <2>5 DEF TypeOK
<1>2. ASSUME NEW t \in Tasks, Submit(u, t) PROVE TypeOK' /\ OneHome' /\ Given \subseteq Given'
  <2>1. /\ user[u].pc = "away" /\ t \notin Given /\ started' \in BOOLEAN /\ starts' \in Nat
        /\ UNCHANGED <<made, config, wanted, built, running, loop>> /\ UNCHANGED taskVars
        /\ Go(u, [pc |-> "pick", task |-> t]) \/ Go(u, [pc |-> "build", task |-> t])
    <3>1. user[u].pc = "away" /\ t \notin Given /\ UNCHANGED <<made, config, wanted, built, running, loop>>
          /\ UNCHANGED taskVars
      BY <1>2 DEF Submit, MayCall, At, procVars
    <3>2. CASE started
      <4>1. Go(u, [pc |-> "pick", task |-> t]) /\ UNCHANGED <<started, starts>>
        BY <1>2, <3>2 DEF Submit
      <4> QED BY <3>1, <4>1 DEF TypeOK
    <3>3. CASE ~started
      <4>1. Go(u, [pc |-> "build", task |-> t]) /\ started' = TRUE /\ starts' = starts + 1
        BY <1>2, <3>3 DEF Submit
      <4>2. starts' \in Nat
        BY <4>1 DEF TypeOK
      <4> QED BY <3>1, <4>1, <4>2
    <3> QED BY <3>2, <3>3
  <2>2. PICK s : /\ s \in Asking /\ s.task = t /\ s.pc \in {"pick", "build"} /\ Go(u, s)
    BY <2>1 DEF Asking
  <2>3. s \in UserStates /\ s.pc \in Busy /\ ~Submits(u) /\ s.task \notin Given
    BY <2>1, <2>2 DEF UserStates, Busy, Submits
  <2>4. OneHome' /\ Given \subseteq Given'
    BY <2>1, <2>2, <2>3, UserGetsTask
  <2>5. user' \in [Users -> UserStates]
    BY <2>2, <2>3, UserGoes
  <2> QED BY <2>1, <2>4, <2>5 DEF TypeOK, UserStates, taskVars
<1>3. CASE Build(u)
  <2>1. PICK s : s = [user[u] EXCEPT !.pc = "launch"]
    OBVIOUS
  <2>2. /\ user[u].pc = "build" /\ Go(u, s) /\ UNCHANGED taskVars /\ built' = config /\ made' = Count
        /\ UNCHANGED <<started, config, wanted, starts, running, loop>>
    BY <1>3, <2>1 DEF Build, At, procVars
  <2>3. user[u] \in Asking
    BY <1>0, <2>2, UserFacts
  <2>4. s \in Asking /\ s.pc = "launch" /\ s.task = user[u].task
    BY <2>1, <2>3 DEF Asking
  <2>5. Goes(s)
    BY <2>2, <2>4 DEF Goes, Submits, Busy, UserStates
  <2> QED BY <1>b, <2>2, <2>5 DEF TypeOK, UserStates, taskVars
<1>4. CASE Launch(u)
  <2>1. PICK s : s = [user[u] EXCEPT !.pc = "pick"]
    OBVIOUS
  <2>2. /\ user[u].pc = "launch" /\ Go(u, s) /\ UNCHANGED taskVars /\ UNCHANGED lifeVars /\ StartThreads
    BY <1>4, <2>1 DEF Launch, At
  <2>3. user[u] \in Asking
    BY <1>0, <2>2, UserFacts
  <2>4. s \in Asking /\ s.pc = "pick" /\ s.task = user[u].task
    BY <2>1, <2>3 DEF Asking
  <2>5. Goes(s)
    BY <2>2, <2>4 DEF Goes, Submits, Busy, UserStates
  <2>6. /\ running' \in [Procs -> BOOLEAN]
        /\ loop' \in [Procs -> {"off", "drain", "run", "sleep", "steal", "ended"}]
    BY <2>2 DEF StartThreads
  <2> QED BY <1>b, <2>2, <2>5, <2>6 DEF TypeOK, UserStates, taskVars, lifeVars
<1>5. CASE Pick(u)
  <2>1. user[u].pc = "pick" /\ UNCHANGED <<lifeVars, procVars, taskVars>>
    BY <1>5 DEF Pick, At
  <2>2. user[u] \in Asking /\ user[u].task \in Tasks
    BY <1>0, <2>1, UserFacts DEF Busy
  <2>3. PICK p \in IF made = 0 THEN {0} ELSE 1..made : Go(u, [pc |-> "push", task |-> user[u].task, index |-> p])
    BY <1>5 DEF Pick
  <2>4. p \in 0..Count
    BY <1>a, <2>3 DEF TypeOK
  <2>5. PICK s : s = [pc |-> "push", task |-> user[u].task, index |-> p]
    OBVIOUS
  <2>6. s \in Pushing /\ s.pc = "push" /\ s.task = user[u].task /\ Go(u, s)
    BY <2>2, <2>3, <2>4, <2>5 DEF Pushing
  <2>7. Goes(s)
    BY <2>1, <2>6 DEF Goes, Submits, Busy, UserStates
  <2> QED BY <1>b, <2>1, <2>7 DEF TypeOK, UserStates, taskVars, lifeVars, procVars
<1>6. CASE Enqueue(u)
  <2>1. /\ user[u].pc = "push" /\ Go(u, Away)
        /\ UNCHANGED <<fibers, hand, done>> /\ UNCHANGED <<lifeVars, procVars>>
    BY <1>6 DEF Enqueue, At
  <2>2. Submits(u)
    BY <2>1 DEF Submits
  <2>3. user' \in [Users -> UserStates]
    BY <2>1, UserGoes DEF UserStates
  <2>4. CASE user[u].index \in 1..made
    <3>1. PICK p : p = user[u].index
      OBVIOUS
    <3>2. p \in Procs
      BY <1>a, <2>4, <3>1 DEF TypeOK, Procs
    <3>3. queue' = [queue EXCEPT ![p] = Append(@, user[u].task)] /\ lost' = lost
      BY <1>6, <2>4, <3>1 DEF Enqueue
    <3>4. OneHome' /\ Given \subseteq Given' /\ queue' \in [Procs -> Seq(Tasks)]
      BY <2>1, <2>2, <3>2, <3>3, UserGivesTask
    <3> QED BY <2>1, <2>3, <3>3, <3>4 DEF TypeOK, UserStates, lifeVars, procVars
  <2>5. CASE user[u].index \notin 1..made
    <3>1. lost' = lost \cup {user[u].task} /\ queue' = queue
      BY <1>6, <2>5 DEF Enqueue
    <3>2. OneHome' /\ Given \subseteq Given' /\ lost' \in SUBSET Tasks
      BY <2>1, <2>2, <3>1, UserLosesTask
    <3> QED BY <2>1, <2>3, <3>1, <3>2 DEF TypeOK, UserStates, lifeVars, procVars
  <2> QED BY <2>4, <2>5
<1>7. CASE Shutdown(u) \/ Stop(u) \/ Join(u)
  <2>1. PICK s \in {[pc |-> "stop"], [pc |-> "join"], [pc |-> "clear"]} :
          Go(u, s) /\ user[u].pc \in {"away", "stop", "join"}
    BY <1>7 DEF Shutdown, Stop, Join, MayCall, At
  <2>2. s \in Ending /\ s.pc \in {"stop", "join", "clear"}
    BY <2>1 DEF Ending
  <2>3. /\ UNCHANGED taskVars /\ UNCHANGED <<made, config, wanted, built, starts, loop>>
        /\ started' \in BOOLEAN /\ running' \in [Procs -> BOOLEAN]
    BY <1>7 DEF Shutdown, Stop, Join, lifeVars, procVars, StopThreads, TypeOK
  <2>4. Goes(s)
    BY <2>1, <2>2, <2>3 DEF Goes, Submits, Busy, UserStates
  <2> QED BY <1>b, <2>3, <2>4 DEF TypeOK, UserStates, taskVars
<1>8. CASE Clear(u)
  <2>1. /\ made' = 0 /\ config' = "default" /\ wanted' = "default"
        /\ loop' = [p \in Procs |-> "off"]
        /\ UNCHANGED <<started, built, starts, running, hand, done>>
    BY <1>8 DEF Clear
  <2> QED BY <1>8, <2>1, ClearKeeps DEF TypeOK, UserStates
<1> QED BY <1>1, <1>2, <1>3, <1>4, <1>5, <1>6, <1>7, <1>8 DEF UserStep

LEMMA TaskStep ==
  ASSUME TypeOK, OneHome, [Next]_vars
  PROVE  TypeOK' /\ OneHome' /\ Given \subseteq Given'
<1>1. ASSUME NEW u \in Users,
             UserStep(u) \/ Configure(u) \/ Shutdown(u) \/ \E t \in Tasks : Submit(u, t)
      PROVE  TypeOK' /\ OneHome' /\ Given \subseteq Given'
  BY <1>1, UserKeeps
<1>2. ASSUME NEW p \in Procs, LoopStep(p) PROVE TypeOK' /\ OneHome' /\ Given \subseteq Given'
  BY <1>2, LoopKeeps
<1>3. CASE UNCHANGED vars
  <2>1. UNCHANGED <<started, made, config, wanted, built, starts, running, loop,
                    queue, fibers, hand, done, lost, user>>
    BY <1>3 DEF vars, lifeVars, procVars, taskVars
  <2>2. \A h \in Homes : Members(Box(h))' = Members(Box(h)) /\ (Distinct(Box(h))' <=> Distinct(Box(h)))
    BY <2>1 DEF Box, Members, Distinct
  <2>3. Asked' = Asked /\ Out' = Out /\ \A v \in Users : Submits(v)' <=> Submits(v)
    BY <2>1 DEF Asked, Out, Submits
  <2>4. OneHome'
    BY <2>1, <2>2, <2>3 DEF OneHome
  <2>5. Given \subseteq Given'
    BY <2>2, <2>3, GivenParts, GivenPartsNext
  <2> QED BY <2>1, <2>4, <2>5 DEF TypeOK
<1> QED BY <1>1, <1>2, <1>3 DEF Next

-----------------------------------------------------------------------------
(* The life of the runtime                                                 *)

(* A loop's step leaves the users and the life of the runtime alone, and a *)
(* thread that is not there, or has ended, makes none.                     *)
LEMMA LoopLives ==
  ASSUME TypeOK, LifeInv, NEW p \in Procs, LoopStep(p)
  PROVE  LifeInv'
<1>1. UNCHANGED <<started, made, config, wanted, built, starts, user>>
  BY DEF LoopStep, Drain, LoopEnds, RunTask, Sleep, WakeUp, StealEnds, Steal, lifeVars
<1>2. loop[p] \notin {"off", "ended"}
  BY DEF LoopStep, Drain, LoopEnds, RunTask, Sleep, WakeUp, StealEnds, Steal, Loops
<1>3. \A q \in Procs \ {p} : loop'[q] = loop[q] /\ hand'[q] = hand[q]
  BY DEF LoopStep, Drain, LoopEnds, RunTask, Sleep, WakeUp, StealEnds, Steal, Loops, TypeOK, procVars, taskVars
<1>4. hand'[p] # <<>> => loop'[p] = "steal"
  <2>1. CASE Drain(p) \/ LoopEnds(p) \/ RunTask(p) \/ Sleep(p) \/ WakeUp(p)
    <3>1. UNCHANGED hand /\ loop[p] \in {"drain", "run", "sleep"}
      BY <2>1 DEF Drain, LoopEnds, RunTask, Sleep, WakeUp, Loops, taskVars
    <3> QED BY <3>1 DEF LifeInv
  <2>2. CASE StealEnds(p)
    BY <2>2 DEF StealEnds, TypeOK
  <2>3. ASSUME NEW v \in Procs, Steal(p, v) PROVE loop'[p] = "steal"
    BY <2>3 DEF Steal, procVars
  <2> QED BY <2>1, <2>2, <2>3 DEF LoopStep
<1>5. ~AllOff /\ ~ThreadsJoined
  BY <1>2 DEF AllOff, ThreadsJoined
<1>6. (Free' <=> Free) /\ \A v \in Users : Lifecycle(v)' <=> Lifecycle(v)
  BY <1>1 DEF Free, Lifecycle
<1>7. \A q \in Procs : hand'[q] # <<>> => loop'[q] = "steal"
  BY <1>3, <1>4 DEF LifeInv
<1> QED BY <1>1, <1>5, <1>6, <1>7 DEF LifeInv

(* A call that starts or ends the runtime, or goes through it, when no     *)
(* other call meets it.                                                    *)
LEMMA UserLives ==
  ASSUME ~Concurrent, TypeOK, LifeInv, NEW u \in Users,
         UserStep(u) \/ Configure(u) \/ Shutdown(u) \/ \E t \in Tasks : Submit(u, t)
  PROVE  LifeInv'
<1>0. user[u] \in UserStates /\ user \in [Users -> UserStates]
  BY DEF TypeOK, UserStates
<1>a. Count \in Nat \ {0}
  BY RuntimeAssumption
<1>b. ASSUME NEW s, Go(u, s)
      PROVE  user'[u] = s /\ \A v \in Users : v # u => user'[v] = user[v]
  BY <1>0, <1>b DEF Go
<1>c. MayCall(u) => Free /\ user[u].pc = "away"
  BY DEF MayCall, Free, At
<1>1. CASE Configure(u)
  <2>1. Free /\ ~started /\ config' = wanted' /\ UNCHANGED <<started, made, built, loop, hand, user>>
    BY <1>1, <1>c DEF Configure, procVars, taskVars
  <2>2. Free' /\ \A v \in Users : ~Lifecycle(v) /\ ~Lifecycle(v)'
    BY <2>1 DEF Free, Lifecycle
  <2>3. AllOff' = AllOff
    BY <2>1 DEF AllOff
  <2>4. \A v \in Users : user[v].pc \notin {"build", "launch", "stop", "join", "clear", "pick", "push"}
    BY <2>1, <2>2 DEF LifeInv, Lifecycle
  <2> QED BY <2>1, <2>2, <2>3, <2>4 DEF LifeInv
<1>2. ASSUME NEW t \in Tasks, Submit(u, t) PROVE LifeInv'
  <2>1. Free /\ user[u].pc = "away" /\ UNCHANGED <<made, config, wanted, built, loop, hand>>
    BY <1>2, <1>c DEF Submit, procVars, taskVars
  <2>2. AllOff' = AllOff
    BY <2>1 DEF AllOff
  <2>3. CASE started
    <3>1. Go(u, [pc |-> "pick", task |-> t]) /\ started' = started
      BY <1>2, <2>3 DEF Submit
    <3>2. user'[u].pc = "pick" /\ \A v \in Users : v # u => user'[v] = user[v]
      BY <1>b, <3>1
    <3>3. Free' /\ \A v \in Users : ~Lifecycle(v) /\ ~Lifecycle(v)'
      BY <2>1, <3>2 DEF Free, Lifecycle
    <3>4. \A v \in Users : user'[v].pc \notin {"build", "launch", "stop", "join", "clear"}
      BY <3>3 DEF Lifecycle
    <3> QED BY <2>1, <2>2, <2>3, <3>1, <3>2, <3>3, <3>4 DEF LifeInv
  <2>4. CASE ~started
    <3>1. Go(u, [pc |-> "build", task |-> t]) /\ started' = TRUE
      BY <1>2, <2>4 DEF Submit
    <3>2. user'[u].pc = "build" /\ \A v \in Users : v # u => user'[v] = user[v]
      BY <1>b, <3>1
    <3>3. ~Free' /\ Lifecycle(u)' /\ \A v \in Users : v # u => ~Lifecycle(v)'
      BY <2>1, <3>2 DEF Free, Lifecycle
    <3>4. \A v \in Users : v # u => user'[v].pc \notin {"build", "launch", "stop", "join", "clear", "pick", "push"}
      BY <2>4, <3>2, <3>3 DEF LifeInv, Lifecycle
    <3>5. config = wanted /\ AllOff
      BY <2>1, <2>4 DEF LifeInv
    <3> QED BY <2>1, <2>2, <3>1, <3>2, <3>3, <3>4, <3>5 DEF LifeInv
  <2> QED BY <2>3, <2>4
\* A call in the middle of init or shutdown is alone.
<1>3. ASSUME Lifecycle(u)
      PROVE  \A v \in Users : v # u => ~Lifecycle(v) /\ user[v].pc \notin {"pick", "push", "build", "launch", "stop", "join", "clear"}
  BY <1>3 DEF LifeInv, Lifecycle, Free
<1>4. CASE Build(u)
  <2>1. /\ user[u].pc = "build" /\ built' = config /\ made' = Count
        /\ Go(u, [user[u] EXCEPT !.pc = "launch"]) /\ UNCHANGED <<started, config, wanted, loop, hand>>
    BY <1>4 DEF Build, At, procVars, taskVars
  <2>2. user[u] \in Asking
    BY <1>0, <2>1, UserFacts
  <2>3. user'[u].pc = "launch" /\ \A v \in Users : v # u => user'[v] = user[v]
    BY <1>b, <2>1, <2>2 DEF Asking
  <2>4. \A v \in Users : v # u => ~Lifecycle(v)' /\ user'[v].pc \notin {"pick", "push", "build", "launch", "stop", "join", "clear"}
    BY <1>3, <2>1, <2>3 DEF Lifecycle
  <2>5. started /\ config = wanted /\ AllOff /\ AllOff'
    BY <2>1 DEF LifeInv, AllOff
  <2>6. ~Free'
    BY <2>3 DEF Free, Lifecycle
  <2> QED BY <2>1, <2>3, <2>4, <2>5, <2>6 DEF LifeInv
<1>5. CASE Launch(u)
  <2>1. /\ user[u].pc = "launch" /\ StartThreads
        /\ Go(u, [user[u] EXCEPT !.pc = "pick"]) /\ UNCHANGED <<started, made, built, config, wanted, hand>>
    BY <1>5 DEF Launch, At, lifeVars, taskVars
  <2>2. user[u] \in Asking
    BY <1>0, <2>1, UserFacts
  <2>3. user'[u].pc = "pick" /\ \A v \in Users : v # u => user'[v] = user[v]
    BY <1>b, <2>1, <2>2 DEF Asking
  <2>4. \A v \in Users : v # u => ~Lifecycle(v)' /\ user'[v].pc \notin {"pick", "push", "build", "launch", "stop", "join", "clear"}
    BY <1>3, <2>1, <2>3 DEF Lifecycle
  <2>5. started /\ made = Count /\ built = wanted /\ AllOff
    BY <2>1 DEF LifeInv
  <2>6. \A p \in Procs : hand'[p] = <<>>
    BY <2>1, <2>5 DEF LifeInv, AllOff
  <2>7. Free' /\ \A v \in Users : ~Lifecycle(v)'
    BY <2>3, <2>4 DEF Free, Lifecycle
  <2> QED BY <2>1, <2>3, <2>4, <2>5, <2>6, <2>7 DEF LifeInv
<1>6. CASE Pick(u)
  <2>1. user[u].pc = "pick" /\ UNCHANGED <<started, made, built, config, wanted, loop, hand>>
    BY <1>6 DEF Pick, At, lifeVars, procVars, taskVars
  <2>2. started /\ Free /\ made = Count
    BY <2>1 DEF LifeInv
  <2>3. PICK p \in 1..Count : Go(u, [pc |-> "push", task |-> user[u].task, index |-> p])
    BY <1>6, <1>a, <2>2 DEF Pick
  <2>4. user'[u].pc = "push" /\ user'[u].index \in 1..Count /\ \A v \in Users : v # u => user'[v] = user[v]
    BY <1>b, <2>3
  <2>5. Free' /\ \A v \in Users : ~Lifecycle(v)'
    BY <2>2, <2>4 DEF Free, Lifecycle
  <2>6. \A v \in Users : user'[v].pc \notin {"build", "launch", "stop", "join", "clear"}
    BY <2>5 DEF Lifecycle
  <2> QED BY <2>1, <2>2, <2>4, <2>5, <2>6 DEF LifeInv
<1>7. CASE Enqueue(u)
  <2>1. user[u].pc = "push" /\ Go(u, Away) /\ UNCHANGED <<started, made, built, config, wanted, loop, hand>>
    BY <1>7 DEF Enqueue, At, lifeVars, procVars
  <2>2. user'[u].pc = "away" /\ \A v \in Users : v # u => user'[v] = user[v]
    BY <1>b, <2>1 DEF Away
  <2>3. started /\ Free
    BY <2>1 DEF LifeInv
  <2>4. Free' /\ \A v \in Users : ~Lifecycle(v)'
    BY <2>2, <2>3 DEF Free, Lifecycle
  <2>5. \A v \in Users : user'[v].pc \notin {"build", "launch", "stop", "join", "clear"}
    BY <2>4 DEF Lifecycle
  <2> QED BY <2>1, <2>2, <2>3, <2>4, <2>5 DEF LifeInv
<1>8. CASE Shutdown(u)
  <2>1. /\ \A v \in Users : user[v].pc = "away"
        /\ started' = FALSE /\ Go(u, [pc |-> "stop"]) /\ UNCHANGED <<loop, hand>>
    BY <1>8 DEF Shutdown, At, procVars, taskVars
  <2>2. user'[u].pc = "stop" /\ \A v \in Users : v # u => user'[v].pc = "away"
    BY <1>b, <2>1
  <2>3. ~Free' /\ \A v \in Users : v # u => ~Lifecycle(v)'
    BY <2>2 DEF Free, Lifecycle
  <2> QED BY <2>1, <2>2, <2>3 DEF LifeInv
<1>9. CASE Stop(u) \/ Join(u)
  <2>1. PICK s \in {[pc |-> "join"], [pc |-> "clear"]} :
          Go(u, s) /\ user[u].pc \in {"stop", "join"} /\ (s.pc = "clear" => ThreadsJoined)
    BY <1>9 DEF Stop, Join, At
  <2>2. UNCHANGED <<started, loop, hand>>
    BY <1>9 DEF Stop, Join, StopThreads, lifeVars, procVars, taskVars
  <2>3. user'[u] = s /\ s.pc \in {"join", "clear"} /\ \A v \in Users : v # u => user'[v] = user[v]
    BY <1>b, <2>1
  <2>4. \A v \in Users : v # u => ~Lifecycle(v)' /\ user'[v].pc \notin {"pick", "push", "build", "launch", "stop", "join", "clear"}
    BY <1>3, <2>1, <2>3 DEF Lifecycle
  <2>5. ~started /\ ~Free'
    BY <2>1, <2>3 DEF LifeInv, Free, Lifecycle
  <2>6. ThreadsJoined' = ThreadsJoined
    BY <2>2 DEF ThreadsJoined
  <2> QED BY <2>1, <2>2, <2>3, <2>4, <2>5, <2>6 DEF LifeInv
<1>10. CASE Clear(u)
  <2>1. /\ user[u].pc = "clear" /\ made' = 0 /\ config' = wanted' /\ loop' = [p \in Procs |-> "off"]
        /\ Go(u, Away) /\ UNCHANGED <<started, hand>>
    BY <1>10 DEF Clear, At
  <2>2. user'[u].pc = "away" /\ \A v \in Users : v # u => user'[v] = user[v]
    BY <1>b, <2>1 DEF Away
  <2>3. \A v \in Users : v # u => ~Lifecycle(v)' /\ user'[v].pc \notin {"pick", "push", "build", "launch", "stop", "join", "clear"}
    BY <1>3, <2>1, <2>2 DEF Lifecycle
  <2>4. ~started /\ ThreadsJoined
    BY <2>1 DEF LifeInv
  <2>5. \A p \in Procs : hand'[p] = <<>>
    BY <2>1, <2>4 DEF LifeInv, ThreadsJoined
  <2>6. Free' /\ AllOff' /\ \A v \in Users : ~Lifecycle(v)'
    BY <2>1, <2>2, <2>3 DEF Free, Lifecycle, AllOff
  <2> QED BY <2>1, <2>2, <2>3, <2>4, <2>5, <2>6 DEF LifeInv
<1> QED BY <1>1, <1>2, <1>4, <1>5, <1>6, <1>7, <1>8, <1>9, <1>10 DEF UserStep

LEMMA LifeStep ==
  ASSUME ~Concurrent, TypeOK, LifeInv, [Next]_vars
  PROVE  LifeInv'
<1>1. ASSUME NEW u \in Users,
             UserStep(u) \/ Configure(u) \/ Shutdown(u) \/ \E t \in Tasks : Submit(u, t)
      PROVE  LifeInv'
  BY <1>1, UserLives
<1>2. ASSUME NEW p \in Procs, LoopStep(p) PROVE LifeInv'
  BY <1>2, LoopLives
<1>3. CASE UNCHANGED vars
  BY <1>3 DEF vars, lifeVars, procVars, taskVars, LifeInv, Free, Lifecycle, AllOff, ThreadsJoined
<1> QED BY <1>1, <1>2, <1>3 DEF Next

-----------------------------------------------------------------------------
(* One place for a task                                                    *)

LEMMA PlaceOf ==
  ASSUME NEW t, NEW x \in Places(t)
  PROVE  \/ \E h \in Homes : \E i \in DOMAIN Box(h) : Box(h)[i] = t /\ x = <<h[1], h[2], i>>
         \/ \E u \in Users : Submits(u) /\ user[u].task = t /\ x = <<"user", u>>
         \/ t \in done /\ x = <<"done">>
         \/ t \in lost /\ x = <<"lost">>
<1> DEFINE Q(p) == {<<"queue", p, i>> : i \in Positions(queue[p], t)}
           F(p) == {<<"fibers", p, i>> : i \in Positions(fibers[p], t)}
           H(p) == {<<"hand", p, i>> : i \in Positions(hand[p], t)}
           W    == {<<"user", u>> : u \in {v \in Users : Submits(v) /\ user[v].task = t}}
           D    == {<<"done">> : y \in done \cap {t}}
           L    == {<<"lost">> : y \in lost \cap {t}}
           All(p) == Q(p) \cup F(p) \cup H(p)
           U      == UNION {All(p) : p \in Procs}
<1>1. Places(t) = U \cup W \cup D \cup L
  BY DEF Places
<1>2. x \in U => \E p \in Procs : x \in All(p)
  <2> HIDE DEF All
  <2> QED OBVIOUS
<1>3. ASSUME NEW p \in Procs, x \in All(p)
      PROVE  \E h \in Homes : \E i \in DOMAIN Box(h) : Box(h)[i] = t /\ x = <<h[1], h[2], i>>
  <2>1. /\ <<"queue", p>> \in Homes /\ Box(<<"queue", p>>) = queue[p]
        /\ <<"fibers", p>> \in Homes /\ Box(<<"fibers", p>>) = fibers[p]
        /\ <<"hand", p>> \in Homes /\ Box(<<"hand", p>>) = hand[p]
    BY BoxOf
  <2>2. CASE x \in Q(p)
    <3>1. PICK i \in DOMAIN queue[p] : queue[p][i] = t /\ x = <<"queue", p, i>>
      BY <2>2 DEF Positions
    <3>2. PICK h : h = <<"queue", p>>
      OBVIOUS
    <3>3. h[1] = "queue" /\ h[2] = p
      BY <3>2
    <3> QED BY <2>1, <3>1, <3>2, <3>3
  <2>3. CASE x \in F(p)
    <3>1. PICK i \in DOMAIN fibers[p] : fibers[p][i] = t /\ x = <<"fibers", p, i>>
      BY <2>3 DEF Positions
    <3>2. PICK h : h = <<"fibers", p>>
      OBVIOUS
    <3>3. h[1] = "fibers" /\ h[2] = p
      BY <3>2
    <3> QED BY <2>1, <3>1, <3>2, <3>3
  <2>4. CASE x \in H(p)
    <3>1. PICK i \in DOMAIN hand[p] : hand[p][i] = t /\ x = <<"hand", p, i>>
      BY <2>4 DEF Positions
    <3>2. PICK h : h = <<"hand", p>>
      OBVIOUS
    <3>3. h[1] = "hand" /\ h[2] = p
      BY <3>2
    <3> QED BY <2>1, <3>1, <3>2, <3>3
  <2> QED BY <1>3, <2>2, <2>3, <2>4
<1>4. x \in W => \E u \in Users : Submits(u) /\ user[u].task = t /\ x = <<"user", u>>
  OBVIOUS
<1>5. (x \in D => t \in done /\ x = <<"done">>) /\ (x \in L => t \in lost /\ x = <<"lost">>)
  OBVIOUS
<1> HIDE DEF U, W, D, L, All
<1> QED BY <1>1, <1>2, <1>3, <1>4, <1>5

LEMMA PlacesOne ==
  ASSUME OneHome, NEW t
  PROVE  Cardinality(Places(t)) <= 1
<1>1. ASSUME NEW h \in Homes, NEW i \in DOMAIN Box(h), Box(h)[i] = t
      PROVE  t \in Members(Box(h)) /\ t \notin Out
  BY <1>1 DEF OneHome, Members
<1>2. ASSUME NEW u \in Users, Submits(u), user[u].task = t PROVE t \in Asked
  BY <1>2 DEF Asked
<1>3. ASSUME NEW x \in Places(t), NEW y \in Places(t) PROVE x = y
  <2>1. ASSUME NEW h \in Homes, NEW i \in DOMAIN Box(h), Box(h)[i] = t, x = <<h[1], h[2], i>>
        PROVE  x = y
    <3>1. t \in Members(Box(h)) /\ t \notin done /\ t \notin lost /\ t \notin Asked
      BY <1>1, <2>1 DEF Out
    <3>a. PICK g \in Homes : \E j \in DOMAIN Box(g) : Box(g)[j] = t /\ y = <<g[1], g[2], j>>
      BY <1>2, <3>1, PlaceOf
    <3>2. PICK j \in DOMAIN Box(g) : Box(g)[j] = t /\ y = <<g[1], g[2], j>>
      BY <3>a
    <3>3. t \in Members(Box(g))
      BY <1>1, <3>2
    <3>4. g = h
      BY <3>1, <3>3 DEF OneHome
    <3>5. i = j
      BY <2>1, <3>2, <3>4 DEF OneHome, Distinct
    <3> QED BY <2>1, <3>2, <3>4, <3>5
  <2>2. ASSUME NEW h \in Homes, NEW i \in DOMAIN Box(h), Box(h)[i] = t, y = <<h[1], h[2], i>>
        PROVE  x = y
    <3>1. t \in Members(Box(h)) /\ t \notin done /\ t \notin lost /\ t \notin Asked
      BY <1>1, <2>2 DEF Out
    <3>a. PICK g \in Homes : \E j \in DOMAIN Box(g) : Box(g)[j] = t /\ x = <<g[1], g[2], j>>
      BY <1>2, <3>1, PlaceOf
    <3>2. PICK j \in DOMAIN Box(g) : Box(g)[j] = t /\ x = <<g[1], g[2], j>>
      BY <3>a
    <3> QED BY <2>1, <3>2
  <2>3. CASE \E u \in Users : Submits(u) /\ user[u].task = t /\ x = <<"user", u>>
    <3>1. PICK u \in Users : Submits(u) /\ user[u].task = t /\ x = <<"user", u>>
      BY <2>3
    <3>2. t \notin done /\ t \notin lost
      BY <1>2, <3>1 DEF OneHome
    <3>3. CASE \E v \in Users : Submits(v) /\ user[v].task = t /\ y = <<"user", v>>
      BY <3>1, <3>3 DEF OneHome
    <3> QED BY <2>2, <3>2, <3>3, PlaceOf
  <2>4. CASE t \in done /\ x = <<"done">>
    <3>1. t \notin lost /\ t \notin Asked
      BY <2>4 DEF OneHome
    <3> QED BY <1>2, <2>2, <2>4, <3>1, PlaceOf
  <2>5. CASE t \in lost /\ x = <<"lost">>
    <3>1. t \notin done /\ t \notin Asked
      BY <2>5 DEF OneHome
    <3> QED BY <1>2, <2>2, <2>5, <3>1, PlaceOf
  <2> QED BY <2>1, <2>3, <2>4, <2>5, PlaceOf
<1>4. CASE Places(t) = {}
  BY <1>4, FS_EmptySet
<1>5. CASE Places(t) # {}
  <2>1. PICK x : x \in Places(t)
    BY <1>5
  <2>2. Places(t) = {x}
    BY <1>3, <2>1
  <2> QED BY <2>2, FS_Singleton
<1> QED BY <1>4, <1>5

-----------------------------------------------------------------------------
LEMMA InitInv == Init => TypeOK /\ OneHome /\ LifeInv
<1> SUFFICES ASSUME Init PROVE TypeOK /\ OneHome /\ LifeInv
  OBVIOUS
<1>1. <<>> \in Seq(Tasks)
  OBVIOUS
<1>2. \A u \in Users : user[u] = Away /\ user[u].pc = "away"
  BY DEF Init, Away
<1>3. TypeOK
  BY <1>1 DEF Init, TypeOK
<1>4. \A h \in Homes : Box(h) = <<>>
  BY DEF Init, Homes, Box
<1>5. \A h \in Homes : Members(Box(h)) = {} /\ Distinct(Box(h))
  BY <1>4 DEF Members, Distinct
<1>6. \A u \in Users : ~Submits(u) /\ ~Lifecycle(u)
  BY <1>2 DEF Submits, Lifecycle
<1>7. OneHome
  BY <1>5, <1>6 DEF OneHome, Init
<1>8. LifeInv
  BY <1>2, <1>6 DEF LifeInv, Free, AllOff, Init
<1> QED BY <1>3, <1>7, <1>8

(* Each variable of the runtime keeps its type.                            *)
THEOREM RuntimeTypes == Spec => []TypeOK
<1>1. TypeOK /\ OneHome /\ [Next]_vars => TypeOK' /\ OneHome'
  BY TaskStep
<1> QED BY <1>1, InitInv, PTL DEF Spec

(* Only processors_.clear(), and a submission that meets it, drop tasks.   *)
LEMMA LostStep ==
  ASSUME ~Concurrent, TypeOK, LifeInv, [Next]_vars
  PROVE  \/ lost' = lost
         \/ lost' = lost \cup Destroyed /\ \E u \in Users : At(u, "clear") /\ user'[u] = Away
<1> DEFINE Goal == \/ lost' = lost
                   \/ lost' = lost \cup Destroyed /\ \E u \in Users : At(u, "clear") /\ user'[u] = Away
<1>1. CASE UNCHANGED vars
  BY <1>1 DEF vars, taskVars
<1>2. ASSUME NEW p \in Procs, LoopStep(p) PROVE Goal
  BY <1>2 DEF LoopStep, Drain, LoopEnds, RunTask, Sleep, WakeUp, StealEnds, Steal, taskVars
<1>3. ASSUME NEW u \in Users,
             Configure(u) \/ Shutdown(u) \/ Build(u) \/ Launch(u) \/ Pick(u) \/ Stop(u) \/ Join(u)
               \/ \E t \in Tasks : Submit(u, t)
      PROVE  Goal
  BY <1>3 DEF Configure, Shutdown, Build, Launch, Pick, Stop, Join, Submit, taskVars
<1>4. ASSUME NEW u \in Users, Enqueue(u) PROVE Goal
  <2>1. user[u].index \in 1..made
    BY <1>4 DEF Enqueue, At, LifeInv
  <2> QED BY <1>4, <2>1 DEF Enqueue
<1>5. ASSUME NEW u \in Users, Clear(u) PROVE Goal
  <2>1. user'[u] = Away
    BY <1>5 DEF Clear, Go, TypeOK
  <2> QED BY <1>5, <2>1 DEF Clear
<1> QED BY <1>1, <1>2, <1>3, <1>4, <1>5 DEF Next, UserStep

(* Submission, draining in batches, stealing from the back, the return of  *)
(* what was stolen and a stop let go of no task: each is with its          *)
(* submitter, queued, in a hand or run, until processors_.clear() destroys *)
(* the queue it is in.  Submissions that meet an init or a shutdown in     *)
(* progress are not covered: theirs may find no processor.                 *)
THEOREM TasksAreKept ==
  ASSUME ~Concurrent
  PROVE  Spec => NoTaskVanishes
<1> DEFINE I == TypeOK /\ OneHome /\ LifeInv
           Kept == \A t \in Held \ Held' :
                     t \in Destroyed /\ \E u \in Users : At(u, "clear") /\ user'[u] = Away
<1>1. I /\ [Next]_vars => I'
  BY TaskStep, LifeStep
<1>2. I /\ [Next]_vars => [Kept]_vars
  <2> SUFFICES ASSUME I, [Next]_vars, NEW t \in Held, t \notin Held'
               PROVE  t \in Destroyed /\ \E u \in Users : At(u, "clear") /\ user'[u] = Away
    OBVIOUS
  <2>1. t \in lost'
    BY TaskStep DEF Given
  <2>2. t \notin lost
    <3>1. t \in Given /\ (t \in done \cup Asked \/ t \notin done \cup Asked)
      BY DEF Given
    <3>2. CASE t \in done \cup Asked
      BY <3>2 DEF OneHome
    <3>3. ASSUME NEW h \in Homes, t \in Members(Box(h)) PROVE t \notin lost
      BY <3>3 DEF OneHome, Out
    <3>4. CASE t \notin done \cup Asked
      <4>1. \E p \in Procs : t \in Range(queue[p]) \cup Range(fibers[p]) \cup Range(hand[p])
        <5> DEFINE In(p) == Range(queue[p]) \cup Range(fibers[p]) \cup Range(hand[p])
        <5>1. t \in UNION {In(p) : p \in Procs}
          BY <3>4 DEF Held, Asked
        <5> HIDE DEF In
        <5>2. \E p \in Procs : t \in In(p)
          BY <5>1
        <5> QED BY <5>2 DEF In
      <4>2. PICK p \in Procs : t \in Members(queue[p]) \cup Members(fibers[p]) \cup Members(hand[p])
        BY <4>1 DEF Range, Members
      <4> QED BY <3>3, <4>2, BoxOf
    <3> QED BY <3>2, <3>4
  <2>3. lost' # lost
    BY <2>1, <2>2
  <2> QED BY <2>1, <2>2, <2>3, LostStep
<1>3. Init => I
  BY InitInv
<1>4. NoTaskVanishes <=> [][Kept]_vars
  BY DEF NoTaskVanishes
<1> HIDE DEF I, Kept
<1> QED BY <1>1, <1>2, <1>3, <1>4, PTL DEF Spec

(* ... and none is ever in two places, whoever meets whom: two threads     *)
(* never run the same task.                                                *)
THEOREM TasksAreNotDoubled == Spec => [](\A t \in Tasks : Cardinality(Places(t)) <= 1)
<1>1. TypeOK /\ OneHome /\ [Next]_vars => TypeOK' /\ OneHome'
  BY TaskStep
<1>2. OneHome => \A t \in Tasks : Cardinality(Places(t)) <= 1
  BY PlacesOne
<1> QED BY <1>1, <1>2, InitInv, PTL DEF Spec

(* When no call meets an init or a shutdown in progress, a submission      *)
(* finds the processors, made with the configuration that was accepted,    *)
(* and no task is doubled or held by a thread that has ended.              *)
THEOREM RuntimeIsSound ==
  ASSUME ~Concurrent
  PROVE  Spec => []RuntimeSound
<1> DEFINE I == TypeOK /\ OneHome /\ LifeInv
<1>1. I /\ [Next]_vars => I'
  BY TaskStep, LifeStep
<1>2. I => RuntimeSound
  <2> SUFFICES ASSUME I PROVE RuntimeSound
    OBVIOUS
  <2>1. SubmitFindsProcessor
    BY DEF LifeInv, SubmitFindsProcessor, At
  <2>2. \A t \in Tasks : Cardinality(Places(t)) <= 1
    BY PlacesOne
  <2>3. \A p \in Procs : loop[p] \in {"off", "ended"} => hand[p] = <<>>
    BY DEF LifeInv
  <2> QED BY <2>1, <2>2, <2>3 DEF RuntimeSound, TasksConserved
<1>3. Init => I
  BY InitInv
<1> HIDE DEF I
<1> QED BY <1>1, <1>2, <1>3, PTL DEF Spec

-----------------------------------------------------------------------------
(* HttpServer                                                              *)

Stations == Live \cup {"none", "begin", "ending", "ending session", "close", "remove", "done"}

ServerTypes ==
  /\ serving \in BOOLEAN /\ control \in {"off", "on", "acceptor", "swap", "close"}
  /\ leftover \subseteq Conns /\ connections \in [Fds -> Conns \cup {None}]
  /\ pc \in [Conns -> Stations]
  /\ fd \in [Conns -> Fds \cup {None}] /\ number \in [Conns -> Fds \cup {None}]
  /\ stream \in [Conns -> {"none", "open", "terminal", "finish"}]

(* Two open connections have different numbers, a connection has the       *)
(* number it was accepted with or none, and none once it is closed.        *)
NumbersOK ==
  /\ \A c, d \in Conns : fd[c] # None /\ fd[c] = fd[d] => c = d
  /\ \A c \in Conns : /\ fd[c] # None => number[c] = fd[c]
                      /\ pc[c] = "none" => fd[c] = None /\ number[c] = None
                      /\ pc[c] = "remove" => fd[c] = None
                      /\ pc[c] \in {"none", "begin"} => stream[c] = "none"

(* A served connection is in the table, or do_stop has it in its snapshot  *)
(* and has yet to close it.                                                *)
ListedOK ==
  /\ serving => control = "on"
  /\ \A c \in Conns : pc[c] \in Live /\ fd[c] # None =>
       connections[fd[c]] = c \/ (control = "close" /\ c \in leftover)

(* While its stream is open a connection is marked, if nobody else has had *)
(* its number.                                                             *)
Alone(c) == \A d \in Conns \ {c} : number[d] # number[c]
MarkedOK ==
  \A c \in Conns : /\ stream[c] \in {"open", "terminal"} /\ fd[c] # None
                   /\ Alone(c) /\ pc[c] \in Live
                   => fd[c] \in async_stream_fds /\ pc[c] # "send"

ServerInv == ServerTypes /\ NumbersOK /\ ListedOK /\ MarkedOK

(* What a step of a coroutine that touches none of the tables may do:      *)
(* connections are closed, and the coroutine goes on, to a response only   *)
(* if the connection is not marked.                                        *)
Losing == fd' \in [Conns -> Fds \cup {None}] /\ \A c \in Conns : fd'[c] = fd[c] \/ fd'[c] = None
Moving ==
  /\ pc' \in [Conns -> Stations]
  /\ \A c \in Conns :
       \/ pc'[c] = pc[c]
       \/ /\ pc'[c] \notin {"none", "begin"} /\ (pc'[c] = "remove" => fd'[c] = None)
          /\ pc'[c] \in Live => pc[c] \in Live
          /\ pc'[c] = "send" => fd[c] \notin async_stream_fds
Quiet == /\ Losing /\ Moving
         /\ UNCHANGED <<serving, control, leftover, connections, number, async_stream_fds, stream>>

LEMMA AloneKept ==
  ASSUME UNCHANGED number, NEW c \in Conns
  PROVE  Alone(c)' = Alone(c)
BY DEF Alone

LEMMA QuietKeeps ==
  ASSUME ServerInv, Quiet
  PROVE  ServerInv'
<1>1. ServerTypes /\ NumbersOK /\ ListedOK /\ MarkedOK
  BY DEF ServerInv
<1>2. ServerTypes'
  BY <1>1 DEF ServerTypes, Quiet, Losing, Moving, Stations, Live
<1>3. NumbersOK'
  BY <1>1 DEF NumbersOK, Quiet, Losing, Moving
<1>4. ListedOK'
  BY <1>1 DEF ListedOK, Quiet, Losing, Moving, Live
<1>5. MarkedOK'
  <2> SUFFICES ASSUME NEW c \in Conns, stream[c] \in {"open", "terminal"}, fd'[c] # None, Alone(c), pc'[c] \in Live
               PROVE  fd'[c] \in async_stream_fds /\ pc'[c] # "send"
    BY AloneKept DEF MarkedOK, Quiet, Live
  <2>1. fd'[c] = fd[c] /\ pc[c] \in Live
    BY DEF Quiet, Losing, Moving
  <2>2. fd[c] \in async_stream_fds /\ pc[c] # "send"
    BY <1>1, <2>1 DEF MarkedOK
  <2>3. pc'[c] # "send"
    BY <2>2 DEF Quiet, Moving
  <2> QED BY <2>1, <2>2, <2>3
<1> QED BY <1>2, <1>3, <1>4, <1>5 DEF ServerInv

(* Closed and GoTo as QuietKeeps has them.                                 *)
LEMMA ClosedLoses ==
  ASSUME ServerTypes, NEW s, Closed(s)
  PROVE  Losing /\ number' = number /\ (s \in Conns => fd'[s] = None)
BY DEF ServerTypes, Closed, Losing

LEMMA OpenLoses ==
  ASSUME ServerTypes, UNCHANGED nvars
  PROVE  Losing /\ number' = number
BY DEF ServerTypes, nvars, Losing

LEMMA GoesOn ==
  ASSUME ServerTypes, NEW c \in Conns, NEW p \in Stations \ {"none", "begin"}, GoTo(c, p),
         p = "remove" => fd'[c] = None, p \in Live => pc[c] \in Live,
         p = "send" => fd[c] \notin async_stream_fds
  PROVE  Moving
<1>1. pc \in [Conns -> Stations] /\ pc' = [pc EXCEPT ![c] = p]
  BY DEF ServerTypes, GoTo
<1>2. pc' \in [Conns -> Stations] /\ pc'[c] = p /\ \A d \in Conns : d # c => pc'[d] = pc[d]
  BY <1>1
<1> QED BY <1>2 DEF Moving

LEMMA StaysPut ==
  ASSUME ServerTypes, UNCHANGED pc
  PROVE  Moving
BY DEF ServerTypes, Moving

-----------------------------------------------------------------------------
(* Steps that touch no table.                                              *)

LEMMA HandlerQuiet ==
  ASSUME ServerInv, NEW c \in Conns,
         \/ HandshakeFails(c) \/ LoopTop(c) \/ ReadSome(c) \/ ReadFails(c)
         \/ FindSession(c) \/ FramesHandled(c) \/ SessionEnds(c) \/ TakeEnded(c)
         \/ ParseStops(c) \/ ParseError(c) \/ Respond(c) \/ Sent(c)
         \/ RespondChunked(c) \/ StreamStarted(c)
         \/ RefuseUpgrade(c) \/ Upgrade(c) \/ Opened(c) \/ OpenFails(c) \/ Handled(c)
         \/ OnCloseSession(c) \/ CloseConnection(c) \/ RemoveAfterClose(c)
  PROVE  Quiet
<1>1. ServerTypes /\ NumbersOK
  BY DEF ServerInv
<1>2. /\ {"loop", "read", "message", "frames", "take", "parse", "send", "streaming", "open", "handled"} \subseteq Live
      /\ Live \subseteq Stations \ {"none", "begin"}
      /\ {"ending", "ending session", "close", "remove", "done"} \subseteq Stations \ {"none", "begin"}
      /\ {"ending", "ending session", "close", "remove", "done"} \cap Live = {}
  BY DEF Live, Stations
<1> USE <1>1 DEF cvars, tvars, avars, rvars, wvars, svars
<1>3. CASE HandshakeFails(c)
  <2>1. Closed(c) /\ GoTo(c, "done")
    BY <1>3 DEF HandshakeFails
  <2>2. Moving
    BY <1>2, <2>1, GoesOn
  <2> QED BY <1>3, <2>1, <2>2, ClosedLoses DEF HandshakeFails, Quiet
<1>4. CASE LoopTop(c)
  <2>1. PICK p \in {"read", "ending"} : GoTo(c, p)
    BY <1>4 DEF LoopTop
  <2>2. Moving
    BY <1>2, <1>4, <2>1, GoesOn DEF LoopTop
  <2> QED BY <1>4, <2>2, OpenLoses DEF LoopTop, Quiet
<1>5. CASE ReadSome(c)
  <2>1. Moving
    BY <1>2, <1>5, GoesOn DEF ReadSome
  <2> QED BY <1>5, <2>1, OpenLoses DEF ReadSome, Quiet
<1>6. CASE ReadFails(c)
  <2>1. PICK p \in {"loop", "ending"} : GoTo(c, p)
    BY <1>6 DEF ReadFails
  <2>2. Moving
    BY <1>2, <1>6, <2>1, GoesOn DEF ReadFails
  <2> QED BY <1>6, <2>2, OpenLoses DEF ReadFails, Quiet
<1>7. CASE FindSession(c)
  <2>1. PICK p \in {"parse", "frames"} : GoTo(c, p)
    BY <1>7 DEF FindSession
  <2>2. Moving
    BY <1>2, <1>7, <2>1, GoesOn DEF FindSession
  <2> QED BY <1>7, <2>2, OpenLoses DEF FindSession, Quiet
<1>8. CASE FramesHandled(c)
  <2>1. Moving
    BY <1>2, <1>8, GoesOn DEF FramesHandled
  <2> QED BY <1>8, <2>1, OpenLoses DEF FramesHandled, Quiet
<1>9. CASE SessionEnds(c)
  <2>1. Closed(session[c]) /\ GoTo(c, "take") /\ pc[c] = "frames"
    BY <1>9 DEF SessionEnds
  <2>2. Moving
    BY <1>2, <2>1, GoesOn
  <2> QED BY <1>9, <2>1, <2>2, ClosedLoses DEF SessionEnds, Quiet
<1>10. CASE TakeEnded(c)
  <2>1. Moving
    BY <1>2, <1>10, GoesOn DEF TakeEnded
  <2> QED BY <1>10, <2>1, OpenLoses DEF TakeEnded, Quiet
<1>11. CASE ParseStops(c)
  <2>1. Moving
    BY <1>2, <1>11, GoesOn DEF ParseStops
  <2> QED BY <1>11, <2>1, OpenLoses DEF ParseStops, Quiet
<1>12. CASE ParseError(c)
  <2>1. Closed(c) /\ GoTo(c, "loop") /\ pc[c] = "parse"
    BY <1>12 DEF ParseError, Parses
  <2>2. Moving
    BY <1>2, <2>1, GoesOn
  <2> QED BY <1>12, <2>1, <2>2, ClosedLoses DEF ParseError, Quiet
<1>13. CASE Respond(c)
  <2>1. GoTo(c, "send") /\ pc[c] = "parse" /\ fd[c] \notin async_stream_fds
    BY <1>13 DEF Respond, Parses, Paused, is_async_stream_active
  <2>2. Moving
    BY <1>2, <2>1, GoesOn
  <2> QED BY <1>13, <2>2, OpenLoses DEF Respond, Quiet
<1>14. CASE Sent(c)
  <2>1. Moving
    BY <1>2, <1>14, GoesOn DEF Sent
  <2> QED BY <1>14, <2>1, OpenLoses DEF Sent, Quiet
<1>15. CASE RespondChunked(c)
  <2>1. Moving
    BY <1>2, <1>15, GoesOn DEF RespondChunked, Parses
  <2> QED BY <1>15, <2>1, OpenLoses DEF RespondChunked, Quiet
<1>16. CASE StreamStarted(c)
  <2>1. Moving
    BY <1>2, <1>16, GoesOn DEF StreamStarted
  <2> QED BY <1>16, <2>1, OpenLoses DEF StreamStarted, Quiet
<1>17. CASE RefuseUpgrade(c)
  <2>1. Moving
    BY <1>2, <1>17, GoesOn DEF RefuseUpgrade, Parses
  <2> QED BY <1>17, <2>1, OpenLoses DEF RefuseUpgrade, Quiet
<1>18. CASE Upgrade(c)
  <2>1. Moving
    BY <1>2, <1>18, GoesOn DEF Upgrade, Parses
  <2> QED BY <1>18, <2>1, OpenLoses DEF Upgrade, Quiet
<1>19. CASE Opened(c)
  <2>1. Moving
    BY <1>2, <1>19, GoesOn DEF Opened
  <2> QED BY <1>19, <2>1, OpenLoses DEF Opened, Quiet
<1>20. CASE OpenFails(c)
  <2>1. Closed(c) /\ GoTo(c, "handled") /\ pc[c] = "open"
    BY <1>20 DEF OpenFails
  <2>2. Moving
    BY <1>2, <2>1, GoesOn
  <2> QED BY <1>20, <2>1, <2>2, ClosedLoses DEF OpenFails, Quiet
<1>21. CASE Handled(c)
  <2>1. PICK p \in {"loop", "parse"} : GoTo(c, p)
    BY <1>21 DEF Handled
  <2>2. pc[c] = "handled"
    BY <1>21 DEF Handled
  <2>3. Moving
    BY <1>2, <2>1, <2>2, GoesOn
  <2>4. (UNCHANGED nvars) \/ Closed(c)
    BY <1>21 DEF Handled
  <2>5. Losing /\ number' = number
    BY <2>4, OpenLoses, ClosedLoses
  <2> QED BY <1>21, <2>3, <2>5 DEF Handled, Quiet
<1>22. CASE OnCloseSession(c)
  <2>1. Moving
    BY <1>2, <1>22, GoesOn DEF OnCloseSession
  <2> QED BY <1>22, <2>1, OpenLoses DEF OnCloseSession, Quiet
<1>23. CASE CloseConnection(c)
  <2>1. Closed(c) /\ GoTo(c, "remove")
    BY <1>23 DEF CloseConnection
  <2>2. Losing /\ number' = number /\ fd'[c] = None
    BY <2>1, ClosedLoses
  <2>3. Moving
    BY <1>2, <2>1, <2>2, GoesOn
  <2> QED BY <1>23, <2>2, <2>3 DEF CloseConnection, Quiet
<1>24. CASE RemoveAfterClose(c)
  <2>1. fd[c] = None
    BY <1>24 DEF RemoveAfterClose, NumbersOK
  <2>2. connections' = connections
    BY <1>24, <2>1 DEF RemoveAfterClose, remove_connection, Table
  <2>3. Moving
    BY <1>2, <1>24, GoesOn DEF RemoveAfterClose
  <2> QED BY <1>24, <2>2, <2>3, OpenLoses DEF RemoveAfterClose, Quiet
<1> QED BY <1>3, <1>4, <1>5, <1>6, <1>7, <1>8, <1>9, <1>10, <1>11, <1>12, <1>13, <1>14, <1>15, <1>16,
           <1>17, <1>18, <1>19, <1>20, <1>21, <1>22, <1>23, <1>24

LEMMA OthersQuiet ==
  ASSUME ServerInv, NEW c \in Conns, StreamShutdown(c) \/ UserCloses(c)
  PROVE  Quiet
<1>1. ServerTypes
  BY DEF ServerInv
<1>2. Closed(c) /\ UNCHANGED pc
  BY DEF StreamShutdown, UserCloses
<1>3. Moving /\ Losing /\ number' = number
  BY <1>1, <1>2, ClosedLoses, StaysPut
<1> QED BY <1>3 DEF StreamShutdown, UserCloses, cvars, tvars, svars, Quiet

-----------------------------------------------------------------------------
(* Steps on the tables.                                                    *)

LEMMA AcceptKeeps ==
  ASSUME ServerInv, NEW c \in Conns, NEW n \in Fds, NEW l, Accept(l, c, n)
  PROVE  ServerInv'
<1>1. ServerTypes /\ NumbersOK /\ ListedOK /\ MarkedOK
  BY DEF ServerInv
<1>2. None \notin Fds
  BY ServerAssumption
<1>3. /\ pc[c] = "none" /\ \A d \in Conns : fd[d] # n
      /\ fd' = [fd EXCEPT ![c] = n] /\ number' = [number EXCEPT ![c] = n] /\ pc' = [pc EXCEPT ![c] = "begin"]
      /\ UNCHANGED <<serving, control, leftover, connections, stream, async_stream_fds>>
  BY DEF Accept, GoTo, cvars, tvars, svars
<1>4. /\ fd'[c] = n /\ number'[c] = n /\ pc'[c] = "begin"
      /\ \A d \in Conns : d # c => fd'[d] = fd[d] /\ number'[d] = number[d] /\ pc'[d] = pc[d]
  BY <1>1, <1>3 DEF ServerTypes
<1>5. ServerTypes'
  BY <1>1, <1>3 DEF ServerTypes, Stations, Live
<1>6. NumbersOK'
  BY <1>1, <1>2, <1>3, <1>4 DEF NumbersOK
<1>7. ListedOK'
  BY <1>1, <1>3, <1>4 DEF ListedOK, Live
<1>8. MarkedOK'
  <2> SUFFICES ASSUME NEW d \in Conns, stream[d] \in {"open", "terminal"}, fd'[d] # None, Alone(d)', pc'[d] \in Live
               PROVE  fd'[d] \in async_stream_fds /\ pc'[d] # "send"
    BY <1>3 DEF MarkedOK, Live
  <2>1. d # c
    BY <1>4 DEF Live
  <2>2. fd'[d] = fd[d] /\ pc'[d] = pc[d] /\ number[d] = fd[d] /\ number[c] = None
    BY <1>1, <1>3, <1>4, <2>1 DEF NumbersOK
  <2>3. Alone(d)
    <3> SUFFICES ASSUME NEW e \in Conns \ {d}, number[e] = number[d] PROVE FALSE
      BY DEF Alone
    <3>1. e # c
      BY <2>2
    <3> QED BY <1>4, <2>1, <3>1 DEF Alone
  <2> QED BY <1>1, <2>2, <2>3 DEF MarkedOK
<1> QED BY <1>5, <1>6, <1>7, <1>8 DEF ServerInv

LEMMA RegisterKeeps ==
  ASSUME ServerInv, NEW c \in Conns, Register(c)
  PROVE  ServerInv'
<1>1. ServerTypes /\ NumbersOK /\ ListedOK /\ MarkedOK
  BY DEF ServerInv
<1>2. /\ pc[c] = "begin" /\ connections' = Table(connections, fd[c], c) /\ pc' = [pc EXCEPT ![c] = "loop"]
      /\ UNCHANGED <<serving, control, leftover, fd, number, stream, async_stream_fds>>
  BY DEF Register, register_connection, GoTo, cvars, nvars, svars
<1>3. pc'[c] = "loop" /\ \A d \in Conns : d # c => pc'[d] = pc[d]
  BY <1>1, <1>2 DEF ServerTypes
<1>4. /\ connections' \in [Fds -> Conns \cup {None}]
      /\ fd[c] # None => connections'[fd[c]] = c
      /\ \A n \in Fds : n # fd[c] => connections'[n] = connections[n]
  BY <1>1, <1>2 DEF ServerTypes, Table
<1>5. ServerTypes'
  BY <1>1, <1>2, <1>4 DEF ServerTypes, Stations, Live
<1>6. NumbersOK'
  BY <1>1, <1>2, <1>3 DEF NumbersOK
<1>7. ListedOK'
  <2> SUFFICES ASSUME NEW d \in Conns, pc'[d] \in Live, fd[d] # None
               PROVE  connections'[fd[d]] = d \/ (control = "close" /\ d \in leftover)
    BY <1>1, <1>2 DEF ListedOK, Live
  <2>1. CASE d = c
    BY <1>4, <2>1
  <2>2. CASE d # c
    <3>1. fd[d] \in Fds /\ fd[d] # fd[c]
      BY <1>1, <2>2 DEF NumbersOK, ServerTypes
    <3> QED BY <1>1, <1>3, <1>4, <2>2, <3>1 DEF ListedOK
  <2> QED BY <2>1, <2>2
<1>8. MarkedOK'
  <2> SUFFICES ASSUME NEW d \in Conns, stream[d] \in {"open", "terminal"}, fd[d] # None, Alone(d), pc'[d] \in Live
               PROVE  fd[d] \in async_stream_fds /\ pc'[d] # "send"
    BY <1>2, AloneKept DEF MarkedOK, Live
  <2>1. d # c
    BY <1>1, <1>2 DEF NumbersOK
  <2> QED BY <1>1, <1>3, <2>1 DEF MarkedOK
<1> QED BY <1>5, <1>6, <1>7, <1>8 DEF ServerInv

LEMMA StreamKeeps ==
  ASSUME ServerInv, NEW c \in Conns,
         \/ BeginStream(c) \/ FinishStream(c) \/ TerminalSent(c) \/ StreamFinished(c) \/ OnCloseStream(c)
  PROVE  ServerInv'
<1>1. ServerTypes /\ NumbersOK /\ ListedOK /\ MarkedOK
  BY DEF ServerInv
<1>2. UNCHANGED <<serving, control, leftover, connections, fd, number>>
  BY DEF BeginStream, FinishStream, TerminalSent, StreamFinished, OnCloseStream, FinishAt, cvars, tvars, nvars
<1>3. CASE BeginStream(c)
  <2>1. /\ pc[c] = "parse" /\ stream' = [stream EXCEPT ![c] = "open"] /\ pc' = [pc EXCEPT ![c] = "streaming"]
        /\ async_stream_fds' = async_stream_fds \cup ({fd[c]} \ {None})
    BY <1>3 DEF BeginStream, Parses, mark_async_stream_active, GoTo
  <2>2. /\ pc'[c] = "streaming" /\ stream'[c] = "open"
        /\ \A d \in Conns : d # c => pc'[d] = pc[d] /\ stream'[d] = stream[d]
    BY <1>1, <2>1 DEF ServerTypes
  <2>3. ServerTypes'
    BY <1>1, <1>2, <2>1 DEF ServerTypes, Stations, Live
  <2>4. NumbersOK' /\ ListedOK'
    BY <1>1, <1>2, <2>1, <2>2 DEF NumbersOK, ListedOK, Live
  <2>5. MarkedOK'
    BY <1>1, <1>2, <2>1, <2>2, AloneKept DEF MarkedOK, Live
  <2> QED BY <2>3, <2>4, <2>5 DEF ServerInv
<1>4. CASE FinishStream(c) \/ TerminalSent(c)
  <2>1. PICK p \in {"terminal", "finish"} :
          /\ stream' = [stream EXCEPT ![c] = p] /\ UNCHANGED <<pc, async_stream_fds>>
          /\ stream[c] \in {"open", "terminal"}
    BY <1>4 DEF FinishStream, TerminalSent, FinishAt
  <2>2. stream'[c] = p /\ \A d \in Conns : d # c => stream'[d] = stream[d]
    BY <1>1, <2>1 DEF ServerTypes
  <2>3. ServerTypes'
    BY <1>1, <1>2, <2>1 DEF ServerTypes, Stations, Live
  <2>4. NumbersOK' /\ ListedOK'
    BY <1>1, <1>2, <2>1, <2>2 DEF NumbersOK, ListedOK, Live
  <2>5. MarkedOK'
    BY <1>1, <1>2, <2>1, <2>2, AloneKept DEF MarkedOK, Live
  <2> QED BY <2>3, <2>4, <2>5 DEF ServerInv
<1>5. CASE StreamFinished(c)
  <2>1. /\ stream' = [stream EXCEPT ![c] = "none"] /\ pc' = pc
        /\ async_stream_fds' = async_stream_fds \ {number[c]}
    BY <1>5 DEF StreamFinished, FinishAt, mark_async_stream_finished
  <2>2. stream'[c] = "none" /\ \A d \in Conns : d # c => stream'[d] = stream[d]
    BY <1>1, <2>1 DEF ServerTypes
  <2>3. ServerTypes'
    BY <1>1, <1>2, <2>1 DEF ServerTypes, Stations, Live
  <2>4. NumbersOK' /\ ListedOK'
    BY <1>1, <1>2, <2>1, <2>2 DEF NumbersOK, ListedOK, Live
  <2>5. MarkedOK'
    <3> SUFFICES ASSUME NEW d \in Conns, stream'[d] \in {"open", "terminal"}, fd[d] # None, Alone(d), pc[d] \in Live
                 PROVE  fd[d] \in async_stream_fds' /\ pc[d] # "send"
      BY <1>2, <2>1, AloneKept DEF MarkedOK, Live
    <3>1. d # c /\ number[d] = fd[d]
      BY <1>1, <2>2 DEF NumbersOK
    <3>2. fd[d] # number[c]
      BY <3>1 DEF Alone
    <3> QED BY <1>1, <2>1, <2>2, <3>1, <3>2 DEF MarkedOK
  <2> QED BY <2>3, <2>4, <2>5 DEF ServerInv
<1>6. CASE OnCloseStream(c)
  <2>1. /\ stream' = stream /\ pc' = [pc EXCEPT ![c] = "ending session"]
        /\ async_stream_fds' = async_stream_fds \ {fd[c]}
    BY <1>6 DEF OnCloseStream, GoTo, mark_async_stream_finished
  <2>2. pc'[c] = "ending session" /\ \A d \in Conns : d # c => pc'[d] = pc[d]
    BY <1>1, <2>1 DEF ServerTypes
  <2>3. ServerTypes'
    BY <1>1, <1>2, <2>1 DEF ServerTypes, Stations, Live
  <2>4. NumbersOK' /\ ListedOK'
    BY <1>1, <1>2, <2>1, <2>2 DEF NumbersOK, ListedOK, Live
  <2>5. MarkedOK'
    <3> SUFFICES ASSUME NEW d \in Conns, stream[d] \in {"open", "terminal"}, fd[d] # None, Alone(d), pc'[d] \in Live
                 PROVE  fd[d] \in async_stream_fds' /\ pc'[d] # "send"
      BY <1>2, <2>1, AloneKept DEF MarkedOK, Live
    <3>1. d # c
      BY <2>2 DEF Live
    <3>2. fd[d] # fd[c]
      BY <1>1, <3>1 DEF NumbersOK
    <3> QED BY <1>1, <2>1, <2>2, <3>1, <3>2 DEF MarkedOK
  <2> QED BY <2>3, <2>4, <2>5 DEF ServerInv
<1> QED BY <1>3, <1>4, <1>5, <1>6

(* The thread that starts and stops the server: after the swap every       *)
(* served connection is in the snapshot until it is closed, so that none   *)
(* is left unlisted for the next start.                                    *)
LEMMA ControlKeeps ==
  ASSUME ServerInv, Control
  PROVE  ServerInv'
<1>1. ServerTypes /\ NumbersOK /\ ListedOK /\ MarkedOK
  BY DEF ServerInv
<1>2. UNCHANGED <<pc, number, stream, async_stream_fds>>
  BY DEF Control, StartServer, StopServer, StopAcceptor, SwapConnections, CloseNext, Closed, Stopped, nvars, svars
<1>3. Losing /\ (UNCHANGED fd \/ \E c \in Conns : CloseNext(c))
  <2>1. (UNCHANGED nvars) \/ \E c \in Conns : CloseNext(c)
    BY DEF Control, StartServer, StopServer, StopAcceptor, SwapConnections, Stopped
  <2> QED BY <1>1, <2>1, ClosedLoses, OpenLoses DEF CloseNext, nvars
<1>4. NumbersOK'
  BY <1>1, <1>2, <1>3 DEF NumbersOK, Losing
<1>5. MarkedOK'
  BY <1>1, <1>2, <1>3, AloneKept DEF MarkedOK, Losing, Live
<1>6. ASSUME serving' \in BOOLEAN, control' \in {"off", "on", "acceptor", "swap", "close"},
             leftover' \subseteq Conns, connections' \in [Fds -> Conns \cup {None}],
             serving' => control' = "on",
             \A c \in Conns : pc[c] \in Live /\ fd'[c] # None =>
               connections'[fd'[c]] = c \/ (control' = "close" /\ c \in leftover')
      PROVE  ServerInv'
  <2>1. ServerTypes'
    BY <1>1, <1>2, <1>3, <1>6 DEF ServerTypes, Losing, Stations, Live
  <2>2. ListedOK'
    BY <1>2, <1>6 DEF ListedOK, Live
  <2> QED BY <1>4, <1>5, <2>1, <2>2 DEF ServerInv
<1>7. CASE \E c \in Conns : CloseNext(c)
  <2>1. PICK c \in Conns : CloseNext(c)
    BY <1>7
  <2>2. Closed(c) /\ leftover' = leftover \ {c} /\ UNCHANGED <<serving, control, connections>>
    BY <2>1 DEF CloseNext, cvars
  <2>3. fd'[c] = None
    BY <1>1, <2>2, ClosedLoses
  <2>4. \A d \in Conns : pc[d] \in Live /\ fd'[d] # None =>
          connections'[fd'[d]] = d \/ (control' = "close" /\ d \in leftover')
    BY <1>1, <1>3, <2>2, <2>3 DEF ListedOK, Losing
  <2> QED BY <1>1, <1>6, <2>2, <2>4 DEF ServerTypes, ListedOK
<1>8. CASE SwapConnections
  <2>1. /\ control = "swap" /\ control' = "close" /\ UNCHANGED <<serving, fd>>
        /\ leftover' = {connections[n] : n \in Fds} \ {None} /\ connections' = [n \in Fds |-> None]
    BY <1>8 DEF SwapConnections, nvars
  <2>2. leftover' \subseteq Conns /\ connections' \in [Fds -> Conns \cup {None}]
    BY <1>1, <2>1 DEF ServerTypes
  <2>3. ASSUME NEW c \in Conns, pc[c] \in Live, fd[c] # None PROVE c \in leftover'
    <3>1. connections[fd[c]] = c /\ fd[c] \in Fds /\ c # None
      BY <1>1, <2>1, <2>3, ServerAssumption DEF ListedOK, ServerTypes
    <3> QED BY <2>1, <3>1
  <2>4. serving' \in BOOLEAN /\ ~serving'
    BY <1>1, <2>1 DEF ListedOK, ServerTypes
  <2>5. \A c \in Conns : pc[c] \in Live /\ fd'[c] # None => control' = "close" /\ c \in leftover'
    BY <2>1, <2>3
  <2>6. control' \in {"off", "on", "acceptor", "swap", "close"}
    BY <2>1
  <2> QED BY <1>6, <2>2, <2>4, <2>5, <2>6
<1>9. CASE (\E ok \in BOOLEAN : StartServer(ok)) \/ StopServer \/ StopAcceptor \/ Stopped
  <2>1. UNCHANGED <<fd, connections, leftover>>
    BY <1>9 DEF StartServer, StopServer, StopAcceptor, Stopped, nvars, tvars
  <2>2. /\ serving' \in BOOLEAN /\ control' \in {"off", "on", "acceptor", "swap", "close"}
        /\ serving' => control' = "on"
    <3>1. ASSUME NEW ok \in BOOLEAN, StartServer(ok)
          PROVE  serving' = ok /\ control' = IF ok THEN "on" ELSE "off"
      BY <3>1 DEF StartServer
    <3>2. CASE StopServer
      BY <3>2 DEF StopServer
    <3>3. CASE StopAcceptor
      BY <1>1, <3>3 DEF StopAcceptor, ServerTypes, ListedOK
    <3>4. CASE Stopped
      BY <1>1, <3>4 DEF Stopped, ServerTypes, ListedOK
    <3> QED BY <1>9, <3>1, <3>2, <3>3, <3>4
  <2>3. control = "close" => leftover = {}
    BY <1>9 DEF StartServer, StopServer, StopAcceptor, Stopped
  <2>4. \A c \in Conns : pc[c] \in Live /\ fd[c] # None => connections[fd[c]] = c
    BY <1>1, <2>3 DEF ListedOK
  <2> QED BY <1>1, <1>6, <2>1, <2>2, <2>4 DEF ServerTypes
<1> QED BY <1>7, <1>8, <1>9 DEF Control

LEMMA ServerKept ==
  ASSUME ServerInv, UNCHANGED servervars \/ \E l \in loops : AcceptLoopEnds(l)
  PROVE  ServerInv'
<1>1. UNCHANGED <<serving, control, leftover, connections, pc, fd, number, thread, stream, async_stream_fds>>
  BY DEF servervars, AcceptLoopEnds, cvars, tvars, nvars, svars
<1>2. ServerTypes
  BY DEF ServerInv
<1>3. Quiet
  BY <1>1, <1>2, OpenLoses, StaysPut DEF Quiet, nvars
<1> QED BY <1>3, QuietKeeps

LEMMA ServerBegins ==
  ASSUME ServerInit
  PROVE  ServerInv
<1>1. ServerTypes
  BY DEF ServerInit, ServerTypes, Stations
<1>2. \A c \in Conns : pc[c] = "none" /\ fd[c] = None /\ number[c] = None /\ stream[c] = "none"
  BY DEF ServerInit
<1>3. NumbersOK /\ MarkedOK
  BY <1>2 DEF NumbersOK, MarkedOK
<1>4. ListedOK
  BY <1>2 DEF ServerInit, ListedOK
<1> QED BY <1>1, <1>3, <1>4 DEF ServerInv

(* ServerSound of HttpServer.tla: while TcpServer runs, stop() finds every *)
(* connection that is served in connections_, although a number is given   *)
(* again while its last owner ends and the server is stopped and started   *)
(* again; and HttpServer sends no response into an open asynchronous       *)
(* stream of a connection whose number nobody else has had.                *)
THEOREM ServerIsSound == ServerSpec => []ServerSound
<1>1. ServerInit => ServerInv
  BY ServerBegins
<1>2. ServerInv /\ [ServerNext]_servervars => ServerInv'
  <2> SUFFICES ASSUME ServerInv, [ServerNext]_servervars PROVE ServerInv'
    OBVIOUS
  <2>1. CASE Control
    BY <2>1, ControlKeeps
  <2>2. ASSUME NEW l \in loops, NEW c \in Conns, NEW n \in Fds, Accept(l, c, n) PROVE ServerInv'
    BY <2>2, AcceptKeeps
  <2>3. ASSUME NEW c \in Conns, Handler(c) PROVE ServerInv'
    <3>1. CASE Register(c)
      BY <3>1, RegisterKeeps
    <3>2. CASE BeginStream(c) \/ OnCloseStream(c)
      BY <3>2, StreamKeeps
    <3>3. CASE ~(Register(c) \/ BeginStream(c) \/ OnCloseStream(c))
      <4>1. Quiet
        BY <2>3, <3>3, HandlerQuiet DEF Handler
      <4> QED BY <4>1, QuietKeeps
    <3> QED BY <3>1, <3>2, <3>3
  <2>4. ASSUME NEW c \in Conns, OtherThread(c) PROVE ServerInv'
    <3>1. CASE StreamShutdown(c) \/ UserCloses(c)
      BY <3>1, OthersQuiet, QuietKeeps
    <3>2. CASE FinishStream(c) \/ TerminalSent(c) \/ StreamFinished(c)
      BY <3>2, StreamKeeps
    <3> QED BY <2>4, <3>1, <3>2 DEF OtherThread
  <2>5. CASE UNCHANGED servervars \/ \E l \in loops : AcceptLoopEnds(l)
    BY <2>5, ServerKept
  <2> QED BY <2>1, <2>2, <2>3, <2>4, <2>5 DEF ServerNext
<1>3. ServerInv => ServerSound
  <2> SUFFICES ASSUME ServerInv PROVE ServerSound
    OBVIOUS
  <2>1. LiveIsListed
    BY DEF ServerInv, ListedOK, LiveIsListed, connected
  <2>2. StreamIsAlone
    BY DEF ServerInv, MarkedOK, StreamIsAlone, connected, Alone, Live
  <2> QED BY <2>1, <2>2 DEF ServerSound
<1> QED BY <1>1, <1>2, <1>3, PTL DEF ServerSpec
=============================================================================
