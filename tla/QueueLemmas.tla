---------------------------- MODULE QueueLemmas ----------------------------
(***************************************************************************)
(* Lemmas about the queue operators, cited by the proofs of the components.*)
(***************************************************************************)
EXTENDS Queues, Integers, SequenceTheorems, WellFoundedInduction, TLAPS

(* push_back keeps the element type.                                       *)
LEMMA AppendType ==
  ASSUME NEW S, NEW s \in Seq(S), NEW e \in S
  PROVE  Append(s, e) \in Seq(S)
OBVIOUS

(* What is appended to a queue, and what was there, are its members.       *)
LEMMA MembersAppend ==
  ASSUME NEW S, NEW s \in Seq(S), NEW e \in S
  PROVE  Members(Append(s, e)) = Members(s) \cup {e}
<1> DEFINE t == Append(s, e)
<1>1. Members(t) \subseteq Members(s) \cup {e}
  BY DEF Members
<1>2. t[Len(s) + 1] = e /\ Len(s) + 1 \in DOMAIN t
  OBVIOUS
<1>3. \A i \in DOMAIN s : i \in DOMAIN t /\ t[i] = s[i]
  OBVIOUS
<1> QED BY <1>1, <1>2, <1>3 DEF Members

(* Two queues joined hold the members of both.                             *)
LEMMA MembersConcat ==
  ASSUME NEW S, NEW s \in Seq(S), NEW t \in Seq(S)
  PROVE  Members(s \o t) = Members(s) \cup Members(t)
<1>1. Members(s \o t) \subseteq Members(s) \cup Members(t)
  BY DEF Members
<1>2. Members(s) \subseteq Members(s \o t)
  BY DEF Members
<1>3. Members(t) \subseteq Members(s \o t)
  <2> SUFFICES ASSUME NEW i \in DOMAIN t PROVE t[i] \in Members(s \o t)
    BY DEF Members
  <2>1. Len(s) + i \in DOMAIN (s \o t) /\ (s \o t)[Len(s) + i] = t[i]
    OBVIOUS
  <2> QED BY <2>1 DEF Members
<1> QED BY <1>1, <1>2, <1>3

(* Cutting a queue in two loses nothing: drain_ready_fibers.               *)
LEMMA MembersCut ==
  ASSUME NEW S, NEW s \in Seq(S), NEW n \in 0..Len(s)
  PROVE  Members(s) \subseteq Members(SubSeq(s, 1, n)) \cup Members(SubSeq(s, n + 1, Len(s)))
<1> DEFINE a == SubSeq(s, 1, n)
           b == SubSeq(s, n + 1, Len(s))
<1> SUFFICES ASSUME NEW i \in DOMAIN s PROVE s[i] \in Members(a) \cup Members(b)
  BY DEF Members
<1>1. CASE i <= n
  <2>1. i \in DOMAIN a /\ a[i] = s[i]
    BY <1>1
  <2> QED BY <2>1 DEF Members
<1>2. CASE i > n
  <2>1. i - n \in DOMAIN b /\ b[i - n] = s[i]
    BY <1>2
  <2> QED BY <2>1 DEF Members
<1> QED BY <1>1, <1>2

(* Only the head leaves a queue when its tail is kept.                     *)
LEMMA MembersTail ==
  ASSUME NEW S, NEW s \in Seq(S), s # <<>>
  PROVE  /\ Head(s) \in S
         /\ Tail(s) \in Seq(S)
         /\ Members(s) = Members(Tail(s)) \cup {Head(s)}
<1>1. Head(s) \in S /\ Tail(s) \in Seq(S)
  OBVIOUS
<1>2. Members(s) \subseteq Members(Tail(s)) \cup {Head(s)}
  <2> SUFFICES ASSUME NEW i \in DOMAIN s, i # 1 PROVE s[i] \in Members(Tail(s))
    BY DEF Members
  <2>1. i - 1 \in DOMAIN Tail(s) /\ Tail(s)[i - 1] = s[i]
    OBVIOUS
  <2> QED BY <2>1 DEF Members
<1>3. Members(Tail(s)) \cup {Head(s)} \subseteq Members(s)
  BY DEF Members
<1> QED BY <1>1, <1>2, <1>3
(* A queue grows by a fresh element and stays without repetitions.         *)
LEMMA DistinctAppend ==
  ASSUME NEW S, NEW s \in Seq(S), NEW e \in S, Distinct(s), e \notin Members(s)
  PROVE  Distinct(Append(s, e))
BY DEF Distinct, Members

(* Taking the head off keeps a queue without repetitions, and the head is  *)
(* gone from it.                                                           *)
LEMMA DistinctTail ==
  ASSUME NEW S, NEW s \in Seq(S), s # <<>>, Distinct(s)
  PROVE  Distinct(Tail(s)) /\ Head(s) \notin Members(Tail(s))
<1>1. Distinct(Tail(s))
  BY DEF Distinct
<1>2. ASSUME NEW i \in DOMAIN Tail(s), Tail(s)[i] = Head(s) PROVE FALSE
  <2>1. i + 1 \in DOMAIN s /\ 1 \in DOMAIN s /\ s[i + 1] = s[1] /\ i + 1 # 1
    BY <1>2
  <2> QED BY <2>1 DEF Distinct
<1> QED BY <1>1, <1>2 DEF Members

(* Two disjoint queues without repetitions joined have none.               *)
LEMMA DistinctConcat ==
  ASSUME NEW S, NEW s \in Seq(S), NEW t \in Seq(S), Distinct(s), Distinct(t),
         Members(s) \cap Members(t) = {}
  PROVE  Distinct(s \o t)
<1> SUFFICES ASSUME NEW i \in DOMAIN (s \o t), NEW j \in DOMAIN (s \o t),
                    (s \o t)[i] = (s \o t)[j]
             PROVE  i = j
  BY DEF Distinct
<1>1. CASE i <= Len(s) /\ j <= Len(s)
  BY <1>1 DEF Distinct
<1>2. CASE i > Len(s) /\ j > Len(s)
  <2>1. i - Len(s) \in DOMAIN t /\ j - Len(s) \in DOMAIN t
        /\ t[i - Len(s)] = t[j - Len(s)]
    BY <1>2
  <2>2. i - Len(s) = j - Len(s)
    BY <2>1 DEF Distinct
  <2> QED BY <2>2
<1>3. CASE i <= Len(s) /\ j > Len(s)
  <2>1. s[i] \in Members(s) /\ t[j - Len(s)] \in Members(t) /\ s[i] = t[j - Len(s)]
    BY <1>3 DEF Members
  <2> QED BY <2>1
<1>4. CASE i > Len(s) /\ j <= Len(s)
  <2>1. s[j] \in Members(s) /\ t[i - Len(s)] \in Members(t) /\ s[j] = t[i - Len(s)]
    BY <1>4 DEF Members
  <2> QED BY <2>1
<1> QED BY <1>1, <1>2, <1>3, <1>4

(* A set of positions has a last one.                                      *)
LEMMA MaxOfInterval ==
  ASSUME NEW k \in Nat, NEW I, I \subseteq 1..k, I # {}
  PROVE  \E i \in I : \A j \in I : j <= i
<1> DEFINE D == {k - i : i \in I}
           R == {ss \in Nat \X Nat : ss[1] < ss[2]}
<1>1. D \subseteq Nat
  OBVIOUS
<1>2. D # {}
  OBVIOUS
<1>3. IsWellFoundedOn(R, Nat)
  BY NatLessThanWellFounded, Zenon DEF OpToRel
<1>4. \E d \in D : \A e \in D : ~(<<e, d>> \in R)
  <2> HIDE DEF D, R
  <2> QED BY <1>1, <1>2, <1>3, WFMin
<1>5. \E d \in D : \A e \in D : d <= e
  <2> HIDE DEF D
  <2>1. PICK d \in D : \A e \in D : ~(<<e, d>> \in R)
    BY <1>4
  <2>2. ASSUME NEW e \in D PROVE d <= e
    <3>1. d \in Nat /\ e \in Nat
      BY <1>1
    <3>2. ~(e < d)
      BY <2>1, <3>1
    <3> QED BY <3>1, <3>2
  <2> QED BY <2>2
<1>6. PICK i \in I : \A e \in D : k - i <= e
  BY <1>5
<1>7. ASSUME NEW j \in I PROVE j <= i
  <2>1. k - i <= k - j
    BY <1>6
  <2> QED BY <2>1
<1> QED BY <1>7

(* A set of positions has a first one.                                     *)
LEMMA MinOfInterval ==
  ASSUME NEW k \in Nat, NEW I, I \subseteq 0..k, I # {}
  PROVE  \E i \in I : \A j \in I : i <= j
<1> DEFINE D == {(k + 1) - i : i \in I}
<1>1. D \subseteq 1..(k + 1) /\ k + 1 \in Nat
  OBVIOUS
<1>0. D # {}
  OBVIOUS
<1>2. \E d \in D : \A e \in D : e <= d
  <2> HIDE DEF D
  <2> QED BY <1>0, <1>1, MaxOfInterval
<1>3. PICK i \in I : \A e \in D : e <= (k + 1) - i
  BY <1>2
<1>4. ASSUME NEW j \in I PROVE i <= j
  <2>1. (k + 1) - j <= (k + 1) - i
    BY <1>3
  <2> QED BY <2>1
<1> QED BY <1>4

(* Pushing on the second of two joined queues pushes on the whole.         *)
LEMMA ConcatAppend ==
  ASSUME NEW S, NEW s \in Seq(S), NEW t \in Seq(S), NEW e \in S
  PROVE  s \o Append(t, e) = Append(s \o t, e)
OBVIOUS

(* Popping the first of two joined queues pops the whole.                  *)
LEMMA ConcatTail ==
  ASSUME NEW S, NEW s \in Seq(S), NEW t \in Seq(S), s # <<>>
  PROVE  /\ Tail(s) \o t = Tail(s \o t)
         /\ Head(s \o t) = Head(s)
         /\ s \o t # <<>>
OBVIOUS

(* A queue cut in two and joined again is the queue.                       *)
LEMMA CutJoin ==
  ASSUME NEW S, NEW s \in Seq(S), NEW n \in 0..Len(s)
  PROVE  SubSeq(s, 1, n) \o SubSeq(s, n + 1, Len(s)) = s
<1>1. 1 \in 1..Len(s) + 1 /\ n \in 1 - 1..Len(s) /\ Len(s) \in n..Len(s)
  OBVIOUS
<1>2. SubSeq(s, 1, n) \o SubSeq(s, n + 1, Len(s)) = SubSeq(s, 1, Len(s))
  BY <1>1, ConcatAdjacentSubSeq, Zenon
<1> QED BY <1>2, SubSeqFull, Zenon

(* The back of a queue without repetitions has none and shares nothing     *)
(* with the front.                                                         *)
LEMMA DistinctCut ==
  ASSUME NEW S, NEW s \in Seq(S), Distinct(s), NEW n \in Nat
  PROVE  /\ Distinct(SubSeq(s, n + 1, Len(s)))
         /\ Members(SubSeq(s, n + 1, Len(s))) \subseteq Members(s)
         /\ \A i \in DOMAIN s : i <= n => s[i] \notin Members(SubSeq(s, n + 1, Len(s)))
<1> DEFINE b == SubSeq(s, n + 1, Len(s))
<1>1. \A j \in DOMAIN b : j + n \in DOMAIN s /\ b[j] = s[j + n] /\ j \in Nat \ {0}
  OBVIOUS
<1> HIDE DEF b
<1>2. Distinct(b)
  <2> SUFFICES ASSUME NEW i \in DOMAIN b, NEW j \in DOMAIN b, b[i] = b[j] PROVE i = j
    BY DEF Distinct
  <2>1. i + n = j + n
    BY <1>1 DEF Distinct
  <2> QED BY <2>1, <1>1
<1>3. Members(b) \subseteq Members(s)
  BY <1>1 DEF Members
<1>4. ASSUME NEW i \in DOMAIN s, i <= n, s[i] \in Members(b) PROVE FALSE
  <2>1. PICK j \in DOMAIN b : b[j] = s[i]
    BY <1>4 DEF Members
  <2>2. j + n = i
    BY <2>1, <1>1 DEF Distinct
  <2> QED BY <2>2, <1>1, <1>4
<1> QED BY <1>2, <1>3, <1>4 DEF b

(* erase takes just the one element out of a list without repetitions.     *)
LEMMA ErasedOK ==
  ASSUME NEW S, NEW s \in Seq(S), Distinct(s), NEW e
  PROVE  /\ Erased(s, e) \in Seq(S)
         /\ Members(Erased(s, e)) = Members(s) \ {e}
         /\ Distinct(Erased(s, e))
<1>1. CASE e \notin Members(s)
  BY <1>1 DEF Erased
<1>2. CASE e \in Members(s)
  <2> DEFINE i == CHOOSE j \in DOMAIN s : s[j] = e
             a == SubSeq(s, 1, i - 1)
             b == SubSeq(s, i + 1, Len(s))
  <2>1. i \in DOMAIN s /\ s[i] = e
    BY <1>2 DEF Members
  <2> HIDE DEF i
  <2>2. i \in 1..Len(s) /\ Len(s) \in Nat
    BY <2>1
  <2>3. a \in Seq(S) /\ b \in Seq(S)
    BY <2>2
  <2>4. /\ \A j \in DOMAIN a : a[j] = s[j] /\ j \in DOMAIN s /\ j < i
        /\ \A j \in 1..(i - 1) : j \in DOMAIN a /\ a[j] = s[j]
    BY <2>2
  <2>5. /\ \A j \in DOMAIN b : b[j] = s[j + i] /\ j + i \in DOMAIN s /\ j + i > i
        /\ \A j \in (i + 1)..Len(s) : j - i \in DOMAIN b /\ b[j - i] = s[j]
    BY <2>2
  <2>6. Erased(s, e) = a \o b
    BY <1>2 DEF Erased, i
  <2> HIDE DEF a, b
  <2>7. Members(a) = {s[j] : j \in 1..(i - 1)} /\ Members(b) = {s[j] : j \in (i + 1)..Len(s)}
    <3>1. Members(a) \subseteq {s[j] : j \in 1..(i - 1)}
      BY <2>2, <2>4 DEF Members
    <3>2. {s[j] : j \in 1..(i - 1)} \subseteq Members(a)
      BY <2>4 DEF Members
    <3>3. Members(b) \subseteq {s[j] : j \in (i + 1)..Len(s)}
      <4> SUFFICES ASSUME NEW j \in DOMAIN b PROVE b[j] \in {s[k] : k \in (i + 1)..Len(s)}
        BY DEF Members
      <4>1. b[j] = s[j + i] /\ j + i \in (i + 1)..Len(s)
        BY <2>2, <2>5
      <4> QED BY <4>1
    <3>4. {s[j] : j \in (i + 1)..Len(s)} \subseteq Members(b)
      BY <2>5 DEF Members
    <3> QED BY <3>1, <3>2, <3>3, <3>4
  <2>8. Members(a) \cup Members(b) = Members(s) \ {e}
    <3>1. \A j \in DOMAIN s : s[j] = e => j = i
      BY <2>1 DEF Distinct
    <3>2. \A j \in DOMAIN s : j \in 1..(i - 1) \/ j = i \/ j \in (i + 1)..Len(s)
      BY <2>2
    <3>3. Members(s) \ {e} \subseteq Members(a) \cup Members(b)
      BY <2>1, <2>7, <3>2 DEF Members
    <3>4. \A j \in 1..(i - 1) \cup (i + 1)..Len(s) : j \in DOMAIN s /\ j # i
      BY <2>2
    <3>5. Members(a) \cup Members(b) \subseteq Members(s) \ {e}
      BY <2>7, <3>1, <3>4 DEF Members
    <3> QED BY <3>3, <3>5
  <2>9. Members(a) \cap Members(b) = {}
    BY <2>2, <2>7 DEF Distinct
  <2>10. Distinct(a)
    BY <2>4 DEF Distinct
  <2>11. Distinct(b)
    <3> SUFFICES ASSUME NEW j \in DOMAIN b, NEW k \in DOMAIN b, b[j] = b[k] PROVE j = k
      BY DEF Distinct
    <3>1. j + i = k + i
      BY <2>5 DEF Distinct
    <3>2. j \in Int /\ k \in Int
      BY <2>3
    <3> QED BY <3>1, <3>2, <2>2
  <2>12. Members(a \o b) = Members(a) \cup Members(b) /\ Distinct(a \o b) /\ a \o b \in Seq(S)
    BY <2>3, <2>9, <2>10, <2>11, MembersConcat, DistinctConcat
  <2> QED BY <2>6, <2>8, <2>12
<1> QED BY <1>1, <1>2

(* Pushing a fresh element to the front keeps a list without repetitions.  *)
LEMMA PushFront ==
  ASSUME NEW S, NEW s \in Seq(S), Distinct(s), NEW e \in S, e \notin Members(s)
  PROVE  /\ <<e>> \o s \in Seq(S)
         /\ Members(<<e>> \o s) = Members(s) \cup {e}
         /\ Distinct(<<e>> \o s)
<1>1. <<e>> \in Seq(S) /\ Members(<<e>>) = {e} /\ Distinct(<<e>>)
  BY DEF Members, Distinct
<1>2. Members(<<e>>) \cap Members(s) = {}
  BY <1>1
<1> DEFINE a == <<e>>
<1> HIDE DEF a
<1>3. a \in Seq(S) /\ Members(a) = {e} /\ Distinct(a) /\ Members(a) \cap Members(s) = {}
  BY <1>1, <1>2 DEF a
<1>4. a \o s \in Seq(S) /\ Members(a \o s) = Members(s) \cup {e} /\ Distinct(a \o s)
  BY <1>3, MembersConcat, DistinctConcat
<1> QED BY <1>4 DEF a

=============================================================================
