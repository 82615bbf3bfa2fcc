----------------------- MODULE TcpConnection_proofs -----------------------
(***************************************************************************)
(* Theorems about TcpConnection, for any number of callers, messages and   *)
(* calls and any message length, high water mark and depth of callbacks:   *)
(* the actor is alone, what was acknowledged is kept, shutdown delivers,   *)
(* and, when no co_send times out after some of its bytes, the peer sees   *)
(* whole messages.                                                         *)
(***************************************************************************)
EXTENDS TcpConnection, QueueLemmas, FiniteSetTheorems

Byte   == Messages \X (1..MessageLength)
Ops    == {"send", "read", "flush", "shutdown", "close"}
Places == {"start", "reading", "high_water", "choose", "direct", "complete",
           "flush", "flushed", "closing"}
FrameType == [op : Ops, msg : Messages \cup {None}, of : Executors, sent : Nat,
              pending : Nat, at : Places, flushed : BOOLEAN, owed : SUBSET Messages]

(* What each variable holds.  No call stands at "stuck": a callback that   *)
(* calls the connection again never waits for itself.                      *)
TypeOK ==
  /\ tls \in BOOLEAN /\ valid \in BOOLEAN /\ broken \in BOOLEAN
  /\ state \in {"connected", "disconnecting", "disconnected"}
  /\ output \in Seq(Byte) /\ wire \in Seq(Byte)
  /\ mailbox \in Seq(Callers)
  /\ actor_running \in BOOLEAN /\ actor_coroutine \in Executors \cup {Nobody}
  /\ pc \in [Executors -> {"out", "called", "inline", "dispatch", "waiting",
                           "drain", "take", "busy"}]
  /\ request \in [Callers -> Requests \cup {NoRequest}]
  /\ frames \in [Executors -> Seq(FrameType)]
  /\ completed \in SUBSET Callers
  /\ calls \in Nat /\ unsent \in SUBSET Messages /\ acked \in SUBSET Messages

-----------------------------------------------------------------------------
(* The actor and its mailbox                                               *)

Active(e) == pc[e] \in {"inline", "drain", "take", "busy"}

(* Whoever is between becoming the actor and giving it up is alone, has    *)
(* set actor_running_, and has calls in progress just while it is in one.  *)
ActorInv ==
  /\ \A e, f \in Executors : Active(e) /\ Active(f) => e = f
  /\ \A e \in Executors :
       /\ Active(e) => actor_running
       /\ frames[e] # <<>> <=> pc[e] \in {"inline", "busy"}
       /\ pc[e] \in {"inline", "take", "busy"} => actor_coroutine = e
  /\ pc[Worker] \in {"out", "drain", "take", "busy"}

Last(s) == s[Len(s)]

\* The callers whose event the actor has taken from the mailbox.
Served == {Last(frames[e]).of : e \in {x \in Executors : pc[x] = "busy"}}

(* An event is in the mailbox, taken or completed, and in one of these     *)
(* places only; its caller has not left.                                   *)
EventInv ==
  /\ Served \subseteq Callers /\ Distinct(mailbox)
  /\ Members(mailbox) \cap completed = {}
  /\ Members(mailbox) \cap Served = {}
  /\ completed \cap Served = {}
  /\ \A c \in Members(mailbox) \cup completed \cup Served :
       pc[c] \in {"waiting", "drain", "take", "busy"} /\ request[c] \in Requests
  /\ \A c \in Callers : pc[c] \in {"called", "dispatch", "inline"} => request[c] \in Requests

-----------------------------------------------------------------------------
(* Calls in progress                                                       *)

Carried   == Members(wire) \cup Members(output)
Kept(m)   == \A i \in 1..MessageLength : <<m, i>> \in Carried
Gone(m)   == \A i \in 1..MessageLength : <<m, i>> \in Members(wire)

(* What a call knows at each place, whatever the calls inside it do.       *)
FrameInv(f) ==
  /\ f.op = "send" => f.msg \in Messages
  /\ f.at \in {"high_water", "choose", "direct", "complete"} => f.op = "send"
  /\ f.at = "closing" => f.op = "shutdown"
  /\ f.at \in {"start", "high_water", "choose", "flushed"} => f.sent = 0
  /\ f.at = "direct" => f.sent < MessageLength
  /\ f.owed \subseteq acked
  /\ f.op = "send" /\ f.at \in {"complete", "flush", "flushed"} => Kept(f.msg)
  /\ f.op = "shutdown" /\ f.at = "flushed" => \A m \in f.owed : Gone(m)
  /\ f.at = "closing" => broken \/ \A m \in f.owed : Gone(m)

(* A call in the middle of a write: the bytes it has counted are with the  *)
(* kernel, and nobody has closed the connection meanwhile.                 *)
WriteInv(f) ==
  /\ f.at = "direct" => /\ \A i \in 1..f.sent : <<f.msg, i>> \in Members(wire)
                        /\ f.sent > 0 => valid
  /\ f.at = "flush"  => /\ f.sent > 0 => f.sent < Len(output) /\ Usable
                        /\ \A i \in 1..f.sent : output[i] \in Members(wire)
                        /\ f.op = "shutdown" => Usable

(* Only the innermost call may be anywhere but in a callback.              *)
CallsInv ==
  /\ state # "disconnected" => valid
  /\ \A m \in acked : Kept(m)
  /\ \A e \in Executors : \A i \in DOMAIN frames[e] :
       /\ FrameInv(frames[e][i])
       /\ i = 1 => WriteInv(frames[e][i])
       /\ i > 1 => frames[e][i].at \in {"high_water", "complete", "flushed"}

-----------------------------------------------------------------------------
(* Messages                                                                *)

\* A send that has been called and that no actor has begun.
Waits(c) == /\ pc[c] \in {"called", "dispatch"} \/ c \in Members(mailbox)
            /\ request[c].op = "send"
\* A send that has buffered nothing and whose direct write is not over.
Fresh(f) == f.op = "send" /\ f.at \in {"start", "high_water", "choose", "direct"}

Untouched(m) == \A b \in Carried : b[1] # m

(* A message that is unsent, called or begun is so once, and none of its   *)
(* bytes are anywhere but those the kernel took of a direct write.         *)
FreshInv ==
  /\ \A m \in unsent : Untouched(m)
  /\ \A c \in Callers : Waits(c) => request[c].msg \notin unsent /\ Untouched(request[c].msg)
  /\ \A c, d \in Callers : Waits(c) /\ Waits(d) /\ request[c].msg = request[d].msg => c = d
  /\ \A e \in Executors : \A i \in DOMAIN frames[e] : Fresh(frames[e][i]) =>
       LET f == frames[e][i]
       IN  /\ f.msg \notin unsent
           /\ \A c \in Callers : Waits(c) => request[c].msg # f.msg
           /\ \A j \in DOMAIN frames[e] : Fresh(frames[e][j]) /\ frames[e][j].msg = f.msg => i = j
           /\ \A b \in Members(output) : b[1] # f.msg
           /\ \A b \in Members(wire) : b[1] = f.msg => b[2] <= f.sent

-----------------------------------------------------------------------------
(* The bytes                                                               *)

Follows(a, b) == b = IF a[2] = MessageLength THEN <<b[1], 1>> ELSE <<a[1], a[2] + 1>>
AtEnd(s)      == s # <<>> => Last(s)[2] = MessageLength
Continues(b)  == IF wire = <<>> THEN b[2] = 1 ELSE Follows(Last(wire), b)

\* What is left of output_buffer_ after n bytes goes on where the wire ends.
Joint(n) ==
  /\ \A i \in (n + 1)..Len(output) : output[i] \notin Members(wire)
  /\ n < Len(output) => Continues(output[n + 1])
  /\ n = Len(output) => AtEnd(wire)

Settled == Joint(0) /\ (~tls => AtEnd(wire))

Mid(e)  == (At(e, "flush") \/ At(e, "direct")) /\ Top(e).sent > 0

(* Between two writes the buffer goes on where the wire ends, and without  *)
(* TLS this is between two messages; within a write, where the write is.   *)
StreamInv ==
  /\ Whole(wire) /\ Whole(output) /\ AtEnd(output)
  /\ valid /\ ~broken =>
       /\ (\A e \in Executors : ~Mid(e)) => Settled
       /\ \A e \in Executors :
            /\ At(e, "flush") /\ Top(e).sent > 0 => Joint(Top(e).sent)
            /\ At(e, "direct") => ~tls
            /\ At(e, "direct") /\ Top(e).sent > 0 =>
                 /\ wire # <<>> /\ Last(wire) = <<Top(e).msg, Top(e).sent>>
                 /\ Members(output) \cap Members(wire) = {}
                 /\ output # <<>> => output[1][2] = 1

Inv == TypeOK /\ ActorInv /\ EventInv /\ CallsInv /\ FreshInv

-----------------------------------------------------------------------------
(* Sequences                                                               *)

(* The innermost call is replaced and the calls around it stay.            *)
LEMMA SeqMove ==
  ASSUME NEW S, NEW s \in Seq(S), s # <<>>, NEW f \in S
  PROVE  LET t == <<f>> \o Tail(s)
         IN  /\ t \in Seq(S) /\ t # <<>> /\ Len(t) = Len(s) /\ DOMAIN t = DOMAIN s
             /\ t[1] = f /\ \A i \in DOMAIN s : i > 1 => t[i] = s[i]
             /\ Len(s) \in DOMAIN s /\ 1 \in DOMAIN s
<1> DEFINE t == <<f>> \o Tail(s)
<1>1. <<f>> \in Seq(S) /\ Tail(s) \in Seq(S) /\ Len(<<f>>) = 1 /\ Len(Tail(s)) = Len(s) - 1
      /\ Len(s) \in Nat \ {0}
  OBVIOUS
<1>2. t \in Seq(S) /\ Len(t) = Len(s)
  BY <1>1
<1>3. ASSUME NEW i \in DOMAIN s, i > 1 PROVE t[i] = s[i]
  BY <1>1, <1>3
<1>4. t[1] = f
  BY <1>1
<1>5. DOMAIN t = DOMAIN s /\ t # <<>> /\ Len(s) \in DOMAIN s /\ 1 \in DOMAIN s
  BY <1>1, <1>2
<1> QED BY <1>2, <1>3, <1>4, <1>5

(* The innermost call returns to the one around it.                        *)
LEMMA SeqPop ==
  ASSUME NEW S, NEW s \in Seq(S), s # <<>>
  PROVE  LET t == Tail(s)
         IN  /\ t \in Seq(S) /\ Len(t) = Len(s) - 1 /\ (t # <<>> <=> Len(s) > 1)
             /\ \A i \in DOMAIN t : i + 1 \in DOMAIN s /\ t[i] = s[i + 1]
             /\ Len(s) \in Nat /\ Len(s) >= 1
<1>1. Len(s) \in Nat /\ Len(s) >= 1 /\ Tail(s) \in Seq(S) /\ Len(Tail(s)) = Len(s) - 1
  OBVIOUS
<1>2. \A i \in DOMAIN Tail(s) : i + 1 \in DOMAIN s /\ Tail(s)[i] = s[i + 1]
  BY <1>1
<1>3. Tail(s) # <<>> <=> Len(s) > 1
  BY <1>1
<1> QED BY <1>1, <1>2, <1>3

(* A call is made from a callback of the innermost one.                    *)
LEMMA SeqPush ==
  ASSUME NEW S, NEW s \in Seq(S), NEW f \in S
  PROVE  LET t == <<f>> \o s
         IN  /\ t \in Seq(S) /\ Len(t) = Len(s) + 1 /\ t # <<>> /\ t[1] = f
             /\ \A i \in DOMAIN t : i > 1 => i - 1 \in DOMAIN s /\ t[i] = s[i - 1]
<1>1. <<f>> \in Seq(S) /\ Len(<<f>>) = 1 /\ Len(s) \in Nat
  OBVIOUS
<1>2. <<f>> \o s \in Seq(S) /\ Len(<<f>> \o s) = Len(s) + 1 /\ (<<f>> \o s)[1] = f
  BY <1>1
<1>3. ASSUME NEW i \in DOMAIN (<<f>> \o s), i > 1
      PROVE  i - 1 \in DOMAIN s /\ (<<f>> \o s)[i] = s[i - 1]
  BY <1>1, <1>2, <1>3
<1> QED BY <1>2, <1>3

LEMMA OneOrMore ==
  ASSUME NEW n \in Nat, n # 0
  PROVE  n = 1 \/ n > 1
OBVIOUS

-----------------------------------------------------------------------------
(* Kinds of steps                                                          *)

Inside(e) == e \in Executors /\ frames[e] # <<>>

(* The innermost call of e goes on as f.                                   *)
MoveStep(e, f) ==
  /\ Inside(e) /\ Move(e, f) /\ Within
  /\ f \in FrameType /\ f.op = Top(e).op /\ f.msg = Top(e).msg /\ f.of = Top(e).of
  /\ tls' = tls /\ valid' = valid

\* ... and no byte moves.
QuietStep(e, f) ==
  /\ MoveStep(e, f) /\ UNCHANGED <<output, wire>>
  /\ f.sent = Top(e).sent /\ f.owed = Top(e).owed
  /\ f.sent = 0 \/ broken
  /\ \/ state' = state
     \/ state # "disconnected" /\ state' = "disconnecting"
  /\ FrameInv(f) /\ WriteInv(f)'
  /\ Fresh(f) => Fresh(Top(e))
  /\ f.at = "direct" => ~tls

\* ... and its message goes to the buffer.
BufferStep(e, f) ==
  /\ MoveStep(e, f) /\ state' = state /\ wire' = wire
  /\ f.sent = 0 /\ f.at = "flush" /\ f.owed = Top(e).owed
  /\ Top(e).at \in {"choose", "direct"}
  /\ Top(e).sent = 0 \/ SplitTimeouts
  /\ output' = output \o Bytes(Top(e).msg)

\* ... and the kernel takes the bytes of s that it has not taken, up to n.
DirectStep(e, f) ==
  /\ MoveStep(e, f) /\ state' = state /\ output' = output
  /\ Top(e).at = "direct" /\ f.owed = Top(e).owed /\ valid /\ ~broken
  /\ f.sent > Top(e).sent /\ f.sent <= MessageLength
  /\ f.at = IF f.sent = MessageLength THEN "complete" ELSE "direct"
  /\ wire' = wire \o SubSeq(Bytes(Top(e).msg), Top(e).sent + 1, f.sent)

FlushStep(e, f, n) ==
  /\ MoveStep(e, f) /\ state' = state
  /\ Top(e).at = "flush" /\ f.at = "flush" /\ f.owed = Top(e).owed /\ Usable /\ ~broken
  /\ n \in Nat /\ n > Top(e).sent /\ n <= Len(output)
  /\ wire' = wire \o SubSeq(output, Top(e).sent + 1, n)
  /\ IF n = Len(output) THEN output' = Retrieved(n) /\ f.sent = 0
     ELSE output' = output /\ f.sent = n

RetrieveStep(e, f) ==
  /\ MoveStep(e, f) /\ state' = state /\ wire' = wire
  /\ Top(e).at = "flush" /\ f.at = "flush" /\ f.owed = Top(e).owed /\ Usable
  /\ Top(e).sent > 0 /\ f.sent = 0 /\ tls
  /\ output' = Retrieved(Top(e).sent)

(* The innermost call of e is over.                                        *)
OverStep(e) ==
  /\ Inside(e) /\ Over(e) /\ UNCHANGED <<output, wire>>
  /\ Top(e).at \in {"flush", "direct"} => Top(e).sent = 0 \/ broken \/ SplitTimeouts
  /\ \/ acked' = acked
     \/ /\ acked' = acked \cup {Top(e).msg}
        /\ Top(e).op = "send" /\ Top(e).at \in {"complete", "flush", "flushed"}
  /\ tls' \in BOOLEAN
  /\ \/ valid' = valid /\ tls' = tls /\ state' \in {state, "disconnected"}
     \/ valid' = FALSE /\ state' = "disconnected"

-----------------------------------------------------------------------------
(* Every step within a call is of one of these kinds                       *)

(* What the invariant says of an innermost call.                           *)
LEMMA TopFacts ==
  ASSUME TypeOK, CallsInv, NEW e \in Executors, frames[e] # <<>>
  PROVE  /\ Inside(e) /\ Top(e) \in FrameType /\ frames[e] \in Seq(FrameType)
         /\ FrameInv(Top(e)) /\ WriteInv(Top(e))
<1>1. frames[e] \in Seq(FrameType) /\ 1 \in DOMAIN frames[e]
  BY DEF TypeOK
<1>2. Top(e) \in FrameType
  BY <1>1 DEF Top
<1> QED BY <1>1, <1>2 DEF Top, CallsInv, Inside

(* A call that fails is over and has changed nothing.                      *)
LEMMA FailsIsOver ==
  ASSUME TypeOK, NEW e \in Executors, frames[e] # <<>>, Fails(e),
         Top(e).at \in {"flush", "direct"} => Top(e).sent = 0 \/ broken \/ SplitTimeouts
  PROVE  OverStep(e)
BY DEF OverStep, Inside, Fails, svars, TypeOK

(* So is a send that is acknowledged, closed behind or not.                *)
LEMMA AcknowledgeIsOver ==
  ASSUME TypeOK, NEW e \in Executors, frames[e] # <<>>, NEW close \in BOOLEAN,
         Acknowledge(e, close),
         Top(e).op = "send", Top(e).at \in {"complete", "flush", "flushed"},
         Top(e).at = "flush" => Top(e).sent = 0 \/ broken \/ SplitTimeouts
  PROVE  OverStep(e)
BY DEF OverStep, Inside, Acknowledge, Close, TypeOK

(* The end of a flush is the end of the call, or the shutdown goes on to   *)
(* close; then it has delivered what it owes, or the connection is reset.  *)
LEMMA FlushEndsIsStep ==
  ASSUME TypeOK, CallsInv, NEW e \in Executors, frames[e] # <<>>,
         Top(e).at \in {"flush", "flushed"}, NEW ok \in BOOLEAN, FlushEnds(e, ok),
         Top(e).at = "flush" => Top(e).sent = 0 \/ broken \/ SplitTimeouts,
         Top(e).op = "shutdown" =>
           (Top(e).sent = 0 \/ broken) /\ (broken \/ \A m \in Top(e).owed : Gone(m))
  PROVE  OverStep(e) \/ \E f \in FrameType : QuietStep(e, f)
<1>0. /\ Inside(e) /\ Top(e) \in FrameType /\ frames[e] \in Seq(FrameType)
      /\ FrameInv(Top(e)) /\ WriteInv(Top(e))
  BY TopFacts
<1>1. CASE Top(e).op = "shutdown"
  <2>0. PICK f \in FrameType : f = [Top(e) EXCEPT !.at = "closing"]
    BY <1>0 DEF FrameType, Places
  <2>1. /\ f.at = "closing" /\ f.op = Top(e).op /\ f.msg = Top(e).msg
        /\ f.of = Top(e).of /\ f.sent = Top(e).sent /\ f.owed = Top(e).owed
    BY <1>0, <2>0 DEF FrameType
  <2>2. Move(e, f) /\ Within /\ UNCHANGED svars
    BY <1>1, <2>0 DEF FlushEnds, To
  <2>3. FrameInv(f)
    BY <1>0, <1>1, <2>1 DEF FrameInv
  <2>4. WriteInv(f)'
    BY <2>1 DEF WriteInv
  <2>5. MoveStep(e, f)
    BY <1>0, <2>1, <2>2 DEF MoveStep, svars
  <2>6. QuietStep(e, f)
    BY <1>0, <1>1, <2>1, <2>2, <2>3, <2>4, <2>5 DEF QuietStep, svars, Fresh
  <2> QED BY <2>1, <2>6
<1>2. CASE Top(e).op = "send" /\ ok
  <2>1. Acknowledge(e, output = <<>>)
    BY <1>2 DEF FlushEnds
  <2>2. (output = <<>>) \in BOOLEAN
    OBVIOUS
  <2> QED BY <1>2, <2>1, <2>2, AcknowledgeIsOver
<1>3. CASE Top(e).op # "shutdown" /\ ~(Top(e).op = "send" /\ ok)
  <2>1. Fails(e)
    BY <1>3 DEF FlushEnds
  <2> QED BY <2>1, FailsIsOver
<1> QED BY <1>1, <1>2, <1>3

(* A message goes to the buffer.                                           *)
LEMMA BufferIsStep ==
  ASSUME TypeOK, CallsInv, NEW e \in Executors, frames[e] # <<>>, Buffer(e),
         Top(e).at \in {"choose", "direct"}, Top(e).sent = 0 \/ SplitTimeouts
  PROVE  \E f \in FrameType : BufferStep(e, f)
<1>0. /\ Inside(e) /\ Top(e) \in FrameType
  BY TopFacts
<1>a. PICK f \in FrameType : f = [Top(e) EXCEPT !.sent = 0, !.at = "flush"]
  BY <1>0 DEF FrameType, Places
<1>1. /\ f.at = "flush" /\ f.op = Top(e).op /\ f.msg = Top(e).msg
      /\ f.of = Top(e).of /\ f.sent = 0 /\ f.owed = Top(e).owed
  BY <1>0, <1>a DEF FrameType
<1>2. Move(e, f)
  BY <1>a DEF Buffer
<1> QED BY <1>0, <1>1, <1>2 DEF BufferStep, MoveStep, Buffer, Buffered

(* The steps of the _internal functions.                                   *)
InternalStep(e) ==
  \/ OverStep(e)
  \/ \E f \in FrameType : QuietStep(e, f) \/ BufferStep(e, f) \/ DirectStep(e, f)
                          \/ RetrieveStep(e, f) \/ \E n \in Nat : FlushStep(e, f, n)

(* A call that moves no byte and writes nothing goes on.                   *)
LEMMA QuietMove ==
  ASSUME TypeOK, CallsInv, NEW e \in Executors, frames[e] # <<>>, NEW f \in FrameType,
         Move(e, f), Within, UNCHANGED svars,
         f.op = Top(e).op, f.msg = Top(e).msg, f.of = Top(e).of, f.sent = 0, Top(e).sent = 0,
         f.owed = Top(e).owed, FrameInv(f), f.at # "flush",
         Fresh(f) => Fresh(Top(e)), f.at = "direct" => ~tls
  PROVE  QuietStep(e, f)
<1>1. WriteInv(f)'
  BY DEF WriteInv
<1> QED BY <1>1 DEF QuietStep, MoveStep, Inside, svars

(* ... in particular to the next place of the function.                    *)
LEMMA QuietTo ==
  ASSUME TypeOK, CallsInv, NEW e \in Executors, frames[e] # <<>>, NEW p \in Places,
         To(e, p), Within, UNCHANGED svars, Top(e).sent = 0, p \notin {"flush", "closing", "complete"},
         p \in {"high_water", "choose", "direct"} => Fresh(Top(e)),
         p = "start" => Fresh(Top(e)),
         p = "direct" => ~tls,
         p = "flushed" => /\ Top(e).at = "flush"
                          /\ Top(e).op = "shutdown" => \A m \in Top(e).owed : Gone(m)
  PROVE  \E f \in FrameType : QuietStep(e, f)
<1>0. /\ Inside(e) /\ Top(e) \in FrameType /\ FrameInv(Top(e))
  BY TopFacts
<1>1. PICK f \in FrameType : f = [Top(e) EXCEPT !.at = p]
  BY <1>0 DEF FrameType
<1>2. /\ f.at = p /\ f.op = Top(e).op /\ f.msg = Top(e).msg
      /\ f.of = Top(e).of /\ f.sent = Top(e).sent /\ f.owed = Top(e).owed
  BY <1>0, <1>1 DEF FrameType
<1>3. FrameInv(f)
  BY <1>0, <1>2, SizesAssumption DEF FrameInv, Fresh
<1>4. Move(e, f)
  BY <1>1 DEF To
<1>5. Fresh(f) => Fresh(Top(e))
  BY <1>2 DEF Fresh
<1> QED BY <1>2, <1>3, <1>4, <1>5, QuietMove

(* Reads, and sends up to the choice between writing and buffering.        *)
LEMMA EarlyCases ==
  ASSUME TypeOK, CallsInv, NEW e \in Executors,
         Read(e) \/ ReadEnds(e) \/ Send(e) \/ HighWaterReturns(e) \/ SendChoose(e)
  PROVE  InternalStep(e)
<1>0. frames[e] # <<>>
  BY DEF Read, ReadEnds, Send, HighWaterReturns, SendChoose, Is, At
<1>a. /\ Inside(e) /\ Top(e) \in FrameType /\ FrameInv(Top(e)) /\ WriteInv(Top(e))
  BY <1>0, TopFacts
<1>1. CASE Read(e)
  <2>1. Top(e).at = "start"
    BY <1>1 DEF Read, Is, At
  <2>2. Top(e).sent = 0
    BY <2>1, <1>a DEF FrameInv
  <2>3. CASE Fails(e)
    BY <1>0, <2>1, <2>3, FailsIsOver DEF InternalStep
  <2>4. CASE To(e, "reading") /\ Within /\ UNCHANGED svars
    <3>1. \E f \in FrameType : QuietStep(e, f)
      BY <1>0, <2>1, <2>2, <2>4, QuietTo DEF Places
    <3> QED BY <3>1 DEF InternalStep
  <2> QED BY <1>1, <2>3, <2>4 DEF Read
<1>2. CASE ReadEnds(e)
  <2>1. Top(e).at = "reading"
    BY <1>2 DEF ReadEnds, At
  <2>2. CASE Fails(e)
    BY <1>0, <2>1, <2>2, FailsIsOver DEF InternalStep
  <2>3. CASE state' = "disconnected" /\ Over(e) /\ UNCHANGED <<tls, valid, output, wire, acked>>
    <3>1. OverStep(e)
      BY <1>a, <2>1, <2>3 DEF OverStep, TypeOK
    <3> QED BY <3>1 DEF InternalStep
  <2> QED BY <1>2, <2>2, <2>3 DEF ReadEnds
<1>3. CASE Send(e)
  <2>1. Top(e).at = "start" /\ Top(e).op = "send"
    BY <1>3 DEF Send, Is, At
  <2>2. Top(e).sent = 0 /\ Top(e).msg \in Messages
    BY <2>1, <1>a DEF FrameInv
  <2>3. CASE Fails(e)
    BY <1>0, <2>1, <2>3, FailsIsOver DEF InternalStep
  <2>4. CASE ~Fails(e)
    <3> DEFINE crossed == Len(output) < HighWaterMark
                          /\ Len(output) + MessageLength >= HighWaterMark
    <3>1. /\ Move(e, [Top(e) EXCEPT !.pending = Len(output),
                                     !.at = IF crossed THEN "high_water" ELSE "choose"])
          /\ Within /\ UNCHANGED svars
      BY <1>3, <2>4 DEF Send
    <3>2. Len(output) \in Nat
      BY DEF TypeOK
    <3>3. PICK f \in FrameType : f = [Top(e) EXCEPT !.pending = Len(output),
                                     !.at = IF crossed THEN "high_water" ELSE "choose"]
      BY <1>a, <3>2 DEF FrameType, Places
    <3>4. /\ f.at \in {"high_water", "choose"} /\ f.op = Top(e).op /\ f.msg = Top(e).msg
          /\ f.of = Top(e).of /\ f.sent = Top(e).sent /\ f.owed = Top(e).owed
      BY <1>a, <3>3 DEF FrameType
    <3>5. FrameInv(f)
      BY <1>a, <2>1, <2>2, <3>4 DEF FrameInv
    <3>6. Fresh(Top(e))
      BY <2>1 DEF Fresh
    <3>7. QuietStep(e, f)
      BY <1>0, <2>2, <3>1, <3>3, <3>4, <3>5, <3>6, QuietMove
    <3> QED BY <3>7 DEF InternalStep
  <2> QED BY <2>3, <2>4
<1>4. CASE HighWaterReturns(e)
  <2>1. Top(e).at = "high_water" /\ To(e, "choose") /\ Within /\ UNCHANGED svars
    BY <1>4 DEF HighWaterReturns, At
  <2>2. Top(e).sent = 0 /\ Fresh(Top(e))
    BY <2>1, <1>a DEF FrameInv, Fresh
  <2>3. \E f \in FrameType : QuietStep(e, f)
    BY <1>0, <2>1, <2>2, QuietTo DEF Places
  <2> QED BY <2>3 DEF InternalStep
<1>5. CASE SendChoose(e)
  <2>1. Top(e).at = "choose"
    BY <1>5 DEF SendChoose, At
  <2>2. Top(e).sent = 0 /\ Fresh(Top(e))
    BY <2>1, <1>a DEF FrameInv, Fresh
  <2>3. CASE ~tls /\ To(e, "direct") /\ Within /\ UNCHANGED svars
    <3>1. \E f \in FrameType : QuietStep(e, f)
      BY <1>0, <2>1, <2>2, <2>3, QuietTo DEF Places
    <3> QED BY <3>1 DEF InternalStep
  <2>4. CASE Buffer(e)
    BY <1>0, <2>1, <2>2, <2>4, BufferIsStep DEF InternalStep
  <2> QED BY <1>5, <2>3, <2>4 DEF SendChoose
<1> QED BY <1>1, <1>2, <1>3, <1>4, <1>5

(* The direct write of send_internal.                                      *)
LEMMA DirectCases ==
  ASSUME TypeOK, CallsInv, NEW e \in Executors,
         \/ \E k \in Nat \ {0} : DirectSends(e, k)
         \/ DirectTimesOut(e) \/ DirectFails(e) \/ CompleteReturns(e)
  PROVE  InternalStep(e)
<1>0. frames[e] # <<>>
  BY DEF DirectSends, DirectTimesOut, DirectFails, CompleteReturns, At
<1>a. /\ Inside(e) /\ Top(e) \in FrameType /\ FrameInv(Top(e)) /\ WriteInv(Top(e))
  BY <1>0, TopFacts
<1>1. ASSUME NEW k \in Nat \ {0}, DirectSends(e, k) PROVE InternalStep(e)
  <2> DEFINE n == Top(e).sent + k
             g == [Top(e) EXCEPT !.sent = n, !.at = IF n = MessageLength THEN "complete" ELSE @]
  <2>0. Top(e).sent \in Nat
    BY <1>a DEF FrameType
  <2>a. Top(e).at = "direct" /\ n <= MessageLength
    BY <1>1 DEF DirectSends, At
  <2>1. Top(e).at = "direct" /\ n <= MessageLength /\ Top(e).sent \in Nat /\ n \in Nat
    BY <2>0, <2>a
  <2>2. PICK f \in FrameType : f = g
    BY <1>a, <2>1 DEF FrameType, Places
  <2>3. /\ f.sent = n /\ f.op = Top(e).op /\ f.msg = Top(e).msg /\ f.of = Top(e).of
        /\ f.owed = Top(e).owed
    BY <1>a, <2>2 DEF FrameType
  <2>4. f.at = IF f.sent = MessageLength THEN "complete" ELSE "direct"
    BY <1>a, <2>1, <2>2, <2>3 DEF FrameType
  <2>5. Move(e, f) /\ Within /\ UNCHANGED <<tls, state, valid, output>> /\ valid /\ ~broken
    BY <1>1, <2>2 DEF DirectSends
  <2>6. wire' = wire \o SubSeq(Bytes(Top(e).msg), Top(e).sent + 1, f.sent)
    BY <1>1, <2>3 DEF DirectSends
  <2>7. DirectStep(e, f)
    BY <1>a, <2>1, <2>3, <2>4, <2>5, <2>6 DEF DirectStep, MoveStep
  <2> QED BY <2>7 DEF InternalStep
<1>2. CASE DirectTimesOut(e)
  <2>1. Top(e).at = "direct" /\ (Top(e).sent = 0 \/ SplitTimeouts)
    BY <1>2 DEF DirectTimesOut, MayTimeOut, At
  <2>2. CASE Buffer(e)
    BY <1>0, <2>1, <2>2, BufferIsStep DEF InternalStep
  <2>3. CASE Fails(e)
    BY <1>0, <2>1, <2>3, FailsIsOver DEF InternalStep
  <2> QED BY <1>2, <2>2, <2>3 DEF DirectTimesOut
<1>3. CASE DirectFails(e)
  <2>1. Top(e).at = "direct"
    BY <1>3 DEF DirectFails, At
  <2>2. valid \/ Top(e).sent = 0
    BY <1>a, <2>1 DEF WriteInv, FrameType
  <2>3. CASE (broken \/ ~valid) /\ Fails(e)
    BY <1>0, <2>2, <2>3, FailsIsOver DEF InternalStep
  <2>4. CASE ~valid /\ Buffer(e)
    BY <1>0, <2>1, <2>2, <2>4, BufferIsStep DEF InternalStep
  <2> QED BY <1>3, <2>3, <2>4 DEF DirectFails
<1>4. CASE CompleteReturns(e)
  <2>1. Top(e).at = "complete" /\ Acknowledge(e, TRUE)
    BY <1>4 DEF CompleteReturns, At
  <2>2. Top(e).op = "send"
    BY <2>1, <1>a DEF FrameInv
  <2> QED BY <1>0, <2>1, <2>2, AcknowledgeIsOver DEF InternalStep
<1> QED BY <1>1, <1>2, <1>3, <1>4

(* With an empty buffer, all that was acknowledged is with the kernel.     *)
LEMMA EmptyIsGone ==
  ASSUME CallsInv, output = <<>>, NEW f, FrameInv(f)
  PROVE  \A m \in f.owed : Gone(m)
<1>1. Members(output) = {}
  BY DEF Members
<1>2. \A m \in acked : Gone(m)
  BY <1>1 DEF CallsInv, Kept, Gone, Carried
<1> QED BY <1>2 DEF FrameInv

(* flush_output_internal: writes.                                          *)
LEMMA FlushSendsCase ==
  ASSUME TypeOK, CallsInv, NEW e \in Executors, NEW k \in Nat \ {0}, FlushSends(e, k)
  PROVE  InternalStep(e)
<1>0. frames[e] # <<>> /\ Top(e).at = "flush" /\ Usable /\ ~broken
  BY DEF FlushSends, At
<1>a. /\ Inside(e) /\ Top(e) \in FrameType /\ FrameInv(Top(e)) /\ WriteInv(Top(e))
  BY <1>0, TopFacts
<1> DEFINE n == Top(e).sent + k
<1>1. Top(e).sent \in Nat
  BY <1>a DEF FrameType
<1>2. n \in Nat /\ n > Top(e).sent
  BY <1>1
<1>3. /\ n <= Len(output) /\ wire' = wire \o SubSeq(output, Top(e).sent + 1, n)
      /\ Within /\ UNCHANGED <<tls, state, valid>>
  BY DEF FlushSends
<1>4. CASE n = Len(output)
  <2>1. output' = Retrieved(n) /\ Move(e, [Top(e) EXCEPT !.sent = 0, !.flushed = TRUE])
    BY <1>4 DEF FlushSends
  <2>2. PICK f \in FrameType : f = [Top(e) EXCEPT !.sent = 0, !.flushed = TRUE]
    BY <1>a DEF FrameType
  <2>3. /\ f.sent = 0 /\ f.at = Top(e).at /\ f.op = Top(e).op /\ f.msg = Top(e).msg
        /\ f.of = Top(e).of /\ f.owed = Top(e).owed
    BY <1>a, <2>2 DEF FrameType
  <2>4. Move(e, f)
    BY <2>1, <2>2
  <2>5. MoveStep(e, f)
    BY <1>a, <1>3, <2>3, <2>4 DEF MoveStep
  <2> HIDE DEF n
  <2>6. FlushStep(e, f, n)
    BY <1>0, <1>2, <1>3, <1>4, <2>1, <2>3, <2>5 DEF FlushStep
  <2> QED BY <1>2, <2>6 DEF InternalStep
<1>5. CASE n # Len(output)
  <2>1. output' = output /\ Move(e, [Top(e) EXCEPT !.sent = n])
    BY <1>5 DEF FlushSends
  <2>2. PICK f \in FrameType : f = [Top(e) EXCEPT !.sent = n]
    BY <1>a, <1>2 DEF FrameType
  <2>3. /\ f.sent = n /\ f.at = Top(e).at /\ f.op = Top(e).op /\ f.msg = Top(e).msg
        /\ f.of = Top(e).of /\ f.owed = Top(e).owed
    BY <1>a, <2>2 DEF FrameType
  <2>4. Move(e, f)
    BY <2>1, <2>2
  <2>5. MoveStep(e, f)
    BY <1>a, <1>3, <2>3, <2>4 DEF MoveStep
  <2> HIDE DEF n
  <2>6. FlushStep(e, f, n)
    BY <1>0, <1>2, <1>3, <1>5, <2>1, <2>3, <2>5 DEF FlushStep
  <2> QED BY <1>2, <2>6 DEF InternalStep
<1> QED BY <1>4, <1>5

(* flush_output_internal: timeouts, resets and the end.                    *)
LEMMA FlushCases ==
  ASSUME TypeOK, CallsInv, NEW e \in Executors,
         FlushStops(e) \/ FlushEmpty(e) \/ FlushedReturns(e)
  PROVE  InternalStep(e)
<1>0. frames[e] # <<>>
  BY DEF FlushStops, FlushEmpty, FlushedReturns, At
<1>a. /\ Inside(e) /\ Top(e) \in FrameType /\ FrameInv(Top(e)) /\ WriteInv(Top(e))
  BY <1>0, TopFacts
<1>b. ASSUME NEW ok \in BOOLEAN, FlushEnds(e, ok), Top(e).at \in {"flush", "flushed"},
             Top(e).at = "flush" => Top(e).sent = 0 \/ broken \/ SplitTimeouts,
             Top(e).op = "shutdown" =>
               (Top(e).sent = 0 \/ broken) /\ (broken \/ \A m \in Top(e).owed : Gone(m))
      PROVE  InternalStep(e)
  <2>1. OverStep(e) \/ \E f \in FrameType : QuietStep(e, f)
    BY <1>0, <1>b, FlushEndsIsStep
  <2> QED BY <2>1 DEF InternalStep
<1>c. Top(e).sent \in Nat
  BY <1>a DEF FrameType
<1>1. CASE FlushStops(e)
  <2>1. Top(e).at = "flush" /\ Usable /\ output # <<>>
    BY <1>1 DEF FlushStops, At
  <2>2. CASE tls /\ (broken \/ Top(e).op # "shutdown") /\ Top(e).sent = 0 /\ FlushEnds(e, FALSE)
    BY <1>b, <2>1, <2>2
  <2>3. CASE /\ Top(e).sent # 0 /\ tls /\ output' = Retrieved(Top(e).sent)
             /\ Move(e, [Top(e) EXCEPT !.sent = 0, !.flushed = TRUE])
             /\ Within /\ UNCHANGED <<tls, state, valid, wire>>
    <3>2. PICK f \in FrameType : f = [Top(e) EXCEPT !.sent = 0, !.flushed = TRUE]
      BY <1>a DEF FrameType
    <3>3. /\ f.sent = 0 /\ f.at = Top(e).at /\ f.op = Top(e).op /\ f.msg = Top(e).msg
          /\ f.of = Top(e).of /\ f.owed = Top(e).owed
      BY <1>a, <3>2 DEF FrameType
    <3>4. Move(e, f)
      BY <2>3, <3>2
    <3>5. MoveStep(e, f)
      BY <1>a, <2>3, <3>3, <3>4 DEF MoveStep
    <3>6. RetrieveStep(e, f)
      BY <1>c, <2>1, <2>3, <3>3, <3>5 DEF RetrieveStep
    <3> QED BY <3>6 DEF InternalStep
  <2>4. ASSUME NEW ok \in BOOLEAN, MayTimeOut(Top(e).op, Top(e).sent), FlushEnds(e, ok)
        PROVE  InternalStep(e)
    BY <1>b, <2>1, <2>4 DEF MayTimeOut
  <2>5. CASE broken /\ FlushEnds(e, FALSE)
    BY <1>b, <2>1, <2>5
  <2> QED BY <1>1, <2>2, <2>3, <2>4, <2>5 DEF FlushStops
<1>2. CASE FlushEmpty(e)
  <2>1. Top(e).at = "flush"
    BY <1>2 DEF FlushEmpty, At
  <2>2. CASE ~Usable /\ FlushEnds(e, FALSE)
    <3>1. Top(e).sent = 0 /\ Top(e).op # "shutdown"
      BY <1>a, <1>c, <2>1, <2>2 DEF WriteInv
    <3> QED BY <1>b, <2>1, <2>2, <3>1
  <2>3. CASE output = <<>>
    <3>1. \A m \in Top(e).owed : Gone(m)
      BY <1>a, <2>3, EmptyIsGone
    <3>2. Top(e).sent = 0
      BY <1>a, <1>c, <2>1, <2>3 DEF WriteInv
    <3>3. CASE FlushEnds(e, TRUE)
      BY <1>b, <2>1, <3>1, <3>2, <3>3
    <3>4. CASE To(e, "flushed") /\ Within /\ UNCHANGED svars
      <4>1. \E f \in FrameType : QuietStep(e, f)
        BY <1>0, <2>1, <3>1, <3>2, <3>4, QuietTo DEF Places
      <4> QED BY <4>1 DEF InternalStep
    <3> QED BY <1>2, <2>2, <3>3, <3>4 DEF FlushEmpty
  <2> QED BY <1>2, <2>2, <2>3 DEF FlushEmpty
<1>3. CASE FlushedReturns(e)
  <2>1. Top(e).at = "flushed" /\ FlushEnds(e, TRUE)
    BY <1>3 DEF FlushedReturns, At
  <2>2. /\ Top(e).sent = 0
        /\ Top(e).op = "shutdown" => \A m \in Top(e).owed : Gone(m)
    BY <2>1, <1>a DEF FrameInv
  <2> QED BY <1>b, <2>1, <2>2
<1> QED BY <1>1, <1>2, <1>3

(* shutdown_internal and close_internal.                                   *)
LEMMA CloseCases ==
  ASSUME TypeOK, CallsInv, NEW e \in Executors, Shutdown(e) \/ ShutdownCloses(e)
  PROVE  InternalStep(e)
<1>0. frames[e] # <<>>
  BY DEF Shutdown, ShutdownCloses, Is, At
<1>a. /\ Inside(e) /\ Top(e) \in FrameType /\ FrameInv(Top(e)) /\ WriteInv(Top(e))
  BY <1>0, TopFacts
<1>1. CASE Shutdown(e)
  <2>1. Top(e).at = "start" /\ Top(e).op = "shutdown"
    BY <1>1 DEF Shutdown, Is, At
  <2>2. Top(e).sent = 0
    BY <2>1, <1>a DEF FrameInv
  <2>3. CASE Fails(e)
    BY <1>0, <2>1, <2>3, FailsIsOver DEF InternalStep
  <2>4. CASE ~Fails(e)
    <3>1. /\ state # "disconnected" /\ state' = "disconnecting" /\ To(e, "flush")
          /\ Within /\ UNCHANGED <<tls, valid, output, wire>>
      BY <1>1, <2>4 DEF Shutdown
    <3>2. PICK f \in FrameType : f = [Top(e) EXCEPT !.at = "flush"]
      BY <1>a DEF FrameType, Places
    <3>3. /\ f.at = "flush" /\ f.op = Top(e).op /\ f.msg = Top(e).msg
          /\ f.of = Top(e).of /\ f.sent = Top(e).sent /\ f.owed = Top(e).owed
      BY <1>a, <3>2 DEF FrameType
    <3>4. Move(e, f)
      BY <3>1, <3>2 DEF To
    <3>5. MoveStep(e, f)
      BY <1>a, <3>1, <3>3, <3>4 DEF MoveStep
    <3>6. FrameInv(f)
      BY <1>a, <2>1, <2>2, <3>3 DEF FrameInv
    <3>7. valid' /\ Usable'
      BY <3>1 DEF CallsInv, Usable
    <3>8. WriteInv(f)'
      BY <2>2, <3>3, <3>7 DEF WriteInv
    <3>9. QuietStep(e, f)
      BY <2>1, <2>2, <3>1, <3>3, <3>5, <3>6, <3>8 DEF QuietStep, Fresh
    <3> QED BY <3>9 DEF InternalStep
  <2> QED BY <2>3, <2>4
<1>2. CASE ShutdownCloses(e)
  <2>1. Top(e).at \in {"closing", "start"} /\ Close /\ Over(e) /\ UNCHANGED <<output, wire, acked>>
    BY <1>2 DEF ShutdownCloses, Is, At
  <2>2. OverStep(e)
    BY <1>a, <2>1 DEF OverStep, Close, TypeOK
  <2> QED BY <2>2 DEF InternalStep
<1> QED BY <1>1, <1>2

(* What the actor's coroutine does is one of these.                        *)
LEMMA WorkCases ==
  ASSUME TypeOK, CallsInv, NEW e \in Executors, Work(e)
  PROVE  DrainBegins(e) \/ DrainTakes(e) \/ DrainEnds(e) \/ InternalStep(e)
<1>1. ASSUME NEW k \in 1..(MessageLength * MaxCalls), DirectSends(e, k) \/ FlushSends(e, k)
      PROVE  InternalStep(e)
  <2>0. MessageLength * MaxCalls \in Nat
    BY SizesAssumption
  <2>1. k \in Nat \ {0}
    BY <2>0
  <2> QED BY <1>1, <2>1, DirectCases, FlushSendsCase
<1>2. Sends(e) => InternalStep(e)
  BY <1>1 DEF Sends
<1> QED BY <1>2, EarlyCases, DirectCases, FlushCases, CloseCases DEF Work

-----------------------------------------------------------------------------
(* The actor                                                               *)

(* What a step does to the stack of calls.                                 *)
LEMMA MovedFrames ==
  ASSUME TypeOK, NEW e \in Executors, NEW f \in FrameType, MoveStep(e, f)
  PROVE  /\ frames' \in [Executors -> Seq(FrameType)]
         /\ frames'[e] # <<>> /\ DOMAIN frames'[e] = DOMAIN frames[e]
         /\ frames'[e][1] = f /\ 1 \in DOMAIN frames[e]
         /\ \A i \in DOMAIN frames[e] : i > 1 => frames'[e][i] = frames[e][i]
         /\ \A x \in Executors : x # e => frames'[x] = frames[x]
         /\ Last(frames'[e]).of = Last(frames[e]).of
<1>1. frames[e] \in Seq(FrameType) /\ frames[e] # <<>> /\ f.of = frames[e][1].of
  BY DEF TypeOK, MoveStep, Inside, Top
<1> DEFINE t == <<f>> \o Tail(frames[e])
<1>2. frames' = [frames EXCEPT ![e] = t]
  BY DEF MoveStep, Move
<1>3. /\ t \in Seq(FrameType) /\ t # <<>> /\ Len(t) = Len(frames[e])
      /\ DOMAIN t = DOMAIN frames[e] /\ t[1] = f
      /\ \A i \in DOMAIN frames[e] : i > 1 => t[i] = frames[e][i]
      /\ Len(frames[e]) \in DOMAIN frames[e] /\ 1 \in DOMAIN frames[e]
  BY <1>1, SeqMove
<1> HIDE DEF t
<1>4. frames' \in [Executors -> Seq(FrameType)] /\ frames'[e] = t
      /\ \A x \in Executors : x # e => frames'[x] = frames[x]
  BY <1>2, <1>3 DEF TypeOK
<1>5. t[Len(t)].of = frames[e][Len(frames[e])].of
  <2>1. CASE Len(frames[e]) = 1
    BY <1>1, <1>3, <2>1
  <2>2. CASE Len(frames[e]) > 1
    BY <1>3, <2>2
  <2>0. Len(frames[e]) \in Nat /\ Len(frames[e]) # 0
    BY <1>1
  <2>3. Len(frames[e]) = 1 \/ Len(frames[e]) > 1
    BY <2>0, OneOrMore
  <2> QED BY <2>1, <2>2, <2>3
<1> QED BY <1>3, <1>4, <1>5 DEF Last

LEMMA PoppedFrames ==
  ASSUME TypeOK, NEW e \in Executors, OverStep(e)
  PROVE  /\ frames' \in [Executors -> Seq(FrameType)]
         /\ frames'[e] # <<>> <=> Len(frames[e]) > 1
         /\ \A i \in DOMAIN frames'[e] : i + 1 \in DOMAIN frames[e] /\ frames'[e][i] = frames[e][i + 1]
         /\ \A x \in Executors : x # e => frames'[x] = frames[x]
         /\ Len(frames[e]) > 1 => Last(frames'[e]) = Last(frames[e])
         /\ ~(Len(frames[e]) > 1) => Top(e) = Last(frames[e])
         /\ frames[e] # <<>>
<1>1. frames[e] \in Seq(FrameType) /\ frames[e] # <<>>
  BY DEF TypeOK, OverStep, Inside
<1> DEFINE t == Tail(frames[e])
<1>2. frames' = [frames EXCEPT ![e] = t]
  BY DEF OverStep, Over
<1>3. /\ t \in Seq(FrameType) /\ Len(t) = Len(frames[e]) - 1 /\ (t # <<>> <=> Len(frames[e]) > 1)
      /\ \A i \in DOMAIN t : i + 1 \in DOMAIN frames[e] /\ t[i] = frames[e][i + 1]
      /\ Len(frames[e]) \in Nat /\ Len(frames[e]) >= 1
  BY <1>1, SeqPop
<1> HIDE DEF t
<1>4. frames' \in [Executors -> Seq(FrameType)] /\ frames'[e] = t
      /\ \A x \in Executors : x # e => frames'[x] = frames[x]
  BY <1>2, <1>3 DEF TypeOK
<1>5. Len(frames[e]) > 1 => t[Len(t)] = frames[e][Len(frames[e])]
  <2> SUFFICES ASSUME Len(frames[e]) > 1 PROVE t[Len(t)] = frames[e][Len(frames[e])]
    OBVIOUS
  <2>1. Len(t) \in DOMAIN t /\ Len(t) + 1 = Len(frames[e])
    BY <1>3
  <2> QED BY <1>3, <2>1
<1>a. Len(frames[e]) \in Nat /\ Len(frames[e]) # 0
  BY <1>1
<1>6. ~(Len(frames[e]) > 1) => Len(frames[e]) = 1
  BY <1>a, OneOrMore
<1> QED BY <1>1, <1>3, <1>4, <1>5, <1>6 DEF Last, Top

(* The callers served depend on the outermost calls only.                  *)
LEMMA ServedSame ==
  ASSUME \A x \in Executors : pc'[x] = "busy" <=> pc[x] = "busy",
         \A x \in Executors : pc[x] = "busy" => Last(frames'[x]).of = Last(frames[x]).of
  PROVE  Served' = Served
BY DEF Served

(* The actor and its mailbox stay right while a call goes on.              *)
LEMMA ActorMove ==
  ASSUME TypeOK, ActorInv, EventInv, NEW e \in Executors, NEW f \in FrameType, MoveStep(e, f)
  PROVE  ActorInv' /\ EventInv'
<1>1. /\ pc' = pc /\ request' = request /\ completed' = completed /\ mailbox' = mailbox
      /\ actor_running' = actor_running /\ actor_coroutine' = actor_coroutine
  BY DEF MoveStep, Within, cvars, avars
<1>2. \A x \in Executors : /\ frames'[x] # <<>> <=> frames[x] # <<>>
                           /\ Last(frames'[x]).of = Last(frames[x]).of
  BY MovedFrames DEF MoveStep, Inside
<1>3. ActorInv'
  BY <1>1, <1>2 DEF ActorInv, Active
<1>4. Served' = Served
  BY <1>1, <1>2, ServedSame
<1>5. EventInv'
  BY <1>1, <1>4 DEF EventInv
<1> QED BY <1>3, <1>5

(* ... and when it is over.                                                *)
LEMMA ActorOver ==
  ASSUME TypeOK, ActorInv, EventInv, NEW e \in Executors, OverStep(e)
  PROVE  ActorInv' /\ EventInv' /\ pc' \in [Executors -> {"out", "called", "inline", "dispatch",
                  "waiting", "drain", "take", "busy"}]
         /\ request' \in [Callers -> Requests \cup {NoRequest}] /\ completed' \in SUBSET Callers
<1>1. /\ frames' \in [Executors -> Seq(FrameType)]
      /\ frames'[e] # <<>> <=> Len(frames[e]) > 1
      /\ \A x \in Executors : x # e => frames'[x] = frames[x]
      /\ Len(frames[e]) > 1 => Last(frames'[e]) = Last(frames[e])
      /\ ~(Len(frames[e]) > 1) => Top(e) = Last(frames[e])
      /\ frames[e] # <<>>
  BY PoppedFrames
<1>2. mailbox' = mailbox /\ actor_running' = actor_running /\ actor_coroutine' = actor_coroutine
  BY DEF OverStep, Over, avars
<1>3. pc[e] \in {"inline", "busy"} /\ pc \in [Executors -> {"out", "called", "inline", "dispatch",
                  "waiting", "drain", "take", "busy"}]
  BY <1>1 DEF ActorInv, TypeOK
<1>4. CASE Len(frames[e]) > 1
  <2>1. pc' = pc /\ request' = request /\ completed' = completed
    BY <1>4 DEF OverStep, Over, cvars
  <2>2. ActorInv'
    BY <1>1, <1>2, <1>4, <2>1 DEF ActorInv, Active
  <2>3. Served' = Served
    BY <1>1, <1>4, <2>1, ServedSame
  <2>4. EventInv'
    BY <1>2, <2>1, <2>3 DEF EventInv
  <2> QED BY <2>1, <2>2, <2>4 DEF TypeOK
<1>5. CASE ~(Len(frames[e]) > 1) /\ pc[e] = "inline"
  <2>1. /\ request' = [request EXCEPT ![e] = NoRequest] /\ pc' = [pc EXCEPT ![e] = "drain"]
        /\ completed' = completed
    BY <1>5 DEF OverStep, Over, Go
  <2>2. /\ pc'[e] = "drain" /\ \A x \in Executors : x # e => pc'[x] = pc[x]
        /\ pc' \in [Executors -> {"out", "called", "inline", "dispatch",
                  "waiting", "drain", "take", "busy"}]
    BY <1>3, <2>1
  <2>3. /\ request' \in [Callers -> Requests \cup {NoRequest}]
        /\ \A c \in Callers : c # e => request'[c] = request[c]
    BY <2>1 DEF TypeOK
  <2>4. ActorInv'
    <3>1. \A x \in Executors : Active(x)' => Active(x)
      BY <1>5, <2>2 DEF Active
    <3>2. \A x, y \in Executors : Active(x)' /\ Active(y)' => x = y
      BY <3>1 DEF ActorInv
    <3>3. \A x \in Executors : Active(x)' => actor_running'
      BY <3>1, <1>2 DEF ActorInv
    <3>4. \A x \in Executors : frames'[x] # <<>> <=> pc'[x] \in {"inline", "busy"}
      BY <1>1, <1>5, <2>2 DEF ActorInv
    <3>5. \A x \in Executors : pc'[x] \in {"inline", "take", "busy"} => actor_coroutine' = x
      BY <1>2, <2>2 DEF ActorInv
    <3>6. pc'[Worker] \in {"out", "drain", "take", "busy"}
      BY <2>2 DEF ActorInv, Executors
    <3> QED BY <3>2, <3>3, <3>4, <3>5, <3>6 DEF ActorInv
  <2>5. Served' = Served
    BY <1>1, <1>5, <2>2, ServedSame
  <2>6. e \notin Members(mailbox) \cup completed \cup Served
    BY <1>5 DEF EventInv
  <2>7. \A c \in Members(mailbox) : c \in Callers
    BY DEF TypeOK, Members
  <2>8. \A c \in Members(mailbox) \cup completed \cup Served :
           pc'[c] \in {"waiting", "drain", "take", "busy"} /\ request'[c] \in Requests
    <3> SUFFICES ASSUME NEW c \in Members(mailbox) \cup completed \cup Served
                 PROVE  pc'[c] \in {"waiting", "drain", "take", "busy"} /\ request'[c] \in Requests
      OBVIOUS
    <3>1. c \in Callers /\ c # e /\ c \in Executors
      BY <2>6, <2>7 DEF EventInv, TypeOK, Executors
    <3> QED BY <3>1, <2>2, <2>3 DEF EventInv
  <2>9. \A c \in Callers : pc'[c] \in {"called", "dispatch", "inline"} => request'[c] \in Requests
    BY <2>2, <2>3 DEF EventInv, Executors
  <2>10. EventInv'
    BY <1>2, <2>1, <2>5, <2>8, <2>9 DEF EventInv
  <2> QED BY <2>1, <2>2, <2>3, <2>4, <2>10 DEF TypeOK
<1>6. CASE ~(Len(frames[e]) > 1) /\ pc[e] = "busy"
  <2>1. /\ completed' = completed \cup {Top(e).of} /\ pc' = [pc EXCEPT ![e] = "take"]
        /\ request' = request
    BY <1>6 DEF OverStep, Over, Go
  <2>2. /\ pc'[e] = "take" /\ \A x \in Executors : x # e => pc'[x] = pc[x]
        /\ pc' \in [Executors -> {"out", "called", "inline", "dispatch",
                  "waiting", "drain", "take", "busy"}]
    BY <1>3, <2>1
  <2>4. ActorInv'
    <3>1. \A x \in Executors : Active(x)' => Active(x)
      BY <1>6, <2>2 DEF Active
    <3>2. \A x, y \in Executors : Active(x)' /\ Active(y)' => x = y
      BY <3>1 DEF ActorInv
    <3>3. \A x \in Executors : Active(x)' => actor_running'
      BY <3>1, <1>2 DEF ActorInv
    <3>4. \A x \in Executors : frames'[x] # <<>> <=> pc'[x] \in {"inline", "busy"}
      BY <1>1, <1>6, <2>2 DEF ActorInv
    <3>5. \A x \in Executors : pc'[x] \in {"inline", "take", "busy"} => actor_coroutine' = x
      BY <1>2, <1>6, <2>2 DEF ActorInv
    <3>6. pc'[Worker] \in {"out", "drain", "take", "busy"}
      BY <2>2 DEF ActorInv, Executors
    <3> QED BY <3>2, <3>3, <3>4, <3>5, <3>6 DEF ActorInv
  <2>5. \A x \in Executors : pc[x] = "busy" => x = e
    BY <1>6 DEF ActorInv, Active
  <2>6. Served' = {}
    BY <2>2, <2>5 DEF Served
  <2>7. Served = {Top(e).of}
    BY <1>1, <1>6, <2>5 DEF Served
  <2>8. \A c \in Members(mailbox) : c \in Callers
    BY DEF TypeOK, Members
  <2>9. completed' = completed \cup Served /\ completed' \in SUBSET Callers
    BY <2>1, <2>7 DEF EventInv, TypeOK
  <2>10. \A c \in Members(mailbox) \cup completed \cup Served :
           pc'[c] \in {"waiting", "drain", "take", "busy"} /\ request'[c] \in Requests
    <3> SUFFICES ASSUME NEW c \in Members(mailbox) \cup completed \cup Served
                 PROVE  pc'[c] \in {"waiting", "drain", "take", "busy"} /\ request'[c] \in Requests
      OBVIOUS
    <3>1. c \in Executors
      BY <2>8 DEF EventInv, TypeOK, Executors
    <3> QED BY <3>1, <2>1, <2>2 DEF EventInv
  <2>11. \A c \in Callers : pc'[c] \in {"called", "dispatch", "inline"} => request'[c] \in Requests
    BY <2>1, <2>2 DEF EventInv, Executors
  <2>12. EventInv'
    BY <1>2, <2>6, <2>9, <2>10, <2>11 DEF EventInv
  <2> QED BY <2>1, <2>2, <2>4, <2>9, <2>12 DEF TypeOK
<1> QED BY <1>3, <1>4, <1>5, <1>6

(* A call that begins.                                                     *)
LEMMA FrameFacts ==
  ASSUME TypeOK, NEW r \in Requests, NEW c \in Executors
  PROVE  LET f == Frame(r, c)
         IN  /\ f \in FrameType /\ f.op = r.op /\ f.msg = r.msg /\ f.of = c /\ f.sent = 0
             /\ f.owed = acked /\ f.at = (IF r.op = "flush" THEN "flush" ELSE "start")
             /\ r.op = "send" => r.msg \in Messages
BY DEF Frame, Requests, FrameType, Ops, Places, TypeOK

(* A user calls the connection, on any coroutine or thread.                *)
LEMMA ActorCall ==
  ASSUME TypeOK, ActorInv, EventInv, NEW c \in Callers, NEW r \in Requests, Call(c, r)
  PROVE  TypeOK' /\ ActorInv' /\ EventInv'
<1>0. c \in Executors /\ pc[c] = "out" /\ c # Worker
  BY PeopleAssumption DEF Call, Executors
<1>1. /\ UNCHANGED <<tls, state, valid, output, wire, broken, mailbox, actor_running,
                      actor_coroutine, completed, frames, acked>>
      /\ request' = [request EXCEPT ![c] = r] /\ pc' = [pc EXCEPT ![c] = "called"]
      /\ calls' = calls + 1 /\ unsent' = unsent \ {r.msg}
  BY DEF Call, svars, avars, Go, Choose
<1>2. /\ pc'[c] = "called" /\ \A x \in Executors : x # c => pc'[x] = pc[x]
      /\ request'[c] = r /\ \A d \in Callers : d # c => request'[d] = request[d]
      /\ pc' \in [Executors -> {"out", "called", "inline", "dispatch", "waiting",
                           "drain", "take", "busy"}]
      /\ request' \in [Callers -> Requests \cup {NoRequest}]
  BY <1>0, <1>1 DEF TypeOK
<1>3. TypeOK'
  <2>1. unsent' \in SUBSET Messages /\ calls' \in Nat
    BY <1>1 DEF TypeOK
  <2> QED BY <1>1, <1>2, <2>1 DEF TypeOK
<1>4. ActorInv'
  BY <1>0, <1>1, <1>2 DEF ActorInv, Active, Executors
<1>5. Served' = Served
  BY <1>0, <1>1, <1>2, ServedSame
<1>6. c \notin Members(mailbox) \cup completed \cup Served
  BY <1>0 DEF EventInv
<1>7. \A d \in Members(mailbox) \cup completed \cup Served : d \in Callers /\ d \in Executors
  BY DEF EventInv, TypeOK, Members, Executors
<1>8. \A d \in Members(mailbox) \cup completed \cup Served :
         pc'[d] \in {"waiting", "drain", "take", "busy"} /\ request'[d] \in Requests
  BY <1>2, <1>6, <1>7 DEF EventInv
<1>9. \A d \in Callers : pc'[d] \in {"called", "dispatch", "inline"} => request'[d] \in Requests
  BY <1>2 DEF EventInv, Executors
<1> QED BY <1>1, <1>3, <1>4, <1>5, <1>8, <1>9 DEF EventInv

(* A caller becomes the actor itself.                                      *)
LEMMA ActorBegins ==
  ASSUME TypeOK, ActorInv, EventInv, NEW c \in Callers, BeginInline(c)
  PROVE  TypeOK' /\ ActorInv' /\ EventInv'
<1>0. c \in Executors /\ pc[c] = "called" /\ c # Worker /\ ~actor_running
  BY PeopleAssumption DEF BeginInline, MayBegin, Executors
<1>1. /\ UNCHANGED <<tls, state, valid, output, wire, broken, mailbox, request, completed,
                      calls, unsent, acked>>
      /\ actor_running' = TRUE /\ actor_coroutine' = c
      /\ pc' = [pc EXCEPT ![c] = "inline"]
      /\ frames' = [frames EXCEPT ![c] = <<Frame(request[c], c)>>]
  BY DEF BeginInline, svars, bvars, Go
<1>2. /\ pc'[c] = "inline" /\ \A x \in Executors : x # c => pc'[x] = pc[x]
      /\ pc' \in [Executors -> {"out", "called", "inline", "dispatch", "waiting",
                           "drain", "take", "busy"}]
  BY <1>0, <1>1 DEF TypeOK
<1>3. request[c] \in Requests
  BY <1>0 DEF EventInv
<1>4. <<Frame(request[c], c)>> \in Seq(FrameType) /\ <<Frame(request[c], c)>> # <<>>
  BY <1>0, <1>3, FrameFacts
<1>5. /\ frames' \in [Executors -> Seq(FrameType)] /\ frames'[c] # <<>>
      /\ \A x \in Executors : x # c => frames'[x] = frames[x]
  BY <1>0, <1>1, <1>4 DEF TypeOK
<1>6. TypeOK'
  BY <1>0, <1>1, <1>2, <1>5 DEF TypeOK
<1>7. \A x \in Executors : ~Active(x)
  BY <1>0 DEF ActorInv
<1>8. ActorInv'
  <2>1. \A x \in Executors : Active(x)' => x = c
    BY <1>2, <1>7 DEF Active
  <2>2. \A x \in Executors : frames'[x] # <<>> <=> pc'[x] \in {"inline", "busy"}
    BY <1>2, <1>5 DEF ActorInv
  <2>3. \A x \in Executors : pc'[x] \in {"inline", "take", "busy"} => actor_coroutine' = x
    BY <1>1, <2>1 DEF Active
  <2>4. pc'[Worker] \in {"out", "drain", "take", "busy"}
    BY <1>0, <1>2 DEF ActorInv, Executors
  <2> QED BY <1>1, <2>1, <2>2, <2>3, <2>4 DEF ActorInv
<1>9. Served' = Served
  BY <1>0, <1>2, <1>5, ServedSame
<1>10. c \notin Members(mailbox) \cup completed \cup Served
  BY <1>0 DEF EventInv
<1>11. \A d \in Members(mailbox) \cup completed \cup Served : d \in Callers /\ d \in Executors
  BY DEF EventInv, TypeOK, Members, Executors
<1>12. \A d \in Members(mailbox) \cup completed \cup Served :
         pc'[d] \in {"waiting", "drain", "take", "busy"} /\ request'[d] \in Requests
  BY <1>1, <1>2, <1>10, <1>11 DEF EventInv
<1>13. \A d \in Callers : pc'[d] \in {"called", "dispatch", "inline"} => request'[d] \in Requests
  BY <1>1, <1>2, <1>3 DEF EventInv, Executors
<1> QED BY <1>1, <1>6, <1>8, <1>9, <1>12, <1>13 DEF EventInv

(* A caller that may not goes to the mailbox.                              *)
LEMMA ActorNotInline ==
  ASSUME TypeOK, ActorInv, EventInv, NEW c \in Callers, NotInline(c)
  PROVE  TypeOK' /\ ActorInv' /\ EventInv'
<1>0. c \in Executors /\ pc[c] = "called" /\ c # Worker
  BY PeopleAssumption DEF NotInline, Executors
<1>1. /\ UNCHANGED <<tls, state, valid, output, wire, broken, mailbox, request, completed,
                      calls, unsent, acked, actor_running, actor_coroutine, frames>>
      /\ pc' = [pc EXCEPT ![c] = "dispatch"]
  BY DEF NotInline, svars, bvars, avars, Go
<1>2. /\ pc'[c] = "dispatch" /\ \A x \in Executors : x # c => pc'[x] = pc[x]
      /\ pc' \in [Executors -> {"out", "called", "inline", "dispatch", "waiting",
                           "drain", "take", "busy"}]
  BY <1>0, <1>1 DEF TypeOK
<1>3. TypeOK'
  BY <1>1, <1>2 DEF TypeOK
<1>4. ActorInv'
  BY <1>0, <1>1, <1>2 DEF ActorInv, Active, Executors
<1>5. Served' = Served
  BY <1>0, <1>1, <1>2, ServedSame
<1>6. c \notin Members(mailbox) \cup completed \cup Served
  BY <1>0 DEF EventInv
<1>7. \A d \in Members(mailbox) \cup completed \cup Served : d \in Callers /\ d \in Executors
  BY DEF EventInv, TypeOK, Members, Executors
<1>8. \A d \in Members(mailbox) \cup completed \cup Served :
         pc'[d] \in {"waiting", "drain", "take", "busy"} /\ request'[d] \in Requests
  BY <1>1, <1>2, <1>6, <1>7 DEF EventInv
<1>9. \A d \in Callers : pc'[d] \in {"called", "dispatch", "inline"} => request'[d] \in Requests
  BY <1>0, <1>1, <1>2 DEF EventInv, Executors
<1> QED BY <1>1, <1>3, <1>4, <1>5, <1>8, <1>9 DEF EventInv

(* The event goes into the mailbox; somebody becomes the actor if nobody   *)
(* is.                                                                     *)
LEMMA ActorDispatch ==
  ASSUME TypeOK, ActorInv, EventInv, NEW c \in Callers, Dispatch(c)
  PROVE  TypeOK' /\ ActorInv' /\ EventInv'
<1>0. c \in Executors /\ pc[c] = "dispatch" /\ c # Worker /\ Worker \in Executors
  BY PeopleAssumption DEF Dispatch, Executors
<1>1. /\ UNCHANGED <<tls, state, valid, output, wire, broken, request, completed,
                      calls, unsent, acked, actor_coroutine, frames>>
      /\ actor_running' = TRUE /\ mailbox' = Append(mailbox, c)
      /\ pc' = IF actor_running THEN [pc EXCEPT ![c] = "waiting"]
               ELSE IF c \in Locals THEN [pc EXCEPT ![c] = "drain"]
               ELSE [pc EXCEPT ![c] = "waiting", ![Worker] = "drain"]
  BY DEF Dispatch, svars, bvars
<1>2. /\ pc'[c] \in {"waiting", "drain"}
      /\ \A x \in Executors : x # c => \/ pc'[x] = pc[x]
                                       \/ x = Worker /\ pc'[x] = "drain" /\ ~actor_running
      /\ actor_running => pc'[c] = "waiting"
      /\ pc'[c] = "drain" => pc'[Worker] = pc[Worker]
      /\ pc' \in [Executors -> {"out", "called", "inline", "dispatch", "waiting",
                           "drain", "take", "busy"}]
  <2>1. CASE pc' = [pc EXCEPT ![c] = "waiting"]
    BY <1>0, <2>1 DEF TypeOK
  <2>2. CASE pc' = [pc EXCEPT ![c] = "drain"] /\ ~actor_running
    BY <1>0, <2>2 DEF TypeOK
  <2>3. CASE pc' = [pc EXCEPT ![c] = "waiting", ![Worker] = "drain"] /\ ~actor_running
    BY <1>0, <2>3 DEF TypeOK
  <2> QED BY <1>1, <2>1, <2>2, <2>3
<1>3. mailbox' \in Seq(Callers) /\ Members(mailbox') = Members(mailbox) \cup {c}
  BY <1>1, AppendType, MembersAppend DEF TypeOK
<1>4. TypeOK'
  BY <1>1, <1>2, <1>3 DEF TypeOK
<1>5. ~actor_running => \A x \in Executors : ~Active(x)
  BY DEF ActorInv
<1>6. ActorInv'
  <2>1. \A x, y \in Executors : Active(x)' /\ Active(y)' => x = y
    <3>1. CASE actor_running
      <4>1. \A x \in Executors : Active(x)' => Active(x)
        BY <1>2, <3>1 DEF Active
      <4> QED BY <4>1 DEF ActorInv
    <3>2. CASE ~actor_running
      <4>1. \A x \in Executors : Active(x)' => (x = c /\ pc'[c] = "drain") \/ (x = Worker /\ pc'[c] # "drain")
        BY <1>2, <1>5, <3>2 DEF Active
      <4> QED BY <4>1
    <3> QED BY <3>1, <3>2
  <2>2. \A x \in Executors : frames'[x] # <<>> <=> pc'[x] \in {"inline", "busy"}
    <3> SUFFICES ASSUME NEW x \in Executors
                 PROVE  frames'[x] # <<>> <=> pc'[x] \in {"inline", "busy"}
      OBVIOUS
    <3>1. CASE pc'[x] = pc[x]
      BY <1>1, <3>1 DEF ActorInv
    <3>2. CASE x = c
      BY <1>0, <1>1, <1>2, <3>2 DEF ActorInv
    <3>3. CASE pc'[x] = "drain" /\ ~actor_running
      BY <1>1, <1>5, <3>3 DEF ActorInv, Active
    <3> QED BY <1>2, <3>1, <3>2, <3>3
  <2>3. \A x \in Executors : pc'[x] \in {"inline", "take", "busy"} => actor_coroutine' = x
    BY <1>1, <1>2 DEF ActorInv
  <2>4. pc'[Worker] \in {"out", "drain", "take", "busy"}
    BY <1>0, <1>2 DEF ActorInv
  <2> QED BY <1>1, <2>1, <2>2, <2>3, <2>4 DEF ActorInv
<1>7. Served' = Served
  <2>1. \A x \in Executors : pc'[x] = "busy" <=> pc[x] = "busy"
    BY <1>0, <1>2, <1>5 DEF Active
  <2> QED BY <1>1, <2>1, ServedSame
<1>8. c \notin Members(mailbox) \cup completed \cup Served
  BY <1>0 DEF EventInv
<1>9. \A d \in Members(mailbox) \cup completed \cup Served : d \in Callers /\ d \in Executors /\ d # Worker
  BY PeopleAssumption DEF EventInv, TypeOK, Members, Executors
<1>10. request[c] \in Requests
  BY <1>0 DEF EventInv
<1>11. \A d \in Members(mailbox') \cup completed \cup Served :
         pc'[d] \in {"waiting", "drain", "take", "busy"} /\ request'[d] \in Requests
  BY <1>1, <1>2, <1>3, <1>8, <1>9, <1>10 DEF EventInv
<1>12. \A d \in Callers : pc'[d] \in {"called", "dispatch", "inline"} => request'[d] \in Requests
  BY <1>0, <1>1, <1>2 DEF EventInv, Executors
<1>13. Distinct(mailbox')
  BY <1>1, <1>8, DistinctAppend DEF EventInv, TypeOK
<1> QED BY <1>1, <1>3, <1>4, <1>6, <1>7, <1>8, <1>11, <1>12, <1>13 DEF EventInv

(* A completion is waited for and the call returns.                        *)
LEMMA ActorReturns ==
  ASSUME TypeOK, ActorInv, EventInv, NEW c \in Callers, Returns(c)
  PROVE  TypeOK' /\ ActorInv' /\ EventInv'
<1>0. c \in Executors /\ pc[c] = "waiting" /\ c # Worker /\ c \in completed
  BY PeopleAssumption DEF Returns, Executors
<1>1. /\ UNCHANGED <<tls, state, valid, output, wire, broken, mailbox, calls, unsent, acked,
                      actor_running, actor_coroutine, frames>>
      /\ request' = [request EXCEPT ![c] = NoRequest] /\ pc' = [pc EXCEPT ![c] = "out"]
      /\ completed' = completed \ {c}
  BY DEF Returns, svars, bvars, avars, Go
<1>2. /\ pc'[c] = "out" /\ \A x \in Executors : x # c => pc'[x] = pc[x]
      /\ \A d \in Callers : d # c => request'[d] = request[d]
      /\ pc' \in [Executors -> {"out", "called", "inline", "dispatch", "waiting",
                           "drain", "take", "busy"}]
      /\ request' \in [Callers -> Requests \cup {NoRequest}]
  BY <1>0, <1>1 DEF TypeOK
<1>3. TypeOK'
  BY <1>1, <1>2 DEF TypeOK
<1>4. ActorInv'
  BY <1>0, <1>1, <1>2 DEF ActorInv, Active, Executors
<1>5. Served' = Served
  BY <1>0, <1>1, <1>2, ServedSame
<1>6. c \notin Members(mailbox) \cup completed' \cup Served
  BY <1>0, <1>1 DEF EventInv
<1>7. \A d \in Members(mailbox) \cup completed \cup Served : d \in Callers /\ d \in Executors
  BY DEF EventInv, TypeOK, Members, Executors
<1>8. \A d \in Members(mailbox) \cup completed' \cup Served :
         pc'[d] \in {"waiting", "drain", "take", "busy"} /\ request'[d] \in Requests
  BY <1>1, <1>2, <1>6, <1>7 DEF EventInv
<1>9. \A d \in Callers : pc'[d] \in {"called", "dispatch", "inline"} => request'[d] \in Requests
  BY <1>2 DEF EventInv, Executors
<1> QED BY <1>1, <1>3, <1>4, <1>5, <1>8, <1>9 DEF EventInv

(* A drain names itself.                                                   *)
LEMMA ActorDrainBegins ==
  ASSUME TypeOK, ActorInv, EventInv, NEW e \in Executors, DrainBegins(e)
  PROVE  TypeOK' /\ ActorInv' /\ EventInv'
<1>1. /\ UNCHANGED <<tls, state, valid, output, wire, broken, mailbox, request, completed,
                      calls, unsent, acked, actor_running, frames>>
      /\ pc[e] = "drain" /\ actor_coroutine' = e /\ pc' = [pc EXCEPT ![e] = "take"]
  BY DEF DrainBegins, svars, bvars, Go
<1>2. /\ pc'[e] = "take" /\ \A x \in Executors : x # e => pc'[x] = pc[x]
      /\ pc' \in [Executors -> {"out", "called", "inline", "dispatch", "waiting",
                           "drain", "take", "busy"}]
  BY <1>1 DEF TypeOK
<1>3. TypeOK'
  BY <1>1, <1>2 DEF TypeOK
<1>4. ActorInv'
  <2>1. \A x \in Executors : Active(x)' => Active(x) /\ x = e
    BY <1>1, <1>2 DEF ActorInv, Active
  <2>2. \A x \in Executors : Active(x)' => actor_running'
    BY <2>1, <1>1 DEF ActorInv
  <2>3. \A x \in Executors : frames'[x] # <<>> <=> pc'[x] \in {"inline", "busy"}
    BY <1>1, <1>2 DEF ActorInv
  <2>4. \A x \in Executors : pc'[x] \in {"inline", "take", "busy"} => actor_coroutine' = x
    BY <1>1, <2>1 DEF Active
  <2>5. pc'[Worker] \in {"out", "drain", "take", "busy"}
    BY <1>2 DEF ActorInv, Executors
  <2> QED BY <2>1, <2>2, <2>3, <2>4, <2>5 DEF ActorInv
<1>5. Served' = Served
  BY <1>1, <1>2, ServedSame
<1>7. \A d \in Members(mailbox) \cup completed \cup Served : d \in Callers /\ d \in Executors
  BY DEF EventInv, TypeOK, Members, Executors
<1>8. \A d \in Members(mailbox) \cup completed \cup Served :
         pc'[d] \in {"waiting", "drain", "take", "busy"} /\ request'[d] \in Requests
  BY <1>1, <1>2, <1>7 DEF EventInv
<1>9. \A d \in Callers : pc'[d] \in {"called", "dispatch", "inline"} => request'[d] \in Requests
  BY <1>1, <1>2 DEF EventInv, Executors
<1> QED BY <1>1, <1>3, <1>4, <1>5, <1>8, <1>9 DEF EventInv

(* A drain takes the first event.                                          *)
LEMMA ActorDrainTakes ==
  ASSUME TypeOK, ActorInv, EventInv, NEW e \in Executors, DrainTakes(e)
  PROVE  TypeOK' /\ ActorInv' /\ EventInv'
<1> DEFINE c == Head(mailbox)
<1>1. /\ UNCHANGED <<tls, state, valid, output, wire, broken, request, completed,
                      calls, unsent, acked, actor_running, actor_coroutine>>
      /\ pc[e] = "take" /\ mailbox # <<>> /\ pc' = [pc EXCEPT ![e] = "busy"]
      /\ mailbox' = Tail(mailbox)
      /\ frames' = [frames EXCEPT ![e] = <<Frame(request[c], c)>>]
  BY DEF DrainTakes, svars, bvars, Go
<1>2. /\ pc'[e] = "busy" /\ \A x \in Executors : x # e => pc'[x] = pc[x]
      /\ pc' \in [Executors -> {"out", "called", "inline", "dispatch", "waiting",
                           "drain", "take", "busy"}]
  BY <1>1 DEF TypeOK
<1>3. /\ c \in Callers /\ mailbox' \in Seq(Callers)
      /\ Members(mailbox) = Members(mailbox') \cup {c}
  BY <1>1, MembersTail DEF TypeOK
<1>4. Distinct(mailbox') /\ c \notin Members(mailbox')
  BY <1>1, DistinctTail DEF TypeOK, EventInv
<1>5. c \in Executors /\ request[c] \in Requests
  BY <1>3 DEF EventInv, Executors
<1>6. <<Frame(request[c], c)>> \in Seq(FrameType) /\ <<Frame(request[c], c)>> # <<>>
      /\ Last(<<Frame(request[c], c)>>).of = c
  BY <1>5, FrameFacts DEF Last
<1>7. /\ frames' \in [Executors -> Seq(FrameType)] /\ frames'[e] # <<>>
      /\ Last(frames'[e]).of = c
      /\ \A x \in Executors : x # e => frames'[x] = frames[x]
  BY <1>1, <1>6 DEF TypeOK
<1>8. TypeOK'
  BY <1>1, <1>2, <1>3, <1>7 DEF TypeOK
<1>9. \A x \in Executors : Active(x) => x = e
  BY <1>1 DEF ActorInv, Active
<1>10. ActorInv'
  <2>1. \A x \in Executors : Active(x)' => Active(x) /\ x = e
    BY <1>1, <1>2, <1>9 DEF Active
  <2>2. \A x \in Executors : Active(x)' => actor_running'
    BY <2>1, <1>1 DEF ActorInv
  <2>3. \A x \in Executors : frames'[x] # <<>> <=> pc'[x] \in {"inline", "busy"}
    BY <1>2, <1>7 DEF ActorInv
  <2>4. \A x \in Executors : pc'[x] \in {"inline", "take", "busy"} => actor_coroutine' = x
    BY <1>1, <1>2 DEF ActorInv
  <2>5. pc'[Worker] \in {"out", "drain", "take", "busy"}
    BY <1>2 DEF ActorInv, Executors
  <2> QED BY <2>1, <2>2, <2>3, <2>4, <2>5 DEF ActorInv
<1>11. \A x \in Executors : pc'[x] = "busy" <=> x = e
  BY <1>2, <1>9 DEF Active
<1>12. Served' = {c}
  BY <1>7, <1>11 DEF Served
<1>13. Served = {}
  BY <1>1, <1>9 DEF Served, Active
<1>14. \A d \in Members(mailbox) \cup completed \cup Served : d \in Callers /\ d \in Executors
  BY DEF EventInv, TypeOK, Members, Executors
<1>15. \A d \in Members(mailbox) \cup completed :
         pc'[d] \in {"waiting", "drain", "take", "busy"} /\ request'[d] \in Requests
  BY <1>1, <1>2, <1>14 DEF EventInv
<1>16. \A d \in Callers : pc'[d] \in {"called", "dispatch", "inline"} => request'[d] \in Requests
  BY <1>1, <1>2 DEF EventInv, Executors
<1>17. completed' = completed /\ Members(mailbox) \cap completed = {}
  BY <1>1 DEF EventInv
<1> HIDE DEF c
<1>18. EventInv'
  <2>1. (Served \subseteq Callers /\ Distinct(mailbox))'
    BY <1>3, <1>4, <1>12
  <2>2. (/\ Members(mailbox) \cap completed = {}
         /\ Members(mailbox) \cap Served = {}
         /\ completed \cap Served = {})'
    BY <1>3, <1>4, <1>12, <1>17
  <2>3. (\A d \in Members(mailbox) \cup completed \cup Served :
           pc[d] \in {"waiting", "drain", "take", "busy"} /\ request[d] \in Requests)'
    BY <1>3, <1>12, <1>15, <1>17
  <2> QED BY <1>16, <2>1, <2>2, <2>3 DEF EventInv
<1> QED BY <1>8, <1>10, <1>18

(* The mailbox is empty and the actor steps down.                          *)
LEMMA ActorDrainEnds ==
  ASSUME TypeOK, ActorInv, EventInv, NEW e \in Executors, DrainEnds(e)
  PROVE  TypeOK' /\ ActorInv' /\ EventInv'
<1> DEFINE p == IF e \in Callers /\ request[e] # NoRequest THEN "waiting" ELSE "out"
<1>1. /\ UNCHANGED <<tls, state, valid, output, wire, broken, request, completed,
                      calls, unsent, acked, mailbox, frames>>
      /\ pc[e] = "take" /\ mailbox = <<>> /\ pc' = [pc EXCEPT ![e] = p]
      /\ actor_running' = FALSE /\ actor_coroutine' = Nobody
  BY DEF DrainEnds, svars, bvars, Go
<1>2. /\ pc'[e] = p /\ \A x \in Executors : x # e => pc'[x] = pc[x]
      /\ pc' \in [Executors -> {"out", "called", "inline", "dispatch", "waiting",
                           "drain", "take", "busy"}]
  BY <1>1 DEF TypeOK
<1>3. TypeOK'
  BY <1>1, <1>2 DEF TypeOK
<1>4. \A x \in Executors : Active(x) => x = e
  BY <1>1 DEF ActorInv, Active
<1>5. ActorInv'
  <2>1. \A x \in Executors : ~Active(x)'
    BY <1>2, <1>4 DEF Active
  <2>2. \A x \in Executors : frames'[x] # <<>> <=> pc'[x] \in {"inline", "busy"}
    BY <1>1, <1>2 DEF ActorInv
  <2>3. \A x \in Executors : pc'[x] \in {"inline", "take", "busy"} => actor_coroutine' = x
    BY <2>1 DEF Active
  <2>4. pc'[Worker] \in {"out", "drain", "take", "busy"}
    BY <1>2, PeopleAssumption DEF ActorInv, Executors
  <2> QED BY <2>1, <2>2, <2>3, <2>4 DEF ActorInv
<1>6. Served' = Served
  BY <1>1, <1>2, ServedSame
<1>7. \A d \in Members(mailbox) \cup completed \cup Served :
        d \in Callers /\ d \in Executors /\ request[d] # NoRequest
  <2>1. NoRequest \notin Requests
    BY DEF Requests, NoRequest, Request
  <2> QED BY <2>1 DEF EventInv, TypeOK, Members, Executors
<1>8. \A d \in Members(mailbox) \cup completed \cup Served :
         pc'[d] \in {"waiting", "drain", "take", "busy"} /\ request'[d] \in Requests
  BY <1>1, <1>2, <1>7 DEF EventInv
<1>9. \A d \in Callers : pc'[d] \in {"called", "dispatch", "inline"} => request'[d] \in Requests
  BY <1>1, <1>2 DEF EventInv, Executors
<1> QED BY <1>1, <1>3, <1>5, <1>6, <1>8, <1>9 DEF EventInv

(* A callback calls the connection: the actor is its own coroutine, and    *)
(* the call is made at once.                                               *)
LEMMA PushedFrames ==
  ASSUME TypeOK, ActorInv, NEW e \in Executors, NEW r \in Requests, Reenter(e, r)
  PROVE  /\ frames[e] # <<>>
         /\ Top(e).at \in {"high_water", "complete", "flushed"}
         /\ frames' \in [Executors -> Seq(FrameType)]
         /\ frames'[e] # <<>> /\ frames'[e][1] = Frame(r, e)
         /\ \A i \in DOMAIN frames'[e] : i > 1 => i - 1 \in DOMAIN frames[e]
                                                  /\ frames'[e][i] = frames[e][i - 1]
         /\ \A x \in Executors : x # e => frames'[x] = frames[x]
         /\ Last(frames'[e]) = Last(frames[e])
         /\ 1 \in DOMAIN frames'[e]
<1>1. frames[e] # <<>> /\ Top(e).at \in {"high_water", "complete", "flushed"}
  BY DEF Reenter, At
<1>2. actor_coroutine = e
  BY <1>1 DEF ActorInv
<1> DEFINE s == frames[e]
           t == <<Frame(r, e)>> \o s
<1>3. frames' = [frames EXCEPT ![e] = t]
  BY <1>2 DEF Reenter
<1>4. Frame(r, e) \in FrameType /\ s \in Seq(FrameType)
  BY FrameFacts DEF TypeOK
<1>5. /\ t \in Seq(FrameType) /\ Len(t) = Len(s) + 1 /\ t # <<>> /\ t[1] = Frame(r, e)
      /\ \A i \in DOMAIN t : i > 1 => i - 1 \in DOMAIN s /\ t[i] = s[i - 1]
  BY <1>4, SeqPush
<1>6. Len(s) \in Nat \ {0}
  BY <1>1, <1>4
<1> HIDE DEF t, s
<1>7. t[Len(t)] = s[Len(s)] /\ 1 \in DOMAIN t
  <2>1. Len(t) \in DOMAIN t /\ Len(t) > 1 /\ Len(t) - 1 = Len(s) /\ 1 \in DOMAIN t
    BY <1>5, <1>6
  <2> QED BY <1>5, <2>1
<1>8. frames' \in [Executors -> Seq(FrameType)] /\ frames'[e] = t
      /\ \A x \in Executors : x # e => frames'[x] = frames[x]
  BY <1>3, <1>5 DEF TypeOK
<1> QED BY <1>1, <1>5, <1>7, <1>8 DEF Last, s

LEMMA ActorReenter ==
  ASSUME TypeOK, ActorInv, EventInv, NEW e \in Executors, NEW r \in Requests, Reenter(e, r)
  PROVE  TypeOK' /\ ActorInv' /\ EventInv'
<1>1. /\ UNCHANGED <<tls, state, valid, output, wire, broken, mailbox, request, completed, pc,
                      acked, actor_running, actor_coroutine>>
      /\ calls' = calls + 1 /\ unsent' = unsent \ {r.msg}
  BY DEF Reenter, svars, avars, cvars, Choose
<1>2. /\ frames[e] # <<>> /\ frames' \in [Executors -> Seq(FrameType)]
      /\ frames'[e] # <<>>
      /\ \A x \in Executors : x # e => frames'[x] = frames[x]
      /\ Last(frames'[e]) = Last(frames[e])
  BY PushedFrames
<1>3. calls' \in Nat /\ unsent' \in SUBSET Messages
  BY <1>1 DEF TypeOK
<1>4. TypeOK'
  BY <1>1, <1>2, <1>3 DEF TypeOK
<1>5. ActorInv'
  BY <1>1, <1>2 DEF ActorInv, Active
<1>6. Served' = Served
  BY <1>1, <1>2, ServedSame
<1> QED BY <1>1, <1>4, <1>5, <1>6 DEF EventInv

-----------------------------------------------------------------------------
(* Bytes and types of the internal steps                                   *)

(* The bytes of a message.                                                 *)
LEMMA BytesFacts ==
  ASSUME NEW m \in Messages
  PROVE  /\ Bytes(m) \in Seq(Byte) /\ Len(Bytes(m)) = MessageLength
         /\ \A i \in 1..MessageLength : Bytes(m)[i] = <<m, i>>
         /\ Members(Bytes(m)) = {<<m, i>> : i \in 1..MessageLength}
<1>1. MessageLength \in Nat
  BY SizesAssumption
<1>2. Bytes(m) \in [1..MessageLength -> Byte]
  BY DEF Bytes, Byte
<1>3. Bytes(m) \in Seq(Byte)
  BY <1>1, <1>2
<1>4. Len(Bytes(m)) = MessageLength
  BY <1>1, <1>2, <1>3
<1>5. DOMAIN Bytes(m) = 1..MessageLength /\ \A i \in 1..MessageLength : Bytes(m)[i] = <<m, i>>
  BY DEF Bytes
<1> QED BY <1>3, <1>4, <1>5 DEF Members

(* A part of a sequence.                                                   *)
LEMMA SubFacts ==
  ASSUME NEW S, NEW s \in Seq(S), NEW a \in Nat, NEW b \in Nat, a <= b, b <= Len(s)
  PROVE  /\ SubSeq(s, a + 1, b) \in Seq(S) /\ Len(SubSeq(s, a + 1, b)) = b - a
         /\ \A i \in DOMAIN SubSeq(s, a + 1, b) : SubSeq(s, a + 1, b)[i] = s[a + i]
<1> DEFINE t == SubSeq(s, a + 1, b)
<1>0. Len(s) \in Nat
  OBVIOUS
<1>2. t \in Seq(S)
  BY <1>0
<1>3. Len(t) = b - a /\ DOMAIN t = 1..(b - a)
  BY <1>0, <1>2
<1>4. \A i \in DOMAIN t : t[i] = s[a + i]
  BY <1>0, <1>3
<1> QED BY <1>2, <1>3, <1>4

LEMMA SubMembers ==
  ASSUME NEW S, NEW s \in Seq(S), NEW a \in Nat, NEW b \in Nat, a <= b, b <= Len(s)
  PROVE  Members(SubSeq(s, a + 1, b)) = {s[i] : i \in (a + 1)..b}
<1> DEFINE t == SubSeq(s, a + 1, b)
<1>1. t \in Seq(S) /\ Len(t) = b - a /\ \A i \in DOMAIN t : t[i] = s[a + i]
  BY SubFacts
<1> HIDE DEF t
<1>2. DOMAIN t = 1..(b - a)
  BY <1>1
<1>3. ASSUME NEW i \in DOMAIN t PROVE a + i \in (a + 1)..b /\ t[i] = s[a + i]
  BY <1>1, <1>2
<1>4. ASSUME NEW i \in (a + 1)..b PROVE i - a \in DOMAIN t /\ t[i - a] = s[i]
  BY <1>1, <1>2
<1>5. Members(t) \subseteq {s[i] : i \in (a + 1)..b}
  <2> SUFFICES ASSUME NEW x \in Members(t) PROVE x \in {s[i] : i \in (a + 1)..b}
    OBVIOUS
  <2>1. PICK i \in DOMAIN t : x = t[i]
    BY DEF Members
  <2> QED BY <1>3, <2>1
<1>6. {s[i] : i \in (a + 1)..b} \subseteq Members(t)
  <2> SUFFICES ASSUME NEW i \in (a + 1)..b PROVE s[i] \in Members(t)
    OBVIOUS
  <2> QED BY <1>4 DEF Members
<1> QED BY <1>5, <1>6 DEF t

(* What a message is buffered into, and what the kernel takes.             *)
LEMMA BufferBytes ==
  ASSUME TypeOK, CallsInv, NEW e \in Executors, NEW f \in FrameType, BufferStep(e, f)
  PROVE  /\ Top(e).op = "send" /\ Top(e).msg \in Messages
         /\ output' \in Seq(Byte)
         /\ Members(output') = Members(output) \cup {<<Top(e).msg, i>> : i \in 1..MessageLength}
<1>1. Inside(e) /\ frames[e] # <<>> /\ Top(e).at \in {"choose", "direct"}
  BY DEF BufferStep, MoveStep, Inside
<1>2. Top(e).op = "send" /\ Top(e).msg \in Messages
  BY <1>1, TopFacts DEF FrameInv
<1>3. Bytes(Top(e).msg) \in Seq(Byte) /\ output \in Seq(Byte)
      /\ output' = output \o Bytes(Top(e).msg)
  BY <1>2, BytesFacts DEF TypeOK, BufferStep
<1>4. output' \in Seq(Byte)
  BY <1>3
<1>5. Members(output') = Members(output) \cup Members(Bytes(Top(e).msg))
  BY <1>3, MembersConcat
<1> QED BY <1>2, <1>4, <1>5, BytesFacts

LEMMA DirectBytes ==
  ASSUME TypeOK, CallsInv, NEW e \in Executors, NEW f \in FrameType, DirectStep(e, f)
  PROVE  /\ Top(e).op = "send" /\ Top(e).msg \in Messages /\ Top(e).sent \in Nat /\ f.sent \in Nat
         /\ wire' \in Seq(Byte)
         /\ LET t == SubSeq(Bytes(Top(e).msg), Top(e).sent + 1, f.sent)
            IN  /\ t \in Seq(Byte) /\ Len(t) = f.sent - Top(e).sent
                /\ \A i \in DOMAIN t : t[i] = <<Top(e).msg, Top(e).sent + i>>
                /\ Members(t) = {<<Top(e).msg, i>> : i \in (Top(e).sent + 1)..f.sent}
                /\ Members(wire') = Members(wire) \cup Members(t)
<1>1. Inside(e) /\ frames[e] # <<>> /\ Top(e).at = "direct"
  BY DEF DirectStep, MoveStep, Inside
<1>2. Top(e).op = "send" /\ Top(e).msg \in Messages /\ Top(e).sent \in Nat /\ f.sent \in Nat
  BY <1>1, TopFacts DEF FrameInv, FrameType
<1> DEFINE m == Top(e).msg
           a == Top(e).sent
           b == f.sent
           t == SubSeq(Bytes(m), a + 1, b)
<1>3. /\ Bytes(m) \in Seq(Byte) /\ Len(Bytes(m)) = MessageLength
      /\ \A i \in 1..MessageLength : Bytes(m)[i] = <<m, i>>
  BY <1>2, BytesFacts
<1>4. a <= b /\ b <= MessageLength
  BY <1>2 DEF DirectStep
<1>5. /\ t \in Seq(Byte) /\ Len(t) = b - a /\ \A i \in DOMAIN t : t[i] = Bytes(m)[a + i]
      /\ Members(t) = {Bytes(m)[i] : i \in (a + 1)..b}
  <2>1. Bytes(m) \in Seq(Byte) /\ a \in Nat /\ b \in Nat /\ a <= b /\ b <= Len(Bytes(m))
    BY <1>2, <1>3, <1>4
  <2> HIDE DEF a, b, m
  <2>2. t \in Seq(Byte) /\ Len(t) = b - a /\ \A i \in DOMAIN t : t[i] = Bytes(m)[a + i]
    BY <2>1, SubFacts
  <2>3. Members(t) = {Bytes(m)[i] : i \in (a + 1)..b}
    BY <2>1, SubMembers
  <2> QED BY <2>2, <2>3
<1>6. \A i \in (a + 1)..b : Bytes(m)[i] = <<m, i>>
  BY <1>2, <1>3, <1>4, SizesAssumption
<1>7. Members(t) = {<<m, i>> : i \in (a + 1)..b}
  BY <1>5, <1>6
<1>8. \A i \in DOMAIN t : a + i \in (a + 1)..b
  BY <1>2, <1>4, <1>5
<1>9. \A i \in DOMAIN t : t[i] = <<m, a + i>>
  BY <1>5, <1>6, <1>8
<1>10. wire' = wire \o t /\ wire \in Seq(Byte)
  BY DEF DirectStep, TypeOK
<1> HIDE DEF t
<1>11. wire' \in Seq(Byte)
  BY <1>5, <1>10
<1>12. Members(wire') = Members(wire) \cup Members(t)
  BY <1>5, <1>10, MembersConcat
<1> QED BY <1>2, <1>5, <1>7, <1>9, <1>11, <1>12 DEF t

LEMMA FlushBytes ==
  ASSUME TypeOK, CallsInv, NEW e \in Executors, NEW f \in FrameType, NEW n \in Nat, FlushStep(e, f, n)
  PROVE  /\ Top(e).sent \in Nat /\ output' \in Seq(Byte) /\ wire' \in Seq(Byte)
         /\ n = Len(output) => output' = <<>>
         /\ LET t == SubSeq(output, Top(e).sent + 1, n)
            IN  /\ t \in Seq(Byte) /\ Len(t) = n - Top(e).sent
                /\ \A i \in DOMAIN t : t[i] = output[Top(e).sent + i]
                /\ Members(t) = {output[i] : i \in (Top(e).sent + 1)..n}
                /\ Members(wire') = Members(wire) \cup Members(t)
<1>1. Inside(e) /\ frames[e] # <<>> /\ Top(e).at = "flush"
  BY DEF FlushStep, MoveStep, Inside
<1>2. Top(e).sent \in Nat /\ output \in Seq(Byte) /\ wire \in Seq(Byte)
  BY <1>1, TopFacts DEF FrameType, TypeOK
<1> DEFINE a == Top(e).sent
           t == SubSeq(output, a + 1, n)
<1>3. a <= n /\ n <= Len(output) /\ Len(output) \in Nat
  BY <1>2 DEF FlushStep
<1>4. /\ t \in Seq(Byte) /\ Len(t) = n - a /\ \A i \in DOMAIN t : t[i] = output[a + i]
      /\ Members(t) = {output[i] : i \in (a + 1)..n}
  <2>1. output \in Seq(Byte) /\ a \in Nat /\ a <= n /\ n <= Len(output)
    BY <1>2, <1>3
  <2> HIDE DEF a
  <2>2. t \in Seq(Byte) /\ Len(t) = n - a /\ \A i \in DOMAIN t : t[i] = output[a + i]
    BY <2>1, SubFacts
  <2>3. Members(t) = {output[i] : i \in (a + 1)..n}
    BY <2>1, SubMembers
  <2> QED BY <2>2, <2>3
<1>5. wire' = wire \o t
  BY DEF FlushStep
<1> HIDE DEF t
<1>6. wire' \in Seq(Byte) /\ Members(wire') = Members(wire) \cup Members(t)
  BY <1>2, <1>4, <1>5, MembersConcat
<1>7. CASE n = Len(output)
  <2>1. output' = SubSeq(output, n + 1, n)
    BY <1>7 DEF FlushStep, Retrieved
  <2>2. output' = <<>>
    BY <1>2, <1>7, <2>1
  <2>3. output' \in Seq(Byte)
    BY <2>2
  <2> QED BY <1>2, <1>4, <1>6, <2>2, <2>3 DEF t
<1>8. CASE n # Len(output)
  <2>1. output' = output
    BY <1>8 DEF FlushStep
  <2> QED BY <1>2, <1>4, <1>6, <1>8, <2>1 DEF t
<1> QED BY <1>7, <1>8

LEMMA RetrieveBytes ==
  ASSUME TypeOK, CallsInv, NEW e \in Executors, NEW f \in FrameType, RetrieveStep(e, f)
  PROVE  /\ Top(e).sent \in Nat /\ Top(e).sent < Len(output)
         /\ output' \in Seq(Byte) /\ Len(output') = Len(output) - Top(e).sent
         /\ \A i \in DOMAIN output' : output'[i] = output[Top(e).sent + i]
         /\ Members(output') = {output[i] : i \in (Top(e).sent + 1)..Len(output)}
<1>1. Inside(e) /\ frames[e] # <<>> /\ Top(e).at = "flush" /\ Top(e).sent > 0
  BY DEF RetrieveStep, MoveStep, Inside
<1>2. Top(e).sent \in Nat /\ output \in Seq(Byte) /\ Top(e).sent < Len(output)
  BY <1>1, TopFacts DEF FrameType, TypeOK, WriteInv
<1>3. output' = SubSeq(output, Top(e).sent + 1, Len(output)) /\ Len(output) \in Nat
  BY <1>2 DEF RetrieveStep, Retrieved
<1> DEFINE a == Top(e).sent
           b == Len(output)
<1>4. a \in Nat /\ b \in Nat /\ a <= b /\ b <= Len(output)
  BY <1>2, <1>3
<1>5. /\ SubSeq(output, a + 1, b) \in Seq(Byte) /\ Len(SubSeq(output, a + 1, b)) = b - a
      /\ \A i \in DOMAIN SubSeq(output, a + 1, b) : SubSeq(output, a + 1, b)[i] = output[a + i]
      /\ Members(SubSeq(output, a + 1, b)) = {output[i] : i \in (a + 1)..b}
  <2> HIDE DEF a, b
  <2>1. /\ SubSeq(output, a + 1, b) \in Seq(Byte) /\ Len(SubSeq(output, a + 1, b)) = b - a
        /\ \A i \in DOMAIN SubSeq(output, a + 1, b) : SubSeq(output, a + 1, b)[i] = output[a + i]
    BY <1>2, <1>4, SubFacts
  <2>2. Members(SubSeq(output, a + 1, b)) = {output[i] : i \in (a + 1)..b}
    BY <1>2, <1>4, SubMembers
  <2> QED BY <2>1, <2>2
<1> QED BY <1>2, <1>3, <1>5

(* Nothing that was carried is lost.                                       *)
Grows ==
  /\ Members(wire) \subseteq Members(wire') /\ Carried \subseteq Carried'
  /\ acked \subseteq acked' /\ (broken => broken')

LEMMA GrowsKeeps ==
  ASSUME Grows, NEW m, Kept(m)
  PROVE  Kept(m)'
BY DEF Grows, Kept

LEMMA GrowsFrame ==
  ASSUME Grows, NEW f, FrameInv(f)
  PROVE  FrameInv(f)'
<1>1. \A m : Kept(m) => Kept(m)'
  BY GrowsKeeps
<1>2. \A m : Gone(m) => Gone(m)'
  BY DEF Grows, Gone
<1>3. f.owed \subseteq acked'
  BY DEF FrameInv, Grows
<1> QED BY <1>1, <1>2, <1>3 DEF FrameInv, Grows

LEMMA FlushGrows ==
  ASSUME TypeOK, CallsInv, NEW e \in Executors, NEW f \in FrameType, NEW n \in Nat, FlushStep(e, f, n)
  PROVE  Grows /\ \A i \in 1..n : output[i] \in Members(wire')
<1>1. frames[e] # <<>> /\ Top(e).at = "flush" /\ acked' = acked /\ broken' = broken
      /\ n <= Len(output) /\ n > Top(e).sent
  BY DEF FlushStep, MoveStep, Inside, Within
<1>2. \A i \in 1..Top(e).sent : output[i] \in Members(wire)
  BY <1>1, TopFacts DEF WriteInv
<1>3. /\ Top(e).sent \in Nat /\ (n = Len(output) => output' = <<>>)
      /\ Members(wire') = Members(wire) \cup {output[i] : i \in (Top(e).sent + 1)..n}
  BY FlushBytes
<1>4. \A i \in 1..n : i \in 1..Top(e).sent \/ i \in (Top(e).sent + 1)..n
  BY <1>3
<1>5. \A i \in 1..n : output[i] \in Members(wire')
  BY <1>2, <1>3, <1>4
<1>6. Members(output) \subseteq Members(output') \cup Members(wire')
  <2>1. CASE n = Len(output)
    <3>1. DOMAIN output = 1..n
      BY <2>1 DEF TypeOK
    <3> QED BY <1>5, <3>1 DEF Members
  <2>2. CASE n # Len(output)
    BY <2>2 DEF FlushStep
  <2> QED BY <2>1, <2>2
<1> QED BY <1>1, <1>3, <1>5, <1>6 DEF Grows, Carried

LEMMA RetrieveGrows ==
  ASSUME TypeOK, CallsInv, NEW e \in Executors, NEW f \in FrameType, RetrieveStep(e, f)
  PROVE  Grows
<1>1. frames[e] # <<>> /\ Top(e).at = "flush" /\ acked' = acked /\ broken' = broken /\ wire' = wire
  BY DEF RetrieveStep, MoveStep, Inside, Within
<1>2. \A i \in 1..Top(e).sent : output[i] \in Members(wire)
  BY <1>1, TopFacts DEF WriteInv
<1>3. /\ Top(e).sent \in Nat
      /\ Members(output') = {output[i] : i \in (Top(e).sent + 1)..Len(output)}
  BY RetrieveBytes
<1>4. \A i \in DOMAIN output : i \in 1..Top(e).sent \/ i \in (Top(e).sent + 1)..Len(output)
  BY <1>3 DEF TypeOK
<1>5. Members(output) \subseteq Members(output') \cup Members(wire)
  BY <1>2, <1>3, <1>4 DEF Members
<1> QED BY <1>1, <1>5 DEF Grows, Carried

-----------------------------------------------------------------------------
(* Calls in progress                                                       *)

(* Whoever is in a call is the only one.                                   *)
LEMMA OnlyOne ==
  ASSUME ActorInv, NEW e \in Executors, frames[e] # <<>>
  PROVE  \A x \in Executors : x # e => frames[x] = <<>>
BY DEF ActorInv, Active

(* A call goes on as f, with what f has to know.                           *)
LEMMA CallsMove ==
  ASSUME TypeOK, ActorInv, CallsInv, NEW e \in Executors, NEW f \in FrameType, MoveStep(e, f),
         Grows, FrameInv(f)', WriteInv(f)', state' # "disconnected" => valid'
  PROVE  CallsInv'
<1>1. /\ DOMAIN frames'[e] = DOMAIN frames[e] /\ frames'[e][1] = f
      /\ \A i \in DOMAIN frames[e] : i > 1 => frames'[e][i] = frames[e][i]
      /\ \A x \in Executors : x # e => frames'[x] = frames[x]
      /\ frames[e] # <<>>
  BY MovedFrames DEF MoveStep, Inside
<1>2. \A m \in acked' : Kept(m)'
  <2>1. acked' = acked
    BY DEF MoveStep, Within
  <2> QED BY <2>1, GrowsKeeps DEF CallsInv
<1>3. \A x \in Executors : x # e => frames'[x] = <<>>
  BY <1>1, OnlyOne
<1>4. ASSUME NEW x \in Executors, NEW i \in DOMAIN frames'[x]
      PROVE  /\ FrameInv(frames[x][i])'
             /\ i = 1 => WriteInv(frames[x][i])'
             /\ i > 1 => frames'[x][i].at \in {"high_water", "complete", "flushed"}
  <2>1. x = e
    BY <1>3, <1>4
  <2>2. i \in DOMAIN frames[e] /\ frames[e] \in Seq(FrameType)
    BY <1>1, <1>4, <2>1 DEF TypeOK
  <2>3. CASE i = 1
    BY <1>1, <2>1, <2>3
  <2>4. CASE i > 1
    <3>1. frames'[x][i] = frames[e][i] /\ FrameInv(frames[e][i])
          /\ frames[e][i].at \in {"high_water", "complete", "flushed"}
      BY <1>1, <2>1, <2>2, <2>4 DEF CallsInv
    <3>2. PICK g : g = frames[e][i]
      OBVIOUS
    <3>3. FrameInv(g)'
      BY <3>1, <3>2, GrowsFrame
    <3>4. frames'[x][i] = g
      BY <3>1, <3>2
    <3> QED BY <2>4, <3>1, <3>3, <3>4
  <2>5. i = 1 \/ i > 1
    BY <2>2
  <2> QED BY <2>3, <2>4, <2>5
<1> QED BY <1>2, <1>4 DEF CallsInv

(* An internal step keeps the types.                                       *)
LEMMA TypeMove ==
  ASSUME TypeOK, NEW e \in Executors, NEW f \in FrameType, MoveStep(e, f),
         output' \in Seq(Byte), wire' \in Seq(Byte),
         state' \in {"connected", "disconnecting", "disconnected"}
  PROVE  TypeOK'
<1>1. frames' \in [Executors -> Seq(FrameType)]
  BY MovedFrames
<1>2. UNCHANGED <<tls, valid, broken, mailbox, actor_running, actor_coroutine, pc, request,
                   completed, calls, unsent, acked>>
  BY DEF MoveStep, Within, avars, cvars, bvars
<1> QED BY <1>1, <1>2 DEF TypeOK

LEMMA InternalType ==
  ASSUME TypeOK, ActorInv, EventInv, CallsInv, NEW e \in Executors, InternalStep(e)
  PROVE  TypeOK'
<1>0. output \in Seq(Byte) /\ wire \in Seq(Byte)
      /\ state \in {"connected", "disconnecting", "disconnected"}
  BY DEF TypeOK
<1>1. CASE OverStep(e)
  <2>1. frames' \in [Executors -> Seq(FrameType)]
    BY <1>1, PoppedFrames
  <2>2. /\ pc' \in [Executors -> {"out", "called", "inline", "dispatch",
                  "waiting", "drain", "take", "busy"}]
        /\ request' \in [Callers -> Requests \cup {NoRequest}] /\ completed' \in SUBSET Callers
    BY <1>1, ActorOver
  <2>3. UNCHANGED <<broken, mailbox, actor_running, actor_coroutine, calls, unsent, output, wire>>
    BY <1>1 DEF OverStep, Over, avars, bvars
  <2>4. frames[e] # <<>>
    BY <1>1 DEF OverStep, Inside
  <2>5. Top(e).op = "send" => Top(e).msg \in Messages
    BY <2>4, TopFacts DEF FrameInv
  <2>6. acked' \in SUBSET Messages
    BY <1>1, <2>5 DEF OverStep, TypeOK
  <2>7. /\ tls' \in BOOLEAN /\ valid' \in BOOLEAN
        /\ state' \in {"connected", "disconnecting", "disconnected"}
    BY <1>1, <1>0 DEF OverStep, TypeOK
  <2> QED BY <2>1, <2>2, <2>3, <2>6, <2>7 DEF TypeOK
<1>2. ASSUME NEW f \in FrameType, QuietStep(e, f) PROVE TypeOK'
  BY <1>0, <1>2, TypeMove DEF QuietStep
<1>3. ASSUME NEW f \in FrameType, BufferStep(e, f) PROVE TypeOK'
  <2>1. output' \in Seq(Byte)
    BY <1>3, BufferBytes
  <2> QED BY <1>0, <1>3, <2>1, TypeMove DEF BufferStep
<1>4. ASSUME NEW f \in FrameType, DirectStep(e, f) PROVE TypeOK'
  <2>1. wire' \in Seq(Byte)
    BY <1>4, DirectBytes
  <2> QED BY <1>0, <1>4, <2>1, TypeMove DEF DirectStep
<1>5. ASSUME NEW f \in FrameType, NEW n \in Nat, FlushStep(e, f, n) PROVE TypeOK'
  <2>1. output' \in Seq(Byte) /\ wire' \in Seq(Byte)
    BY <1>5, FlushBytes
  <2> QED BY <1>0, <1>5, <2>1, TypeMove DEF FlushStep
<1>6. ASSUME NEW f \in FrameType, RetrieveStep(e, f) PROVE TypeOK'
  <2>1. output' \in Seq(Byte)
    BY <1>6, RetrieveBytes
  <2> QED BY <1>0, <1>6, <2>1, TypeMove DEF RetrieveStep
<1> QED BY <1>1, <1>2, <1>3, <1>4, <1>5, <1>6 DEF InternalStep

(* ... and what each call in progress knows.                               *)
LEMMA CallsQuiet ==
  ASSUME TypeOK, ActorInv, CallsInv, NEW e \in Executors, NEW f \in FrameType, QuietStep(e, f)
  PROVE  CallsInv'
<1>1. MoveStep(e, f) /\ output' = output /\ wire' = wire /\ acked' = acked /\ broken' = broken
      /\ valid' = valid
  BY DEF QuietStep, MoveStep, Within
<1>2. Grows
  BY <1>1 DEF Grows, Carried
<1>3. FrameInv(f)'
  BY <1>2, GrowsFrame DEF QuietStep
<1>4. state' # "disconnected" => valid'
  BY <1>1 DEF QuietStep, CallsInv
<1> QED BY <1>1, <1>2, <1>3, <1>4, CallsMove DEF QuietStep

LEMMA CallsBuffer ==
  ASSUME TypeOK, ActorInv, CallsInv, NEW e \in Executors, NEW f \in FrameType, BufferStep(e, f)
  PROVE  CallsInv'
<1>1. MoveStep(e, f) /\ wire' = wire /\ acked' = acked /\ broken' = broken
      /\ valid' = valid /\ state' = state /\ frames[e] # <<>>
      /\ f.op = Top(e).op /\ f.msg = Top(e).msg /\ f.sent = 0 /\ f.at = "flush" /\ f.owed = Top(e).owed
  BY DEF BufferStep, MoveStep, Within, Inside
<1>2. /\ Top(e).op = "send" /\ Top(e).msg \in Messages
      /\ Members(output') = Members(output) \cup {<<Top(e).msg, i>> : i \in 1..MessageLength}
  BY BufferBytes
<1>3. Grows
  BY <1>1, <1>2 DEF Grows, Carried
<1>4. Kept(f.msg)'
  BY <1>1, <1>2 DEF Kept, Carried
<1>5. f.owed \subseteq acked
  BY <1>1, TopFacts DEF FrameInv
<1>6. FrameInv(f)'
  BY <1>1, <1>2, <1>4, <1>5 DEF FrameInv
<1>7. WriteInv(f)'
  BY <1>1, <1>2 DEF WriteInv
<1>8. state' # "disconnected" => valid'
  BY <1>1 DEF CallsInv
<1> QED BY <1>1, <1>3, <1>6, <1>7, <1>8, CallsMove

LEMMA CallsDirect ==
  ASSUME TypeOK, ActorInv, CallsInv, NEW e \in Executors, NEW f \in FrameType, DirectStep(e, f)
  PROVE  CallsInv'
<1>1. MoveStep(e, f) /\ output' = output /\ acked' = acked /\ broken' = broken
      /\ valid' = valid /\ state' = state /\ frames[e] # <<>>
      /\ f.op = Top(e).op /\ f.msg = Top(e).msg /\ f.owed = Top(e).owed
      /\ Top(e).at = "direct" /\ valid /\ f.sent > Top(e).sent /\ f.sent <= MessageLength
      /\ f.at = IF f.sent = MessageLength THEN "complete" ELSE "direct"
  BY DEF DirectStep, MoveStep, Within, Inside
<1>2. /\ Top(e).op = "send" /\ Top(e).msg \in Messages /\ Top(e).sent \in Nat /\ f.sent \in Nat
      /\ Members(wire') = Members(wire) \cup {<<Top(e).msg, i>> : i \in (Top(e).sent + 1)..f.sent}
  BY DirectBytes
<1>3. Grows
  BY <1>1, <1>2 DEF Grows, Carried
<1>4. \A i \in 1..Top(e).sent : <<f.msg, i>> \in Members(wire)
  BY <1>1, TopFacts DEF WriteInv
<1>5. \A i \in 1..f.sent : <<f.msg, i>> \in Members(wire')
  <2> SUFFICES ASSUME NEW i \in 1..f.sent PROVE <<f.msg, i>> \in Members(wire')
    OBVIOUS
  <2>1. i \in 1..Top(e).sent \/ i \in (Top(e).sent + 1)..f.sent
    BY <1>2
  <2> QED BY <1>1, <1>2, <1>4, <2>1
<1>6. f.sent = MessageLength => Kept(f.msg)'
  BY <1>5 DEF Kept, Carried
<1>7. f.owed \subseteq acked
  BY <1>1, TopFacts DEF FrameInv
<1>8. f.sent # MessageLength => f.sent < MessageLength
  BY <1>1, <1>2, SizesAssumption
<1>9. FrameInv(f)'
  <2>1. CASE f.sent = MessageLength
    BY <1>1, <1>2, <1>6, <1>7, <2>1 DEF FrameInv
  <2>2. CASE f.sent # MessageLength
    BY <1>1, <1>2, <1>7, <1>8, <2>2 DEF FrameInv
  <2> QED BY <2>1, <2>2
<1>10. WriteInv(f)'
  BY <1>1, <1>5 DEF WriteInv
<1>11. state' # "disconnected" => valid'
  BY <1>1 DEF CallsInv
<1> QED BY <1>1, <1>3, <1>9, <1>10, <1>11, CallsMove

LEMMA CallsFlush ==
  ASSUME TypeOK, ActorInv, CallsInv, NEW e \in Executors, NEW f \in FrameType, NEW n \in Nat, FlushStep(e, f, n)
  PROVE  CallsInv'
<1>1. MoveStep(e, f) /\ acked' = acked /\ broken' = broken
      /\ valid' = valid /\ state' = state /\ frames[e] # <<>>
      /\ f.op = Top(e).op /\ f.msg = Top(e).msg /\ f.owed = Top(e).owed
      /\ Top(e).at = "flush" /\ f.at = "flush" /\ Usable /\ n <= Len(output)
      /\ IF n = Len(output) THEN f.sent = 0 ELSE output' = output /\ f.sent = n
  BY DEF FlushStep, MoveStep, Within, Inside
<1>2. Grows /\ \A i \in 1..n : output[i] \in Members(wire')
  BY FlushGrows
<1>3. Usable'
  BY <1>1 DEF Usable
<1>4. FrameInv(Top(e))
  BY <1>1, TopFacts
<1>5. FrameInv(f)
  BY <1>1, <1>4 DEF FrameInv
<1>6. FrameInv(f)'
  BY <1>2, <1>5, GrowsFrame
<1>7. WriteInv(f)'
  <2>1. CASE n = Len(output)
    BY <1>1, <1>3, <2>1 DEF WriteInv
  <2>2. CASE n # Len(output)
    <3>1. Len(output) \in Nat
      BY DEF TypeOK
    <3> QED BY <1>1, <1>2, <1>3, <2>2, <3>1 DEF WriteInv
  <2> QED BY <2>1, <2>2
<1>8. state' # "disconnected" => valid'
  BY <1>1 DEF CallsInv
<1> QED BY <1>1, <1>2, <1>6, <1>7, <1>8, CallsMove

LEMMA CallsRetrieve ==
  ASSUME TypeOK, ActorInv, CallsInv, NEW e \in Executors, NEW f \in FrameType, RetrieveStep(e, f)
  PROVE  CallsInv'
<1>1. MoveStep(e, f) /\ acked' = acked /\ broken' = broken
      /\ valid' = valid /\ state' = state /\ frames[e] # <<>>
      /\ f.op = Top(e).op /\ f.msg = Top(e).msg /\ f.owed = Top(e).owed
      /\ Top(e).at = "flush" /\ f.at = "flush" /\ Usable /\ f.sent = 0
  BY DEF RetrieveStep, MoveStep, Within, Inside
<1>2. Grows
  BY RetrieveGrows
<1>3. Usable'
  BY <1>1 DEF Usable
<1>4. FrameInv(Top(e))
  BY <1>1, TopFacts
<1>5. FrameInv(f)
  BY <1>1, <1>4 DEF FrameInv
<1>6. FrameInv(f)'
  BY <1>2, <1>5, GrowsFrame
<1>7. WriteInv(f)'
  BY <1>1, <1>3 DEF WriteInv
<1>8. state' # "disconnected" => valid'
  BY <1>1 DEF CallsInv
<1> QED BY <1>1, <1>2, <1>6, <1>7, <1>8, CallsMove

LEMMA CallsOver ==
  ASSUME TypeOK, ActorInv, CallsInv, NEW e \in Executors, OverStep(e)
  PROVE  CallsInv'
<1>1. /\ \A i \in DOMAIN frames'[e] : i + 1 \in DOMAIN frames[e] /\ frames'[e][i] = frames[e][i + 1]
      /\ \A x \in Executors : x # e => frames'[x] = frames[x]
      /\ frames[e] # <<>> /\ frames' \in [Executors -> Seq(FrameType)]
  BY PoppedFrames
<1>2. FrameInv(Top(e))
  BY <1>1, TopFacts
<1>3. output' = output /\ wire' = wire /\ broken' = broken /\ acked \subseteq acked'
  BY DEF OverStep, Over
<1>4. Grows
  BY <1>3 DEF Grows, Carried
<1>5. \A m \in acked' : Kept(m)'
  <2>1. \A m \in acked' : Kept(m)
    BY <1>2 DEF OverStep, CallsInv, FrameInv
  <2> QED BY <1>4, <2>1, GrowsKeeps
<1>6. state' # "disconnected" => valid'
  BY DEF OverStep, CallsInv
<1>7. ASSUME NEW x \in Executors, NEW i \in DOMAIN frames'[x]
      PROVE  /\ FrameInv(frames[x][i])'
             /\ i = 1 => WriteInv(frames[x][i])'
             /\ i > 1 => frames'[x][i].at \in {"high_water", "complete", "flushed"}
  <2>1. x = e
    <3>1. x # e => frames'[x] = <<>>
      BY <1>1, OnlyOne
    <3> QED BY <1>7, <3>1
  <2>2. i \in Nat \ {0} /\ i + 1 \in DOMAIN frames[e] /\ i + 1 > 1
    BY <1>1, <1>7, <2>1
  <2>3. frames'[x][i] = frames[e][i + 1] /\ FrameInv(frames[e][i + 1])
        /\ frames[e][i + 1].at \in {"high_water", "complete", "flushed"}
    BY <1>1, <1>7, <2>1, <2>2 DEF CallsInv
  <2>4. PICK g : g = frames[e][i + 1]
    OBVIOUS
  <2>5. FrameInv(g)' /\ frames'[x][i] = g /\ g.at \in {"high_water", "complete", "flushed"}
    BY <1>4, <2>3, <2>4, GrowsFrame
  <2>6. WriteInv(g)'
    BY <2>5 DEF WriteInv
  <2> QED BY <2>5, <2>6
<1> QED BY <1>5, <1>6, <1>7 DEF CallsInv

LEMMA InternalCalls ==
  ASSUME TypeOK, ActorInv, CallsInv, NEW e \in Executors, InternalStep(e)
  PROVE  CallsInv'
BY CallsQuiet, CallsBuffer, CallsDirect, CallsFlush, CallsRetrieve, CallsOver DEF InternalStep

(* A call that begins, as the outermost one or from a callback, knows what *)
(* was acknowledged before it.                                             *)
LEMMA BegunFrame ==
  ASSUME TypeOK, NEW r \in Requests, NEW c \in Executors,
         UNCHANGED <<output, wire, broken, acked, state, valid>>
  PROVE  LET f == Frame(r, c) IN \A g : g = f => FrameInv(g)' /\ WriteInv(g)'
<1> SUFFICES ASSUME NEW g, g = Frame(r, c) PROVE FrameInv(g)' /\ WriteInv(g)'
  OBVIOUS
<1>1. /\ g.op = r.op /\ g.msg = r.msg /\ g.sent = 0
      /\ g.owed = acked /\ g.at = (IF r.op = "flush" THEN "flush" ELSE "start")
      /\ r.op = "send" => r.msg \in Messages
  BY FrameFacts
<1>2. FrameInv(g)'
  BY <1>1 DEF FrameInv
<1>3. WriteInv(g)'
  BY <1>1 DEF WriteInv
<1> QED BY <1>2, <1>3

LEMMA CallsSet ==
  ASSUME TypeOK, CallsInv, NEW e \in Executors, NEW r \in Requests, NEW c \in Executors,
         frames' = [frames EXCEPT ![e] = <<Frame(r, c)>>],
         \A x \in Executors : x # e => frames[x] = <<>>,
         UNCHANGED <<output, wire, broken, acked, state, valid>>
  PROVE  CallsInv'
<1>1. PICK g : g = Frame(r, c)
  OBVIOUS
<1>2. FrameInv(g)' /\ WriteInv(g)'
  BY <1>1, BegunFrame
<1>3. frames'[e] = <<g>> /\ \A x \in Executors : x # e => frames'[x] = <<>>
  BY <1>1 DEF TypeOK
<1>4. ASSUME NEW x \in Executors, NEW i \in DOMAIN frames'[x]
      PROVE  x = e /\ i = 1 /\ frames'[x][i] = g
  BY <1>3, <1>4
<1>5. Grows
  BY DEF Grows, Carried
<1>6. \A m \in acked' : Kept(m)'
  BY <1>5, GrowsKeeps DEF CallsInv
<1>7. ASSUME NEW x \in Executors, NEW i \in DOMAIN frames'[x]
      PROVE  /\ FrameInv(frames[x][i])'
             /\ i = 1 => WriteInv(frames[x][i])'
             /\ i > 1 => frames'[x][i].at \in {"high_water", "complete", "flushed"}
  BY <1>2, <1>4, <1>7
<1> QED BY <1>6, <1>7 DEF CallsInv

LEMMA CallsPush ==
  ASSUME TypeOK, ActorInv, CallsInv, NEW e \in Executors, NEW r \in Requests, Reenter(e, r)
  PROVE  CallsInv'
<1>1. UNCHANGED <<output, wire, broken, acked, state, valid>>
  BY DEF Reenter, svars
<1>2. /\ frames[e] # <<>> /\ Top(e).at \in {"high_water", "complete", "flushed"}
      /\ frames'[e][1] = Frame(r, e) /\ frames' \in [Executors -> Seq(FrameType)]
      /\ \A i \in DOMAIN frames'[e] : i > 1 => i - 1 \in DOMAIN frames[e]
                                               /\ frames'[e][i] = frames[e][i - 1]
      /\ \A x \in Executors : x # e => frames'[x] = frames[x]
  BY PushedFrames
<1>3. PICK g : g = Frame(r, e)
  OBVIOUS
<1>4. FrameInv(g)' /\ WriteInv(g)'
  BY <1>1, <1>3, BegunFrame
<1>5. Grows
  BY <1>1 DEF Grows, Carried
<1>6. \A m \in acked' : Kept(m)'
  BY <1>1, <1>5, GrowsKeeps DEF CallsInv
<1>7. ASSUME NEW x \in Executors, NEW i \in DOMAIN frames'[x]
      PROVE  /\ FrameInv(frames[x][i])'
             /\ i = 1 => WriteInv(frames[x][i])'
             /\ i > 1 => frames'[x][i].at \in {"high_water", "complete", "flushed"}
  <2>1. x = e
    <3>1. x # e => frames'[x] = <<>>
      BY <1>2, OnlyOne
    <3> QED BY <1>7, <3>1
  <2>2. i \in Nat \ {0}
    BY <1>2, <1>7, <2>1
  <2>3. CASE i = 1
    BY <1>2, <1>3, <1>4, <2>1, <2>3
  <2>4. CASE i > 1
    <3>1. i - 1 \in DOMAIN frames[e] /\ frames'[x][i] = frames[e][i - 1]
      BY <1>2, <1>7, <2>1, <2>4
    <3>2. frames[e][i - 1].at \in {"high_water", "complete", "flushed"} /\ FrameInv(frames[e][i - 1])
      <4>1. i - 1 = 1 \/ i - 1 > 1
        BY <2>2, <2>4
      <4> QED BY <1>2, <3>1, <4>1 DEF CallsInv, Top
    <3>3. PICK h : h = frames[e][i - 1]
      OBVIOUS
    <3>4. FrameInv(h)' /\ frames'[x][i] = h /\ h.at \in {"high_water", "complete", "flushed"}
      BY <1>5, <3>1, <3>2, <3>3, GrowsFrame
    <3> QED BY <2>4, <3>4
  <2>5. i = 1 \/ i > 1
    BY <2>2
  <2> QED BY <2>3, <2>4, <2>5
<1> QED BY <1>1, <1>6, <1>7 DEF CallsInv

-----------------------------------------------------------------------------
(* Messages                                                                *)

(* The sends that wait are some of those that waited.                      *)
FewerWait == \A c \in Callers : Waits(c)' => Waits(c) /\ request'[c] = request[c]

LEMMA FreshSame ==
  ASSUME FreshInv, FewerWait, UNCHANGED <<output, wire, frames, unsent>>
  PROVE  FreshInv'
<1>1. \A m : Untouched(m) => Untouched(m)'
  BY DEF Untouched, Carried
<1> QED BY <1>1 DEF FreshInv, FewerWait

(* A call goes on, and the only new bytes are of its own fresh message.    *)
LEMMA FreshMove ==
  ASSUME TypeOK, ActorInv, FreshInv, NEW e \in Executors, NEW f \in FrameType, MoveStep(e, f),
         Fresh(f) => Fresh(Top(e)),
         \A b \in Carried' : b \in Carried \/ (Fresh(Top(e)) /\ b[1] = Top(e).msg),
         \A b \in Members(output') : b \in Members(output) \/ (Fresh(Top(e)) /\ b[1] = Top(e).msg),
         Fresh(f) => /\ Members(output') \subseteq Members(output)
                     /\ \A b \in Members(wire') : b[1] = f.msg => b[2] <= f.sent
  PROVE  FreshInv'
<1>1. /\ DOMAIN frames'[e] = DOMAIN frames[e] /\ frames'[e][1] = f /\ 1 \in DOMAIN frames[e]
      /\ \A i \in DOMAIN frames[e] : i > 1 => frames'[e][i] = frames[e][i]
      /\ \A x \in Executors : x # e => frames'[x] = frames[x]
      /\ frames[e] # <<>> /\ f.msg = Top(e).msg
  BY MovedFrames DEF MoveStep, Inside
<1>2. unsent' = unsent /\ request' = request /\ \A c \in Callers : Waits(c)' <=> Waits(c)
  BY DEF MoveStep, Within, cvars, avars, bvars, Waits
<1>3. \A x \in Executors : x # e => frames'[x] = <<>>
  BY <1>1, OnlyOne
<1>4. Fresh(Top(e)) =>
        /\ Top(e).msg \notin unsent
        /\ \A c \in Callers : Waits(c) => request[c].msg # Top(e).msg
        /\ \A j \in DOMAIN frames[e] : Fresh(frames[e][j]) /\ frames[e][j].msg = Top(e).msg => 1 = j
        /\ \A b \in Members(output) : b[1] # Top(e).msg
  BY <1>1 DEF FreshInv, Top
<1>5. \A m : Untouched(m) /\ (Fresh(Top(e)) => m # Top(e).msg) => Untouched(m)'
  BY DEF Untouched
<1>6. \A m \in unsent' : Untouched(m)'
  BY <1>2, <1>4, <1>5 DEF FreshInv
<1>7. \A c \in Callers : Waits(c)' => request'[c].msg \notin unsent' /\ Untouched(request[c].msg)'
  <2> SUFFICES ASSUME NEW c \in Callers, Waits(c)
               PROVE  request'[c].msg \notin unsent' /\ Untouched(request[c].msg)'
    BY <1>2
  <2>1. PICK m : m = request[c].msg
    OBVIOUS
  <2>2. Untouched(m)' /\ m \notin unsent /\ request'[c].msg = m
    BY <1>2, <1>4, <1>5, <2>1 DEF FreshInv
  <2> QED BY <1>2, <2>2
<1>8. \A c, d \in Callers : Waits(c)' /\ Waits(d)' /\ request'[c].msg = request'[d].msg => c = d
  BY <1>2 DEF FreshInv
<1>9. ASSUME NEW x \in Executors, NEW i \in DOMAIN frames'[x], Fresh(frames'[x][i])
      PROVE  LET g == frames'[x][i]
             IN  /\ g.msg \notin unsent'
                 /\ \A c \in Callers : Waits(c)' => request'[c].msg # g.msg
                 /\ \A j \in DOMAIN frames'[x] : Fresh(frames'[x][j]) /\ frames'[x][j].msg = g.msg => i = j
                 /\ \A b \in Members(output') : b[1] # g.msg
                 /\ \A b \in Members(wire') : b[1] = g.msg => b[2] <= g.sent
  <2>1. x = e
    BY <1>3, <1>9
  <2>2. i \in DOMAIN frames[e] /\ frames[e] \in Seq(FrameType)
    BY <1>1, <1>9, <2>1 DEF TypeOK
  <2>3. \A j \in DOMAIN frames[e] : j = 1 \/ j > 1
    BY <2>2
  <2>4. \A j \in DOMAIN frames[e] : /\ Fresh(frames'[e][j]) => Fresh(frames[e][j])
                                    /\ frames'[e][j].msg = frames[e][j].msg
    BY <1>1, <2>3 DEF Top
  <2>5. Fresh(frames[e][i])
    BY <1>9, <2>1, <2>2, <2>4
  <2> DEFINE h == frames[e][i]
  <2>6. /\ h.msg \notin unsent
        /\ \A c \in Callers : Waits(c) => request[c].msg # h.msg
        /\ \A j \in DOMAIN frames[e] : Fresh(frames[e][j]) /\ frames[e][j].msg = h.msg => i = j
        /\ \A b \in Members(output) : b[1] # h.msg
        /\ \A b \in Members(wire) : b[1] = h.msg => b[2] <= h.sent
    BY <2>2, <2>5 DEF FreshInv
  <2>7. frames'[x][i].msg = h.msg
    BY <2>1, <2>2, <2>4
  <2>8. CASE i = 1
    BY <1>1, <1>2, <1>9, <2>1, <2>4, <2>6, <2>7, <2>8
  <2>9. CASE i > 1
    <3>1. frames'[x][i] = h
      BY <1>1, <2>1, <2>2, <2>9
    <3>2. Fresh(Top(e)) => Top(e).msg # h.msg
      BY <1>4, <2>2, <2>5, <2>9
    <3>3. \A b \in Members(output') : b[1] # h.msg
      BY <2>6, <3>2
    <3>4. \A b \in Members(wire') : b[1] = h.msg => b[2] <= h.sent
      <4>1. \A b \in Members(wire') : b \in Members(wire) \/ b \in Members(output)
                                      \/ (Fresh(Top(e)) /\ b[1] = Top(e).msg)
        BY DEF Carried
      <4> QED BY <2>6, <3>2, <4>1
    <3> QED BY <1>1, <1>2, <2>1, <2>4, <2>6, <3>1, <3>3, <3>4
  <2> QED BY <2>2, <2>3, <2>8, <2>9
<1> QED BY <1>6, <1>7, <1>8, <1>9 DEF FreshInv

LEMMA FreshQuiet ==
  ASSUME TypeOK, ActorInv, CallsInv, FreshInv, NEW e \in Executors, NEW f \in FrameType, QuietStep(e, f)
  PROVE  FreshInv'
<1>1. MoveStep(e, f) /\ output' = output /\ wire' = wire /\ (Fresh(f) => Fresh(Top(e)))
      /\ f.sent = Top(e).sent /\ f.msg = Top(e).msg /\ frames[e] # <<>>
  BY DEF QuietStep, MoveStep, Inside
<1>2. 1 \in DOMAIN frames[e]
  BY <1>1 DEF TypeOK
<1>3. Fresh(f) => \A b \in Members(wire') : b[1] = f.msg => b[2] <= f.sent
  BY <1>1, <1>2 DEF FreshInv, Top
<1>4. Carried' = Carried
  BY <1>1 DEF Carried
<1> QED BY <1>1, <1>3, <1>4, FreshMove

LEMMA FreshBuffer ==
  ASSUME TypeOK, ActorInv, CallsInv, FreshInv, NEW e \in Executors, NEW f \in FrameType, BufferStep(e, f)
  PROVE  FreshInv'
<1>1. MoveStep(e, f) /\ wire' = wire /\ f.at = "flush" /\ Top(e).at \in {"choose", "direct"}
  BY DEF BufferStep
<1>2. /\ Top(e).op = "send"
      /\ Members(output') = Members(output) \cup {<<Top(e).msg, i>> : i \in 1..MessageLength}
  BY BufferBytes
<1>3. Fresh(Top(e)) /\ ~Fresh(f)
  BY <1>1, <1>2 DEF Fresh
<1>4. \A b \in Members(output') : b \in Members(output) \/ b[1] = Top(e).msg
  BY <1>2
<1>5. \A b \in Carried' : b \in Carried \/ b[1] = Top(e).msg
  BY <1>1, <1>4 DEF Carried
<1> QED BY <1>1, <1>3, <1>4, <1>5, FreshMove

LEMMA FreshDirect ==
  ASSUME TypeOK, ActorInv, CallsInv, FreshInv, NEW e \in Executors, NEW f \in FrameType, DirectStep(e, f)
  PROVE  FreshInv'
<1>1. MoveStep(e, f) /\ output' = output /\ Top(e).at = "direct" /\ frames[e] # <<>>
      /\ f.msg = Top(e).msg /\ f.sent > Top(e).sent
  BY DEF DirectStep, MoveStep, Inside
<1>2. /\ Top(e).op = "send" /\ Top(e).sent \in Nat /\ f.sent \in Nat
      /\ Members(wire') = Members(wire) \cup {<<Top(e).msg, i>> : i \in (Top(e).sent + 1)..f.sent}
  BY DirectBytes
<1>3. Fresh(Top(e))
  BY <1>1, <1>2 DEF Fresh
<1>4. \A b \in Members(wire') : b \in Members(wire) \/ (b[1] = Top(e).msg /\ b[2] <= f.sent)
  BY <1>2
<1>5. \A b \in Carried' : b \in Carried \/ b[1] = Top(e).msg
  BY <1>1, <1>4 DEF Carried
<1>6. 1 \in DOMAIN frames[e]
  BY <1>1 DEF TypeOK
<1>7. \A b \in Members(wire) : b[1] = f.msg => b[2] <= Top(e).sent
  BY <1>1, <1>3, <1>6 DEF FreshInv, Top
<1>8. \A b \in Members(wire) : b[2] \in Nat
  BY DEF TypeOK, Members, Byte
<1>9. \A b \in Members(wire') : b[1] = f.msg => b[2] <= f.sent
  BY <1>1, <1>2, <1>4, <1>7, <1>8
<1> QED BY <1>1, <1>3, <1>5, <1>9, FreshMove

LEMMA FreshFlush ==
  ASSUME TypeOK, ActorInv, CallsInv, FreshInv, NEW e \in Executors, NEW f \in FrameType, NEW n \in Nat, FlushStep(e, f, n)
  PROVE  FreshInv'
<1>1. MoveStep(e, f) /\ f.at = "flush" /\ n <= Len(output)
      /\ (n # Len(output) => output' = output)
  BY DEF FlushStep
<1>2. /\ Top(e).sent \in Nat /\ (n = Len(output) => output' = <<>>)
      /\ Members(wire') = Members(wire) \cup {output[i] : i \in (Top(e).sent + 1)..n}
  BY FlushBytes
<1>3. ~Fresh(f)
  BY <1>1 DEF Fresh
<1>4. \A i \in (Top(e).sent + 1)..n : output[i] \in Members(output)
  <2>1. \A i \in (Top(e).sent + 1)..n : i \in DOMAIN output
    BY <1>1, <1>2 DEF TypeOK
  <2> QED BY <2>1 DEF Members
<1>5. Members(output') \subseteq Members(output)
  <2>1. output' = <<>> => Members(output') = {}
    BY DEF Members
  <2> QED BY <1>1, <1>2, <2>1
<1>6. \A b \in Carried' : b \in Carried
  BY <1>2, <1>4, <1>5 DEF Carried
<1> QED BY <1>1, <1>3, <1>5, <1>6, FreshMove

LEMMA FreshRetrieve ==
  ASSUME TypeOK, ActorInv, CallsInv, FreshInv, NEW e \in Executors, NEW f \in FrameType, RetrieveStep(e, f)
  PROVE  FreshInv'
<1>1. MoveStep(e, f) /\ f.at = "flush" /\ wire' = wire
  BY DEF RetrieveStep
<1>2. /\ Top(e).sent \in Nat
      /\ Members(output') = {output[i] : i \in (Top(e).sent + 1)..Len(output)}
  BY RetrieveBytes
<1>3. ~Fresh(f)
  BY <1>1 DEF Fresh
<1>4. \A i \in (Top(e).sent + 1)..Len(output) : output[i] \in Members(output)
  <2>1. \A i \in (Top(e).sent + 1)..Len(output) : i \in DOMAIN output
    BY <1>2 DEF TypeOK
  <2> QED BY <2>1 DEF Members
<1>5. Members(output') \subseteq Members(output)
  BY <1>2, <1>4
<1>6. \A b \in Carried' : b \in Carried
  BY <1>1, <1>5 DEF Carried
<1> QED BY <1>1, <1>3, <1>5, <1>6, FreshMove

LEMMA FreshOver ==
  ASSUME TypeOK, ActorInv, EventInv, FreshInv, NEW e \in Executors, OverStep(e)
  PROVE  FreshInv'
<1>1. /\ \A i \in DOMAIN frames'[e] : i + 1 \in DOMAIN frames[e] /\ frames'[e][i] = frames[e][i + 1]
      /\ \A x \in Executors : x # e => frames'[x] = frames[x]
      /\ frames[e] # <<>> /\ frames' \in [Executors -> Seq(FrameType)]
  BY PoppedFrames
<1>2. output' = output /\ wire' = wire /\ unsent' = unsent /\ mailbox' = mailbox
  BY DEF OverStep, Over, bvars, avars
<1>3. FewerWait
  <2> SUFFICES ASSUME NEW c \in Callers, Waits(c)' PROVE Waits(c) /\ request'[c] = request[c]
    BY DEF FewerWait
  <2>1. pc[e] \in {"inline", "busy"} /\ c \in Executors
    BY <1>1 DEF ActorInv, Executors
  <2>2. CASE pc' = pc /\ request' = request
    BY <1>2, <2>2 DEF Waits
  <2>3. CASE pc[e] = "inline" /\ request' = [request EXCEPT ![e] = NoRequest] /\ pc' = [pc EXCEPT ![e] = "drain"]
    <3>1. c # e
      <4>1. e \notin Members(mailbox)
        BY <2>3 DEF EventInv
      <4>2. c = e => pc'[c] = "drain"
        BY <2>1, <2>3 DEF TypeOK
      <4> QED BY <1>2, <4>1, <4>2 DEF Waits
    <3>2. pc'[c] = pc[c] /\ request'[c] = request[c]
      BY <2>1, <2>3, <3>1 DEF TypeOK
    <3> QED BY <1>2, <3>2 DEF Waits
  <2>4. CASE request' = request /\ pc' = [pc EXCEPT ![e] = "take"]
    <3>1. pc'[c] = pc[c] \/ pc'[c] = "take"
      BY <2>1, <2>4 DEF TypeOK
    <3> QED BY <1>2, <2>4, <3>1 DEF Waits
  <2> QED BY <2>1, <2>2, <2>3, <2>4 DEF OverStep, Over, cvars, Go
<1>4. \A m : Untouched(m) => Untouched(m)'
  BY <1>2 DEF Untouched, Carried
<1>5. \A c \in Callers : Waits(c)' => request'[c].msg \notin unsent' /\ Untouched(request[c].msg)'
  <2> SUFFICES ASSUME NEW c \in Callers, Waits(c)'
               PROVE  request'[c].msg \notin unsent' /\ Untouched(request[c].msg)'
    OBVIOUS
  <2>1. PICK m : m = request[c].msg
    OBVIOUS
  <2>2. Untouched(m)' /\ m \notin unsent /\ request'[c].msg = m
    BY <1>3, <1>4, <2>1 DEF FreshInv, FewerWait
  <2> QED BY <1>2, <2>2
<1>6. ASSUME NEW x \in Executors, NEW i \in DOMAIN frames'[x], Fresh(frames'[x][i])
      PROVE  LET g == frames'[x][i]
             IN  /\ g.msg \notin unsent'
                 /\ \A c \in Callers : Waits(c)' => request'[c].msg # g.msg
                 /\ \A j \in DOMAIN frames'[x] : Fresh(frames'[x][j]) /\ frames'[x][j].msg = g.msg => i = j
                 /\ \A b \in Members(output') : b[1] # g.msg
                 /\ \A b \in Members(wire') : b[1] = g.msg => b[2] <= g.sent
  <2>1. x = e
    <3>1. x # e => frames'[x] = <<>>
      BY <1>1, OnlyOne
    <3> QED BY <1>6, <3>1
  <2>2. i + 1 \in DOMAIN frames[e] /\ frames'[x][i] = frames[e][i + 1]
    BY <1>1, <1>6, <2>1
  <2> DEFINE h == frames[e][i + 1]
  <2>3. /\ h.msg \notin unsent
        /\ \A c \in Callers : Waits(c) => request[c].msg # h.msg
        /\ \A j \in DOMAIN frames[e] : Fresh(frames[e][j]) /\ frames[e][j].msg = h.msg => i + 1 = j
        /\ \A b \in Members(output) : b[1] # h.msg
        /\ \A b \in Members(wire) : b[1] = h.msg => b[2] <= h.sent
    BY <1>6, <2>2 DEF FreshInv
  <2>4. \A j \in DOMAIN frames'[x] : Fresh(frames'[x][j]) /\ frames'[x][j].msg = h.msg => i = j
    <3> SUFFICES ASSUME NEW j \in DOMAIN frames'[x], Fresh(frames'[x][j]), frames'[x][j].msg = h.msg
                 PROVE  i = j
      OBVIOUS
    <3>1. j + 1 \in DOMAIN frames[e] /\ frames'[x][j] = frames[e][j + 1]
      BY <1>1, <2>1
    <3>2. i + 1 = j + 1
      BY <2>3, <3>1
    <3>3. i \in Nat /\ j \in Nat
      BY <1>1, <1>6
    <3> QED BY <3>2, <3>3
  <2>5. \A c \in Callers : Waits(c)' => request'[c].msg # h.msg
    BY <1>3, <2>3 DEF FewerWait
  <2> QED BY <1>2, <2>2, <2>3, <2>4, <2>5
<1>7. \A m \in unsent' : Untouched(m)'
  BY <1>2, <1>4 DEF FreshInv
<1>8. \A c, d \in Callers : Waits(c)' /\ Waits(d)' /\ request'[c].msg = request'[d].msg => c = d
  BY <1>3 DEF FreshInv, FewerWait
<1> QED BY <1>5, <1>6, <1>7, <1>8 DEF FreshInv

LEMMA InternalFresh ==
  ASSUME TypeOK, ActorInv, EventInv, CallsInv, FreshInv, NEW e \in Executors, InternalStep(e)
  PROVE  FreshInv'
BY FreshQuiet, FreshBuffer, FreshDirect, FreshFlush, FreshRetrieve, FreshOver DEF InternalStep

(* A send that waited is begun.                                            *)
LEMMA FreshSet ==
  ASSUME TypeOK, FreshInv, NEW e \in Executors, NEW c \in Callers, request[c] \in Requests,
         frames' = [frames EXCEPT ![e] = <<Frame(request[c], c)>>],
         \A x \in Executors : x # e => frames[x] = <<>>,
         FewerWait, ~Waits(c)', request[c].op = "send" => Waits(c),
         UNCHANGED <<output, wire, unsent>>
  PROVE  FreshInv'
<1>0. c \in Executors
  BY DEF Executors
<1>1. PICK g : g = Frame(request[c], c)
  OBVIOUS
<1>2. g.op = request[c].op /\ g.msg = request[c].msg /\ g.sent = 0
  BY <1>0, <1>1, FrameFacts
<1>3. frames'[e] = <<g>> /\ \A x \in Executors : x # e => frames'[x] = <<>>
  BY <1>1 DEF TypeOK
<1>4. \A x \in Executors : \A i \in DOMAIN frames'[x] : x = e /\ i = 1 /\ frames'[x][i] = g
  BY <1>3
<1>5. \A m : Untouched(m) => Untouched(m)'
  BY DEF Untouched, Carried
<1>6. \A m \in unsent' : Untouched(m)'
  BY <1>5 DEF FreshInv
<1>7. \A d \in Callers : Waits(d)' => request'[d].msg \notin unsent' /\ Untouched(request[d].msg)'
  <2> SUFFICES ASSUME NEW d \in Callers, Waits(d)'
               PROVE  request'[d].msg \notin unsent' /\ Untouched(request[d].msg)'
    OBVIOUS
  <2>1. PICK m : m = request[d].msg
    OBVIOUS
  <2>2. Untouched(m)' /\ m \notin unsent /\ request'[d].msg = m
    BY <1>5, <2>1 DEF FreshInv, FewerWait
  <2> QED BY <2>2
<1>8. \A d, x \in Callers : Waits(d)' /\ Waits(x)' /\ request'[d].msg = request'[x].msg => d = x
  BY DEF FreshInv, FewerWait
<1>9. Fresh(g) => /\ g.msg \notin unsent' /\ Untouched(g.msg)
                  /\ \A d \in Callers : Waits(d)' => request'[d].msg # g.msg
  <2> SUFFICES ASSUME Fresh(g)
               PROVE  /\ g.msg \notin unsent' /\ Untouched(g.msg)
                      /\ \A d \in Callers : Waits(d)' => request'[d].msg # g.msg
    OBVIOUS
  <2>1. Waits(c)
    BY <1>2 DEF Fresh
  <2> QED BY <1>2, <2>1 DEF FreshInv, FewerWait
<1>10. ASSUME NEW x \in Executors, NEW i \in DOMAIN frames'[x], Fresh(frames'[x][i])
      PROVE  LET h == frames'[x][i]
             IN  /\ h.msg \notin unsent'
                 /\ \A d \in Callers : Waits(d)' => request'[d].msg # h.msg
                 /\ \A j \in DOMAIN frames'[x] : Fresh(frames'[x][j]) /\ frames'[x][j].msg = h.msg => i = j
                 /\ \A b \in Members(output') : b[1] # h.msg
                 /\ \A b \in Members(wire') : b[1] = h.msg => b[2] <= h.sent
  <2>1. x = e /\ i = 1 /\ frames'[x][i] = g /\ Fresh(g) /\ \A j \in DOMAIN frames'[x] : j = 1
    BY <1>4, <1>10
  <2>2. \A b \in Members(output') \cup Members(wire') : b[1] # g.msg
    BY <1>9, <2>1 DEF Untouched, Carried
  <2> QED BY <1>9, <2>1, <2>2
<1> QED BY <1>6, <1>7, <1>8, <1>10 DEF FreshInv

(* A message is chosen for a new call.                                     *)
LEMMA FreshCall ==
  ASSUME TypeOK, ActorInv, EventInv, FreshInv, NEW c \in Callers, NEW r \in Requests, Call(c, r)
  PROVE  FreshInv'
<1>0. c \in Executors /\ pc[c] = "out" /\ c \notin Members(mailbox)
  BY DEF Call, Executors, EventInv
<1>1. /\ UNCHANGED <<output, wire, mailbox, frames>>
      /\ request' = [request EXCEPT ![c] = r] /\ pc' = [pc EXCEPT ![c] = "called"]
      /\ unsent' = unsent \ {r.msg} /\ (r.op = "send" => r.msg \in unsent)
  BY DEF Call, svars, avars, Go, Choose
<1>2. /\ \A x \in Executors : x # c => pc'[x] = pc[x]
      /\ request'[c] = r /\ \A d \in Callers : d # c => request'[d] = request[d]
  BY <1>0, <1>1 DEF TypeOK
<1>3. \A d \in Callers : Waits(d)' => \/ d # c /\ Waits(d) /\ request'[d] = request[d]
                                      \/ d = c /\ r.op = "send"
  BY <1>1, <1>2 DEF Waits, Executors
<1>4. \A m : Untouched(m) => Untouched(m)'
  BY <1>1 DEF Untouched, Carried
<1>5. r.op = "send" => Untouched(r.msg) /\ \A d \in Callers : Waits(d) => request[d].msg # r.msg
  BY <1>1 DEF FreshInv
<1>6. \A m \in unsent' : Untouched(m)'
  BY <1>1, <1>4 DEF FreshInv
<1>7. \A d \in Callers : Waits(d)' => request'[d].msg \notin unsent' /\ Untouched(request[d].msg)'
  <2> SUFFICES ASSUME NEW d \in Callers, Waits(d)'
               PROVE  request'[d].msg \notin unsent' /\ Untouched(request[d].msg)'
    OBVIOUS
  <2>1. PICK m : m = request'[d].msg
    OBVIOUS
  <2>2. Untouched(m)' /\ m \notin unsent'
    BY <1>1, <1>2, <1>3, <1>4, <1>5, <2>1 DEF FreshInv
  <2> QED BY <2>1, <2>2
<1>8. \A d, x \in Callers : Waits(d)' /\ Waits(x)' /\ request'[d].msg = request'[x].msg => d = x
  BY <1>2, <1>3, <1>5 DEF FreshInv
<1>9. ASSUME NEW x \in Executors, NEW i \in DOMAIN frames'[x], Fresh(frames'[x][i])
      PROVE  LET h == frames'[x][i]
             IN  /\ h.msg \notin unsent'
                 /\ \A d \in Callers : Waits(d)' => request'[d].msg # h.msg
                 /\ \A j \in DOMAIN frames'[x] : Fresh(frames'[x][j]) /\ frames'[x][j].msg = h.msg => i = j
                 /\ \A b \in Members(output') : b[1] # h.msg
                 /\ \A b \in Members(wire') : b[1] = h.msg => b[2] <= h.sent
  <2> DEFINE h == frames[x][i]
  <2>1. /\ h.msg \notin unsent
        /\ \A d \in Callers : Waits(d) => request[d].msg # h.msg
        /\ \A j \in DOMAIN frames[x] : Fresh(frames[x][j]) /\ frames[x][j].msg = h.msg => i = j
        /\ \A b \in Members(output) : b[1] # h.msg
        /\ \A b \in Members(wire) : b[1] = h.msg => b[2] <= h.sent
    BY <1>1, <1>9 DEF FreshInv
  <2>2. \A d \in Callers : Waits(d)' => request'[d].msg # h.msg
    BY <1>1, <1>2, <1>3, <2>1
  <2> QED BY <1>1, <2>1, <2>2
<1> QED BY <1>6, <1>7, <1>8, <1>9 DEF FreshInv

LEMMA FreshPush ==
  ASSUME TypeOK, ActorInv, FreshInv, NEW e \in Executors, NEW r \in Requests, Reenter(e, r)
  PROVE  FreshInv'
<1>1. /\ UNCHANGED <<output, wire, pc, request, mailbox>>
      /\ unsent' = unsent \ {r.msg} /\ (r.op = "send" => r.msg \in unsent)
  BY DEF Reenter, svars, avars, cvars, Choose
<1>2. /\ frames[e] # <<>> /\ frames' \in [Executors -> Seq(FrameType)]
      /\ frames'[e][1] = Frame(r, e)
      /\ \A i \in DOMAIN frames'[e] : i > 1 => i - 1 \in DOMAIN frames[e]
                                               /\ frames'[e][i] = frames[e][i - 1]
      /\ \A x \in Executors : x # e => frames'[x] = frames[x]
  BY PushedFrames
<1>3. \A d \in Callers : Waits(d)' <=> Waits(d)
  BY <1>1 DEF Waits
<1>4. \A m : Untouched(m) => Untouched(m)'
  BY <1>1 DEF Untouched, Carried
<1>5. PICK g : g = Frame(r, e)
  OBVIOUS
<1>6. g.op = r.op /\ g.msg = r.msg /\ g.sent = 0
  BY <1>5, FrameFacts
<1>7. Fresh(g) => /\ g.msg \notin unsent' /\ Untouched(g.msg)
                  /\ \A d \in Callers : Waits(d) => request[d].msg # g.msg
                  /\ \A j \in DOMAIN frames[e] : Fresh(frames[e][j]) => frames[e][j].msg # g.msg
  BY <1>1, <1>6 DEF FreshInv, Fresh
<1>8. \A m \in unsent' : Untouched(m)'
  BY <1>1, <1>4 DEF FreshInv
<1>9. \A d \in Callers : Waits(d)' => request'[d].msg \notin unsent' /\ Untouched(request[d].msg)'
  <2> SUFFICES ASSUME NEW d \in Callers, Waits(d)
               PROVE  request'[d].msg \notin unsent' /\ Untouched(request[d].msg)'
    BY <1>3
  <2>1. PICK m : m = request[d].msg
    OBVIOUS
  <2>2. Untouched(m)' /\ m \notin unsent /\ request'[d].msg = m
    BY <1>1, <1>4, <2>1 DEF FreshInv
  <2> QED BY <1>1, <2>2
<1>10. \A d, x \in Callers : Waits(d)' /\ Waits(x)' /\ request'[d].msg = request'[x].msg => d = x
  BY <1>1, <1>3 DEF FreshInv
<1>11. ASSUME NEW x \in Executors, NEW i \in DOMAIN frames'[x], Fresh(frames'[x][i])
      PROVE  LET h == frames'[x][i]
             IN  /\ h.msg \notin unsent'
                 /\ \A d \in Callers : Waits(d)' => request'[d].msg # h.msg
                 /\ \A j \in DOMAIN frames'[x] : Fresh(frames'[x][j]) /\ frames'[x][j].msg = h.msg => i = j
                 /\ \A b \in Members(output') : b[1] # h.msg
                 /\ \A b \in Members(wire') : b[1] = h.msg => b[2] <= h.sent
  <2>1. x = e
    <3>1. x # e => frames'[x] = <<>>
      BY <1>2, OnlyOne
    <3> QED BY <1>11, <3>1
  <2>2. \A j \in DOMAIN frames'[e] : j \in Nat /\ (j = 1 \/ j > 1)
    BY <1>2
  <2>3. CASE i = 1
    <3>1. frames'[x][i] = g /\ Fresh(g)
      BY <1>2, <1>5, <1>11, <2>1, <2>3
    <3>2. \A j \in DOMAIN frames'[x] : Fresh(frames'[x][j]) /\ frames'[x][j].msg = g.msg => i = j
      BY <1>2, <1>7, <2>1, <2>2, <2>3, <3>1
    <3>3. \A b \in Members(output') \cup Members(wire') : b[1] # g.msg
      BY <1>1, <1>7, <3>1 DEF Untouched, Carried
    <3> QED BY <1>1, <1>3, <1>7, <3>1, <3>2, <3>3
  <2>4. CASE i > 1
    <3>1. i - 1 \in DOMAIN frames[e] /\ frames'[x][i] = frames[e][i - 1]
      BY <1>2, <1>11, <2>1, <2>4
    <3> DEFINE h == frames[e][i - 1]
    <3>2. /\ h.msg \notin unsent
          /\ \A d \in Callers : Waits(d) => request[d].msg # h.msg
          /\ \A j \in DOMAIN frames[e] : Fresh(frames[e][j]) /\ frames[e][j].msg = h.msg => i - 1 = j
          /\ \A b \in Members(output) : b[1] # h.msg
          /\ \A b \in Members(wire) : b[1] = h.msg => b[2] <= h.sent
      BY <1>11, <3>1 DEF FreshInv
    <3>3. \A j \in DOMAIN frames'[x] : Fresh(frames'[x][j]) /\ frames'[x][j].msg = h.msg => i = j
      <4> SUFFICES ASSUME NEW j \in DOMAIN frames'[x], Fresh(frames'[x][j]), frames'[x][j].msg = h.msg
                   PROVE  i = j
        OBVIOUS
      <4>1. i \in Nat /\ j \in Nat /\ (j = 1 \/ j > 1)
        BY <1>11, <2>1, <2>2
      <4>2. CASE j = 1
        <5>1. frames'[x][j] = g
          BY <1>2, <1>5, <2>1, <4>2
        <5> QED BY <1>7, <1>11, <3>1, <5>1
      <4>3. CASE j > 1
        <5>1. j - 1 \in DOMAIN frames[e] /\ frames'[x][j] = frames[e][j - 1]
          BY <1>2, <2>1, <4>3
        <5>2. i - 1 = j - 1
          BY <3>2, <5>1
        <5> QED BY <4>1, <5>2
      <4> QED BY <4>1, <4>2, <4>3
    <3> QED BY <1>1, <1>3, <3>1, <3>2, <3>3
  <2> QED BY <1>11, <2>1, <2>2, <2>3, <2>4
<1> QED BY <1>8, <1>9, <1>10, <1>11 DEF FreshInv

-----------------------------------------------------------------------------
(* The invariant                                                           *)

LEMMA CallsSame ==
  ASSUME CallsInv, UNCHANGED <<output, wire, acked, state, valid, frames>>, broken => broken'
  PROVE  CallsInv'
<1>1. Grows
  BY DEF Grows, Carried
<1>2. \A m \in acked' : Kept(m)'
  BY <1>1, GrowsKeeps DEF CallsInv
<1>3. ASSUME NEW x \in Executors, NEW i \in DOMAIN frames'[x]
      PROVE  /\ FrameInv(frames[x][i])'
             /\ i = 1 => WriteInv(frames[x][i])'
             /\ i > 1 => frames'[x][i].at \in {"high_water", "complete", "flushed"}
  <2>1. PICK g : g = frames[x][i]
    OBVIOUS
  <2>2. FrameInv(g) /\ (i = 1 => WriteInv(g))
        /\ (i > 1 => g.at \in {"high_water", "complete", "flushed"}) /\ frames'[x][i] = g
    BY <1>3, <2>1 DEF CallsInv
  <2>3. FrameInv(g)'
    BY <1>1, <2>2, GrowsFrame
  <2>4. i = 1 => WriteInv(g)'
    BY <2>2 DEF WriteInv, Usable
  <2> QED BY <2>2, <2>3, <2>4
<1> QED BY <1>2, <1>3 DEF CallsInv

(* The steps that are no part of a call.                                   *)
LEMMA OuterStep ==
  ASSUME Inv, NEW c \in Callers,
         BeginInline(c) \/ NotInline(c) \/ Dispatch(c) \/ Returns(c)
  PROVE  Inv'
<1> USE DEF Inv
<1>0. c \in Executors
  BY DEF Executors
<1>1. CASE BeginInline(c)
  <2>1. TypeOK' /\ ActorInv' /\ EventInv'
    BY <1>1, ActorBegins
  <2>2. /\ UNCHANGED <<output, wire, broken, acked, state, valid, unsent, mailbox, request>>
        /\ frames' = [frames EXCEPT ![c] = <<Frame(request[c], c)>>]
        /\ pc[c] = "called" /\ pc' = [pc EXCEPT ![c] = "inline"] /\ ~actor_running
    BY <1>1 DEF BeginInline, MayBegin, svars, bvars, Go
  <2>3. request[c] \in Requests /\ c \notin Members(mailbox)
    BY <2>2 DEF EventInv
  <2>4. \A x \in Executors : frames[x] = <<>>
    BY <2>2 DEF ActorInv, Active
  <2>5. /\ pc'[c] = "inline" /\ \A x \in Executors : x # c => pc'[x] = pc[x]
    BY <1>0, <2>2 DEF TypeOK
  <2>6. FewerWait /\ ~Waits(c)' /\ (request[c].op = "send" => Waits(c))
    BY <2>2, <2>3, <2>5 DEF FewerWait, Waits, Executors
  <2>7. CallsInv'
    BY <1>0, <2>2, <2>3, <2>4, CallsSet
  <2>8. FreshInv'
    BY <1>0, <2>2, <2>3, <2>4, <2>6, FreshSet
  <2> QED BY <2>1, <2>7, <2>8
<1>2. CASE NotInline(c)
  <2>1. TypeOK' /\ ActorInv' /\ EventInv'
    BY <1>2, ActorNotInline
  <2>2. /\ UNCHANGED <<output, wire, broken, acked, state, valid, unsent, mailbox, request, frames>>
        /\ pc[c] = "called" /\ pc' = [pc EXCEPT ![c] = "dispatch"]
    BY <1>2 DEF NotInline, svars, bvars, avars, Go
  <2>3. FewerWait
    BY <1>0, <2>2 DEF FewerWait, Waits, TypeOK, Executors
  <2> QED BY <2>1, <2>2, <2>3, CallsSame, FreshSame
<1>3. CASE Dispatch(c)
  <2>1. TypeOK' /\ ActorInv' /\ EventInv'
    BY <1>3, ActorDispatch
  <2>2. /\ UNCHANGED <<output, wire, broken, acked, state, valid, unsent, request, frames>>
        /\ pc[c] = "dispatch" /\ mailbox' = Append(mailbox, c)
        /\ pc' = IF actor_running THEN [pc EXCEPT ![c] = "waiting"]
                 ELSE IF c \in Locals THEN [pc EXCEPT ![c] = "drain"]
                 ELSE [pc EXCEPT ![c] = "waiting", ![Worker] = "drain"]
    BY <1>3 DEF Dispatch, svars, bvars
  <2>3. Members(mailbox') = Members(mailbox) \cup {c}
    BY <2>2, MembersAppend DEF TypeOK
  <2>4. \A x \in Executors : pc'[x] \in {"called", "dispatch"} => pc'[x] = pc[x]
    <3>1. CASE pc' = [pc EXCEPT ![c] = "waiting"]
      BY <1>0, <3>1 DEF TypeOK
    <3>2. CASE pc' = [pc EXCEPT ![c] = "drain"]
      BY <1>0, <3>2 DEF TypeOK
    <3>3. CASE pc' = [pc EXCEPT ![c] = "waiting", ![Worker] = "drain"]
      BY <1>0, <3>3 DEF TypeOK
    <3> QED BY <2>2, <3>1, <3>2, <3>3
  <2>5. FewerWait
    BY <2>2, <2>3, <2>4 DEF FewerWait, Waits, Executors
  <2> QED BY <2>1, <2>2, <2>5, CallsSame, FreshSame
<1>4. CASE Returns(c)
  <2>1. TypeOK' /\ ActorInv' /\ EventInv'
    BY <1>4, ActorReturns
  <2>2. /\ UNCHANGED <<output, wire, broken, acked, state, valid, unsent, mailbox, frames>>
        /\ request' = [request EXCEPT ![c] = NoRequest] /\ pc' = [pc EXCEPT ![c] = "out"]
    BY <1>4 DEF Returns, svars, bvars, avars, Go
  <2>3. /\ \A x \in Executors : x # c => pc'[x] = pc[x]
        /\ \A d \in Callers : d # c => request'[d] = request[d]
        /\ request'[c] = NoRequest
    BY <1>0, <2>2 DEF TypeOK
  <2>4. FewerWait
    BY <2>2, <2>3 DEF FewerWait, Waits, Executors, NoRequest, Request
  <2> QED BY <2>1, <2>2, <2>4, CallsSame, FreshSame
<1> QED BY <1>1, <1>2, <1>3, <1>4

LEMMA DrainStep ==
  ASSUME Inv, NEW e \in Executors, DrainBegins(e) \/ DrainTakes(e) \/ DrainEnds(e)
  PROVE  Inv'
<1> USE DEF Inv
<1>1. CASE DrainBegins(e)
  <2>1. TypeOK' /\ ActorInv' /\ EventInv'
    BY <1>1, ActorDrainBegins
  <2>2. /\ UNCHANGED <<output, wire, broken, acked, state, valid, unsent, mailbox, request, frames>>
        /\ pc' = [pc EXCEPT ![e] = "take"]
    BY <1>1 DEF DrainBegins, svars, bvars, Go
  <2>3. \A x \in Executors : pc'[x] \in {"called", "dispatch"} => pc'[x] = pc[x]
    BY <2>2 DEF TypeOK
  <2>4. FewerWait
    BY <2>2, <2>3 DEF FewerWait, Waits, Executors
  <2> QED BY <2>1, <2>2, <2>4, CallsSame, FreshSame
<1>2. CASE DrainTakes(e)
  <2>0. PICK c : c = Head(mailbox)
    OBVIOUS
  <2>1. TypeOK' /\ ActorInv' /\ EventInv'
    BY <1>2, ActorDrainTakes
  <2>2. /\ UNCHANGED <<output, wire, broken, acked, state, valid, unsent, request>>
        /\ pc[e] = "take" /\ pc' = [pc EXCEPT ![e] = "busy"]
        /\ mailbox # <<>> /\ mailbox' = Tail(mailbox)
        /\ frames' = [frames EXCEPT ![e] = <<Frame(request[c], c)>>]
    BY <1>2, <2>0 DEF DrainTakes, svars, bvars, Go
  <2>3. c \in Callers /\ Members(mailbox) = Members(mailbox') \cup {c}
    BY <2>0, <2>2, MembersTail DEF TypeOK
  <2>4. c \notin Members(mailbox')
    BY <2>0, <2>2, DistinctTail DEF TypeOK, EventInv
  <2>5. request[c] \in Requests /\ pc[c] \in {"waiting", "drain", "take", "busy"} /\ c \in Executors
    BY <2>3 DEF EventInv, Executors
  <2>6. \A x \in Executors : x # e => frames[x] = <<>>
    BY <2>2 DEF ActorInv, Active
  <2>7. \A x \in Executors : pc'[x] \in {"called", "dispatch"} => pc'[x] = pc[x]
    BY <2>2 DEF TypeOK
  <2>8. FewerWait /\ ~Waits(c)' /\ (request[c].op = "send" => Waits(c))
    BY <2>2, <2>3, <2>4, <2>5, <2>7 DEF FewerWait, Waits, Executors
  <2>9. CallsInv'
    BY <2>2, <2>5, <2>6, CallsSet
  <2>10. FreshInv'
    BY <2>2, <2>3, <2>5, <2>6, <2>8, FreshSet
  <2> QED BY <2>1, <2>9, <2>10
<1>3. CASE DrainEnds(e)
  <2>1. TypeOK' /\ ActorInv' /\ EventInv'
    BY <1>3, ActorDrainEnds
  <2>2. /\ UNCHANGED <<output, wire, broken, acked, state, valid, unsent, mailbox, request, frames>>
        /\ pc' = [pc EXCEPT ![e] = IF e \in Callers /\ request[e] # NoRequest THEN "waiting" ELSE "out"]
    BY <1>3 DEF DrainEnds, svars, bvars, Go
  <2>3. \A x \in Executors : pc'[x] \in {"called", "dispatch"} => pc'[x] = pc[x]
    BY <2>2 DEF TypeOK
  <2>4. FewerWait
    BY <2>2, <2>3 DEF FewerWait, Waits, Executors
  <2> QED BY <2>1, <2>2, <2>4, CallsSame, FreshSame
<1> QED BY <1>1, <1>2, <1>3

(* The invariant is kept by every step.                                    *)
LEMMA InvStep ==
  ASSUME Inv, [Next]_vars
  PROVE  Inv'
<1> USE DEF Inv
<1>1. ASSUME NEW c \in Callers, GoOn(c) PROVE Inv'
  BY <1>1, OuterStep DEF GoOn
<1>2. ASSUME NEW c \in Callers, NEW r \in Requests, Call(c, r) PROVE Inv'
  <2>1. UNCHANGED <<output, wire, broken, acked, state, valid, frames>>
    BY <1>2 DEF Call, svars
  <2>2. CallsInv'
    BY <2>1, CallsSame
  <2> QED BY <1>2, <2>2, ActorCall, FreshCall
<1>3. ASSUME NEW e \in Executors, InternalStep(e) PROVE Inv'
  <2>1. ActorInv' /\ EventInv'
    BY <1>3, ActorMove, ActorOver
       DEF InternalStep, QuietStep, BufferStep, DirectStep, FlushStep, RetrieveStep
  <2> QED BY <1>3, <2>1, InternalType, InternalCalls, InternalFresh
<1>4. ASSUME NEW e \in Executors, Work(e) PROVE Inv'
  BY <1>3, <1>4, WorkCases, DrainStep
<1>5. ASSUME NEW e \in Executors, NEW r \in Requests, Reenter(e, r) PROVE Inv'
  BY <1>5, ActorReenter, CallsPush, FreshPush
<1>6. CASE PeerResets
  <2>1. /\ UNCHANGED <<tls, state, valid, output, wire, mailbox, actor_running, actor_coroutine,
                        pc, request, completed, frames, calls, unsent, acked>>
        /\ broken' = TRUE
    BY <1>6 DEF PeerResets, svars, avars, cvars, bvars
  <2>2. TypeOK'
    BY <2>1 DEF TypeOK
  <2>3. ActorInv' /\ EventInv'
    BY <2>1 DEF ActorInv, Active, EventInv, Served
  <2>4. CallsInv'
    BY <2>1, CallsSame
  <2>5. FewerWait
    BY <2>1 DEF FewerWait, Waits
  <2> QED BY <2>1, <2>2, <2>3, <2>4, <2>5, FreshSame
<1>7. CASE UNCHANGED vars
  <2>1. UNCHANGED <<tls, state, valid, broken, output, wire, mailbox, actor_running, actor_coroutine,
                     pc, request, completed, frames, calls, unsent, acked>>
    BY <1>7 DEF vars, svars, avars, cvars, bvars
  <2>2. TypeOK'
    BY <2>1 DEF TypeOK
  <2>3. ActorInv' /\ EventInv'
    BY <2>1 DEF ActorInv, Active, EventInv, Served
  <2>4. CallsInv'
    BY <2>1, CallsSame
  <2>5. FewerWait
    BY <2>1 DEF FewerWait, Waits
  <2> QED BY <2>1, <2>2, <2>3, <2>4, <2>5, FreshSame
<1> QED BY <1>1, <1>2, <1>4, <1>5, <1>6, <1>7 DEF Next

-----------------------------------------------------------------------------
(* Whole messages                                                          *)

(* Whole, by its two halves.                                               *)
LEMMA WholeParts ==
  ASSUME NEW s \in Seq(Byte)
  PROVE  Whole(s) <=> Distinct(s) /\ \A i \in 1..(Len(s) - 1) : Follows(s[i], s[i + 1])
BY DEF Whole, Distinct, Follows

LEMMA LastFacts ==
  ASSUME NEW S, NEW s \in Seq(S), NEW t \in Seq(S), t # <<>>
  PROVE  /\ s \o t \in Seq(S) /\ s \o t # <<>> /\ Last(s \o t) = Last(t) /\ Last(t) \in Members(t)
         /\ Last(t) \in S /\ t[1] \in S /\ t[1] \in Members(t)
         /\ (s \o t)[1] = IF s = <<>> THEN t[1] ELSE s[1]
<1>1. Len(t) \in Nat /\ Len(t) # 0 /\ Len(s) \in Nat /\ (s = <<>> <=> Len(s) = 0)
  OBVIOUS
<1>2. Len(t) \in DOMAIN t /\ 1 \in DOMAIN t
  BY <1>1
<1>3. s \o t \in Seq(S) /\ Len(s \o t) = Len(s) + Len(t) /\ s \o t # <<>>
  BY <1>1
<1>4. (s \o t)[Len(s) + Len(t)] = t[Len(t)]
  BY <1>1
<1>5. (s \o t)[1] = IF s = <<>> THEN t[1] ELSE s[1]
  BY <1>1
<1>6. t[Len(t)] \in S /\ t[1] \in S
  BY <1>2
<1> QED BY <1>2, <1>3, <1>4, <1>5, <1>6 DEF Last, Members

(* Two whole runs of bytes without a common one make a whole run where the *)
(* second goes on where the first ends.                                    *)
LEMMA WholeConcat ==
  ASSUME NEW s \in Seq(Byte), NEW t \in Seq(Byte), Whole(s), Whole(t),
         Members(s) \cap Members(t) = {},
         s # <<>> /\ t # <<>> => Follows(Last(s), t[1])
  PROVE  Whole(s \o t)
<1>1. Distinct(s \o t)
  BY DistinctConcat, WholeParts
<1>2. Len(s) \in Nat /\ Len(t) \in Nat /\ Len(s \o t) = Len(s) + Len(t) /\ s \o t \in Seq(Byte)
  OBVIOUS
<1>3. ASSUME NEW i \in 1..(Len(s \o t) - 1)
      PROVE  Follows((s \o t)[i], (s \o t)[i + 1])
  <2>1. CASE i < Len(s)
    <3>1. i \in 1..(Len(s) - 1) /\ (s \o t)[i] = s[i] /\ (s \o t)[i + 1] = s[i + 1]
      BY <1>2, <2>1
    <3> QED BY <3>1, WholeParts
  <2>2. CASE i = Len(s)
    <3>1. s # <<>> /\ t # <<>>
      BY <1>2, <1>3, <2>2
    <3>2. (s \o t)[i] = s[Len(s)] /\ (s \o t)[i + 1] = t[1]
      BY <1>2, <1>3, <2>2
    <3> QED BY <3>1, <3>2 DEF Last
  <2>3. CASE i > Len(s)
    <3>1. /\ i - Len(s) \in 1..(Len(t) - 1) /\ (s \o t)[i] = t[i - Len(s)]
          /\ (s \o t)[i + 1] = t[(i - Len(s)) + 1]
      BY <1>2, <1>3, <2>3
    <3> QED BY <3>1, WholeParts
  <2> QED BY <1>2, <2>1, <2>2, <2>3
<1> QED BY <1>1, <1>2, <1>3, WholeParts

(* A part of a whole run is whole.                                         *)
LEMMA WholeSub ==
  ASSUME NEW s \in Seq(Byte), Whole(s), NEW a \in Nat, NEW b \in Nat, a <= b, b <= Len(s)
  PROVE  Whole(SubSeq(s, a + 1, b))
<1> DEFINE t == SubSeq(s, a + 1, b)
<1>1. t \in Seq(Byte) /\ Len(t) = b - a /\ \A i \in DOMAIN t : t[i] = s[a + i]
  BY SubFacts
<1>2. Len(s) \in Nat
  OBVIOUS
<1> HIDE DEF t
<1>3. DOMAIN t = 1..(b - a)
  BY <1>1
<1>4. Distinct(s) /\ \A i \in 1..(Len(s) - 1) : Follows(s[i], s[i + 1])
  BY WholeParts
<1>5. Distinct(t)
  <2> SUFFICES ASSUME NEW i \in DOMAIN t, NEW j \in DOMAIN t, t[i] = t[j] PROVE i = j
    BY DEF Distinct
  <2>1. a + i \in DOMAIN s /\ a + j \in DOMAIN s /\ s[a + i] = s[a + j]
    BY <1>1, <1>2, <1>3
  <2>2. a + i = a + j
    BY <1>4, <2>1 DEF Distinct
  <2> QED BY <1>3, <2>2
<1>6. ASSUME NEW i \in 1..(Len(t) - 1) PROVE Follows(t[i], t[i + 1])
  <2>1. i \in DOMAIN t /\ i + 1 \in DOMAIN t /\ a + i \in 1..(Len(s) - 1) /\ a + (i + 1) = (a + i) + 1
    BY <1>1, <1>2, <1>3
  <2>2. t[i] = s[a + i] /\ t[i + 1] = s[(a + i) + 1]
    BY <1>1, <2>1
  <2> QED BY <1>4, <2>1, <2>2
<1> QED BY <1>1, <1>5, <1>6, WholeParts DEF t

(* The bytes of a message are whole.                                       *)
LEMMA WholeBytes ==
  ASSUME NEW m \in Messages
  PROVE  /\ Whole(Bytes(m)) /\ Bytes(m) # <<>> /\ Bytes(m)[1] = <<m, 1>>
         /\ Last(Bytes(m)) = <<m, MessageLength>>
<1>1. /\ Bytes(m) \in Seq(Byte) /\ Len(Bytes(m)) = MessageLength
      /\ \A i \in 1..MessageLength : Bytes(m)[i] = <<m, i>>
  BY BytesFacts
<1>2. MessageLength \in Nat /\ MessageLength >= 1
  BY SizesAssumption
<1>3. DOMAIN Bytes(m) = 1..MessageLength
  BY <1>1, <1>2
<1>4. Distinct(Bytes(m))
  BY <1>1, <1>3 DEF Distinct
<1>5. \A i \in 1..(Len(Bytes(m)) - 1) : Follows(Bytes(m)[i], Bytes(m)[i + 1])
  <2> SUFFICES ASSUME NEW i \in 1..(MessageLength - 1)
               PROVE  Follows(Bytes(m)[i], Bytes(m)[i + 1])
    BY <1>1
  <2>1. i \in 1..MessageLength /\ i + 1 \in 1..MessageLength /\ i # MessageLength
    BY <1>2
  <2>2. Bytes(m)[i] = <<m, i>> /\ Bytes(m)[i + 1] = <<m, i + 1>>
    BY <1>1, <2>1
  <2> QED BY <2>1, <2>2 DEF Follows
<1>6. 1 \in 1..MessageLength /\ MessageLength \in 1..MessageLength
  BY <1>2
<1>7. Bytes(m) # <<>>
  BY <1>1, <1>2
<1> QED BY <1>1, <1>4, <1>5, <1>6, <1>7, WholeParts DEF Last

-----------------------------------------------------------------------------
(* The bytes on the wire                                                   *)

LEMMA NoMid ==
  ASSUME ActorInv, NEW e \in Executors, frames[e] # <<>>, ~Mid(e)
  PROVE  \A x \in Executors : ~Mid(x)
BY OnlyOne DEF Mid, At

(* No byte moves, and nobody was or is within a write.                     *)
LEMMA StreamRest ==
  ASSUME StreamInv, UNCHANGED <<output, wire>>,
         valid' /\ ~broken' =>
           /\ valid /\ ~broken /\ tls' = tls
           /\ \A x \in Executors : ~Mid(x)
           /\ \A x \in Executors : ~Mid(x)'
           /\ \A x \in Executors : At(x, "direct")' => ~tls
  PROVE  StreamInv'
<1>1. (Whole(wire) /\ Whole(output) /\ AtEnd(output))'
  BY DEF StreamInv, AtEnd, Whole
<1>2. ASSUME valid', ~broken'
      PROVE  /\ Settled'
             /\ \A e \in Executors :
                  /\ ~(At(e, "flush")' /\ Top(e)'.sent > 0)
                  /\ At(e, "direct")' => ~tls'
                  /\ ~(At(e, "direct")' /\ Top(e)'.sent > 0)
  <2>1. Settled
    BY <1>2 DEF StreamInv
  <2>2. Settled'
    BY <1>2, <2>1 DEF Settled, Joint, Continues, AtEnd
  <2>3. \A e \in Executors : At(e, "direct")' => ~tls'
    BY <1>2
  <2>4. \A e \in Executors : /\ ~(At(e, "flush")' /\ Top(e)'.sent > 0)
                             /\ ~(At(e, "direct")' /\ Top(e)'.sent > 0)
    BY <1>2 DEF Mid
  <2> QED BY <2>2, <2>3, <2>4
<1> QED BY <1>1, <1>2 DEF StreamInv

LEMMA StreamQuiet ==
  ASSUME TypeOK, ActorInv, CallsInv, StreamInv, NEW e \in Executors, NEW f \in FrameType, QuietStep(e, f)
  PROVE  StreamInv'
<1>1. /\ UNCHANGED <<output, wire, tls, valid, broken>> /\ MoveStep(e, f)
      /\ f.sent = Top(e).sent /\ (f.sent = 0 \/ broken) /\ (f.at = "direct" => ~tls)
  BY DEF QuietStep, MoveStep, Within
<1>2. /\ frames'[e] # <<>> /\ frames'[e][1] = f /\ frames[e] # <<>>
      /\ \A x \in Executors : x # e => frames'[x] = frames[x]
  BY <1>1, MovedFrames DEF MoveStep, Inside
<1>3. ~broken => ~Mid(e) /\ \A x \in Executors : ~Mid(x)
  BY <1>1, <1>2, NoMid DEF Mid
<1>4. \A x \in Executors : x # e => frames'[x] = <<>>
  BY <1>2, OnlyOne
<1>5. ~broken => \A x \in Executors : ~Mid(x)'
  BY <1>1, <1>2, <1>4 DEF Mid, At, Top
<1>6. \A x \in Executors : At(x, "direct")' => ~tls
  BY <1>1, <1>2, <1>4 DEF At, Top
<1> QED BY <1>1, <1>3, <1>5, <1>6, StreamRest

LEMMA StreamOver ==
  ASSUME ~SplitTimeouts, TypeOK, ActorInv, CallsInv, StreamInv, NEW e \in Executors, OverStep(e)
  PROVE  StreamInv'
<1>1. /\ UNCHANGED <<output, wire, broken>>
      /\ valid' => valid /\ tls' = tls
      /\ (Top(e).at \in {"flush", "direct"} => Top(e).sent = 0 \/ broken)
  BY DEF OverStep, Over, TypeOK
<1>2. /\ \A i \in DOMAIN frames'[e] : i + 1 \in DOMAIN frames[e] /\ frames'[e][i] = frames[e][i + 1]
      /\ \A x \in Executors : x # e => frames'[x] = frames[x]
      /\ frames[e] # <<>> /\ frames' \in [Executors -> Seq(FrameType)]
  BY PoppedFrames
<1>3. ~broken => ~Mid(e) /\ \A x \in Executors : ~Mid(x)
  BY <1>1, <1>2, NoMid DEF Mid, At
<1>4. \A x \in Executors : x # e => frames'[x] = <<>>
  BY <1>2, OnlyOne
<1>5. frames'[e] # <<>> => frames'[e][1].at \in {"high_water", "complete", "flushed"}
  <2> SUFFICES ASSUME frames'[e] # <<>>
               PROVE  frames'[e][1].at \in {"high_water", "complete", "flushed"}
    OBVIOUS
  <2>1. 1 \in DOMAIN frames'[e]
    BY <1>2
  <2>2. 1 + 1 \in DOMAIN frames[e] /\ frames'[e][1] = frames[e][1 + 1]
    BY <1>2, <2>1
  <2>3. 1 + 1 > 1
    OBVIOUS
  <2> QED BY <2>2, <2>3 DEF CallsInv
<1>6. \A x \in Executors : ~Mid(x)' /\ ~At(x, "direct")'
  BY <1>4, <1>5 DEF Mid, At, Top
<1> QED BY <1>1, <1>3, <1>6, StreamRest

(* The innermost call moved on as f, and what it has to know of the bytes. *)
LEMMA StreamMove ==
  ASSUME TypeOK, ActorInv, NEW e \in Executors, NEW f \in FrameType, MoveStep(e, f),
         (Whole(wire) /\ Whole(output) /\ AtEnd(output))',
         valid /\ ~broken =>
           /\ f.at \notin {"flush", "direct"} \/ f.sent = 0 => Settled'
           /\ f.at = "flush" /\ f.sent > 0 => Joint(f.sent)'
           /\ f.at = "direct" => ~tls
           /\ f.at = "direct" /\ f.sent > 0 =>
                /\ wire' # <<>> /\ Last(wire') = <<f.msg, f.sent>>
                /\ Members(output') \cap Members(wire') = {}
                /\ output' # <<>> => output'[1][2] = 1
  PROVE  StreamInv'
<1>1. /\ frames'[e] # <<>> /\ frames'[e][1] = f /\ frames[e] # <<>>
      /\ \A x \in Executors : x # e => frames'[x] = frames[x]
  BY MovedFrames DEF MoveStep, Inside
<1>2. \A x \in Executors : x # e => frames'[x] = <<>>
  BY <1>1, OnlyOne
<1>3. /\ Top(e)' = f /\ \A x \in Executors : \A p : At(x, p)' <=> x = e /\ f.at = p
  BY <1>1, <1>2 DEF Top, At
<1>4. tls' = tls /\ valid' = valid /\ broken' = broken
  BY DEF MoveStep, Within
<1>5. f.sent \in Nat
  BY DEF FrameType
<1>6. Mid(e)' <=> f.at \in {"flush", "direct"} /\ f.sent > 0
  BY <1>3 DEF Mid
<1>7. ASSUME valid', ~broken', \A x \in Executors : ~Mid(x)' PROVE Settled'
  BY <1>4, <1>5, <1>6, <1>7
<1>8. ASSUME valid', ~broken', NEW x \in Executors
      PROVE  /\ At(x, "flush")' /\ Top(x)'.sent > 0 => Joint(Top(x).sent)'
             /\ At(x, "direct")' => ~tls'
             /\ At(x, "direct")' /\ Top(x)'.sent > 0 =>
                  /\ wire' # <<>> /\ Last(wire') = <<Top(x)'.msg, Top(x)'.sent>>
                  /\ Members(output') \cap Members(wire') = {}
                  /\ output' # <<>> => output'[1][2] = 1
  <2>1. CASE x # e
    BY <1>3, <2>1
  <2>2. CASE x = e
    <3>1. At(x, "direct")' => ~tls'
      BY <1>3, <1>4, <1>8, <2>2
    <3>2. At(x, "direct")' /\ Top(x)'.sent > 0 =>
            /\ wire' # <<>> /\ Last(wire') = <<Top(x)'.msg, Top(x)'.sent>>
            /\ Members(output') \cap Members(wire') = {}
            /\ output' # <<>> => output'[1][2] = 1
      BY <1>3, <1>4, <1>8, <2>2
    <3>3. At(x, "flush")' /\ Top(x)'.sent > 0 => Joint(Top(x).sent)'
      <4> SUFFICES ASSUME At(x, "flush")', Top(x)'.sent > 0 PROVE Joint(Top(x).sent)'
        OBVIOUS
      <4>1. PICK n : n = f.sent
        OBVIOUS
      <4>2. Joint(n)'
        BY <1>3, <1>4, <1>8, <2>2, <4>1
      <4>3. (Top(x).sent)' = n
        BY <1>3, <2>2, <4>1
      <4> QED BY <4>2, <4>3 DEF Joint
    <3> QED BY <3>1, <3>2, <3>3
  <2> QED BY <2>1, <2>2
<1> QED BY <1>7, <1>8 DEF StreamInv

(* A part of a whole run that is not empty.                                *)
LEMMA PartFacts ==
  ASSUME NEW o \in Seq(Byte), NEW a \in Nat, NEW n \in Nat, a < n, n <= Len(o), Whole(o)
  PROVE  \A t : t = SubSeq(o, a + 1, n) =>
           /\ t \in Seq(Byte) /\ t # <<>> /\ Whole(t) /\ t[1] = o[a + 1] /\ Last(t) = o[n]
           /\ Members(t) = {o[i] : i \in (a + 1)..n}
<1>a. a <= n /\ n - a \in Nat /\ n - a >= 1 /\ a + (n - a) = n
  OBVIOUS
<1>0. PICK t : t = SubSeq(o, a + 1, n)
  OBVIOUS
<1>b. SubSeq(o, a + 1, n) \in Seq(Byte) /\ Len(SubSeq(o, a + 1, n)) = n - a
      /\ \A i \in DOMAIN SubSeq(o, a + 1, n) : SubSeq(o, a + 1, n)[i] = o[a + i]
  BY <1>a, SubFacts
<1>1. t \in Seq(Byte) /\ Len(t) = n - a /\ \A i \in DOMAIN t : t[i] = o[a + i]
  BY <1>0, <1>b, Zenon
<1>c. Members(SubSeq(o, a + 1, n)) = {o[i] : i \in (a + 1)..n}
  BY <1>a, SubMembers
<1>d. Whole(SubSeq(o, a + 1, n))
  BY <1>a, WholeSub
<1>2. Members(t) = {o[i] : i \in (a + 1)..n} /\ Whole(t)
  BY <1>0, <1>c, <1>d, Zenon
<1>e. t \in Seq(Byte) /\ Len(t) = n - a
  BY <1>1
<1>5. t # <<>> /\ DOMAIN t = 1..(n - a) /\ 1 \in DOMAIN t /\ n - a \in DOMAIN t
  BY <1>a, <1>e
<1>6. t[1] = o[a + 1]
  BY <1>1, <1>5
<1>7. t[n - a] = o[a + (n - a)]
  BY <1>1, <1>5
<1>8. Last(t) = o[n]
  BY <1>a, <1>e, <1>7 DEF Last
<1> QED BY <1>0, <1>1, <1>2, <1>5, <1>6, <1>8, Zenon

\* The bytes a+1 to n of o are in their place behind w.
InPlace(w, o, a, n) ==
  \A v : v = w \o SubSeq(o, a + 1, n) =>
    /\ Whole(v) /\ v \in Seq(Byte) /\ v # <<>> /\ Last(v) = o[n]
    /\ Members(v) = Members(w) \cup {o[i] : i \in (a + 1)..n}
    /\ \A i \in (n + 1)..Len(o) : o[i] \notin Members(v)
    /\ n < Len(o) => Follows(Last(v), o[n + 1])

(* The kernel takes the bytes a+1 to n of o, which go on where it stands.  *)
LEMMA Taken ==
  ASSUME NEW w \in Seq(Byte), NEW o \in Seq(Byte), NEW a \in Nat, NEW n \in Nat,
         a < n, n <= Len(o), Whole(w), Whole(o),
         \A i \in (a + 1)..Len(o) : o[i] \notin Members(w),
         w # <<>> => Follows(Last(w), o[a + 1])
  PROVE  InPlace(w, o, a, n)
<1>0. PICK t : t = SubSeq(o, a + 1, n)
  OBVIOUS
<1>1. /\ t \in Seq(Byte) /\ t # <<>> /\ Whole(t) /\ t[1] = o[a + 1] /\ Last(t) = o[n]
      /\ Members(t) = {o[i] : i \in (a + 1)..n}
  <2>1. \A x : x = SubSeq(o, a + 1, n) =>
          /\ x \in Seq(Byte) /\ x # <<>> /\ Whole(x) /\ x[1] = o[a + 1] /\ Last(x) = o[n]
          /\ Members(x) = {o[i] : i \in (a + 1)..n}
    BY PartFacts
  <2> QED BY <1>0, <2>1, Zenon
<1>2. PICK v : v = w \o t
  OBVIOUS
<1>4. Len(o) \in Nat
  OBVIOUS
<1>7. Members(w) \cap Members(t) = {}
  BY <1>1, <1>4
<1>8. Whole(w \o t)
  BY <1>1, <1>7, WholeConcat
<1>9. w \o t \in Seq(Byte) /\ w \o t # <<>> /\ Last(w \o t) = Last(t)
  BY <1>1, LastFacts
<1>10. Members(w \o t) = Members(w) \cup Members(t)
  BY <1>1, MembersConcat
<1>a. /\ Whole(v) /\ v \in Seq(Byte) /\ v # <<>> /\ Last(v) = o[n]
      /\ Members(v) = Members(w) \cup {o[i] : i \in (a + 1)..n}
  BY <1>1, <1>2, <1>8, <1>9, <1>10, Zenon
<1>11. Distinct(o) /\ \A i \in 1..(Len(o) - 1) : Follows(o[i], o[i + 1])
  BY WholeParts
<1>12. ASSUME NEW i \in (n + 1)..Len(o) PROVE o[i] \notin Members(v)
  <2>1. i \in DOMAIN o /\ i \in (a + 1)..Len(o)
    BY <1>4
  <2>2. ASSUME NEW j \in (a + 1)..n PROVE o[j] # o[i]
    <3>1. j \in DOMAIN o /\ j # i
      BY <1>4
    <3> QED BY <1>11, <2>1, <3>1 DEF Distinct
  <2> QED BY <1>a, <2>1, <2>2
<1>13. n < Len(o) => Follows(Last(v), o[n + 1])
  <2>1. n < Len(o) => n \in 1..(Len(o) - 1)
    BY <1>4
  <2> QED BY <1>a, <1>11, <2>1
<1> QED BY <1>0, <1>2, <1>a, <1>12, <1>13, Zenon DEF InPlace

(* A byte that starts a message goes on after the end of one.              *)
LEMMA StartsAfterEnd ==
  ASSUME NEW a \in Byte, NEW b \in Byte, a[2] = MessageLength
  PROVE  Follows(a, b) <=> b[2] = 1
<1>1. b = <<b[1], b[2]>>
  BY DEF Byte
<1> QED BY <1>1 DEF Follows

LEMMA LastByte ==
  ASSUME NEW s \in Seq(Byte), s # <<>>
  PROVE  Last(s) \in Byte /\ s[1] \in Byte /\ Len(s) \in Nat /\ Len(s) >= 1
<1>1. Len(s) \in Nat /\ Len(s) >= 1 /\ Len(s) \in DOMAIN s /\ 1 \in DOMAIN s
  OBVIOUS
<1> QED BY <1>1 DEF Last

(* Whenever nobody is within a write, without TLS, the next message starts *)
(* after the last byte with the kernel.                                    *)
LEMMA SettledFacts ==
  ASSUME TypeOK, Settled
  PROVE  /\ Members(output) \cap Members(wire) = {}
         /\ ~tls /\ output # <<>> => output[1][2] = 1
<1>1. \A i \in (0 + 1)..Len(output) : output[i] \notin Members(wire)
  BY DEF Settled, Joint
<1>2. output \in Seq(Byte) /\ wire \in Seq(Byte)
  BY DEF TypeOK
<1>3. Members(output) \cap Members(wire) = {}
  BY <1>1, <1>2 DEF Members
<1>4. ASSUME ~tls, output # <<>> PROVE output[1][2] = 1
  <2>1. Len(output) >= 1 /\ Len(output) \in Nat /\ output[1] \in Byte
    BY <1>2, <1>4, LastByte
  <2>2. Continues(output[0 + 1]) /\ AtEnd(wire)
    BY <1>4, <2>1 DEF Settled, Joint
  <2>3. CASE wire = <<>>
    BY <2>2, <2>3 DEF Continues
  <2>4. CASE wire # <<>>
    <3>1. Last(wire) \in Byte /\ Last(wire)[2] = MessageLength
      BY <1>2, <2>2, <2>4, LastByte DEF AtEnd
    <3>2. Follows(Last(wire), output[1])
      BY <2>2, <2>4 DEF Continues
    <3> QED BY <2>1, <3>1, <3>2, StartsAfterEnd
  <2> QED BY <2>3, <2>4
<1> QED BY <1>3, <1>4

LEMMA JointAfterEnd ==
  ASSUME NEW o \in Seq(Byte), NEW w \in Seq(Byte), output' = o, wire' = w,
         Members(o) \cap Members(w) = {}, AtEnd(w), o # <<>> => o[1][2] = 1
  PROVE  Settled'
<1>1. ASSUME NEW i \in (0 + 1)..Len(o) PROVE o[i] \notin Members(w)
  <2>1. i \in DOMAIN o
    OBVIOUS
  <2>2. o[i] \in Members(o)
    BY <2>1, Zenon DEF Members
  <2> QED BY <2>2
<1>2. ASSUME 0 < Len(o) PROVE Continues(o[0 + 1])'
  <2>1. o # <<>> /\ o[1] \in Byte
    BY <1>2, LastByte
  <2>2. w # <<>> => Follows(Last(w), o[1])
    BY <2>1, LastByte, StartsAfterEnd DEF AtEnd
  <2> QED BY <2>1, <2>2 DEF Continues
<1>3. (\A i \in (0 + 1)..Len(output) : output[i] \notin Members(wire))'
  BY <1>1
<1>4. (0 < Len(output) => Continues(output[0 + 1]))'
  BY <1>2 DEF Continues
<1>5. AtEnd(wire)'
  BY DEF AtEnd
<1> QED BY <1>3, <1>4, <1>5 DEF Settled, Joint

LEMMA StreamDirect ==
  ASSUME TypeOK, ActorInv, CallsInv, FreshInv, StreamInv,
         NEW e \in Executors, NEW f \in FrameType, DirectStep(e, f)
  PROVE  StreamInv'
<1>1. /\ MoveStep(e, f) /\ output' = output /\ Top(e).at = "direct" /\ valid /\ ~broken
      /\ f.sent > Top(e).sent /\ f.sent <= MessageLength
      /\ f.at = IF f.sent = MessageLength THEN "complete" ELSE "direct"
      /\ wire' = wire \o SubSeq(Bytes(Top(e).msg), Top(e).sent + 1, f.sent)
      /\ f.msg = Top(e).msg /\ frames[e] # <<>>
  BY DEF DirectStep, MoveStep, Inside
<1>2. PICK m, a, n : m = Top(e).msg /\ a = Top(e).sent /\ n = f.sent
  OBVIOUS
<1>3. Top(e) \in FrameType /\ FrameInv(Top(e)) /\ 1 \in DOMAIN frames[e]
  BY <1>1, TopFacts DEF TypeOK
<1>4. a \in Nat /\ n \in Nat /\ Top(e).op = "send" /\ m \in Messages /\ a < MessageLength
  BY <1>1, <1>2, <1>3 DEF FrameType, FrameInv
<1>5. MessageLength \in Nat /\ output \in Seq(Byte) /\ wire \in Seq(Byte)
  BY SizesAssumption DEF TypeOK
<1>6. /\ \A b \in Members(output) : b[1] # m
      /\ \A b \in Members(wire) : b[1] = m => b[2] <= a
  BY <1>1, <1>2, <1>3, <1>4 DEF FreshInv, Fresh, Top
<1>7. At(e, "direct") /\ ~tls
  BY <1>1 DEF At, StreamInv
<1> DEFINE Before == /\ Members(output) \cap Members(wire) = {}
                     /\ output # <<>> => output[1][2] = 1
                     /\ wire # <<>> => Follows(Last(wire), <<m, a + 1>>)
<1>9. Before
  <2>1. CASE a > 0
    BY <1>1, <1>2, <1>4, <1>7, <2>1 DEF StreamInv, Follows
  <2>2. CASE a = 0
    <3>a. ~Mid(e)
      BY <1>2, <2>2 DEF Mid
    <3>b. \A x \in Executors : ~Mid(x)
      BY <1>1, <3>a, NoMid
    <3>1. Settled
      BY <1>1, <3>b DEF StreamInv
    <3>2. AtEnd(wire)
      BY <1>7, <3>1 DEF Settled
    <3>3. wire # <<>> => Follows(Last(wire), <<m, a + 1>>)
      <4>1. <<m, a + 1>> \in Byte /\ <<m, a + 1>>[2] = 1
        BY <1>4, <1>5, <2>2 DEF Byte
      <4> QED BY <1>5, <3>2, <4>1, LastByte, StartsAfterEnd DEF AtEnd
    <3> QED BY <1>7, <3>1, <3>3, SettledFacts
  <2> QED BY <1>4, <2>1, <2>2
<1>10. /\ Bytes(m) \in Seq(Byte) /\ Len(Bytes(m)) = MessageLength
       /\ \A i \in 1..MessageLength : Bytes(m)[i] = <<m, i>>
       /\ Whole(Bytes(m))
  BY <1>4, BytesFacts, WholeBytes
<1>11. PICK o, v : o = Bytes(m) /\ v = wire'
  OBVIOUS
<1>12. v = wire \o SubSeq(o, a + 1, n) /\ a < n /\ n <= Len(o)
  BY <1>1, <1>2, <1>10, <1>11
<1>13. \A i \in (a + 1)..Len(o) : o[i] = <<m, i>> /\ o[i] \notin Members(wire)
  <2> SUFFICES ASSUME NEW i \in (a + 1)..MessageLength
               PROVE  o[i] = <<m, i>> /\ o[i] \notin Members(wire)
    BY <1>10, <1>11
  <2>1. i \in 1..MessageLength /\ ~(i <= a)
    BY <1>4, <1>5
  <2> QED BY <1>6, <1>10, <1>11, <2>1
<1>14. o[a + 1] = <<m, a + 1>> /\ o[n] = <<m, n>>
  BY <1>4, <1>5, <1>10, <1>11, <1>12
<1>15. /\ Whole(v) /\ v \in Seq(Byte) /\ v # <<>> /\ Last(v) = <<m, n>>
       /\ Members(v) = Members(wire) \cup {o[i] : i \in (a + 1)..n}
  <2>1. o \in Seq(Byte) /\ Whole(o) /\ Whole(wire)
    BY <1>10, <1>11 DEF StreamInv
  <2>2. wire # <<>> => Follows(Last(wire), o[a + 1])
    BY <1>9, <1>14
  <2>3. InPlace(wire, o, a, n)
    <3>1. \A i \in (a + 1)..Len(o) : o[i] \notin Members(wire)
      BY <1>13
    <3>2. a < n /\ n <= Len(o)
      BY <1>12
    <3> QED BY <1>4, <1>5, <3>1, <3>2, <2>1, <2>2, Taken
  <2> QED BY <1>12, <1>14, <2>3, Zenon DEF InPlace
<1>16. Members(output) \cap Members(v) = {}
  <2>1. \A b \in Members(v) : b \in Members(wire) \/ b[1] = m
    <3>1. \A i \in (a + 1)..n : i \in (a + 1)..Len(o)
      BY <1>4, <1>5, <1>10, <1>11, <1>12
    <3>2. \A i \in (a + 1)..n : o[i][1] = m
      BY <1>13, <3>1
    <3> QED BY <1>15, <3>2, Zenon
  <2> QED BY <1>6, <1>9, <2>1
<1>17. (Whole(wire) /\ Whole(output) /\ AtEnd(output))'
  BY <1>1, <1>11, <1>15 DEF StreamInv, AtEnd
<1>18. n = MessageLength => Settled'
  <2>1. n = MessageLength => AtEnd(v)
    BY <1>15 DEF AtEnd
  <2> QED BY <1>1, <1>5, <1>9, <1>11, <1>15, <1>16, <2>1, JointAfterEnd
<1>19. f.at = "direct" => ~tls /\ wire' # <<>> /\ Last(wire') = <<f.msg, f.sent>>
                          /\ Members(output') \cap Members(wire') = {}
                          /\ (output' # <<>> => output'[1][2] = 1)
  BY <1>1, <1>2, <1>7, <1>9, <1>11, <1>15, <1>16
<1>20. f.at # "flush" /\ f.sent # 0 /\ (f.at # "direct" => n = MessageLength)
  BY <1>1, <1>2, <1>4
<1> QED BY <1>1, <1>17, <1>18, <1>19, <1>20, StreamMove

LEMMA StreamBuffer ==
  ASSUME ~SplitTimeouts, TypeOK, ActorInv, CallsInv, FreshInv, StreamInv,
         NEW e \in Executors, NEW f \in FrameType, BufferStep(e, f)
  PROVE  StreamInv'
<1>1. /\ MoveStep(e, f) /\ wire' = wire /\ Top(e).at \in {"choose", "direct"}
      /\ f.sent = 0 /\ f.at = "flush" /\ Top(e).sent = 0
      /\ output' = output \o Bytes(Top(e).msg) /\ frames[e] # <<>>
  BY DEF BufferStep, MoveStep, Inside
<1>2. PICK m, t, o : m = Top(e).msg /\ t = Bytes(m) /\ o = output'
  OBVIOUS
<1>3. Top(e) \in FrameType /\ FrameInv(Top(e)) /\ 1 \in DOMAIN frames[e]
  BY <1>1, TopFacts DEF TypeOK
<1>4. Top(e).op = "send" /\ m \in Messages
  BY <1>1, <1>2, <1>3 DEF FrameInv
<1>5. MessageLength \in Nat /\ MessageLength >= 1 /\ output \in Seq(Byte) /\ wire \in Seq(Byte)
  BY SizesAssumption DEF TypeOK
<1>6. /\ \A b \in Members(output) : b[1] # m
      /\ \A b \in Members(wire) : b[1] = m => b[2] <= 0
  BY <1>1, <1>2, <1>3, <1>4 DEF FreshInv, Fresh, Top
<1>7. /\ t \in Seq(Byte) /\ Members(t) = {<<m, i>> : i \in 1..MessageLength} /\ Whole(t)
      /\ t # <<>> /\ t[1] = <<m, 1>> /\ Last(t) = <<m, MessageLength>>
  BY <1>2, <1>4, BytesFacts, WholeBytes
<1>8. o = output \o t
  BY <1>1, <1>2
<1>9. Members(output) \cap Members(t) = {} /\ Members(wire) \cap Members(t) = {}
  <2>1. \A b \in Members(t) : b[1] = m /\ ~(b[2] <= 0)
    BY <1>5, <1>7
  <2> QED BY <1>6, <2>1
<1>10. Whole(output) /\ AtEnd(output) /\ Whole(wire)
  BY DEF StreamInv
<1>11. output # <<>> => Follows(Last(output), t[1])
  <2>1. t[1] \in Byte /\ t[1][2] = 1
    <3>1. t[1] \in Byte
      BY <1>7, LastByte
    <3> QED BY <1>7, <3>1
  <2> QED BY <1>5, <1>10, <2>1, LastByte, StartsAfterEnd DEF AtEnd
<1>12. Whole(o)
  BY <1>5, <1>7, <1>8, <1>9, <1>10, <1>11, WholeConcat
<1>13. /\ o \in Seq(Byte) /\ o # <<>> /\ Last(o) = <<m, MessageLength>>
       /\ o[1] = IF output = <<>> THEN t[1] ELSE output[1]
  <2>1. /\ output \o t \in Seq(Byte) /\ output \o t # <<>> /\ Last(output \o t) = Last(t)
        /\ (output \o t)[1] = IF output = <<>> THEN t[1] ELSE output[1]
    BY <1>5, <1>7, LastFacts
  <2> QED BY <1>7, <1>8, <2>1, Zenon
<1>14. Members(o) = Members(output) \cup Members(t)
  BY <1>5, <1>7, <1>8, MembersConcat
<1>15. (Whole(wire) /\ Whole(output) /\ AtEnd(output))'
  BY <1>1, <1>2, <1>10, <1>12, <1>13 DEF AtEnd
<1>16. ASSUME valid, ~broken PROVE Settled'
  <2>1. Settled
    BY <1>1, <1>16, NoMid DEF StreamInv, Mid
  <2>2. Members(o) \cap Members(wire) = {}
    BY <1>9, <1>14, <2>1, SettledFacts
  <2>3. \A i \in (0 + 1)..Len(o) : o[i] \notin Members(wire)
    BY <1>13, <2>2 DEF Members
  <2>4. Continues(o[1])
    <3>1. CASE output = <<>>
      <4>1. AtEnd(wire)
        BY <2>1, <3>1 DEF Settled, Joint
      <4>2. o[1] = <<m, 1>> /\ o[1] \in Byte
        BY <1>7, <1>13, <3>1, LastByte
      <4>3. wire # <<>> => Follows(Last(wire), o[1])
        BY <1>5, <4>1, <4>2, LastByte, StartsAfterEnd DEF AtEnd
      <4> QED BY <4>2, <4>3 DEF Continues
    <3>2. CASE output # <<>>
      <4>1. 0 < Len(output)
        BY <1>5, <3>2, LastByte
      <4>2. Continues(output[0 + 1])
        BY <2>1, <4>1 DEF Settled, Joint
      <4> QED BY <1>13, <3>2, <4>2
    <3> QED BY <3>1, <3>2
  <2>5. Len(o) # 0
    BY <1>13
  <2>6. ~tls => AtEnd(wire)
    BY <2>1 DEF Settled
  <2>7. tls' = tls
    BY <1>1 DEF MoveStep
  <2>8. Joint(0)'
    <3>1. (\A i \in (0 + 1)..Len(output) : output[i] \notin Members(wire))'
      BY <1>1, <1>2, <2>3
    <3>2. (0 < Len(output) => Continues(output[0 + 1]))'
      BY <1>1, <1>2, <2>4 DEF Continues
    <3>3. (0 = Len(output) => AtEnd(wire))'
      BY <1>2, <2>5
    <3> QED BY <3>1, <3>2, <3>3 DEF Joint
  <2>9. (~tls => AtEnd(wire))'
    BY <1>1, <2>6, <2>7 DEF AtEnd
  <2> QED BY <2>8, <2>9 DEF Settled
<1>17. f.at = "flush" /\ ~(f.sent > 0)
  BY <1>1
<1> QED BY <1>1, <1>15, <1>16, <1>17, StreamMove

LEMMA StreamFlush ==
  ASSUME TypeOK, ActorInv, CallsInv, StreamInv,
         NEW e \in Executors, NEW f \in FrameType, NEW n \in Nat, FlushStep(e, f, n)
  PROVE  StreamInv'
<1>1. /\ MoveStep(e, f) /\ Top(e).at = "flush" /\ f.at = "flush" /\ Usable /\ ~broken
      /\ n > Top(e).sent /\ n <= Len(output)
      /\ wire' = wire \o SubSeq(output, Top(e).sent + 1, n)
      /\ n = Len(output) => output' = Retrieved(n) /\ f.sent = 0
      /\ n # Len(output) => output' = output /\ f.sent = n
      /\ frames[e] # <<>> /\ valid
  BY DEF FlushStep, MoveStep, Inside, Usable
<1>2. PICK a, v : a = Top(e).sent /\ v = wire'
  OBVIOUS
<1>3. Top(e) \in FrameType
  BY <1>1, TopFacts
<1>4. a \in Nat /\ output \in Seq(Byte) /\ wire \in Seq(Byte) /\ Len(output) \in Nat
  BY <1>2, <1>3 DEF FrameType, TypeOK
<1>5. Joint(a)
  <2>1. CASE a > 0
    BY <1>1, <1>2, <2>1 DEF StreamInv, At
  <2>2. CASE a = 0
    <3>1. ~Mid(e)
      BY <1>2, <2>2 DEF Mid
    <3> QED BY <1>1, <2>2, <3>1, NoMid DEF StreamInv, Settled
  <2> QED BY <1>4, <2>1, <2>2
<1>6. Whole(wire) /\ Whole(output) /\ AtEnd(output)
  BY DEF StreamInv
<1>7. a < n /\ a < Len(output)
  BY <1>1, <1>2, <1>4
<1>8. /\ \A i \in (a + 1)..Len(output) : output[i] \notin Members(wire)
      /\ wire # <<>> => Follows(Last(wire), output[a + 1])
  BY <1>5, <1>7 DEF Joint, Continues
<1>9. /\ Whole(v) /\ v \in Seq(Byte) /\ v # <<>> /\ Last(v) = output[n]
      /\ \A i \in (n + 1)..Len(output) : output[i] \notin Members(v)
      /\ n < Len(output) => Follows(Last(v), output[n + 1])
  <2>1. InPlace(wire, output, a, n)
    <3>1. n <= Len(output)
      BY <1>1
    <3> QED BY <1>4, <1>6, <1>7, <1>8, <3>1, Taken
  <2>2. v = wire \o SubSeq(output, a + 1, n)
    BY <1>1, <1>2
  <2> QED BY <2>1, <2>2, Zenon DEF InPlace
<1>10. CASE n = Len(output)
  <2>1. output' = <<>>
    BY <1>1, <1>4, <1>10 DEF Retrieved
  <2>2. AtEnd(v)
    <3>1. output # <<>>
      BY <1>4, <1>7
    <3>2. Last(v) = Last(output)
      BY <1>9, <1>10 DEF Last
    <3> QED BY <1>6, <3>1, <3>2 DEF AtEnd
  <2>3. (Whole(wire) /\ Whole(output) /\ AtEnd(output))'
    <3>1. Whole(<<>>) /\ AtEnd(<<>>)
      BY DEF Whole, AtEnd
    <3> QED BY <1>2, <1>9, <2>1, <3>1 DEF AtEnd
  <2>4. <<>> \in Seq(Byte) /\ Members(<<>>) \cap Members(v) = {}
    BY DEF Members
  <2>5. Settled'
    BY <1>2, <1>9, <2>1, <2>2, <2>4, JointAfterEnd
  <2>6. f.sent = 0 /\ f.at = "flush" /\ ~(f.sent > 0)
    BY <1>1, <1>10
  <2> QED BY <1>1, <2>3, <2>5, <2>6, StreamMove
<1>11. CASE n # Len(output)
  <2>1. n < Len(output) /\ output' = output /\ f.sent = n
    BY <1>1, <1>4, <1>11
  <2>2. (Whole(wire) /\ Whole(output) /\ AtEnd(output))'
    BY <1>2, <1>6, <1>9, <2>1 DEF AtEnd
  <2>3. Joint(n)'
    <3>1. (\A i \in (n + 1)..Len(output) : output[i] \notin Members(wire))'
      BY <1>2, <1>9, <2>1
    <3>2. (n < Len(output) => Continues(output[n + 1]))'
      BY <1>2, <1>9, <2>1 DEF Continues
    <3>3. (n = Len(output) => AtEnd(wire))'
      BY <1>11, <2>1
    <3> QED BY <3>1, <3>2, <3>3 DEF Joint
  <2>4. Joint(f.sent)'
    BY <2>1, <2>3
  <2>5. f.at = "flush" /\ f.sent # 0
    BY <1>1, <1>4, <1>7, <2>1
  <2> QED BY <1>1, <2>2, <2>4, <2>5, StreamMove
<1> QED BY <1>10, <1>11

LEMMA StreamRetrieve ==
  ASSUME TypeOK, ActorInv, CallsInv, StreamInv,
         NEW e \in Executors, NEW f \in FrameType, RetrieveStep(e, f)
  PROVE  StreamInv'
<1>1. /\ MoveStep(e, f) /\ Top(e).at = "flush" /\ f.at = "flush"
      /\ Top(e).sent > 0 /\ f.sent = 0 /\ tls /\ wire' = wire
      /\ output' = Retrieved(Top(e).sent) /\ frames[e] # <<>> /\ tls' = tls
  BY DEF RetrieveStep, MoveStep, Inside
<1>2. PICK a, n, o : a = Top(e).sent /\ n = Len(output) /\ o = output'
  OBVIOUS
<1>3. Top(e) \in FrameType /\ WriteInv(Top(e))
  BY <1>1, TopFacts
<1>4. a \in Nat /\ output \in Seq(Byte) /\ wire \in Seq(Byte) /\ n \in Nat /\ a < n
  BY <1>1, <1>2, <1>3 DEF FrameType, TypeOK, WriteInv
<1>5. Whole(wire) /\ Whole(output) /\ AtEnd(output)
  BY DEF StreamInv
<1>6. o = SubSeq(output, a + 1, n)
  BY <1>1, <1>2 DEF Retrieved
<1>7. a <= n /\ n <= Len(output)
  BY <1>2, <1>4
<1>8. o \in Seq(Byte) /\ Len(o) = n - a /\ \A i \in DOMAIN o : o[i] = output[a + i]
  BY <1>4, <1>6, <1>7, SubFacts
<1>9. Whole(o)
  BY <1>4, <1>5, <1>6, <1>7, WholeSub
<1>10. DOMAIN o = 1..(n - a) /\ n - a \in DOMAIN o /\ 1 \in DOMAIN o
  BY <1>4, <1>8
<1>11. o # <<>> /\ Last(o) = output[n] /\ o[1] = output[a + 1]
  <2>1. Len(o) = n - a /\ o[n - a] = output[a + (n - a)] /\ a + (n - a) = n
    BY <1>4, <1>8, <1>10
  <2>2. o # <<>> /\ o[1] = output[a + 1]
    BY <1>8, <1>10
  <2> QED BY <2>1, <2>2 DEF Last
<1>12. (Whole(wire) /\ Whole(output) /\ AtEnd(output))'
  <2>1. output # <<>>
    BY <1>2, <1>4
  <2> QED BY <1>1, <1>2, <1>5, <1>9, <1>11, <2>1 DEF AtEnd, Last
<1>13. ASSUME valid, ~broken PROVE Settled'
  <2>1. Joint(a)
    BY <1>1, <1>2, <1>13 DEF StreamInv, At
  <2>2. \A i \in (a + 1)..n : output[i] \notin Members(wire)
    BY <1>2, <2>1 DEF Joint
  <2>3. Continues(output[a + 1])
    BY <1>2, <1>4, <2>1 DEF Joint
  <2>4. ASSUME NEW i \in 1..Len(o) PROVE o[i] \notin Members(wire)
    <3>1. i \in DOMAIN o /\ a + i \in (a + 1)..n
      BY <1>4, <1>8, <1>10
    <3> QED BY <1>8, <2>2, <3>1
  <2>5. (\A i \in (0 + 1)..Len(output) : output[i] \notin Members(wire))'
    BY <1>1, <1>2, <2>4
  <2>6. (0 < Len(output) => Continues(output[0 + 1]))'
    BY <1>1, <1>2, <1>11, <2>3 DEF Continues
  <2>7. (0 = Len(output) => AtEnd(wire))'
    BY <1>2, <1>4, <1>8
  <2> QED BY <1>1, <2>5, <2>6, <2>7 DEF Settled, Joint
<1>14. f.at = "flush" /\ ~(f.sent > 0)
  BY <1>1
<1> QED BY <1>1, <1>12, <1>13, <1>14, StreamMove

LEMMA StreamInternal ==
  ASSUME ~SplitTimeouts, TypeOK, ActorInv, CallsInv, FreshInv, StreamInv,
         NEW e \in Executors, InternalStep(e)
  PROVE  StreamInv'
BY StreamQuiet, StreamBuffer, StreamDirect, StreamFlush, StreamRetrieve, StreamOver DEF InternalStep

(* A call begins where none was in progress.                               *)
LEMMA StreamSet ==
  ASSUME TypeOK, StreamInv, NEW e \in Executors, NEW r, NEW c,
         \A x \in Executors : frames[x] = <<>>,
         frames' = [frames EXCEPT ![e] = <<Frame(r, c)>>],
         UNCHANGED <<output, wire, tls, valid, broken>>
  PROVE  StreamInv'
<1>1. PICK g : g = Frame(r, c)
  OBVIOUS
<1>2. g.sent = 0 /\ g.at # "direct"
  BY <1>1 DEF Frame
<1>3. frames'[e] = <<g>> /\ \A x \in Executors : x # e => frames'[x] = <<>>
  BY <1>1 DEF TypeOK
<1>4. \A x \in Executors : ~Mid(x)
  BY DEF Mid, At
<1>5. \A x \in Executors : frames'[x] = <<>> \/ frames'[x][1] = g
  BY <1>3
<1>6. \A x \in Executors : ~Mid(x)' /\ ~At(x, "direct")'
  BY <1>2, <1>5 DEF Mid, At, Top
<1> QED BY <1>4, <1>6, StreamRest

(* A callback's call begins: the call around it is not within a write.     *)
LEMMA StreamPush ==
  ASSUME TypeOK, ActorInv, StreamInv, NEW e \in Executors, NEW r \in Requests, Reenter(e, r)
  PROVE  StreamInv'
<1>1. UNCHANGED <<output, wire, tls, valid, broken>>
  BY DEF Reenter, svars
<1>2. /\ frames[e] # <<>> /\ Top(e).at \in {"high_water", "complete", "flushed"}
      /\ frames'[e][1] = Frame(r, e)
      /\ \A x \in Executors : x # e => frames'[x] = frames[x]
  BY PushedFrames
<1>3. PICK g : g = Frame(r, e)
  OBVIOUS
<1>4. g.sent = 0 /\ g.at # "direct"
  BY <1>3 DEF Frame
<1>5. \A x \in Executors : ~Mid(x)
  <2>1. ~Mid(e)
    BY <1>2 DEF Mid, At
  <2> QED BY <1>2, <2>1, NoMid
<1>6. \A x \in Executors : x # e => frames'[x] = <<>>
  BY <1>2, OnlyOne
<1>7. \A x \in Executors : frames'[x] = <<>> \/ frames'[x][1] = g
  BY <1>2, <1>3, <1>6
<1>8. \A x \in Executors : ~Mid(x)' /\ ~At(x, "direct")'
  BY <1>4, <1>7 DEF Mid, At, Top
<1> QED BY <1>1, <1>5, <1>8, StreamRest

(* Nothing that the invariant names changes.                               *)
LEMMA StreamSame ==
  ASSUME StreamInv, UNCHANGED <<output, wire, tls, valid, broken, frames>>
  PROVE  StreamInv'
<1>1. \A x \in Executors : (Mid(x)' <=> Mid(x)) /\ Top(x)' = Top(x)
  BY DEF Mid, At, Top
<1>2. Settled' <=> Settled
  BY DEF Settled, Joint, Continues, AtEnd
<1>3. \A n : Joint(n)' <=> Joint(n)
  BY DEF Joint, Continues, AtEnd
<1>4. (Whole(wire) /\ Whole(output) /\ AtEnd(output))'
  BY DEF StreamInv, AtEnd
<1>5. \A x \in Executors : \A p : At(x, p)' <=> At(x, p)
  BY DEF At, Top
<1>6. ASSUME valid', ~broken', \A e \in Executors : ~Mid(e)' PROVE Settled'
  BY <1>1, <1>2, <1>6 DEF StreamInv
<1>7. ASSUME valid', ~broken', NEW e \in Executors, At(e, "flush")', Top(e)'.sent > 0
      PROVE  Joint(Top(e).sent)'
  <2>1. PICK n : n = Top(e).sent
    OBVIOUS
  <2>2. Joint(n)
    BY <1>1, <1>5, <1>7, <2>1 DEF StreamInv
  <2>3. Joint(n)' /\ (Top(e).sent)' = n
    BY <1>1, <1>3, <2>1, <2>2
  <2> QED BY <2>3 DEF Joint
<1>8. ASSUME valid', ~broken', NEW e \in Executors, At(e, "direct")'
      PROVE  /\ ~tls'
             /\ Top(e)'.sent > 0 =>
                  /\ wire' # <<>> /\ Last(wire') = <<Top(e)'.msg, Top(e)'.sent>>
                  /\ Members(output') \cap Members(wire') = {}
                  /\ output' # <<>> => output'[1][2] = 1
  BY <1>1, <1>5, <1>8 DEF StreamInv
<1> QED BY <1>4, <1>6, <1>7, <1>8 DEF StreamInv

(* The bytes stay in their places in every step of a connection whose      *)
(* writes do not time out half way.                                        *)
LEMMA StreamStep ==
  ASSUME ~SplitTimeouts, Inv, StreamInv, [Next]_vars
  PROVE  StreamInv'
<1>0. TypeOK /\ ActorInv /\ EventInv /\ CallsInv /\ FreshInv
  BY DEF Inv
<1>1. ASSUME NEW c \in Callers, GoOn(c) PROVE StreamInv'
  <2>1. CASE BeginInline(c)
    <3>1. /\ UNCHANGED <<output, wire, tls, valid, broken>>
          /\ frames' = [frames EXCEPT ![c] = <<Frame(request[c], c)>>]
          /\ pc[c] = "called" /\ ~actor_running /\ c \in Executors
      BY <2>1 DEF BeginInline, MayBegin, svars, Executors
    <3>2. \A x \in Executors : frames[x] = <<>>
      BY <1>0, <3>1 DEF ActorInv, Active
    <3>3. PICK r : r = request[c]
      OBVIOUS
    <3>4. frames' = [frames EXCEPT ![c] = <<Frame(r, c)>>]
      BY <3>1, <3>3
    <3>5. UNCHANGED <<output, wire, tls, valid, broken>> /\ c \in Executors
      BY <3>1
    <3> QED BY <1>0, <3>2, <3>4, <3>5, StreamSet
  <2>2. CASE NotInline(c) \/ Dispatch(c) \/ Returns(c)
    <3>1. UNCHANGED <<output, wire, tls, valid, broken, frames>>
      BY <2>2 DEF NotInline, Dispatch, Returns, svars
    <3> QED BY <3>1, StreamSame
  <2> QED BY <1>1, <2>1, <2>2 DEF GoOn
<1>2. ASSUME NEW c \in Callers, NEW r \in Requests, Call(c, r) PROVE StreamInv'
  <2>1. UNCHANGED <<output, wire, tls, valid, broken, frames>>
    BY <1>2 DEF Call, svars
  <2> QED BY <2>1, StreamSame
<1>3. ASSUME NEW e \in Executors, Work(e) PROVE StreamInv'
  <2>1. CASE DrainTakes(e)
    <3>1. PICK r, c : r = request[Head(mailbox)] /\ c = Head(mailbox)
      OBVIOUS
    <3>2. /\ UNCHANGED <<output, wire, tls, valid, broken>>
          /\ frames' = [frames EXCEPT ![e] = <<Frame(r, c)>>] /\ pc[e] = "take"
      BY <2>1, <3>1 DEF DrainTakes, svars
    <3>3. \A x \in Executors : frames[x] = <<>>
      BY <1>0, <3>2 DEF ActorInv, Active
    <3> QED BY <1>0, <3>2, <3>3, StreamSet
  <2>2. CASE DrainBegins(e) \/ DrainEnds(e)
    <3>1. UNCHANGED <<output, wire, tls, valid, broken, frames>>
      BY <2>2 DEF DrainBegins, DrainEnds, svars
    <3> QED BY <3>1, StreamSame
  <2>3. CASE InternalStep(e)
    BY <1>0, <2>3, StreamInternal
  <2> QED BY <1>0, <1>3, <2>1, <2>2, <2>3, WorkCases
<1>4. ASSUME NEW e \in Executors, NEW r \in Requests, Reenter(e, r) PROVE StreamInv'
  BY <1>0, <1>4, StreamPush
<1>5. CASE PeerResets
  <2>1. UNCHANGED <<output, wire>> /\ broken' = TRUE
    BY <1>5 DEF PeerResets, svars
  <2> QED BY <2>1 DEF StreamInv, AtEnd
<1>6. CASE UNCHANGED vars
  <2>1. UNCHANGED <<output, wire, tls, valid, broken, frames>>
    BY <1>6 DEF vars, svars
  <2> QED BY <2>1, StreamSame
<1> QED BY <1>1, <1>2, <1>3, <1>4, <1>5, <1>6 DEF Next

-----------------------------------------------------------------------------
(* Theorems                                                                *)

LEMMA InitInv ==
  ASSUME Init
  PROVE  Inv /\ StreamInv
<1> USE DEF Init
<1>0. Members(wire) = {} /\ Members(output) = {} /\ Members(mailbox) = {} /\ Carried = {}
  BY DEF Members, Carried
<1>1. TypeOK
  <2>1. <<>> \in Seq(Byte) /\ <<>> \in Seq(Callers) /\ <<>> \in Seq(FrameType)
    OBVIOUS
  <2>2. /\ pc \in [Executors -> {"out", "called", "inline", "dispatch", "waiting",
                                 "drain", "take", "busy"}]
        /\ request \in [Callers -> Requests \cup {NoRequest}]
        /\ frames \in [Executors -> Seq(FrameType)]
    BY <2>1
  <2> QED BY <2>1, <2>2 DEF TypeOK
<1>2. \A e \in Executors : pc[e] = "out" /\ frames[e] = <<>>
  OBVIOUS
<1>3. ActorInv
  BY <1>2 DEF ActorInv, Active, Executors
<1>4. Served = {}
  BY <1>2 DEF Served
<1>5. EventInv
  BY <1>0, <1>2, <1>4 DEF EventInv, Distinct, Executors
<1>6. CallsInv
  BY <1>2 DEF CallsInv
<1>7. \A c \in Callers : ~Waits(c)
  BY <1>0, <1>2 DEF Waits, Executors
<1>8. FreshInv
  BY <1>0, <1>2, <1>7 DEF FreshInv, Untouched
<1>9. \A e \in Executors : \A p : ~At(e, p)
  BY <1>2 DEF At
<1>10. Settled
  BY DEF Settled, Joint, AtEnd
<1>11. Whole(wire) /\ Whole(output) /\ AtEnd(output)
  BY DEF Whole, AtEnd
<1>12. StreamInv
  BY <1>9, <1>10, <1>11 DEF StreamInv
<1> QED BY <1>1, <1>3, <1>5, <1>6, <1>8, <1>12 DEF Inv

(* Every state of a connection has the shape TypeOK says; in particular no *)
(* call stands at "stuck", where a callback of the actor would wait in     *)
(* dispatch_event_and_wait for the event it has to drain itself.           *)
THEOREM ConnectionTypes == Spec => []TypeOK
<1>1. Init => Inv
  BY InitInv
<1>2. Inv /\ [Next]_vars => Inv'
  BY InvStep
<1>3. Inv => TypeOK
  BY DEF Inv
<1> QED BY <1>1, <1>2, <1>3, PTL DEF Spec

LEMMA AloneFromInv ==
  ASSUME Inv
  PROVE  ActorIsAlone
<1> DEFINE S == {e \in Executors : frames[e] # <<>>}
<1>1. CASE S = {}
  <2>1. Cardinality(S) = 0
    BY <1>1, FS_EmptySet
  <2> QED BY <2>1 DEF ActorIsAlone
<1>2. CASE S # {}
  <2>1. PICK e \in S : TRUE
    BY <1>2
  <2>2. S = {e}
    BY <2>1, OnlyOne DEF Inv
  <2>3. Cardinality(S) = 1
    BY <2>2, FS_Singleton
  <2> QED BY <2>3 DEF ActorIsAlone
<1> QED BY <1>1, <1>2

LEMMA KeptFromInv ==
  ASSUME Inv
  PROVE  AckedIsKept /\ ShutdownDelivers
<1>1. TypeOK /\ CallsInv
  BY DEF Inv
<1>2. ASSUME NEW m \in acked, NEW i \in 1..MessageLength
      PROVE  \E s \in {wire, output} : \E j \in DOMAIN s : s[j] = <<m, i>>
  <2>1. <<m, i>> \in Members(wire) \cup Members(output)
    BY <1>1 DEF CallsInv, Kept, Carried
  <2> QED BY <2>1 DEF Members
<1>3. ASSUME NEW e \in Executors, At(e, "closing"), ~broken, NEW m \in Top(e).owed,
             NEW i \in 1..MessageLength
      PROVE  \E j \in DOMAIN wire : wire[j] = <<m, i>>
  <2>1. FrameInv(Top(e))
    BY <1>1, <1>3, TopFacts DEF At
  <2>2. <<m, i>> \in Members(wire)
    BY <1>3, <2>1 DEF FrameInv, Gone, At
  <2> QED BY <2>2 DEF Members
<1> QED BY <1>2, <1>3 DEF AckedIsKept, ShutdownDelivers

(* At most one coroutine is inside an _internal function, a send() that    *)
(* returned its length has lost no byte, and shutdown() closes behind what *)
(* was acknowledged before it: for any callers and messages, whatever      *)
(* times out, and however callbacks call the connection again.             *)
THEOREM ActorSerialises == Spec => [](ActorIsAlone /\ AckedIsKept /\ ShutdownDelivers)
<1>1. Init => Inv
  BY InitInv
<1>2. Inv /\ [Next]_vars => Inv'
  BY InvStep
<1>3. Inv => ActorIsAlone /\ AckedIsKept /\ ShutdownDelivers
  BY AloneFromInv, KeptFromInv
<1> QED BY <1>1, <1>2, <1>3, PTL DEF Spec

(* The connection is sound where no co_send times out after it has sent    *)
(* some bytes: the actor is alone, the peer sees whole messages, each once *)
(* and none inside another, although send_internal writes past             *)
(* output_buffer_ or through it, and what was acknowledged is kept.        *)
THEOREM ConnectionIsSound ==
  ASSUME ~SplitTimeouts
  PROVE  Spec => []ConnectionSound
<1>1. Init => Inv /\ StreamInv
  BY InitInv
<1>2. Inv /\ StreamInv /\ [Next]_vars => (Inv /\ StreamInv)'
  BY InvStep, StreamStep
<1>3. Inv /\ StreamInv => ConnectionSound
  BY AloneFromInv, KeptFromInv DEF ConnectionSound, StreamInv, MessagesWhole
<1> QED BY <1>1, <1>2, <1>3, PTL DEF Spec
=============================================================================
