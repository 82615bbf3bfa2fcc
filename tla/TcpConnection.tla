--------------------------- MODULE TcpConnection ---------------------------
(***************************************************************************)
(* znet::TcpConnection: read, send, flush_output, shutdown and close are   *)
(* serialised by an actor.  A caller on the actor's scheduler becomes the  *)
(* actor if nobody is; everybody else puts an event into mailbox_, for the *)
(* actor or for a worker coroutine that is launched to be it.              *)
(*                                                                         *)
(* Bytes are <<message, i>>.  What a call does between two points where    *)
(* another coroutine or thread may run (a lock, an IO wait, a callback) is *)
(* one action.  The completion of an event is a WaitGroup, taken to keep   *)
(* its promise.                                                            *)
(***************************************************************************)
EXTENDS Naturals, Sequences, FiniteSets

CONSTANTS
  Locals,         \* coroutines on the actor's scheduler
  Foreigners,     \* threads, and coroutines of other schedulers
  Worker,         \* the coroutine dispatch_event_and_wait launches
  Nobody,
  Messages,       \* payloads, each sent once
  MessageLength,
  HighWaterMark,
  MaxDepth,       \* bound: calls nested through callbacks
  MaxCalls,       \* bound: calls
  SplitTimeouts   \* may co_send time out after it has sent some bytes?
                  \* FALSE leaves those runs out.

Callers   == Locals \cup Foreigners
Executors == Callers \cup {Worker}

ASSUME SizesAssumption ==
  /\ MessageLength \in Nat \ {0} /\ HighWaterMark \in Nat
  /\ MaxDepth \in Nat \ {0} /\ MaxCalls \in Nat
ASSUME SplitAssumption == SplitTimeouts \in BOOLEAN
ASSUME PeopleAssumption ==
  Locals \cap Foreigners = {} /\ Worker \notin Callers /\ Nobody \notin Executors

VARIABLES
  tls,              \* tls_channel_ is set
  state,            \* state_
  valid,            \* socket_->is_valid()
  broken,           \* the peer has reset the connection
  output,           \* output_buffer_
  wire,             \* what the kernel has taken
  mailbox,          \* mailbox_: whose events wait
  actor_running,    \* actor_running_
  actor_coroutine,  \* actor_coroutine_
  pc,               \* where each executor stands
  request,          \* the operation each caller has called
  frames,           \* calls each executor has in progress, innermost first
  completed,        \* callers whose event->completion is done
  calls,            \* calls so far
  unsent,           \* payloads nobody has sent yet
  acked             \* messages whose send() has returned its length

svars == <<tls, state, valid, output, wire>>
avars == <<mailbox, actor_running, actor_coroutine>>
cvars == <<pc, request, completed>>
bvars == <<calls, unsent>>
vars  == <<svars, broken, avars, cvars, frames, bvars, acked>>

None           == "none"
Bytes(m)       == [i \in 1..MessageLength |-> <<m, i>>]
Request(op, m) == [op |-> op, msg |-> m]
NoRequest      == Request("none", None)
Requests       == [op : {"send"}, msg : Messages]
                    \cup [op : {"read", "flush", "shutdown", "close"}, msg : {None}]

(* A call of one of the _internal functions for the caller `of`: where it  *)
(* stands, how many bytes the kernel has taken of the write it is in,      *)
(* old_pending, whether a flush has sent anything, and what was            *)
(* acknowledged when it began.                                             *)
Frame(r, c) == [op |-> r.op, msg |-> r.msg, of |-> c, sent |-> 0, pending |-> 0,
                at |-> (IF r.op = "flush" THEN "flush" ELSE "start"),
                flushed |-> FALSE, owed |-> acked]

Init ==
  /\ tls \in BOOLEAN
  /\ state = "connected" /\ valid = TRUE /\ broken = FALSE
  /\ output = <<>> /\ wire = <<>>
  /\ mailbox = <<>>
  /\ actor_running = FALSE /\ actor_coroutine = Nobody
  /\ pc = [e \in Executors |-> "out"]
  /\ request = [c \in Callers |-> NoRequest]
  /\ frames = [e \in Executors |-> <<>>]
  /\ completed = {}
  /\ calls = 0 /\ unsent = Messages
  /\ acked = {}

-----------------------------------------------------------------------------
(* The actor.                                                              *)

Go(e, place) == pc' = [pc EXCEPT ![e] = place]

\* Some call of the user's; a payload is sent once.
Choose(r) ==
  /\ calls < MaxCalls /\ calls' = calls + 1
  /\ r.op = "send" => r.msg \in unsent
  /\ unsent' = unsent \ {r.msg}

Call(c, r) ==
  /\ pc[c] = "out"
  /\ Choose(r)
  /\ request' = [request EXCEPT ![c] = r]
  /\ Go(c, "called")
  /\ UNCHANGED <<svars, broken, avars, completed, frames, acked>>

\* Mutant: an actor that is running is not looked for.
MayBeginAlways(c) == c \in Locals
MayBegin(c) == c \in Locals /\ ~actor_running

\* try_begin_inline_actor
BeginInline(c) ==
  /\ pc[c] = "called" /\ MayBegin(c)
  /\ actor_running' = TRUE /\ actor_coroutine' = c
  /\ frames' = [frames EXCEPT ![c] = <<Frame(request[c], c)>>]
  /\ Go(c, "inline")
  /\ UNCHANGED <<svars, broken, mailbox, request, completed, bvars, acked>>

NotInline(c) ==
  /\ pc[c] = "called" /\ ~MayBegin(c)
  /\ Go(c, "dispatch")
  /\ UNCHANGED <<svars, broken, avars, request, completed, frames, bvars, acked>>

\* dispatch_event_and_wait under actor_mutex_, and whom it starts.
Dispatch(c) ==
  /\ pc[c] = "dispatch"
  /\ mailbox' = Append(mailbox, c)
  /\ actor_running' = TRUE
  /\ pc' = IF actor_running THEN [pc EXCEPT ![c] = "waiting"]
           ELSE IF c \in Locals THEN [pc EXCEPT ![c] = "drain"]
           ELSE [pc EXCEPT ![c] = "waiting", ![Worker] = "drain"]
  /\ UNCHANGED <<svars, broken, actor_coroutine, request, completed, frames, bvars, acked>>

\* Mutant: a worker that was launched does not name itself.
DrainBeginsUnnamed(e) ==
  /\ pc[e] = "drain"
  /\ Go(e, "take")
  /\ UNCHANGED <<svars, broken, avars, request, completed, frames, bvars, acked>>

DrainBegins(e) ==
  /\ pc[e] = "drain"
  /\ actor_coroutine' = e
  /\ Go(e, "take")
  /\ UNCHANGED <<svars, broken, mailbox, actor_running, request, completed, frames, bvars, acked>>

DrainTakes(e) ==
  /\ pc[e] = "take" /\ mailbox # <<>>
  /\ mailbox' = Tail(mailbox)
  /\ frames' = [frames EXCEPT ![e] = <<Frame(request[Head(mailbox)], Head(mailbox))>>]
  /\ Go(e, "busy")
  /\ UNCHANGED <<svars, broken, actor_running, actor_coroutine, request, completed, bvars, acked>>

\* A caller that drained for its own event goes on to its completion; one
\* whose call was inline returns.
DrainEnds(e) ==
  /\ pc[e] = "take" /\ mailbox = <<>>
  /\ actor_running' = FALSE /\ actor_coroutine' = Nobody
  /\ Go(e, IF e \in Callers /\ request[e] # NoRequest THEN "waiting" ELSE "out")
  /\ UNCHANGED <<svars, broken, mailbox, request, completed, frames, bvars, acked>>

Returns(c) ==
  /\ pc[c] = "waiting" /\ c \in completed
  /\ completed' = completed \ {c}
  /\ request' = [request EXCEPT ![c] = NoRequest]
  /\ Go(c, "out")
  /\ UNCHANGED <<svars, broken, avars, frames, bvars, acked>>

-----------------------------------------------------------------------------
(* One call of an _internal function: frames[e][1] is the innermost.       *)

Top(e)     == frames[e][1]
At(e, p)   == frames[e] # <<>> /\ Top(e).at = p
Is(e, op)  == At(e, "start") /\ Top(e).op = op
Move(e, f) == frames' = [frames EXCEPT ![e] = <<f>> \o Tail(@)]
To(e, p)   == Move(e, [Top(e) EXCEPT !.at = p])

\* Nothing but the innermost call and the connection moves.
Within == UNCHANGED <<broken, avars, cvars, bvars, acked>>

\* The call is over: the callback it was made from goes on, or its event is
\* completed, or, if it was inline, the mailbox is drained.
Over(e) ==
  /\ frames' = [frames EXCEPT ![e] = Tail(@)]
  /\ IF Len(frames[e]) > 1 THEN UNCHANGED cvars
     ELSE IF pc[e] = "inline"
       THEN /\ request' = [request EXCEPT ![e] = NoRequest]
            /\ Go(e, "drain")
            /\ UNCHANGED completed
       ELSE /\ completed' = completed \cup {Top(e).of}
            /\ Go(e, "take")
            /\ UNCHANGED request
  /\ UNCHANGED <<broken, avars, bvars>>

Fails(e) == Over(e) /\ UNCHANGED <<svars, acked>>

Usable == state \in {"connected", "disconnecting"} /\ valid

\* close_internal
Close ==
  IF state = "disconnected" THEN UNCHANGED <<tls, state, valid>>
  ELSE state' = "disconnected" /\ tls' = FALSE /\ valid' = FALSE

\* A callback makes a call.  dispatch_event_and_wait runs it at once if the
\* actor is this coroutine, which would otherwise wait for itself.
Reenter(e, r) ==
  /\ \E p \in {"high_water", "complete", "flushed"} : At(e, p)
  /\ Len(frames[e]) < MaxDepth
  /\ Choose(r)
  /\ IF actor_coroutine = e
       THEN frames' = [frames EXCEPT ![e] = <<Frame(r, e)>> \o @]
       ELSE To(e, "stuck")
  /\ UNCHANGED <<svars, broken, avars, cvars, acked>>

Read(e) ==
  /\ Is(e, "read")
  /\ \/ ~Usable /\ Fails(e)
     \/ Usable /\ To(e, "reading") /\ Within /\ UNCHANGED svars

\* Data, a timeout, an error; or the end of the stream.
ReadEnds(e) ==
  /\ At(e, "reading")
  /\ \/ Fails(e)
     \/ state' = "disconnected" /\ Over(e) /\ UNCHANGED <<tls, valid, output, wire, acked>>

-----------------------------------------------------------------------------
(* send_internal                                                           *)

Send(e) ==
  /\ Is(e, "send")
  /\ \/ state = "disconnected" /\ Fails(e)
     \/ /\ state # "disconnected"
        /\ LET old == Len(output)
               crossed == old < HighWaterMark /\ old + MessageLength >= HighWaterMark
           IN  Move(e, [Top(e) EXCEPT !.pending = old,
                                      !.at = IF crossed THEN "high_water" ELSE "choose"])
        /\ Within /\ UNCHANGED svars

HighWaterReturns(e) ==
  /\ At(e, "high_water")
  /\ To(e, "choose")
  /\ Within /\ UNCHANGED svars

Buffered(m) == output \o Bytes(m)

Buffer(e) ==
  /\ output' = Buffered(Top(e).msg)
  /\ Move(e, [Top(e) EXCEPT !.sent = 0, !.at = "flush"])
  /\ Within /\ UNCHANGED <<tls, state, valid, wire>>

SendChoose(e) ==
  /\ At(e, "choose")
  /\ \/ ~tls /\ Top(e).pending = 0 /\ To(e, "direct") /\ Within /\ UNCHANGED svars
     \/ (tls \/ Top(e).pending > 0) /\ Buffer(e)

\* co_send of the message, with nothing buffered: the kernel takes k bytes.
DirectSends(e, k) ==
  /\ At(e, "direct") /\ valid /\ ~broken
  /\ LET sent == Top(e).sent + k
     IN  /\ sent <= MessageLength
         /\ wire' = wire \o SubSeq(Bytes(Top(e).msg), Top(e).sent + 1, sent)
         /\ Move(e, [Top(e) EXCEPT !.sent = sent,
                                   !.at = IF sent = MessageLength THEN "complete" ELSE @])
  /\ Within /\ UNCHANGED <<tls, state, valid, output>>

\* May a co_send that has moved `sent` bytes run into its timeout?  The flush
\* of shutdown() has none.
MayTimeOut(op, sent) == op # "shutdown" /\ (sent = 0 \/ SplitTimeouts)

\* A timeout leaves EAGAIN in errno, or whatever other coroutines put there.
DirectTimesOut(e) ==
  /\ At(e, "direct") /\ valid /\ MayTimeOut("send", Top(e).sent)
  /\ Buffer(e) \/ Fails(e)

\* Socket::send of a closed socket does not set errno.
DirectFails(e) ==
  /\ At(e, "direct")
  /\ \/ (broken \/ ~valid) /\ Fails(e)
     \/ ~valid /\ Buffer(e)

\* send() returns the length, after close_internal if shutdown() was waiting.
Acknowledge(e, close) ==
  /\ IF state = "disconnecting" /\ close THEN Close ELSE UNCHANGED <<tls, state, valid>>
  /\ acked' = acked \cup {Top(e).msg}
  /\ Over(e)
  /\ UNCHANGED <<output, wire>>

CompleteReturns(e) ==
  /\ At(e, "complete")
  /\ Acknowledge(e, TRUE)

-----------------------------------------------------------------------------
(* flush_output_internal, from flush_output, send and shutdown             *)

Retrieved(n) == SubSeq(output, n + 1, Len(output))

\* The end of a flush, for each of its callers.
FlushEnds(e, ok) ==
  IF Top(e).op = "shutdown" THEN To(e, "closing") /\ Within /\ UNCHANGED svars
  ELSE IF Top(e).op = "send" /\ ok THEN Acknowledge(e, output = <<>>)
  ELSE Fails(e)

\* The kernel, or SSL_write, takes k bytes; the buffer is moved on when all
\* of it went out.
FlushSends(e, k) ==
  /\ At(e, "flush") /\ Usable /\ ~broken
  /\ LET sent == Top(e).sent + k
     IN  /\ sent <= Len(output)
         /\ wire' = wire \o SubSeq(output, Top(e).sent + 1, sent)
         /\ IF sent = Len(output)
              THEN /\ output' = Retrieved(sent)
                   /\ Move(e, [Top(e) EXCEPT !.sent = 0, !.flushed = TRUE])
              ELSE /\ UNCHANGED output
                   /\ Move(e, [Top(e) EXCEPT !.sent = sent])
  /\ Within /\ UNCHANGED <<tls, state, valid>>

\* A timeout or a reset.  co_send forgets what it has sent; the TLS channel
\* reports it, and fails the next time.
FlushStops(e) ==
  /\ At(e, "flush") /\ Usable /\ output # <<>>
  /\ \/ /\ tls /\ (broken \/ Top(e).op # "shutdown")
        /\ IF Top(e).sent = 0 THEN FlushEnds(e, FALSE)
           ELSE /\ output' = Retrieved(Top(e).sent)
                /\ Move(e, [Top(e) EXCEPT !.sent = 0, !.flushed = TRUE])
                /\ Within /\ UNCHANGED <<tls, state, valid, wire>>
     \/ ~tls /\ MayTimeOut(Top(e).op, Top(e).sent) /\ \E ok \in BOOLEAN : FlushEnds(e, ok)
     \/ ~tls /\ broken /\ FlushEnds(e, FALSE)

FlushEmpty(e) ==
  /\ At(e, "flush")
  /\ \/ ~Usable /\ FlushEnds(e, FALSE)
     \/ Usable /\ output = <<>> /\ ~Top(e).flushed /\ FlushEnds(e, TRUE)
     \/ Usable /\ output = <<>> /\ Top(e).flushed /\ To(e, "flushed") /\ Within /\ UNCHANGED svars

FlushedReturns(e) ==
  /\ At(e, "flushed")
  /\ FlushEnds(e, TRUE)

-----------------------------------------------------------------------------
(* shutdown_internal and close_internal                                    *)

Shutdown(e) ==
  /\ Is(e, "shutdown")
  /\ \/ state = "disconnected" /\ Fails(e)
     \/ /\ state # "disconnected"
        /\ state' = "disconnecting"
        /\ To(e, "flush")
        /\ Within /\ UNCHANGED <<tls, valid, output, wire>>

\* shutdown_tls_internal gives up after a second.
ShutdownCloses(e) ==
  /\ At(e, "closing") \/ Is(e, "close")
  /\ Close
  /\ Over(e)
  /\ UNCHANGED <<output, wire, acked>>

PeerResets ==
  /\ ~broken /\ valid
  /\ broken' = TRUE
  /\ UNCHANGED <<svars, avars, cvars, frames, bvars, acked>>

-----------------------------------------------------------------------------
Sends(e) == \E k \in 1..(MessageLength * MaxCalls) : DirectSends(e, k) \/ FlushSends(e, k)

Work(e) ==
  \/ DrainBegins(e) \/ DrainTakes(e) \/ DrainEnds(e)
  \/ Read(e) \/ ReadEnds(e)
  \/ Send(e) \/ HighWaterReturns(e) \/ SendChoose(e) \/ Sends(e)
  \/ DirectTimesOut(e) \/ DirectFails(e) \/ CompleteReturns(e)
  \/ FlushStops(e) \/ FlushEmpty(e) \/ FlushedReturns(e)
  \/ Shutdown(e) \/ ShutdownCloses(e)

GoOn(c) == BeginInline(c) \/ NotInline(c) \/ Dispatch(c) \/ Returns(c)

Next ==
  \/ \E c \in Callers : GoOn(c) \/ \E r \in Requests : Call(c, r)
  \/ \E e \in Executors : Work(e) \/ \E r \in Requests : Reenter(e, r)
  \/ PeerResets

Spec == Init /\ [][Next]_vars

(* Threads keep running, a worker coroutine that was launched runs,        *)
(* callbacks return, a read ends (the peer sends or closes, or the read    *)
(* has a timeout), and a peer whose window is full reads on or resets.     *)
FairSpec ==
  /\ Spec
  /\ \A c \in Callers : WF_vars(GoOn(c))
  /\ \A e \in Executors : WF_vars(Work(e))

-----------------------------------------------------------------------------
(* The actor serialises: at most one coroutine is inside read_internal,    *)
(* send_internal, flush_output_internal, shutdown_internal or              *)
(* close_internal, however inline callers, the worker and mailbox_        *)
(* hand-overs interleave.                                                  *)
ActorIsAlone == Cardinality({e \in Executors : frames[e] # <<>>}) <= 1

\* Each byte once, and after a byte that is not a last one comes the next.
Whole(s) ==
  /\ \A i, j \in DOMAIN s : s[i] = s[j] => i = j
  /\ \A i \in 1..(Len(s) - 1) :
        s[i + 1] = IF s[i][2] = MessageLength THEN <<s[i + 1][1], 1>>
                   ELSE <<s[i][1], s[i][2] + 1>>

(* The peer sees whole messages, each once and none inside another,        *)
(* although a message goes partly past the buffer and partly through it    *)
(* and callbacks send from inside a send.                                  *)
MessagesWhole == Whole(wire)

(* A send() that returned the length has not lost a byte: each is with the *)
(* kernel or still in output_buffer_.                                      *)
AckedIsKept ==
  \A m \in acked : \A i \in 1..MessageLength :
     \E s \in {wire, output} : \E j \in DOMAIN s : s[j] = <<m, i>>

(* shutdown() delivers before it closes: when its flush is over, what was  *)
(* acknowledged before it is with the kernel, unless the peer has reset    *)
(* the connection.                                                         *)
ShutdownDelivers ==
  \A e \in Executors : At(e, "closing") /\ ~broken =>
     \A m \in Top(e).owed, i \in 1..MessageLength : \E j \in DOMAIN wire : wire[j] = <<m, i>>

(* One actor at a time, and no byte lost, doubled or out of its place.     *)
ConnectionSound == ActorIsAlone /\ MessagesWhole /\ AckedIsKept /\ ShutdownDelivers

(* Every call returns: no event is left in the mailbox with nobody to      *)
(* drain it, and a callback that calls the connection again does not wait  *)
(* for itself.                                                             *)
CallsReturn == \A c \in Callers : pc[c] # "out" ~> pc[c] = "out"
=============================================================================
