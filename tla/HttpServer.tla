----------------------------- MODULE HttpServer -----------------------------
(***************************************************************************)
(* zhttp::HttpServer on znet::TcpServer and znet::Acceptor: one coroutine  *)
(* per connection reads, parses and answers; websocket sessions, marks of  *)
(* asynchronous streams and live connections are found by conn->fd(), a    *)
(* number that is gone (-1) once the connection is closed and that the     *)
(* kernel then gives to the next one.                                      *)
(*                                                                         *)
(* TcpConnection is taken to keep its promise (module TcpConnection): an   *)
(* operation of another thread takes effect between two operations of the  *)
(* connection's own coroutine.  What a request asks for, and what the      *)
(* user's callbacks do, is chosen freely.                                  *)
(***************************************************************************)
EXTENDS Naturals, FiniteSets

CONSTANTS
  Conns,       \* connections, each accepted once
  Fds,         \* descriptor numbers
  None,
  Threads,     \* the schedulers' threads
  LongSends,   \* may a send suspend its coroutine?  FALSE leaves that out.
  ServerStarts, \* bound: calls of start
  MaxInput     \* bound: requests or frames that arrive

ASSUME ServerAssumption ==
  /\ None \notin Conns \cup Fds /\ ServerStarts \in Nat /\ MaxInput \in Nat
  /\ LongSends \in BOOLEAN

VARIABLES
  serving,     \* TcpServer::running_
  control,     \* where the thread that starts and stops the server stands
  server_starts, \* calls of start so far
  leftover,    \* do_stop's snapshot of connections_
  acceptor,    \* Acceptor::running_, with listen_socket_ set
  loops,       \* where the accept loops stand
  pc,          \* where each connection's coroutine stands
  fd,          \* conn->fd(): None stands for -1
  number,      \* the descriptor a connection was accepted with
  thread,      \* the thread its coroutine runs on
  arrived,     \* requests or frames read so far, on all connections
  input,       \* of these, still in the input buffer
  keep,        \* what handle_request has returned
  session,     \* the session on_message works with
  connections,         \* connections_
  websocket_sessions,  \* websocket_sessions_: whose session it is
  close_notified,      \* sessions whose on_close has been called
  async_stream_fds,    \* async_stream_fds_
  stream,              \* each connection's asynchronous stream
  shutting,            \* finished streams that have yet to call shutdown
  response_buffer      \* the thread_local: whose response it holds

tvars == <<connections, leftover>>
avars == <<acceptor, loops>>
nvars == <<fd, number, thread>>
rvars == <<arrived, input, keep, session>>
wvars == <<websocket_sessions, close_notified>>
svars == <<async_stream_fds, stream, shutting>>
cvars == <<serving, control, server_starts>>
servervars == <<cvars, tvars, avars, pc, nvars, rvars, wvars, svars, response_buffer>>

ServerInit ==
  /\ serving = FALSE /\ control = "off" /\ server_starts = 0
  /\ connections = [n \in Fds |-> None] /\ leftover = {}
  /\ acceptor = FALSE /\ loops = {}
  /\ pc = [c \in Conns |-> "none"]
  /\ fd = [c \in Conns |-> None]
  /\ number = [c \in Conns |-> None]
  /\ thread \in [Conns -> Threads]
  /\ arrived = 0
  /\ input = [c \in Conns |-> 0]
  /\ keep = [c \in Conns |-> TRUE]
  /\ session = [c \in Conns |-> None]
  /\ websocket_sessions = [n \in Fds |-> None]
  /\ close_notified = {}
  /\ async_stream_fds = {}
  /\ stream = [c \in Conns |-> "none"] /\ shutting = {}
  /\ response_buffer = [t \in Threads |-> None]

-----------------------------------------------------------------------------
(* Connections, seen from the server.                                      *)

connected(c) == fd[c] # None
Closed(c)    == fd' = [fd EXCEPT ![c] = None] /\ UNCHANGED <<number, thread>>

\* An operation of another thread waits for the one in progress.
ActorIdle(c) == pc[c] \notin {"read", "send"}

GoTo(c, place) == pc' = [pc EXCEPT ![c] = place]

Table(t, n, v) == IF n = None THEN t ELSE [t EXCEPT ![n] = v]

register_connection(c)        == connections' = Table(connections, fd[c], c)
\* Mutant: the number the connection had is removed.
RemoveConnectionByNumber(c)   == connections' = Table(connections, number[c], None)
remove_connection(c)          == connections' = Table(connections, fd[c], None)

mark_async_stream_active(n)   == async_stream_fds' = async_stream_fds \cup ({n} \ {None})
mark_async_stream_finished(n) == async_stream_fds' = async_stream_fds \ {n}

-----------------------------------------------------------------------------
(* The thread that owns the server.                                        *)

\* Acceptor::start up to the loop it launches; without a socket it is undone.
AcceptorStart(ok, l) == acceptor' = ok /\ loops' = IF ok THEN loops \cup {l} ELSE loops

AcceptorStop == acceptor' = FALSE /\ UNCHANGED loops

\* start and do_start
StartServer(ok) ==
  /\ control = "off" /\ server_starts < ServerStarts
  /\ server_starts' = server_starts + 1
  /\ serving' = ok /\ AcceptorStart(ok, server_starts')
  /\ control' = IF ok THEN "on" ELSE "off"
  /\ UNCHANGED <<tvars, pc, nvars, rvars, wvars, svars, response_buffer>>

StopServer ==
  /\ control = "on"
  /\ serving' = FALSE /\ control' = "acceptor"
  /\ UNCHANGED <<server_starts, tvars, avars, pc, nvars, rvars, wvars, svars, response_buffer>>

StopAcceptor ==
  /\ control = "acceptor"
  /\ AcceptorStop /\ control' = "swap"
  /\ UNCHANGED <<serving, server_starts, tvars, pc, nvars, rvars, wvars, svars, response_buffer>>

SwapConnections ==
  /\ control = "swap"
  /\ leftover' = {connections[n] : n \in Fds} \ {None}
  /\ connections' = [n \in Fds |-> None]
  /\ control' = "close"
  /\ UNCHANGED <<serving, server_starts, avars, pc, nvars, rvars, wvars, svars, response_buffer>>

CloseNext(c) ==
  /\ control = "close" /\ c \in leftover /\ ActorIdle(c)
  /\ Closed(c)
  /\ leftover' = leftover \ {c}
  /\ UNCHANGED <<cvars, connections, avars, pc, rvars, wvars, svars, response_buffer>>

Stopped ==
  /\ control = "close" /\ leftover = {}
  /\ control' = "off"
  /\ UNCHANGED <<serving, server_starts, tvars, avars, pc, nvars, rvars, wvars, svars, response_buffer>>

-----------------------------------------------------------------------------
(* The accept loop.  It reads running_ and listen_socket_ anew in every    *)
(* round: one that outlives a stop goes on with the next start.            *)

\* accept_loop hands the client to handle_connection.  Connections are alike
\* until then: c is the next one.
Accept(l, c, n) ==
  /\ l \in loops /\ acceptor
  /\ pc[c] = "none" /\ n \notin {fd[d] : d \in Conns}
  /\ c = CHOOSE d \in Conns : pc[d] = "none"
  /\ fd' = [fd EXCEPT ![c] = n]
  /\ number' = [number EXCEPT ![c] = n]
  /\ GoTo(c, "begin")
  /\ UNCHANGED <<cvars, tvars, avars, thread, rvars, wvars, svars, response_buffer>>

\* The listening socket is closed: EBADF, or running_ is seen to be false.
AcceptLoopEnds(l) ==
  /\ l \in loops
  /\ ~acceptor \/ \E k \in loops : k > l
  /\ loops' = loops \ {l}
  /\ UNCHANGED <<cvars, tvars, acceptor, pc, nvars, rvars, wvars, svars, response_buffer>>

-----------------------------------------------------------------------------
(* handle_connection                                                       *)

HandshakeFails(c) ==
  /\ pc[c] = "begin"
  /\ Closed(c)
  /\ GoTo(c, "done")
  /\ UNCHANGED <<cvars, tvars, avars, rvars, wvars, svars, response_buffer>>

Register(c) ==
  /\ pc[c] = "begin"
  /\ register_connection(c)
  /\ GoTo(c, "loop")
  /\ UNCHANGED <<cvars, leftover, avars, nvars, rvars, wvars, svars, response_buffer>>

\* Mutant: only stop ends the loop.
LoopTopUnlessClosed(c) ==
  /\ pc[c] = "loop"
  /\ GoTo(c, IF connected(c) THEN "read" ELSE "ending")
  /\ UNCHANGED <<cvars, tvars, avars, nvars, rvars, wvars, svars, response_buffer>>

LoopTop(c) ==
  /\ pc[c] = "loop"
  /\ GoTo(c, IF serving /\ connected(c) THEN "read" ELSE "ending")
  /\ UNCHANGED <<cvars, tvars, avars, nvars, rvars, wvars, svars, response_buffer>>

ReadSome(c) ==
  /\ pc[c] = "read" /\ connected(c)
  /\ \E k \in 1..(MaxInput - arrived) :
       /\ arrived' = arrived + k
       /\ input' = [input EXCEPT ![c] = @ + k]
  /\ GoTo(c, "message")
  /\ UNCHANGED <<cvars, tvars, avars, nvars, keep, session, wvars, svars, response_buffer>>

\* A timeout, an error to retry and one that is not understood; or the
\* peer's end, EBADF and the keepalive limit.
ReadFails(c) ==
  /\ pc[c] = "read"
  /\ \/ connected(c) /\ GoTo(c, "loop")
     \/ GoTo(c, "ending")
  /\ UNCHANGED <<cvars, tvars, avars, nvars, rvars, wvars, svars, response_buffer>>

-----------------------------------------------------------------------------
(* HttpServer::on_message                                                  *)

SessionAt(n) == IF n = None THEN None ELSE websocket_sessions[n]
TakeSession(n) == websocket_sessions' = Table(websocket_sessions, n, None)

is_async_stream_active(c) == fd[c] \in async_stream_fds
is_websocket_active(c)    == SessionAt(fd[c]) # None
Paused(c) == is_async_stream_active(c) \/ is_websocket_active(c)

\* find_websocket_session
FindSession(c) ==
  /\ pc[c] = "message"
  /\ session' = [session EXCEPT ![c] = SessionAt(fd[c])]
  /\ GoTo(c, IF session'[c] = None THEN "parse" ELSE "frames")
  /\ UNCHANGED <<cvars, tvars, avars, nvars, arrived, input, keep, wvars, svars, response_buffer>>

\* WebSocketSession::on_message returns true.
FramesHandled(c) ==
  /\ pc[c] = "frames"
  /\ input' = [input EXCEPT ![c] = 0]
  /\ session' = [session EXCEPT ![c] = None]
  /\ GoTo(c, "loop")
  /\ UNCHANGED <<cvars, tvars, avars, nvars, arrived, keep, wvars, svars, response_buffer>>

\* A close frame, a frame that is wrong, a callback that throws, a pong that
\* cannot be sent: WebSocketConnection::close, notify_close, return false.
SessionEnds(c) ==
  LET s == session[c] IN
  /\ pc[c] = "frames"
  /\ Closed(s)
  /\ close_notified' = close_notified \cup {s}
  /\ input' = [input EXCEPT ![c] = 0]
  /\ session' = [session EXCEPT ![c] = None]
  /\ GoTo(c, "take")
  /\ UNCHANGED <<cvars, tvars, avars, arrived, keep, websocket_sessions, svars, response_buffer>>

\* WebSocketConnection::close, called by the user from a callback or from
\* another thread: it calls nobody back.
UserCloses(c) ==
  /\ connected(c) /\ SessionAt(fd[c]) = c /\ ActorIdle(c)
  /\ Closed(c)
  /\ UNCHANGED <<cvars, tvars, avars, pc, rvars, wvars, svars, response_buffer>>

TakeEnded(c) ==
  /\ pc[c] = "take"
  /\ TakeSession(fd[c])
  /\ GoTo(c, "loop")
  /\ UNCHANGED <<cvars, tvars, avars, nvars, rvars, close_notified, svars, response_buffer>>

\* The buffer is empty, a request is incomplete, or parsing has to wait.
ParseStops(c) ==
  /\ pc[c] = "parse"
  /\ GoTo(c, "loop")
  /\ UNCHANGED <<cvars, tvars, avars, nvars, rvars, wvars, svars, response_buffer>>

Parses(c) ==
  /\ pc[c] = "parse" /\ input[c] > 0 /\ ~Paused(c)
  /\ input' = [input EXCEPT ![c] = @ - 1]

ParseError(c) ==
  /\ Parses(c)
  /\ Closed(c)
  /\ GoTo(c, "loop")
  /\ UNCHANGED <<cvars, tvars, avars, arrived, keep, session, wvars, svars, response_buffer>>

-----------------------------------------------------------------------------
(* handle_request, by what the router has put into the response.           *)

Keep(c, k) == keep' = [keep EXCEPT ![c] = k]

\* A response that is not chunked goes through the thread's buffer.
Respond(c) ==
  LET t == thread[c] IN
  /\ Parses(c)
  /\ LongSends \/ \A d \in Conns : thread[d] = t => pc[d] # "send"
  /\ response_buffer' = [response_buffer EXCEPT ![t] = c]
  /\ GoTo(c, "send")
  /\ UNCHANGED <<cvars, tvars, avars, nvars, arrived, keep, session, wvars, svars>>

Sent(c) ==
  /\ pc[c] = "send"
  /\ \E k \in BOOLEAN : Keep(c, k)
  /\ GoTo(c, "handled")
  /\ UNCHANGED <<cvars, tvars, avars, nvars, arrived, input, session, wvars, svars, response_buffer>>

\* Header and chunks go through strings of their own: send_chunked_body.
RespondChunked(c) ==
  /\ Parses(c)
  /\ \E k \in BOOLEAN : Keep(c, k)
  /\ GoTo(c, "handled")
  /\ UNCHANGED <<cvars, tvars, avars, nvars, arrived, session, wvars, svars, response_buffer>>

\* The request is no handshake, no subprotocol fits, or the 101 cannot be
\* built or sent (module WsConnection): handle_request returns false.
RefuseUpgrade(c) ==
  /\ Parses(c)
  /\ Keep(c, FALSE)
  /\ GoTo(c, "handled")
  /\ UNCHANGED <<cvars, tvars, avars, nvars, arrived, session, wvars, svars, response_buffer>>

\* send_async_chunked_response has sent the header; the stream callback is
\* called and may keep the sender.
BeginStream(c) ==
  /\ Parses(c) /\ connected(c)
  /\ mark_async_stream_active(fd[c])
  /\ stream' = [stream EXCEPT ![c] = "open"]
  /\ GoTo(c, "streaming")
  /\ UNCHANGED <<cvars, tvars, avars, nvars, arrived, keep, session, wvars, shutting, response_buffer>>

\* return is_async_stream_active(conn)
StreamStarted(c) ==
  /\ pc[c] = "streaming"
  /\ Keep(c, is_async_stream_active(c))
  /\ GoTo(c, "handled")
  /\ UNCHANGED <<cvars, tvars, avars, nvars, arrived, input, session, wvars, svars, response_buffer>>

\* The handshake response is sent and the session registered.
Upgrade(c) ==
  /\ Parses(c) /\ connected(c)
  /\ websocket_sessions' = Table(websocket_sessions, fd[c], c)
  /\ GoTo(c, "open")
  /\ UNCHANGED <<cvars, tvars, avars, nvars, arrived, keep, session, close_notified, svars, response_buffer>>

\* on_open; if it throws, close, notify_close and take_websocket_session.
Opened(c) ==
  /\ pc[c] = "open"
  /\ Keep(c, TRUE)
  /\ GoTo(c, "handled")
  /\ UNCHANGED <<cvars, tvars, avars, nvars, arrived, input, session, wvars, svars, response_buffer>>

OpenFails(c) ==
  /\ pc[c] = "open"
  /\ Closed(c)
  /\ close_notified' = close_notified \cup {c}
  /\ TakeSession(fd'[c])
  /\ Keep(c, FALSE)
  /\ GoTo(c, "handled")
  /\ UNCHANGED <<cvars, tvars, avars, arrived, input, session, svars, response_buffer>>

\* on_message goes on with what handle_request has returned.
Handled(c) ==
  /\ pc[c] = "handled"
  /\ IF Paused(c) \/ ~keep[c] THEN GoTo(c, "loop") ELSE GoTo(c, "parse")
  /\ IF Paused(c) \/ keep[c] THEN UNCHANGED nvars ELSE Closed(c)
  /\ Keep(c, TRUE)
  /\ UNCHANGED <<cvars, tvars, avars, arrived, input, session, wvars, svars, response_buffer>>

-----------------------------------------------------------------------------
(* The stream's sender and closer, on whatever thread the user calls them. *)

FinishAt(c, at) == /\ stream[c] = at
                   /\ UNCHANGED <<cvars, tvars, avars, pc, nvars, rvars, wvars, response_buffer>>

\* finish_stream wins closed; it sends the terminating chunk unless a chunk
\* has failed.
FinishStream(c) ==
  /\ FinishAt(c, "open")
  /\ stream' = [stream EXCEPT ![c] = "terminal"]
  /\ UNCHANGED <<async_stream_fds, shutting>>

TerminalSent(c) ==
  /\ FinishAt(c, "terminal")
  /\ stream' = [stream EXCEPT ![c] = "finish"]
  /\ UNCHANGED <<async_stream_fds, shutting>>

\* mark_async_stream_finished(fd): fd is the number of long ago.
StreamFinished(c) ==
  /\ FinishAt(c, "finish")
  /\ mark_async_stream_finished(number[c])
  /\ stream' = [stream EXCEPT ![c] = "none"]
  /\ shutting' = shutting \cup {c}

StreamShutdown(c) ==
  /\ c \in shutting /\ ActorIdle(c)
  /\ Closed(c)
  /\ shutting' = shutting \ {c}
  /\ UNCHANGED <<cvars, tvars, avars, pc, rvars, wvars, async_stream_fds, stream, response_buffer>>

-----------------------------------------------------------------------------
(* on_close, close and remove_connection end handle_connection.            *)

OnCloseStream(c) ==
  /\ pc[c] = "ending"
  /\ mark_async_stream_finished(fd[c])
  /\ GoTo(c, "ending session")
  /\ UNCHANGED <<cvars, tvars, avars, nvars, rvars, wvars, stream, shutting, response_buffer>>

OnCloseSession(c) ==
  /\ pc[c] = "ending session"
  /\ TakeSession(fd[c])
  /\ close_notified' = close_notified \cup ({SessionAt(fd[c])} \ {None})
  /\ GoTo(c, "close")
  /\ UNCHANGED <<cvars, tvars, avars, nvars, rvars, svars, response_buffer>>

CloseConnection(c) ==
  /\ pc[c] = "close"
  /\ Closed(c)
  /\ GoTo(c, "remove")
  /\ UNCHANGED <<cvars, tvars, avars, rvars, wvars, svars, response_buffer>>

RemoveAfterClose(c) ==
  /\ pc[c] = "remove"
  /\ remove_connection(c)
  /\ input' = [input EXCEPT ![c] = 0]
  /\ GoTo(c, "done")
  /\ UNCHANGED <<cvars, leftover, avars, nvars, arrived, keep, session, wvars, svars, response_buffer>>

-----------------------------------------------------------------------------
Control == \/ \E ok \in BOOLEAN : StartServer(ok)
           \/ StopServer \/ StopAcceptor \/ SwapConnections
           \/ (\E c \in Conns : CloseNext(c))
           \/ Stopped

\* Stop and start are the user's to call.
StopGoesOn == \/ StopAcceptor \/ SwapConnections
              \/ (\E c \in Conns : CloseNext(c))
              \/ Stopped

Handler(c) == \/ HandshakeFails(c) \/ Register(c)
              \/ LoopTop(c) \/ ReadSome(c) \/ ReadFails(c)
              \/ FindSession(c) \/ FramesHandled(c) \/ SessionEnds(c) \/ TakeEnded(c)
              \/ ParseStops(c) \/ ParseError(c) \/ Respond(c) \/ Sent(c)
              \/ RespondChunked(c) \/ BeginStream(c) \/ StreamStarted(c)
              \/ RefuseUpgrade(c) \/ Upgrade(c) \/ Opened(c) \/ OpenFails(c) \/ Handled(c)
              \/ OnCloseStream(c) \/ OnCloseSession(c)
              \/ CloseConnection(c) \/ RemoveAfterClose(c)

OtherThread(c) == \/ FinishStream(c) \/ TerminalSent(c)
               \/ StreamFinished(c) \/ StreamShutdown(c) \/ UserCloses(c)

ServerNext ==
  \/ Control
  \/ \E l \in loops : AcceptLoopEnds(l) \/ \E c \in Conns, n \in Fds : Accept(l, c, n)
  \/ \E c \in Conns : Handler(c) \/ OtherThread(c)

ServerSpec == ServerInit /\ [][ServerNext]_servervars

-----------------------------------------------------------------------------
Live == {"loop", "read", "message", "frames", "take", "parse", "send",
         "streaming", "open", "handled"}

(* While the server runs, every open connection whose coroutine serves it  *)
(* is in connections_ under its number, where stop looks for it, although  *)
(* numbers are given again while an older connection ends.                 *)
LiveIsListed ==
  serving => \A c \in Conns : pc[c] \in Live /\ connected(c) => connections[fd[c]] = c

(* No response is sent on an open connection whose asynchronous stream has *)
(* not sent its last chunk, if no other connection has had its number.     *)
StreamIsAlone ==
  \A c \in Conns : /\ stream[c] \in {"open", "terminal"} /\ connected(c)
                   /\ \A d \in Conns \ {c} : number[d] # number[c]
                   => pc[c] # "send"

(* The server's tables speak of the connections they were filled for.      *)
ServerSound == LiveIsListed /\ StreamIsAlone

(* Once the server is stopped for good, every connection's coroutine ends, *)
(* the one accepted or registered while stop closed the others too.        *)
StopEnds ==
  <>[]~serving => <>[](\A c \in Conns : pc[c] \in {"none", "done"})

(* A websocket session is fed only what its own connection has read.       *)
SessionsAreOwn == \A c \in Conns : pc[c] = "frames" => session[c] = c

(* What is being sent is the sender's response.                            *)
BufferIsOwn ==
  \A c \in Conns : pc[c] = "send" => response_buffer[thread[c]] = c
=============================================================================
