---------------------------- MODULE WsConnection ----------------------------
(***************************************************************************)
(* zhttp/src/websocket.cc: the opening handshake of a websocket, and the    *)
(* WebSocketConnection that callbacks and other threads of the program send *)
(* through while the connection's own coroutine, the reader, may be closing *)
(* it.  closed_ is an atomic flag that is read before a send and set before *)
(* a Close frame: nothing holds the two together.  TcpConnection (external  *)
(* here, see its module) writes whole messages in the order of the calls    *)
(* and refuses them once it is shut down.                                   *)
(***************************************************************************)
EXTENDS Naturals, Sequences, FiniteSets

CONSTANTS
  Users,         \* threads that hold the WebSocketConnection
  Offers,        \* upgrade requests
  Subprotocols,  \* WebSocketOptions::subprotocols, a sequence
  InvalidTokens, \* protocol names that are not HTTP tokens
  Lower,         \* header value -> its trimmed lower-case form
  MaxSent        \* bound on the frames written

VARIABLES
  offer,            \* the request, then NoOffer
  selected,         \* the subprotocol agreed on, "" for none
  reader,           \* where the connection's coroutine is
  closed,           \* closed_
  close_frame_sent, \* close_frame_sent_
  notified,         \* calls of the on_close callback
  is_open,          \* the TcpConnection is connected
  wire,             \* what it has written
  user              \* user -> where its call is

wsvars == <<offer, selected, reader, closed, close_frame_sent, notified, is_open, wire, user>>

NoOffer == [method |-> ""]

-----------------------------------------------------------------------------
(* The handshake.  An offer has a method, a version, the tokens of its      *)
(* Connection header, its Upgrade, ws_version and key headers, and the      *)
(* tokens of Sec-WebSocket-Protocol.                                        *)

header_contains_token(tokens, target) == \E i \in DOMAIN tokens : Lower[tokens[i]] = target

is_valid_subprotocol_token(p) == p \notin InvalidTokens

check_websocket_handshake_request(o) ==
  LET asks == /\ o.method = "GET" /\ o.version = "HTTP/1.1"
              /\ header_contains_token(o.connection, "upgrade")
              /\ Lower[o.upgrade] = "websocket"
  IN  CASE ~asks -> "kBadRequest"
        [] asks /\ o.ws_version # "13" -> "kUnsupportedVersion"
        [] asks /\ o.ws_version = "13" /\ o.key = "" -> "kBadRequest"
        [] OTHER -> "kOk"

parse_subprotocol_header(tokens) == \A i \in DOMAIN tokens : is_valid_subprotocol_token(tokens[i])

(* The server's list is gone through in its order until one is the client's.*)
Scan(client) ==
  LET Hit[i \in 1 .. Len(Subprotocols) + 1] ==
        IF i > Len(Subprotocols) \/ ~is_valid_subprotocol_token(Subprotocols[i])
        THEN [ok |-> FALSE, protocol |-> ""]
        ELSE IF \E j \in DOMAIN client : client[j] = Subprotocols[i]
             THEN [ok |-> TRUE, protocol |-> Subprotocols[i]]
             ELSE Hit[i + 1]
  IN  Hit[1]

negotiate_websocket_subprotocol(o) ==
  CASE ~parse_subprotocol_header(o.protocols) -> [ok |-> FALSE, protocol |-> ""]
    [] parse_subprotocol_header(o.protocols) /\ (Subprotocols = <<>> \/ o.protocols = <<>>) ->
         [ok |-> TRUE, protocol |-> ""]
    [] OTHER -> Scan(o.protocols)

(* What is sent on success; the key's hash is a value of its own.           *)
build_websocket_handshake_response(o, protocol) ==
  [frame |-> "101", accept |-> o.key, protocol |-> protocol]

Refusal(result) ==
  [frame |-> "400", accept |-> IF result = "kUnsupportedVersion" THEN "13" ELSE "", protocol |-> ""]

Frame(f) == [frame |-> f, accept |-> "", protocol |-> ""]
Data == Frame("data")         \* of send_text, send_binary, ping or pong
CloseOf == Frame("close")     \* with its code and reason
Sends(f) == wire' = IF is_open THEN Append(wire, f) ELSE wire

Refuse ==
  LET result == check_websocket_handshake_request(offer) IN
  /\ reader = "request"
  /\ result # "kOk" \/ ~negotiate_websocket_subprotocol(offer).ok
  /\ Sends(Refusal(result))
  /\ offer' = NoOffer
  /\ is_open' = FALSE
  /\ reader' = "refused"
  /\ UNCHANGED <<selected, closed, close_frame_sent, notified, user>>

Accept ==
  LET agreed == negotiate_websocket_subprotocol(offer) IN
  /\ reader = "request"
  /\ check_websocket_handshake_request(offer) = "kOk"
  /\ agreed.ok
  /\ Sends(build_websocket_handshake_response(offer, agreed.protocol))
  /\ selected' = agreed.protocol
  /\ offer' = NoOffer
  /\ reader' = "reading"
  /\ UNCHANGED <<closed, close_frame_sent, notified, is_open, user>>

-----------------------------------------------------------------------------
(* WebSocketConnection, called by a user's thread.                          *)

At(u, place) == user' = [user EXCEPT ![u] = place]

(* send_frame: closed_ is read, then the frame is handed to the connection. *)
SendBegins(u) ==
  /\ user[u] = "idle" /\ reader \notin {"request", "refused"}
  /\ ~closed
  /\ Len(wire) + Cardinality({v \in Users : user[v] = "send"}) < MaxSent
  /\ At(u, "send")
  /\ UNCHANGED <<offer, selected, reader, closed, close_frame_sent, notified, is_open, wire>>

SendFrame(u) ==
  /\ user[u] = "send"
  /\ Sends(Data)
  /\ At(u, "idle")
  /\ UNCHANGED <<offer, selected, reader, closed, close_frame_sent, notified, is_open>>

(* close: who sets closed_ first sends the Close frame; everyone shuts the  *)
(* connection down.                                                         *)
CloseBegins(u) ==
  /\ user[u] = "idle" /\ reader \notin {"request", "refused"}
  /\ At(u, IF closed THEN "shutdown" ELSE "close")
  /\ closed' = TRUE
  /\ UNCHANGED <<offer, selected, reader, close_frame_sent, notified, is_open, wire>>

CloseFrame(u) ==
  /\ user[u] = "close"
  /\ Sends(CloseOf)
  /\ At(u, "shutdown")
  /\ UNCHANGED <<offer, selected, reader, closed, close_frame_sent, notified, is_open>>

Shutdown(u) ==
  /\ user[u] = "shutdown"
  /\ is_open' = FALSE
  /\ At(u, "idle")
  /\ UNCHANGED <<offer, selected, reader, closed, close_frame_sent, notified, wire>>

-----------------------------------------------------------------------------
(* WebSocketSession, in the connection's coroutine.                         *)

(* A fault, a throwing callback, a pong that cannot be sent or the peer's   *)
(* Close frame: close, then notify_close.                                   *)
ReaderCloses ==
  /\ reader = "reading" \/ (reader = "pong" /\ ~is_open)
  /\ close_frame_sent' = TRUE
  /\ reader' = IF closed THEN "shutdown" ELSE "closing"
  /\ closed' = TRUE
  /\ UNCHANGED <<offer, selected, notified, is_open, wire, user>>

ReaderCloseFrame ==
  /\ reader = "closing"
  /\ Sends(CloseOf)
  /\ reader' = "shutdown"
  /\ UNCHANGED <<offer, selected, closed, close_frame_sent, notified, is_open, user>>

ReaderShutdown ==
  /\ reader = "shutdown"
  /\ is_open' = FALSE
  /\ reader' = "notify"
  /\ UNCHANGED <<offer, selected, closed, close_frame_sent, notified, wire, user>>

(* A ping is answered through send_frame.                                   *)
PongBegins ==
  /\ reader = "reading"
  /\ is_open /\ ~closed
  /\ Len(wire) < MaxSent
  /\ reader' = "pong"
  /\ UNCHANGED <<offer, selected, closed, close_frame_sent, notified, is_open, wire, user>>

PongFrame ==
  /\ reader = "pong" /\ is_open
  /\ Sends(Frame("pong"))
  /\ reader' = "reading"
  /\ UNCHANGED <<offer, selected, closed, close_frame_sent, notified, is_open, user>>

(* The connection ends without a Close frame: on_close marks it closed.     *)
on_close ==
  /\ reader = "reading" /\ is_open
  /\ closed' = TRUE
  /\ reader' = "notify"
  /\ UNCHANGED <<offer, selected, close_frame_sent, notified, is_open, wire, user>>

(* A user has shut it down before: the server looks the session up by the   *)
(* fd, -1 now, finds none and calls nobody (module HttpServer).             *)
EndsUnfound ==
  /\ reader = "reading" /\ ~is_open
  /\ reader' = "unfound"
  /\ UNCHANGED <<offer, selected, closed, close_frame_sent, notified, is_open, wire, user>>

notify_close ==
  /\ reader = "notify"
  /\ notified' = notified + 1
  /\ is_open' = FALSE
  /\ reader' = "ended"
  /\ UNCHANGED <<offer, selected, closed, close_frame_sent, wire, user>>

WsInit ==
  /\ offer \in Offers
  /\ selected = ""
  /\ reader = "request"
  /\ closed = FALSE
  /\ close_frame_sent = FALSE
  /\ notified = 0
  /\ is_open = TRUE
  /\ wire = <<>>
  /\ user = [u \in Users |-> "idle"]

WsNext ==
  \/ Refuse \/ Accept
  \/ ReaderCloses \/ ReaderCloseFrame \/ ReaderShutdown
  \/ PongBegins \/ PongFrame \/ on_close \/ EndsUnfound \/ notify_close
  \/ \E u \in Users :
       SendBegins(u) \/ SendFrame(u) \/ CloseBegins(u) \/ CloseFrame(u) \/ Shutdown(u)

-----------------------------------------------------------------------------
(* The handshake selects the protocol the server names first among those    *)
(* the client names too, and nothing when either names none.                *)
NegotiationAgrees ==
  reader = "request" /\ parse_subprotocol_header(offer.protocols) =>
    LET shared == {i \in DOMAIN Subprotocols :
                     \E j \in DOMAIN offer.protocols : offer.protocols[j] = Subprotocols[i]}
        answer == negotiate_websocket_subprotocol(offer)
    IN  IF Subprotocols = <<>> \/ offer.protocols = <<>>
        THEN answer = [ok |-> TRUE, protocol |-> ""]
        ELSE /\ answer.ok <=> shared # {}
             /\ answer.ok => \E i \in shared : /\ answer.protocol = Subprotocols[i]
                                               /\ \A k \in shared : i <= k

(* However the reader and the users' threads race: the answer to the        *)
(* upgrade comes first, one Close frame is sent at most, and only frames    *)
(* whose senders had looked at closed_ before it was set follow that frame. *)
ClosesOnce ==
  LET closes == {i \in DOMAIN wire : wire[i].frame = "close"} IN
  /\ \A i \in DOMAIN wire : i = 1 <=> wire[i].frame \in {"101", "400"}
  /\ Cardinality(closes) <= 1
  /\ \A i \in closes :
       /\ \A k \in i + 1 .. Len(wire) : wire[k].frame \in {"data", "pong"}
       /\ Len(wire) - i + Cardinality({u \in Users : user[u] = "send"}) <= Cardinality(Users)

(* on_close is called once when the connection's coroutine has ended, and   *)
(* nothing is open then.                                                    *)
EndIsNotified == reader = "ended" => notified = 1 /\ ~is_open /\ closed

ConnectionSound == NegotiationAgrees /\ ClosesOnce /\ EndIsNotified
=============================================================================
