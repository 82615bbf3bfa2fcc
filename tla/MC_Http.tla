------------------------------ MODULE MC_Http ------------------------------
(***************************************************************************)
(* What an HTTP request and its answer go through, checked together: the   *)
(* request parser, the router with its middleware chain, static files and  *)
(* ranges, websocket frames and connections, rate limiters and sessions. A *)
(* behaviour exercises one of them, the subject, and leaves the others as  *)
(* they began, so each property is asked of its subject.                   *)
(***************************************************************************)
EXTENDS Naturals, Sequences, TLC

CONSTANTS
  None,
  MaxRoutes,                                                     \* Router
  BodyLength, MaxPending, MaxBytes,                              \* HttpParser
  Deployed, Length, MaxVersion, ReplacedInUse, SameMtime,        \* StaticFile
  MaxMessage, SmallLength, MidLength, MaxFrames, MaxRead,        \* WsFrames
  Callers, Capacity, Window, Second, MaxTime,                    \* RateLimiter
  Requests, MaxIds, Values, ttl, cleanup_every, MaxClock,        \* Sessions
  Users, MaxSent                                                 \* WsConnection

VARIABLES
  subject,
  static_routes, names, handlers, regex_routes, log, request, chain, at, executed_count, ran,
  parser, stream,
  disk, version, cache, req, copy,
  text, frames, wire, frame_parser, session,
  kind, now, reading, fixed, queue, bucket, newest, passed,
  store, op_count, clock, sess_req, known, drawn, destroyed, written, touched,
  offer, selected, reader, closed, close_frame_sent, notified, is_open, ws_wire, user

rvars == <<static_routes, names, handlers, regex_routes, log, request, chain, at,
           executed_count, ran>>
pvars == <<parser, stream>>
fvars == <<disk, version, cache, req, copy>>
wvars == <<text, frames, wire, frame_parser, session>>
lvars == <<kind, now, reading, fixed, queue, bucket, newest, passed>>
svars == <<store, op_count, clock, sess_req, known, drawn, destroyed, written, touched>>
cvars == <<offer, selected, reader, closed, close_frame_sent, notified, is_open, ws_wire, user>>
allvars == <<subject, rvars, pvars, fvars, wvars, lvars, svars, cvars>>

-----------------------------------------------------------------------------
(* Routes that overlap in every way the tree tells apart: a static segment,*)
(* a parameter or a catch-all in each place, two methods, two regexes.     *)
S(x) == <<"s", x>>
P(x) == <<"p", x>>
C(x) == <<"c", x>>
R(m, p) == [method |-> m, path |-> p, slash |-> FALSE]
Paths == {<<>>, <<"home">>} \cup UNION {[1..n -> {"a", "b"}] : n \in 1..3}
PathRoutes ==
  {R("GET", p) : p \in {<<S("a"), S("b")>>, <<S("a"), P("x")>>, <<P("y"), S("b")>>,
                        <<S("a"), C("r")>>, <<P("y"), S("b"), S("a")>>, <<C("r")>>,
                        <<S("a"), S("b"), P("z")>>, <<S("a"), C("r"), S("b")>>}}
  \cup {R("PUT", <<S("a"), P("z")>>)}
RegexRoutes ==
  {[method |-> "GET", pattern |-> "r1", prefix |-> <<>>, matches |-> Paths],
   [method |-> "GET", pattern |-> "r2", prefix |-> <<S("a")>>,
    matches |-> {<<"a", "a">>, <<"a", "b">>}]}

(* Whole, fragmented, control, close and broken frames; and byte sequences *)
(* at every border of the UTF-8 ranges.                                    *)
F(fin, op, data) ==
  [fin |-> fin, rsv |-> 0, opcode |-> op, masked |-> TRUE, high |-> FALSE, payload |-> data]
Sendable ==
  {F(TRUE, 1, <<195, 169>>), F(FALSE, 1, <<195>>), F(TRUE, 0, <<169>>),
   F(FALSE, 0, <<66, 67, 68>>), F(FALSE, 2, <<1, 2, 3, 4>>), F(TRUE, 2, <<1, 2, 3, 4, 5>>),
   F(TRUE, 9, <<7>>), F(FALSE, 9, <<>>), F(TRUE, 8, <<>>), F(TRUE, 8, <<3, 233>>),
   F(TRUE, 8, <<3, 237>>), F(TRUE, 8, <<3>>), F(TRUE, 3, <<>>),
   [F(TRUE, 1, <<65>>) EXCEPT !.masked = FALSE], [F(TRUE, 1, <<65>>) EXCEPT !.rsv = 4],
   [F(TRUE, 2, <<1, 2, 3, 4, 5>>) EXCEPT !.high = TRUE]}
Trail == {128, 143, 144, 159, 160, 191, 192}
First == {65, 127, 128, 191, 192, 193, 194, 223, 224, 225, 236, 237, 238, 239, 240, 241, 243,
          244, 245, 255}
Texts ==
  {<<>>} \cup {<<a>> : a \in First} \cup {<<a, b>> : a \in First, b \in Trail \cup {65}}
  \cup {<<a, b, c>> : a \in First, b \in Trail, c \in {65, 128, 191, 192}}
  \cup {<<a, b, c, d>> : a \in First, b \in Trail, c \in {128, 191}, d \in {65, 128, 191, 192}}

(* Upgrade requests, right and wrong in every header.                      *)
Upgrades ==
  [method : {"GET", "POST"}, version : {"HTTP/1.1", "HTTP/1.0"},
   connection : {<<"keep-alive", " Upgrade">>, <<"keep-alive">>}, upgrade : {"WebSocket", ""},
   ws_version : {"13", "8"}, key : {"k", ""},
   protocols : {<<>>, <<"a">>, <<"b">>, <<"c">>, <<"a", "b">>, <<"c", "b">>, <<"a", "">>}]
LowerCase == (" Upgrade" :> "upgrade") @@ ("keep-alive" :> "keep-alive")
             @@ ("WebSocket" :> "websocket") @@ ("" :> "")

-----------------------------------------------------------------------------
Routing == INSTANCE Router WITH
             Asked <- {<<"b">>, <<"a", "b", "a">>}, Methods <- {"GET", "PUT"},
             Groups <- {<<"a">>, <<"a", "b">>}, Homepage <- <<"a">>
Parsing == INSTANCE HttpParser
\* Two browsers, one of which takes brotli.
Files == INSTANCE StaticFile WITH
           Clients <- {"p", "q"}, Accept <- [p |-> {"br"}, q |-> {}]
Frames == INSTANCE WsFrames WITH Frames <- Sendable, parser <- frame_parser
Limiter == INSTANCE RateLimiter
Session == INSTANCE Sessions WITH req <- sess_req
Socket == INSTANCE WsConnection WITH
            Offers <- Upgrades, Subprotocols <- <<"b", "a">>, InvalidTokens <- {""},
            Lower <- LowerCase, wire <- ws_wire

Start ==
  /\ subject \in {"router", "parser", "files", "frames", "limiter", "sessions", "socket"}
  /\ subject # "frames" => text = <<>>
  /\ subject # "limiter" => kind = "FIXED_WINDOW"
  /\ subject # "socket" => offer = CHOOSE o \in Upgrades : TRUE
  /\ Routing!Init /\ Parsing!Init /\ Files!Init /\ Frames!Init /\ Limiter!Init
  /\ Session!SessInit /\ Socket!WsInit

Step ==
  \/ subject = "router" /\ Routing!Next
     /\ UNCHANGED <<subject, pvars, fvars, wvars, lvars, svars, cvars>>
  \/ subject = "parser" /\ Parsing!Next
     /\ UNCHANGED <<subject, rvars, fvars, wvars, lvars, svars, cvars>>
  \/ subject = "files" /\ Files!Next
     /\ UNCHANGED <<subject, rvars, pvars, wvars, lvars, svars, cvars>>
  \/ subject = "frames" /\ Frames!Next
     /\ UNCHANGED <<subject, rvars, pvars, fvars, lvars, svars, cvars>>
  \/ subject = "limiter" /\ Limiter!Next
     /\ UNCHANGED <<subject, rvars, pvars, fvars, wvars, svars, cvars>>
  \/ subject = "sessions" /\ Session!SessNext
     /\ UNCHANGED <<subject, rvars, pvars, fvars, wvars, lvars, cvars>>
  \/ subject = "socket" /\ Socket!WsNext
     /\ UNCHANGED <<subject, rvars, pvars, fvars, wvars, lvars, svars>>

HttpSpec == Start /\ [][Step]_allvars

-----------------------------------------------------------------------------
(* The route found is the most exact one registered, in whatever order,    *)
(* and after calls mirror the before calls of its middleware chain.        *)
RoutingSound == subject = "router" => Routing!RoutingSound

(* However the bytes are cut into reads, the same requests are parsed.     *)
SplitsAgree == subject = "parser" => Parsing!SplitsAgree

(* A range is answered with the bytes it names.  A fact about constants,   *)
(* named here so that TLC evaluates it once.                               *)
RangesAgree == Files!RangesAgree

(* What a client puts together from parts and cached answers is one        *)
(* version of one variant, and a range is answered with what it names.     *)
FilesServed == subject = "files" => Files!CopiesWhole /\ RangesAgree

(* However the reads cut the frames, the session is handed what the client *)
(* sent, up to the first fault; text is what decodes as UTF-8; and however *)
(* reader and users race, one Close frame is sent and on_close called once.*)
FramesAgree ==
  CASE subject = "frames" -> Frames!FramesAgree /\ Frames!TextsAgree
    [] subject = "socket" -> Socket!ConnectionSound
    [] OTHER -> TRUE

(* No limiter lets more through than its window and capacity allow and     *)
(* Retry-After is long enough; and a session keeps what was last written   *)
(* to it until it is destroyed or expires.                                 *)
MiddlewareSound ==
  CASE subject = "limiter" -> Limiter!RateBound /\ Limiter!AdviceIsEnough
    [] subject = "sessions" -> Session!SessionsSound
    [] OTHER -> TRUE
=============================================================================
