------------------------------ MODULE WsFrames ------------------------------
(***************************************************************************)
(* zhttp::WebSocketFrameParser and WebSocketSession::on_message: frames of *)
(* a client, cut by the network into reads of any size, become messages,   *)
(* pongs and a close.                                                      *)
(*                                                                         *)
(* Bytes are numbers and the frame layout is the real one.  Only the sizes *)
(* at which a length needs more bytes, 125 and 65535, are constants.       *)
(***************************************************************************)
EXTENDS Naturals, Sequences, SequencesExt, Bitwise

CONSTANTS
  MaxMessage,   \* max_message_size_
  SmallLength,  \* 125: the longest payload whose length fits the second byte
  MidLength,    \* 65535: the longest whose length fits two more bytes
  Frames,       \* what a client may send: records fin, rsv, opcode, masked,
                \* high (the top bit of an 8-byte length) and payload
  Texts,        \* byte sequences on which the UTF-8 check is tried
  MaxFrames,    \* bound: frames of a run
  MaxRead       \* bound: bytes of one read

VARIABLES
  text,       \* the byte sequence the UTF-8 check is tried on
  frames,     \* the frames the client has sent
  wire,       \* their bytes that have not been read
  parser,     \* buffer and the fields of WebSocketFrameParser
  session     \* what on_message has handed on, and the code of the close

vars == <<text, frames, wire, parser, session>>

Continuation == 0
Text == 1
Binary == 2
Close == 8
Ping == 9
Pong == 10
Normal == 1000
ProtocolError == 1002
InvalidData == 1007
TooLarge == 1009

is_known_opcode(op) == op \in {Continuation, Text, Binary, Close, Ping, Pong}
is_control_opcode(op) == op >= 8

read_be(bytes) == FoldLeft(LAMBDA v, b : v * 256 + b, 0, bytes)

\* The n bytes of a value below 2^24.
append_be(value, n) ==
  [i \in 1..n |-> IF n - i > 2 THEN 0 ELSE (value \div 256 ^ (n - i)) % 256]

-----------------------------------------------------------------------------
(* is_valid_utf8: for each lead byte the trail bytes and the range of the  *)
(* first of them.                                                          *)
Lead(c) ==
  CASE c <= 127 -> <<0, 128, 191>>
    [] c \in 194..223 -> <<1, 128, 191>>
    [] c = 224 -> <<2, 160, 191>>
    [] c \in 225..236 \/ c \in 238..239 -> <<2, 128, 191>>
    [] c = 237 -> <<2, 128, 159>>
    [] c = 240 -> <<3, 144, 191>>
    [] c \in 241..243 -> <<3, 128, 191>>
    [] c = 244 -> <<3, 128, 143>>
    [] OTHER -> <<4, 0, 0>>

Trails(s, i) ==
  LET lead == Lead(s[i])
  IN  /\ lead[1] <= 3
      /\ i + lead[1] <= Len(s)
      /\ \A k \in 1..lead[1] :
           s[i + k] \in (IF k = 1 THEN lead[2]..lead[3] ELSE 128..191)

RECURSIVE Utf8From(_, _)
Utf8From(s, i) ==
  i > Len(s) \/ (Trails(s, i) /\ Utf8From(s, i + Lead(s[i])[1] + 1))

is_valid_utf8(s) == Utf8From(s, 1)

is_valid_close_status_code(code) ==
  code \in 1000..4999 /\ code \notin {1004, 1005, 1006, 1015}

-----------------------------------------------------------------------------
LengthBytes(code) == CASE code = 126 -> 2 [] code = 127 -> 8 [] OTHER -> 0

\* build_websocket_frame.
build_websocket_frame(opcode, payload, fin) ==
  LET n == Len(payload)
  IN  <<(IF fin THEN 128 ELSE 0) + opcode>> \o
      (CASE n <= SmallLength -> <<n>>
         [] n > SmallLength /\ n <= MidLength -> <<126>> \o append_be(n, 2)
         [] n > MidLength -> <<127>> \o append_be(n, 8)) \o payload

\* What a client makes of it: mask bit and key, and the faults of Frames.
Key == <<5, 200, 0, 255>>
Masked(payload) == [i \in 1..Len(payload) |-> payload[i] ^^ Key[((i - 1) % 4) + 1]]
Encoded(f) ==
  LET plain == build_websocket_frame(f.opcode, f.payload, f.fin)
      head  == 2 + LengthBytes(plain[2])
  IN  <<plain[1] + 16 * f.rsv, plain[2] + (IF f.masked THEN 128 ELSE 0)>> \o
      [i \in 1..(head - 2) |-> plain[i + 2] + (IF f.high /\ i = 1 THEN 128 ELSE 0)] \o
      (IF f.masked THEN Key \o Masked(f.payload) ELSE f.payload)

-----------------------------------------------------------------------------
Drop(buf, n) == SubSeq(buf, n + 1, Len(buf))
Fail(p, code) == [p EXCEPT !.close_code = code]
Event(p, opcode, payload) == [p EXCEPT !.events = Append(@, <<opcode, payload>>)]
Unfragmented(p) == [p EXCEPT !.active = FALSE, !.payload = <<>>]

\* A frame has been taken out of the buffer: op, whether it is final, data.
OnContinuation(p, fin, data) ==
  LET whole == p.payload \o data
  IN  CASE ~p.active -> Fail(p, ProtocolError)
        [] p.active /\ Len(data) > MaxMessage - Len(p.payload) -> Fail(p, TooLarge)
        [] p.active /\ Len(whole) <= MaxMessage /\ ~fin -> [p EXCEPT !.payload = whole]
        [] OTHER -> IF p.type = Text /\ ~is_valid_utf8(whole)
                    THEN Fail(Unfragmented(p), InvalidData)
                    ELSE Unfragmented(Event(p, p.type, whole))

\* Mutant: an unfinished message is overwritten by a new one.
OnDataRestarts(p, op, fin, data) ==
  CASE Len(data) > MaxMessage -> Fail(p, TooLarge)
    [] Len(data) <= MaxMessage /\ ~fin -> [p EXCEPT !.active = TRUE, !.type = op, !.payload = data]
    [] OTHER -> IF op = Text /\ ~is_valid_utf8(data) THEN Fail(p, InvalidData)
                ELSE Event(p, op, data)
OnData(p, op, fin, data) ==
  CASE p.active -> Fail(p, ProtocolError)
    [] ~p.active /\ Len(data) > MaxMessage -> Fail(p, TooLarge)
    [] ~p.active /\ Len(data) <= MaxMessage /\ ~fin ->
         [p EXCEPT !.active = TRUE, !.type = op, !.payload = data]
    [] OTHER -> IF op = Text /\ ~is_valid_utf8(data) THEN Fail(p, InvalidData)
                ELSE Event(p, op, data)

OnClose(p, data) ==
  LET code == read_be(SubSeq(data, 1, 2))
  IN  CASE Len(data) = 0 -> Event(p, Close, Normal)
        [] Len(data) = 1 -> Fail(p, ProtocolError)
        [] OTHER -> IF ~is_valid_close_status_code(code) THEN Fail(p, ProtocolError)
                    ELSE IF ~is_valid_utf8(Drop(data, 2)) THEN Fail(p, InvalidData)
                    ELSE Event(p, Close, code)

\* One turn of parse's loop.  A frame that is not complete leaves the state
\* as it is, which ends the loop.
ParseFrame(p) ==
  LET buf    == p.buffer
      fin    == buf[1] >= 128
      rsv    == (buf[1] \div 16) % 8
      op     == buf[1] % 16
      masked == buf[2] >= 128
      extra  == LengthBytes(buf[2] % 128)
      head   == 2 + extra
      length == IF extra = 0 THEN buf[2] % 128 ELSE read_be(SubSeq(buf, 3, head))
      data   == [i \in 1..length |-> buf[head + 4 + i] ^^ buf[head + 1 + ((i - 1) % 4)]]
      taken  == [p EXCEPT !.buffer = Drop(@, head + 4 + length)]
  IN  IF rsv # 0 \/ ~is_known_opcode(op) THEN Fail(p, ProtocolError)
      ELSE IF Len(buf) < head THEN p
      ELSE IF (extra = 8 /\ buf[3] >= 128) \/ ~masked THEN Fail(p, ProtocolError)
      ELSE IF Len(buf) < head + 4 + length THEN p
      ELSE IF is_control_opcode(op) /\ (~fin \/ length > SmallLength)
           THEN Fail(p, ProtocolError)
      ELSE CASE op = Continuation -> OnContinuation(taken, fin, data)
             [] op \in {Text, Binary} -> OnData(taken, op, fin, data)
             [] op = Close -> OnClose(taken, data)
             [] op \in {Ping, Pong} -> Event(taken, op, data)

RECURSIVE parse(_)
parse(p) ==
  IF Len(p.buffer) < 2 \/ p.close_code # 0 THEN p
  ELSE LET q == ParseFrame(p) IN IF q = p THEN p ELSE parse(q)

\* WebSocketSession::on_message over the events of one parse: a failed parse
\* drops them all, a close the ones behind it.
Handled(events, code) ==
  LET closes == {i \in DOMAIN events : events[i][1] = Close}
      first  == CHOOSE i \in closes : \A j \in closes : i <= j
  IN  CASE code # 0 -> [handed |-> <<>>, code |-> code]
        [] code = 0 /\ closes = {} -> [handed |-> events, code |-> 0]
        [] OTHER -> [handed |-> SubSeq(events, 1, first - 1), code |-> events[first][2]]

-----------------------------------------------------------------------------
Init ==
  /\ text \in Texts
  /\ frames = <<>> /\ wire = <<>>
  /\ parser = [buffer |-> <<>>, active |-> FALSE, type |-> Text, payload |-> <<>>,
               events |-> <<>>, close_code |-> 0]
  /\ session = [handed |-> <<>>, code |-> 0]

Send(f) ==
  /\ session.code = 0 /\ Len(frames) < MaxFrames /\ wire = <<>>
  /\ text = <<>>
  /\ frames' = Append(frames, f)
  /\ wire' = wire \o Encoded(f)
  /\ UNCHANGED <<text, parser, session>>

\* A second frame may be on its way before the first is read.
SendMore(f) ==
  /\ session.code = 0 /\ Len(frames) < MaxFrames
  /\ frames # <<>> /\ wire = Encoded(Last(frames))
  /\ frames' = Append(frames, f)
  /\ wire' = wire \o Encoded(f)
  /\ UNCHANGED <<text, parser, session>>

on_message(n) ==
  /\ session.code = 0
  /\ n <= Len(wire)
  /\ wire' = Drop(wire, n)
  /\ LET p == parse([parser EXCEPT !.buffer = @ \o SubSeq(wire, 1, n), !.events = <<>>])
         h == Handled(p.events, p.close_code)
     IN  /\ parser' = [p EXCEPT !.events = <<>>]
         /\ session' = [handed |-> session.handed \o h.handed, code |-> h.code]
  /\ UNCHANGED <<text, frames>>

Next ==
  \/ \E f \in Frames : Send(f) \/ SendMore(f)
  \/ \E n \in 1..MaxRead : on_message(n)

Spec == Init /\ [][Next]_vars

-----------------------------------------------------------------------------
(* The meaning of frames, without a parser: a data frame belongs to the    *)
(* message that the last text or binary frame up to it began.              *)
DataBefore(i) == {j \in 1..(i - 1) : ~is_control_opcode(frames[j].opcode)}
Newest(S) == CHOOSE j \in S : \A k \in S : k <= j
Open(i) ==
  /\ \E j \in DataBefore(i) : frames[j].opcode # Continuation
  /\ ~frames[Newest(DataBefore(i))].fin
Begin(i) == Newest({j \in 1..i : frames[j].opcode \in {Text, Binary}})
Joined(i) ==
  FlattenSeq([j \in 1..(i - Begin(i) + 1) |->
    LET f == frames[Begin(i) + j - 1] IN IF is_control_opcode(f.opcode) THEN <<>> ELSE f.payload])

(* A code point of n trail bytes: none is longer than it needs to be, none *)
(* is a surrogate, none is above U+10FFFF.                                 *)
Decodes(s) ==
  \E n \in 0..3 :
    /\ Len(s) = n + 1
    /\ \A k \in 2..(n + 1) : s[k] \in 128..191
    /\ LET mark  == <<0, 192, 224, 240>>[n + 1]
           top   == <<128, 32, 16, 8>>[n + 1]
           point == FoldLeft(LAMBDA v, b : v * 64 + (b - 128), s[1] - mark, Tail(s))
       IN  /\ s[1] >= mark /\ s[1] < mark + top
           /\ point >= <<0, 128, 2048, 65536>>[n + 1]
           /\ point \notin 55296..57343 /\ point <= 1114111
RECURSIVE IsText(_)
IsText(s) ==
  \/ s = <<>>
  \/ \E k \in 1..(IF Len(s) < 4 THEN Len(s) ELSE 4) :
       Decodes(SubSeq(s, 1, k)) /\ IsText(Drop(s, k))

Broken(f) ==
  \/ f.rsv # 0 \/ ~is_known_opcode(f.opcode) \/ ~f.masked \/ f.high
  \/ is_control_opcode(f.opcode) /\ (~f.fin \/ Len(f.payload) > SmallLength)

\* 0, or the close code the frame deserves after the frames before it.
Fault(i) ==
  LET f == frames[i]
      data == Drop(f.payload, 2)
  IN  IF Broken(f) THEN ProtocolError
      ELSE IF f.opcode = Close
           THEN IF f.payload = <<>> THEN 0
                ELSE IF Len(f.payload) = 1 \/ ~is_valid_close_status_code(read_be(SubSeq(f.payload, 1, 2)))
                THEN ProtocolError
                ELSE IF IsText(data) THEN 0 ELSE InvalidData
      ELSE IF is_control_opcode(f.opcode) THEN 0
      ELSE IF (f.opcode = Continuation) # Open(i) THEN ProtocolError
      ELSE IF Len(Joined(i)) > MaxMessage THEN TooLarge
      ELSE IF f.fin /\ frames[Begin(i)].opcode = Text /\ ~IsText(Joined(i)) THEN InvalidData
      ELSE 0

Meaning(i) ==
  LET f == frames[i]
  IN  CASE f.opcode = Close -> <<<<Close, IF f.payload = <<>> THEN Normal
                                           ELSE read_be(SubSeq(f.payload, 1, 2))>>>>
        [] f.opcode \in {Ping, Pong} -> <<<<f.opcode, f.payload>>>>
        [] OTHER -> IF f.fin THEN <<<<frames[Begin(i)].opcode, Joined(i)>>>> ELSE <<>>

Meanings(n) == FlattenSeq([i \in 1..n |-> Meaning(i)])

(* n frames are wholly read: their bytes are no more than what was read.   *)
Sent(n) == Len(FlattenSeq([i \in 1..n |-> Encoded(frames[i])]))
WhollyRead ==
  Newest({n \in 0..Len(frames) : Sent(n) <= Sent(Len(frames)) - Len(wire)})

(* The frames up to the first fault, among those a read has touched.       *)
Faults == {i \in 1..Len(frames) : Fault(i) # 0}
FirstFault == CHOOSE i \in Faults : \A j \in Faults : i <= j
Closes(n) == {i \in 1..n : frames[i].opcode = Close /\ Fault(i) = 0}

(* However the reads cut the frames: an open session has been handed every *)
(* message, ping and pong whose last frame was read, each message joined   *)
(* from its fragments and no fault was read.  A session that closed did so *)
(* with the code of the client's close, having been handed everything      *)
(* before it, or with the code of the first faulty frame, having been      *)
(* handed nothing that came after it.                                      *)
FramesAgree ==
  LET n == WhollyRead
  IN  /\ session.code = 0 =>
           /\ Faults \cap (1..n) = {} /\ Closes(n) = {}
           /\ session.handed = Meanings(n)
      /\ session.code # 0 =>
           \/ \E c \in Closes(n) : /\ Faults \cap (1..c) = {}
                                   /\ Closes(c) = {c}
                                   /\ <<<<Close, session.code>>>> = Meaning(c)
                                   /\ session.handed = Meanings(c - 1)
           \/ /\ Faults # {} /\ FirstFault <= n + 1
              /\ session.code = Fault(FirstFault)
              /\ IsPrefix(session.handed, Meanings(FirstFault - 1))

(* The byte ranges of is_valid_utf8 are those of the code points.          *)
TextsAgree == is_valid_utf8(text) <=> IsText(text)
=============================================================================
