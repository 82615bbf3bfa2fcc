----------------------------- MODULE HttpParser -----------------------------
(***************************************************************************)
(* zhttp::HttpParser as HttpServer::on_message drives it: requests that    *)
(* arrive in pieces of any size are parsed from the connection's input     *)
(* buffer, one after the other.                                            *)
(*                                                                         *)
(* A byte is one of the symbols below; a symbol that stands for the text   *)
(* of a line counts as one byte.  What is taken out of a request line and  *)
(* of headers that do not frame the body is left out.                      *)
(***************************************************************************)
EXTENDS Naturals, Sequences

CONSTANTS
  BodyLength,   \* the value of the Content-Length header
  MaxPending,   \* bound: bytes that wait for the rest of their line or body
  MaxBytes      \* bound: bytes that arrive

(* A good request line, the headers Content-Length and Transfer-Encoding:  *)
(* chunked, the chunk sizes 0 and 1, CR and LF.                            *)
Symbols == {"request", "length", "chunked", "0", "1", "cr", "lf"}

VARIABLES
  parser,   \* the HttpParser, the input buffer and the requests handed on
  stream    \* everything that has arrived

vars == <<parser, stream>>

Reset == [state |-> "REQUEST_LINE", chunk |-> "SIZE_LINE",
          chunked |-> FALSE, content_length |-> 0, body |-> <<>>]

Fresh(bytes, handed) == [http |-> Reset, buffer |-> bytes, requests |-> handed]

-----------------------------------------------------------------------------
\* Buffer::find_crlf: the bytes before it, or 0 for nullptr after all.
Lines(buf) == {i \in 1..(Len(buf) - 1) : buf[i] = "cr" /\ buf[i + 1] = "lf"}
HasLine(buf) == Lines(buf) # {}
find_crlf(buf) == (CHOOSE i \in Lines(buf) : \A j \in Lines(buf) : i <= j) - 1
Line(buf) == SubSeq(buf, 1, find_crlf(buf))

retrieve(buf, n) == SubSeq(buf, n + 1, Len(buf))
Rest(buf) == retrieve(buf, find_crlf(buf) + 2)

HasColon(line) == \E i \in DOMAIN line : line[i] \in {"length", "chunked"}

Into(p, buf, http) == [p EXCEPT !.buffer = buf, !.http = http]
Fails(p) == [p EXCEPT !.http.state = "ERROR"]

parse_request_line(p) ==
  IF Line(p.buffer) = <<"request">>
  THEN Into(p, Rest(p.buffer), [p.http EXCEPT !.state = "HEADERS"])
  ELSE Fails(p)

\* An empty line ends the headers; chunked wins over a length.  The headers
\* seen are in the fields chunked and content_length from the start.
parse_headers(p) ==
  LET h    == p.http
      line == Line(p.buffer)
      next == CASE line = <<>> /\ h.chunked ->
                     [h EXCEPT !.state = "BODY", !.content_length = 0]
                [] line = <<>> /\ ~h.chunked ->
                     [h EXCEPT !.state = IF h.content_length > 0 THEN "BODY" ELSE "COMPLETE"]
                [] line = <<"length">>  -> [h EXCEPT !.content_length = BodyLength]
                [] line = <<"chunked">> -> [h EXCEPT !.chunked = TRUE]
                [] OTHER -> h
  IN  IF line # <<>> /\ ~HasColon(line) THEN Fails(p)
      ELSE Into(p, Rest(p.buffer), next)

parse_body(p) ==
  LET n == p.http.content_length
  IN  Into(p, retrieve(p.buffer, n),
           [p.http EXCEPT !.state = "COMPLETE", !.body = SubSeq(p.buffer, 1, n)])

parse_chunk_size_line(line) == line \in {<<"0">>, <<"1">>}

SizeLine(p) ==
  LET line == Line(p.buffer)
      size == IF line = <<"1">> THEN 1 ELSE 0
  IN  IF ~parse_chunk_size_line(line) THEN Fails([p EXCEPT !.buffer = Rest(@)])
      ELSE Into(p, Rest(p.buffer),
                [p.http EXCEPT !.content_length = size,
                               !.chunk = IF size = 0 THEN "TRAILERS" ELSE "DATA"])

ChunkData(p) ==
  LET n == p.http.content_length
  IN  Into(p, retrieve(p.buffer, n),
           [p.http EXCEPT !.body = @ \o SubSeq(p.buffer, 1, n), !.chunk = "DATA_CRLF"])

ChunkEnd(p) ==
  IF 1 \in Lines(p.buffer)
  THEN Into(p, retrieve(p.buffer, 2), [p.http EXCEPT !.chunk = "SIZE_LINE"])
  ELSE Fails(p)

Trailer(p) ==
  CASE Line(p.buffer) = <<>> ->
         Into(p, Rest(p.buffer), [p.http EXCEPT !.state = "COMPLETE"])
    [] Line(p.buffer) # <<>> /\ HasColon(Line(p.buffer)) -> Into(p, Rest(p.buffer), p.http)
    [] OTHER -> Fails(p)

\* Mutant: one byte is taken for the chunk's end.
ChunkEndSeenEarly(p) == p.buffer # <<>>
ChunkEndSeen(p) == Len(p.buffer) >= 2

\* NEED_MORE: what the next step looks for has not arrived.
NeedsMore(p) ==
  LET h == p.http
  IN  \/ p.buffer = <<>>
      \/ /\ \/ h.state \in {"REQUEST_LINE", "HEADERS"}
            \/ h.state = "BODY" /\ h.chunked /\ h.chunk \in {"SIZE_LINE", "TRAILERS"}
         /\ ~HasLine(p.buffer)
      \/ /\ h.state = "BODY" /\ (h.chunked => h.chunk = "DATA")
         /\ Len(p.buffer) < h.content_length
      \/ h.state = "BODY" /\ h.chunked /\ h.chunk = "DATA_CRLF" /\ ~ChunkEndSeen(p)

ParseStep(p) ==
  LET h == p.http
  IN  CASE h.state = "REQUEST_LINE" -> parse_request_line(p)
        [] h.state = "HEADERS" -> parse_headers(p)
        [] h.state = "BODY" /\ ~h.chunked -> parse_body(p)
        [] h.state = "BODY" /\ h.chunked /\ h.chunk = "SIZE_LINE" -> SizeLine(p)
        [] h.state = "BODY" /\ h.chunked /\ h.chunk = "DATA" -> ChunkData(p)
        [] h.state = "BODY" /\ h.chunked /\ h.chunk = "DATA_CRLF" -> ChunkEnd(p)
        [] OTHER -> Trailer(p)

\* A complete request is handed on, the parser reset, and parsing goes on.
RECURSIVE parse(_)
parse(p) ==
  CASE p.http.state = "COMPLETE" -> parse(Fresh(p.buffer, Append(p.requests, p.http.body)))
    [] p.http.state = "ERROR" -> p
    [] p.http.state \notin {"COMPLETE", "ERROR"} /\ NeedsMore(p) -> p
    [] OTHER -> parse(ParseStep(p))

-----------------------------------------------------------------------------
Init == parser = Fresh(<<>>, <<>>) /\ stream = <<>>

Arrive(bytes) ==
  /\ parser.http.state # "ERROR"
  /\ Len(stream) + Len(bytes) <= MaxBytes
  /\ Len(parser.buffer) + Len(bytes) <= MaxPending
  /\ stream' = stream \o bytes
  /\ parser' = parse([parser EXCEPT !.buffer = @ \o bytes])

Next == \E n \in 1..2 : \E bytes \in [1..n -> Symbols] : Arrive(bytes)

Spec == Init /\ [][Next]_vars

-----------------------------------------------------------------------------
(* However the bytes are cut into pieces, the parser hands on the requests *)
(* it would have handed on had they come at once, and stands where it      *)
(* would stand then; and what it rejects no further byte could have saved. *)
SplitsAgree ==
  /\ parser = parse(Fresh(stream, <<>>))
  /\ parser.http.state = "ERROR" =>
       \A b \in Symbols : parse(Fresh(Append(stream, b), <<>>)).http.state = "ERROR"
=============================================================================
