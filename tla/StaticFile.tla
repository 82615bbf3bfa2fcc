----------------------------- MODULE StaticFile -----------------------------
(***************************************************************************)
(* StaticFileMiddleware::before for one path, with conditional requests,   *)
(* ranges, precompressed variants and the memory cache, and clients that   *)
(* keep what they were sent, revalidate it and resume a part of it.        *)
(*                                                                         *)
(* A file's content is its version; the cells of a copy say which version  *)
(* of which variant each part came from.                                   *)
(***************************************************************************)
EXTENDS Naturals, Integers, Sequences, FiniteSets

CONSTANTS
  Clients, None,
  Accept,          \* Accept-Encoding of each client
  Deployed,        \* the variants that are on the disk at the start
  Length,          \* cells of a file
  MaxVersion,      \* bound: versions of the file
  ReplacedInUse,   \* whether a file may be replaced while a request reads it
  SameMtime        \* whether the variants of a version are given one mtime

Variants == <<"br", "gzip", "">>
Encodings == {"br", "gzip", ""}
Cells == 0..(Length - 1)

VARIABLES
  disk,      \* the version of each variant; 0: no such file
  version,   \* the newest version
  cache,     \* cache_: for each encoding an entry or None
  req,       \* the request a client has under way
  copy       \* what the client holds

vars == <<disk, version, cache, req, copy>>

Idle == [at |-> "idle"]
Nothing == [cells |-> [i \in Cells |-> None], enc |-> "", stamp |-> 0]
Candidates(c) ==   \* br, gzip, identity, as far as the client accepts them
  SelectSeq(Variants, LAMBDA e : e = "" \/ e \in Accept[c])

\* The tag is made of the size, which is Length for every file here, and the
\* mtime in nanoseconds; the date is the mtime in seconds, and versions are
\* seconds apart.  A file that is gone has neither.
Mtime(enc, v) == IF SameMtime THEN <<v>> ELSE <<v, enc>>
ETag(enc, v) == IF v = 0 THEN None ELSE <<Length, Mtime(enc, v)>>
LastModified(enc, v) == IF v = 0 THEN None ELSE Mtime(enc, v)

Init ==
  /\ version = 1
  /\ disk = [e \in Encodings |-> IF e \in Deployed THEN 1 ELSE 0]
  /\ cache = [e \in Encodings |-> None]
  /\ req = [c \in Clients |-> Idle]
  /\ copy = [c \in Clients |-> Nothing]

-----------------------------------------------------------------------------
(* parse_range_request: first and second are numbers, Empty, or Junk.      *)
Empty == -1
Junk == -2
Satisfied(start, end) == [state |-> "SATISFIABLE", start |-> start, end |-> end]
Unsatisfied(state) == [state |-> state, start |-> 0, end |-> 0]

ParseRange(first, second, length) ==
  CASE first = Empty /\ second = Empty -> Unsatisfied("INVALID")
    [] length = 0 /\ (first # Empty \/ second # Empty) -> Unsatisfied("NOT_SATISFIABLE")
    [] length > 0 /\ first = Empty /\ second # Empty ->
         IF second \in {Junk, 0} THEN Unsatisfied("NOT_SATISFIABLE")
         ELSE Satisfied(IF second < length THEN length - second ELSE 0, length - 1)
    [] length > 0 /\ first # Empty ->
         IF first = Junk THEN Unsatisfied("INVALID")
         ELSE IF first >= length THEN Unsatisfied("NOT_SATISFIABLE")
         ELSE IF second = Empty THEN Satisfied(first, length - 1)
         ELSE IF second = Junk THEN Unsatisfied("INVALID")
         ELSE IF second < first THEN Unsatisfied("NOT_SATISFIABLE")
         ELSE Satisfied(first, IF second >= length THEN length - 1 ELSE second)

\* If-Range that does not match: the range is ignored.
\* Mutant: If-Range is not looked at.
RangedAlways(r, modified) ==
  IF r.first = Empty THEN Unsatisfied("NONE") ELSE ParseRange(r.first, r.second, Length)
Ranged(r, modified) ==
  IF r.first = Empty \/ (r.header.ifRange # None /\ r.header.ifRange # modified) THEN Unsatisfied("NONE")
  ELSE ParseRange(r.first, r.second, Length)

-----------------------------------------------------------------------------
Request(c, method, first, second, conditions) ==
  /\ req[c] = Idle
  /\ req' = [req EXCEPT ![c] =
       [at |-> "cache", method |-> method, first |-> first, second |-> second,
        header |-> conditions, enc |-> "", stamp |-> 0, body |-> 0]]
  /\ UNCHANGED <<disk, version, cache, copy>>

Unconditional == [ifRange |-> None, ifNoneMatch |-> None, ifModified |-> None]
Missing(c) == {i \in Cells : copy[c].cells[i] = None}

\* What a client asks for: all of it, a first part, the rest of a part it
\* has, or whether its copy is still good, by tag, by date or by both.
Get(c) == \E m \in {"GET", "HEAD"} : Request(c, m, Empty, Empty, Unconditional)
GetPart(c) == Missing(c) = Cells /\ Request(c, "GET", 0, 0, Unconditional)
Resume(c) ==
  /\ Missing(c) \notin {{}, Cells}
  /\ Request(c, "GET", CHOOSE i \in Missing(c) : \A j \in Missing(c) : i <= j, Length,
             [Unconditional EXCEPT !.ifRange = LastModified(copy[c].enc, copy[c].stamp)])
Revalidate(c) ==
  /\ Missing(c) = {}
  /\ \E tag \in {None, ETag(copy[c].enc, copy[c].stamp)},
        date \in {None, LastModified(copy[c].enc, copy[c].stamp)} :
       /\ <<tag, date>> # <<None, None>>
       /\ Request(c, "GET", Empty, Empty,
                  [Unconditional EXCEPT !.ifNoneMatch = tag, !.ifModified = date])

\* The client gives up its copy.
Forget(c) ==
  /\ req[c] = Idle /\ copy[c] # Nothing
  /\ copy' = [copy EXCEPT ![c] = Nothing]
  /\ UNCHANGED <<disk, version, cache, req>>

-----------------------------------------------------------------------------
\* try_handle_conditional_not_modified.
NotModified(r, enc, stamp) ==
  LET tag  == r.header.ifNoneMatch
      date == r.header.ifModified
  IN  \/ tag # None /\ tag = ETag(enc, stamp)
      \/ tag = None /\ date # None /\ date = LastModified(enc, stamp)

\* write_payload_by_range: 416 and HEAD bring nothing, 206 a part, 200 all.
Received(c, enc, stamp, body) ==
  LET r     == req[c]
      range == Ranged(r, LastModified(enc, stamp))
      part  == IF range.state = "SATISFIABLE" THEN range.start..range.end ELSE Cells
  IN  IF r.method = "HEAD" \/ range.state = "NOT_SATISFIABLE" THEN copy[c]
      ELSE [cells |-> [i \in Cells |-> IF i \in part THEN <<enc, body>> ELSE copy[c].cells[i]],
            enc |-> enc, stamp |-> stamp]

\* The memory cache, candidates in order; expired entries met on the way go.
Live(e) == cache[e] # None /\ cache[e].fresh
Hits(c) == {i \in DOMAIN Candidates(c) : Live(Candidates(c)[i])}
Hit(c) == Candidates(c)[CHOOSE i \in Hits(c) : \A j \in Hits(c) : i <= j]
Swept(c) ==
  [e \in Encodings |->
    IF \E i \in DOMAIN Candidates(c) :
         /\ Candidates(c)[i] = e /\ ~Live(e)
         /\ Hits(c) # {} => \A j \in Hits(c) : i < j
    THEN None ELSE cache[e]]

FromCache(c) ==
  /\ req[c].at = "cache"
  /\ cache' = Swept(c)
  /\ IF Hits(c) = {}
     THEN req' = [req EXCEPT ![c].at = "select"] /\ UNCHANGED copy
     ELSE LET e == cache[Hit(c)]
          IN  /\ req' = [req EXCEPT ![c] = Idle]
              /\ copy' = [copy EXCEPT ![c] =
                   IF NotModified(req[c], Hit(c), e.stamp) THEN @
                   ELSE Received(c, Hit(c), e.stamp, e.body)]
  /\ UNCHANGED <<disk, version>>

\* The first candidate that is a regular file; without one the request goes
\* on to the router.
Select(c) ==
  LET there == {i \in DOMAIN Candidates(c) : disk[Candidates(c)[i]] # 0}
      first == CHOOSE i \in there : \A j \in there : i <= j
  IN  /\ req[c].at = "select"
      /\ req' = [req EXCEPT ![c] =
           IF there = {} THEN Idle ELSE [@ EXCEPT !.at = "stat", !.enc = Candidates(c)[first]]]
      /\ UNCHANGED <<disk, version, cache, copy>>

\* get_etag and get_last_modified, and the conditional answer.
Stat(c) ==
  LET r == req[c]
  IN  /\ r.at = "stat"
      /\ req' = [req EXCEPT ![c] =
           IF NotModified(r, r.enc, disk[r.enc]) THEN Idle
           ELSE [@ EXCEPT !.at = "read", !.stamp = disk[r.enc]]]
      /\ UNCHANGED <<disk, version, cache, copy>>

\* read_file and the answer; a file that is gone is left to the router.
Read(c) ==
  LET r == req[c]
  IN  /\ r.at = "read"
      /\ IF disk[r.enc] = 0
         THEN req' = [req EXCEPT ![c] = Idle] /\ UNCHANGED copy
         ELSE /\ req' = [req EXCEPT ![c].at = "store", ![c].body = disk[r.enc]]
              /\ copy' = [copy EXCEPT ![c] = Received(c, r.enc, r.stamp, disk[r.enc])]
      /\ UNCHANGED <<disk, version, cache>>

Store(c) ==
  /\ req[c].at = "store"
  /\ cache' = [cache EXCEPT ![req[c].enc] =
                 [stamp |-> req[c].stamp, body |-> req[c].body, fresh |-> TRUE]]
  /\ req' = [req EXCEPT ![c] = Idle]
  /\ UNCHANGED <<disk, version, copy>>

\* memory_cache_time passes.
Expire(e) ==
  /\ Live(e)
  /\ cache' = [cache EXCEPT ![e].fresh = FALSE]
  /\ UNCHANGED <<disk, version, req, copy>>

InUse(e) == \E c \in Clients : req[c].at = "read" /\ req[c].enc = e

\* A variant is written anew, or deleted.
Replace(e) ==
  /\ version < MaxVersion \/ disk[e] # version
  /\ InUse(e) => ReplacedInUse
  /\ version' = IF disk[e] = version THEN version + 1 ELSE version
  /\ disk' = [disk EXCEPT ![e] = version']
  /\ UNCHANGED <<cache, req, copy>>

Delete(e) ==
  /\ disk[e] # 0
  /\ disk' = [disk EXCEPT ![e] = 0]
  /\ UNCHANGED <<version, cache, req, copy>>

Next ==
  \/ \E c \in Clients :
       \/ Get(c) \/ GetPart(c) \/ Resume(c) \/ Revalidate(c) \/ Forget(c)
       \/ FromCache(c) \/ Select(c) \/ Stat(c) \/ Read(c) \/ Store(c)
  \/ \E e \in Deployed : Expire(e) \/ Replace(e) \/ Delete(e)

Spec == Init /\ [][Next]_vars

-----------------------------------------------------------------------------
(* What a client puts together from a part, the rest it resumes and the    *)
(* 304 answers in between is one version of one variant, one it accepts,   *)
(* and the ETag it would revalidate it with is that version's, whether the *)
(* answers came from the disk or from the cache and whatever was replaced, *)
(* deleted or expired in between.                                          *)
CopiesWhole ==
  \A c \in Clients : \A i \in Cells :
    copy[c].cells[i] # None =>
      /\ copy[c].cells[i] = <<copy[c].enc, copy[c].stamp>>
      /\ copy[c].enc \in Accept[c] \cup {""}

(* A range is answered with exactly the bytes it names that exist, and     *)
(* with 416 when there are none.                                           *)
Named(first, second, length) ==
  {i \in 0..(length - 1) :
     IF first = Empty THEN i >= length - second
     ELSE i >= first /\ (second = Empty \/ i <= second)}
RangesAgree ==
  \A length \in 0..(Length + 1) : \A first, second \in Empty..(Length + 2) :
    LET r == ParseRange(first, second, length)
        named == Named(first, second, length)
    IN  first # Empty \/ second # Empty =>
          IF named = {} THEN r.state = "NOT_SATISFIABLE"
          ELSE r.state = "SATISFIABLE" /\ r.start..r.end = named
=============================================================================
