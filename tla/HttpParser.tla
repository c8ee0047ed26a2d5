----------------------------- MODULE HttpParser -----------------------------
(***************************************************************************)
(* http::Parser (src/http_parser.cpp) as operators over the bytes of a     *)
(* connection's in_, read through a base::Buffer::Iterator from the       *)
(* front.  in_ is a plain sequence of bytes and the Iterator reads it in   *)
(* order: the Buffer run shows base::Buffer and its Iterator do that.  A   *)
(* byte is a string: the parser only tells ' ', '/', '\r' and '\n' from    *)
(* the rest, and parseResponse the Content-Length header.  getChar() at    *)
(* the end of in_ reads the byte after the last one written, memory        *)
(* nobody wrote: any byte, `junk`, chosen by the caller.                   *)
(*                                                                         *)
(* A step's result is [x, p, v]: x is "ok", "incomplete" (IncompleteInput) *)
(* or "error" (ErrorInRequest), p is the Iterator's bytes_read_ after it,  *)
(* v what it parsed.                                                       *)
(***************************************************************************)
EXTENDS Naturals, Sequences, SequencesExt, TLC

SP == " "
SL == "/"
CR == "CR"
LF == "LF"

Ok(p, v) == [x |-> "ok", p |-> p, v |-> v]
Incomplete == [x |-> "incomplete", p |-> 0, v |-> <<>>]
Error == [x |-> "error", p |-> 0, v |-> <<>>]

\* The Iterator over s: eob() at the end, getChar() past it is junk, and
\* next() at the end leaves the position alone (slowNext finds no byte).
eob(s, p) == p = Len(s)
getChar(s, p, junk) == IF p < Len(s) THEN s[p + 1] ELSE junk
next(s, p) == IF p < Len(s) THEN p + 1 ELSE p

\* The first position from p whose byte is in Stops, or the end.
ScanTo(s, p, Stops) ==
  CHOOSE q \in p..Len(s) :
    /\ q = Len(s) \/ s[q + 1] \in Stops
    /\ \A j \in p..(q - 1) : s[j + 1] \notin Stops

\* Mutant: the string keeps one byte too few.
parseStringShort(s, p) ==
  LET q == ScanTo(s, p, {SP, CR}) IN
  IF eob(s, p) \/ eob(s, q) THEN Incomplete ELSE Ok(q, SubSeq(s, p + 1, q - 1))

parseString(s, p) ==
  LET q == ScanTo(s, p, {SP, CR}) IN
  IF eob(s, p) \/ eob(s, q) THEN Incomplete ELSE Ok(q, SubSeq(s, p + 1, q))

\* On '\r' the next byte is read without an eob() test.
parseLine(s, p, junk) ==
  LET q == ScanTo(s, p, {CR})
      q1 == next(s, q)
  IN  IF eob(s, p) \/ eob(s, q) THEN Incomplete
      ELSE IF getChar(s, q1, junk) = LF THEN Ok(next(s, q1), SubSeq(s, p + 1, q))
      ELSE Error

skipChar(s, p, c) ==
  IF eob(s, p) THEN Incomplete
  ELSE IF s[p + 1] # c THEN Error
  ELSE Ok(p + 1, <<>>)

skipNewLine(s, p) ==
  IF eob(s, p) \/ eob(s, p + 1) THEN Incomplete
  ELSE IF s[p + 1] # CR \/ s[p + 2] # LF THEN Error
  ELSE Ok(p + 2, <<>>)

\* The header loop: parse lines until an empty one.
RECURSIVE parseHeaders(_, _, _)
parseHeaders(s, p, junk) ==
  LET l == parseLine(s, p, junk) IN
  IF l.x # "ok" \/ l.v = <<>> THEN l ELSE parseHeaders(s, l.p, junk)

(* The calls in parseRequest's try block, in order: parseString, or       *)
(* skipChar of the character given, skipNewLine, or the header loop.       *)
(* The first throw ends the block.                                         *)
RequestSteps == <<"string", SP, SL, "string", SP, "string", "newline", "headers">>

parseStep(s, p, junk, step) ==
  CASE step = "string"  -> parseString(s, p)
    [] step = "newline" -> skipNewLine(s, p)
    [] step = "headers" -> parseHeaders(s, p, junk)
    [] OTHER            -> skipChar(s, p, step)

\* Runs steps from p; v collects the strings parsed (method, address, version).
RECURSIVE parseSteps(_, _, _, _, _)
parseSteps(s, p, junk, steps, strs) ==
  IF steps = <<>> THEN Ok(p, strs)
  ELSE LET r == parseStep(s, p, junk, Head(steps)) IN
       IF r.x # "ok" THEN r
       ELSE parseSteps(s, r.p, junk, Tail(steps),
                       IF Head(steps) = "string" THEN Append(strs, r.v) ELSE strs)

\* parseRequest: method ' ' '/' address ' ' version CRLF headers; the
\* result's v is the address.
\* Mutant: no skipChar(in, '/').
parseRequestNoSlash(s, junk) ==
  LET r == parseSteps(s, 0, junk, <<"string", SP, "string", SP, "string", "newline", "headers">>, <<>>)
  IN  IF r.x = "ok" THEN Ok(r.p, r.v[2]) ELSE r

parseRequest(s, junk) ==
  LET r == parseSteps(s, 0, junk, RequestSteps, <<>>)
  IN  IF r.x = "ok" THEN Ok(r.p, r.v[2]) ELSE r

-----------------------------------------------------------------------------
(* parseResponse.  "L" stands for the text "Content-Length:" and its      *)
(* space, and a digit byte for the number after it.                        *)

LengthTag == "L"
DigitValue == ("0" :> 0) @@ ("1" :> 1) @@ ("2" :> 2) @@ ("3" :> 3)
Digits == DOMAIN DigitValue

(* A header line that contains "Content-Length:" anywhere sets           *)
(* contentSize to what istringstream reads from the line's 16th byte on:  *)
(* the number after the tag when the line starts with it; 0 when no       *)
(* number is there.                                                        *)
contentSizeOf(line, size) ==
  IF \E i \in DOMAIN line : line[i] = LengthTag
  THEN IF Len(line) >= 2 /\ line[2] \in Digits THEN DigitValue[line[2]] ELSE 0
  ELSE size

\* The header loop of parseResponse; v is contentSize after the empty line.
RECURSIVE parseResponseHeaders(_, _, _, _)
parseResponseHeaders(s, p, junk, size) ==
  LET l == parseLine(s, p, junk) IN
  IF l.x # "ok" THEN l
  ELSE IF l.v = <<>> THEN Ok(l.p, size)
  ELSE parseResponseHeaders(s, l.p, junk, contentSizeOf(l.v, size))

(* parseResponse: a status line, headers up to an empty line, then         *)
(* contentSize bytes of body, or IncompleteInput while fewer are in in_.  *)
(* v is the Response: its statusLine and body (headerRemainder, the       *)
(* header lines glued together, is left out).                              *)
responseBody(s, status, headers) ==
  IF headers.x # "ok" THEN headers
  ELSE IF Len(s) - headers.p < headers.v THEN Incomplete
  ELSE Ok(headers.p + headers.v, [statusLine |-> status.v,
                                  body |-> SubSeq(s, headers.p + 1, headers.p + headers.v)])

parseResponse(s, junk) ==
  LET status == parseLine(s, 0, junk) IN
  IF status.x # "ok" THEN status
  ELSE responseBody(s, status, parseResponseHeaders(s, status.p, junk, 0))

=============================================================================
