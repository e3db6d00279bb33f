---------------------------- MODULE HttpContext -----------------------------
(***************************************************************************)
(* HttpContext (http/httpcontext.cc): the incremental parser of HTTP       *)
(* requests and responses over a connection's input Buffer.  Data arrives  *)
(* in fragments of any size; after each, the caller runs parseRequest (or  *)
(* parseResponse), which consumes complete lines and keeps its place in    *)
(* state between calls.                                                    *)
(*                                                                         *)
(* The byte stream is abstracted to tokens: a line's text is the sequence *)
(* of its space-separated words, followed by a "CRLF" token; a body byte   *)
(* is a "b" token.  A fragment boundary inside a line's text is the same,  *)
(* to the parser, as one before its CRLF (findCRLF is what it waits for). *)
(***************************************************************************)
EXTENDS Integers, Sequences, SequencesExt, FiniteSetsExt, TLC

CONSTANTS
  Methods,      \* the methods HttpRequest::setMethod accepts
  ColonWords,   \* the words that contain a ':'
  PathSplit     \* each path word split at its first '?':
                \* [path, query, question |-> whether it has one]

\* A token is a tuple: a line's words, or the one-element CRLF or body byte.
CRLF == <<"CRLF">>
Versions == [v11 |-> "HTTP/1.1", v10 |-> "HTTP/1.0"]

NoRequest == [method |-> "", path |-> "", query |-> "", version |-> "", headers |-> <<>>]


(***************************************************************************)
(* processRequestLine: the method is the text before the first space and  *)
(* must be accepted; the path (and query after '?') runs to the second    *)
(* space; everything after it must be exactly "HTTP/1.1" or "HTTP/1.0".   *)
(***************************************************************************)
ProcessRequestLine(words, req) ==
  IF Len(words) < 2 \/ words[1] \notin Methods THEN [ok |-> FALSE, request |-> req]
  ELSE IF Len(words) < 3 THEN [ok |-> FALSE, request |-> [req EXCEPT !.method = words[1]]]
  ELSE LET w  == words[2]
           r1 == IF PathSplit[w].question
                 THEN [req EXCEPT !.method = words[1], !.path = PathSplit[w].path,
                                  !.query = PathSplit[w].query]
                 ELSE [req EXCEPT !.method = words[1], !.path = w]
           ok == Len(words) = 3 /\ words[3] \in {Versions.v11, Versions.v10}
       IN [ok |-> ok, request |-> IF ok THEN [r1 EXCEPT !.version = words[3]] ELSE r1]

\* findCRLF: the index of the first CRLF token of the buffer, 0 if none.
FindCRLF(b) == IF \E i \in 1..Len(b) : b[i] = CRLF
               THEN CHOOSE i \in 1..Len(b) : b[i] = CRLF /\ \A j \in 1..(i - 1) : b[j] # CRLF
               ELSE 0

\* The text of the line that ends at the CRLF at index i (peek() .. crlf).
LineAt(b, i) == IF i = 1 THEN <<>> ELSE b[1]

\* Seeded fault: a header line is taken before its CRLF has arrived.
HeaderCRLFAtEnd(b) == IF FindCRLF(b) = 0 /\ b # <<>> THEN Len(b) + 1 ELSE FindCRLF(b)

\* In kExpectHeaders, the end of the next header line.
HeaderCRLF(b) == FindCRLF(b)

\* The blank line (no ':') completes the request and ends the loop.
BlankLine(c, rest) == [ctx |-> [c EXCEPT !.state = "kGotAll"], buf |-> rest]

(***************************************************************************)
(* parseRequest: the while (hasMore) loop.  A request line is processed   *)
(* and consumed once its CRLF is in the buffer; a failed one stops with   *)
(* ok = false and leaves it there.  A header line with a ':' is added; a *)
(* line without one (the blank line) completes the request and stops.    *)
(* With no CRLF the loop stops to wait for more data.  In any other state *)
(* (kExpectBody, kGotAll) no branch clears hasMore and the loop spins.   *)
(***************************************************************************)
RECURSIVE ParseRequest(_, _)
ParseRequest(c, b) ==
  IF c.state = "kExpectRequestLine"
  THEN LET i == FindCRLF(b) IN
       IF i = 0 THEN [ctx |-> c, buf |-> b]
       ELSE LET r == ProcessRequestLine(LineAt(b, i), c.request)
            IN IF r.ok
               THEN ParseRequest([c EXCEPT !.request = r.request, !.state = "kExpectHeaders"],
                                 SubSeq(b, i + 1, Len(b)))
               ELSE [ctx |-> [c EXCEPT !.request = r.request, !.ok = FALSE], buf |-> b]
  ELSE IF c.state = "kExpectHeaders"
  THEN LET i == HeaderCRLF(b) IN
       IF i = 0 THEN [ctx |-> c, buf |-> b]
       ELSE LET line == LineAt(b, i)
                rest == SubSeq(b, i + 1, Len(b))
            IN IF \E j \in 1..Len(line) : line[j] \in ColonWords
               THEN ParseRequest([c EXCEPT !.request.headers = Append(@, line)], rest)
               ELSE BlankLine(c, rest)
  ELSE [ctx |-> [c EXCEPT !.state = "hung"], buf |-> b]

\* HttpContext::reset(): a fresh state and request.
Fresh == [state |-> "kExpectRequestLine", request |-> NoRequest, ok |-> TRUE]

-----------------------------------------------------------------------------
(* Responses.                                                             *)

\* A body byte.
Byte == <<"b">>

NoResponse == [code |-> "", message |-> <<>>, headers |-> <<>>, body |-> <<>>]
FreshResponse == [state |-> "kExpectRequestLine", response |-> NoResponse, ok |-> TRUE]

(***************************************************************************)
(* processResponseLine: succeeds when the text before the first space is  *)
(* "HTTP/1.1" or "HTTP/1.0"; the status code (up to the second space) and *)
(* the message (the rest) are set when present, whether or not it does.   *)
(***************************************************************************)
ProcessResponseLine(words, resp) ==
  IF Len(words) < 2 THEN [ok |-> FALSE, response |-> resp]
  ELSE [ok |-> words[1] \in {Versions.v11, Versions.v10},
        response |-> IF Len(words) < 3 THEN resp
                     ELSE [resp EXCEPT !.code = words[2],
                                       !.message = SubSeq(words, 3, Len(words))]]

\* The digits the model's Content-Length values are written with.
DecimalValue == ("0" :> 0) @@ ("1" :> 1) @@ ("2" :> 2)

\* HttpResponse::getBodySize (httpresponse.h): the Content-Length, 0 if none.
GetBodySize(resp) ==
  LET cl == {i \in DOMAIN resp.headers : resp.headers[i][1] = "Content-Length:"}
  IN IF cl = {} THEN 0 ELSE DecimalValue[resp.headers[Max(cl)][2]]

\* Buffer::readableBytes: a body byte is one byte, a CRLF two; a line's
\* text is counted as longer than any body of the model.
ReadableBytes(b) ==
  FoldSeq(LAMBDA t, n : n + (IF t = Byte THEN 1 ELSE IF t = CRLF THEN 2 ELSE 3), 0, b)

(***************************************************************************)
(* parseResponse: like parseRequest, but a line without a ':' moves on to *)
(* the body in the same call, and the body is taken only when the buffer  *)
(* holds exactly getBodySize() bytes; otherwise the call returns and     *)
(* waits.  A call in state kGotAll spins.                                  *)
(***************************************************************************)
RECURSIVE ParseResponse(_, _)
ParseResponse(c, b) ==
  IF c.state = "kExpectRequestLine"
  THEN LET i == FindCRLF(b) IN
       IF i = 0 THEN [ctx |-> c, buf |-> b]
       ELSE LET r == ProcessResponseLine(LineAt(b, i), c.response)
            IN IF r.ok
               THEN ParseResponse([c EXCEPT !.response = r.response, !.state = "kExpectHeaders"],
                                  SubSeq(b, i + 1, Len(b)))
               ELSE [ctx |-> [c EXCEPT !.response = r.response, !.ok = FALSE], buf |-> b]
  ELSE IF c.state = "kExpectHeaders"
  THEN LET i == FindCRLF(b) IN
       IF i = 0 THEN [ctx |-> c, buf |-> b]
       ELSE LET line == LineAt(b, i)
                rest == SubSeq(b, i + 1, Len(b))
            IN IF \E j \in 1..Len(line) : line[j] \in ColonWords
               THEN ParseResponse([c EXCEPT !.response.headers = Append(@, line)], rest)
               ELSE ParseResponse([c EXCEPT !.state = "kExpectBody"], rest)
  ELSE IF c.state = "kExpectBody"
  THEN IF ReadableBytes(b) = GetBodySize(c.response)
       THEN [ctx |-> [c EXCEPT !.response.body = b, !.state = "kGotAll"], buf |-> <<>>]
       ELSE [ctx |-> c, buf |-> b]
  ELSE [ctx |-> [c EXCEPT !.state = "hung"], buf |-> b]
=============================================================================
