-------------------------- MODULE HttpRequestConn ---------------------------
(***************************************************************************)
(* One server connection parsing requests with HttpContext: the peer's    *)
(* stream arrives in reads of up to MaxFragment tokens, and the message   *)
(* callback runs parseRequest after each.                                 *)
(***************************************************************************)
EXTENDS HttpContext

CONSTANTS
  Streams,      \* the byte streams a peer may send, as token sequences
  MaxFragment   \* the most tokens one read delivers

VARIABLES
  stream,     \* what the peer sends, fixed
  arrived,    \* how many tokens of it have been read into the buffer
  buf,        \* the Buffer's readable tokens
  ctx,        \* [state, request, ok]: the HttpContext
  delivered   \* the requests handed to the request callback, in order

vars == <<stream, arrived, buf, ctx, delivered>>

(***************************************************************************)
(* The caller (the server's message callback; not among the sources):     *)
(* after parseRequest, a completed request is handed on and the context   *)
(* reset, and parsing resumes on what is left in the buffer; a failed     *)
(* parse ends the connection.                                             *)
(***************************************************************************)
RECURSIVE Serve(_, _, _)
Serve(c, b, d) ==
  LET r == ParseRequest(c, b)
  IN IF r.ctx.state = "kGotAll"
     THEN Serve(Fresh, r.buf, Append(d, r.ctx.request))
     ELSE [ctx |-> r.ctx, buf |-> r.buf, delivered |-> d]

Init ==
  /\ stream \in Streams
  /\ arrived = 0
  /\ buf = <<>>
  /\ ctx = Fresh
  /\ delivered = <<>>

\* A read of k more tokens into the buffer, then the message callback.
Receive(k) ==
  /\ ctx.ok
  /\ arrived + k <= Len(stream)
  /\ LET s == Serve(ctx, buf \o SubSeq(stream, arrived + 1, arrived + k), delivered)
     IN /\ ctx' = s.ctx
        /\ buf' = s.buf
        /\ delivered' = s.delivered
  /\ arrived' = arrived + k
  /\ UNCHANGED stream

Next == \E k \in 1..MaxFragment : Receive(k)

Spec == Init /\ [][Next]_vars

-----------------------------------------------------------------------------
\* The whole stream parsed in one call, as when it arrives in one read.
OneShot == Serve(Fresh, stream, <<>>)

(***************************************************************************)
(* However the stream is split into reads, the requests handed on are a   *)
(* prefix of those parsed from the whole stream at once, and once all of  *)
(* it has arrived they are the same and the parse has failed or not alike *)
(* (parseRequest waits for a CRLF and keeps its state between calls).     *)
(***************************************************************************)
ChunkingIndependent ==
  /\ IsPrefix(delivered, OneShot.delivered)
  /\ arrived = Len(stream) =>
       /\ delivered = OneShot.delivered
       /\ ctx.ok = OneShot.ctx.ok
       /\ ctx.state = OneShot.ctx.state
=============================================================================
