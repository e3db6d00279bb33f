-------------------------- MODULE HttpResponseConn --------------------------
(***************************************************************************)
(* One client connection parsing responses with HttpContext: the server's *)
(* stream arrives in reads of up to MaxFragment tokens, and the client    *)
(* runs parseResponse after each; a completed response is handed on and   *)
(* the context reset, and parsing resumes on what is left (the caller is  *)
(* not among the sources).                                                 *)
(***************************************************************************)
EXTENDS HttpContext

CONSTANTS
  Streams,      \* the byte streams a server may send, as token sequences
  MaxFragment   \* the most tokens one read delivers

VARIABLES
  stream,     \* what the server sends, fixed
  arrived,    \* how many tokens of it have been read into the buffer
  buf,        \* the Buffer's readable tokens
  ctx,        \* [state, response, ok]: the HttpContext
  delivered   \* the responses handed on, in order

vars == <<stream, arrived, buf, ctx, delivered>>

RECURSIVE ServeResponse(_, _, _)
ServeResponse(c, b, d) ==
  LET r == ParseResponse(c, b)
  IN IF r.ctx.state = "kGotAll"
     THEN ServeResponse(FreshResponse, r.buf, Append(d, r.ctx.response))
     ELSE [ctx |-> r.ctx, buf |-> r.buf, delivered |-> d]

Init ==
  /\ stream \in Streams
  /\ arrived = 0
  /\ buf = <<>>
  /\ ctx = FreshResponse
  /\ delivered = <<>>

Receive(k) ==
  /\ ctx.ok
  /\ arrived + k <= Len(stream)
  /\ LET s == ServeResponse(ctx, buf \o SubSeq(stream, arrived + 1, arrived + k), delivered)
     IN /\ ctx' = s.ctx
        /\ buf' = s.buf
        /\ delivered' = s.delivered
  /\ arrived' = arrived + k
  /\ UNCHANGED stream

Next == \E k \in 1..MaxFragment : Receive(k)

Spec == Init /\ [][Next]_vars

-----------------------------------------------------------------------------
(***************************************************************************)
(* Message framing (RFC 7230, 3.3): a response is its status line, header *)
(* lines, the blank line and Content-Length bytes of body.  The number of *)
(* complete responses at the front of the token sequence s.               *)
(***************************************************************************)
RECURSIVE CompleteResponses(_)
CompleteResponses(s) ==
  LET blanks == {i \in 2..Len(s) : s[i] = CRLF /\ s[i - 1] = CRLF}
      h      == Min(blanks)
      heads  == {s[j] : j \in 1..h}
      size   == IF \E t \in heads : Len(t) = 2 /\ t[1] = "Content-Length:"
                THEN DecimalValue[(CHOOSE t \in heads : Len(t) = 2 /\ t[1] = "Content-Length:")[2]]
                ELSE 0
  IN IF blanks = {} \/ h + size > Len(s) THEN 0
     ELSE 1 + CompleteResponses(SubSeq(s, h + size + 1, Len(s)))

(***************************************************************************)
(* Every response that has arrived in full has been parsed and handed on, *)
(* also when the next response follows it in the same read.               *)
(***************************************************************************)
ArrivedResponsesParsed ==
  Len(delivered) = CompleteResponses(SubSeq(stream, 1, arrived))
=============================================================================
