-------------------------- MODULE MCHttpResponse ----------------------------
(***************************************************************************)
(* Two responses back to back on one connection, each with a body of one  *)
(* byte or none, read in pieces of one to three tokens.                   *)
(***************************************************************************)
EXTENDS HttpResponseConn

MCMethods == {"GET"}
MCColonWords == {"Content-Length:"}
MCPathSplit == ("/p" :> [path |-> "/p", query |-> "", question |-> FALSE])

\* HTTP/1.1 200 OK, Content-Length: n, the blank line and n body bytes.
Response(n) ==
  << <<"HTTP/1.1", "200", "OK">>, CRLF, <<"Content-Length:", n>>, CRLF, CRLF >>
  \o [i \in 1..DecimalValue[n] |-> Byte]

MCStreams == {Response(a) \o Response(b) : a, b \in {"0", "1"}}
=============================================================================
