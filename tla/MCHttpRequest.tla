-------------------------- MODULE MCHttpRequest ----------------------------
(***************************************************************************)
(* Every stream of four lines drawn from: a request line with a query,    *)
(* one with HTTP/1.0, one with an unsupported version, a header, a line  *)
(* without a ':' (which ends the headers like the blank line) and the    *)
(* blank line; read in pieces of one to three tokens.  Four lines give   *)
(* two pipelined requests, a request whose header follows a line without *)
(* a ':', and failures after a request was already handed on.            *)
(***************************************************************************)
EXTENDS HttpRequestConn

MCMethods == {"GET", "POST"}
MCColonWords == {"Host:"}
MCPathSplit ==
  ("/p?q" :> [path |-> "/p", query |-> "q", question |-> TRUE]) @@
  ("/p" :> [path |-> "/p", query |-> "", question |-> FALSE])

MCLines ==
  { << <<"GET", "/p?q", "HTTP/1.1">>, CRLF >>,
    << <<"POST", "/p", "HTTP/1.0">>, CRLF >>,
    << <<"GET", "/p", "HTTP/1.2">>, CRLF >>,
    << <<"Host:", "x">>, CRLF >>,
    << <<"junk">>, CRLF >>,
    << CRLF >> }

MCStreams == {FlattenSeq(s) : s \in [1..4 -> MCLines]}
=============================================================================
