------------------------------- MODULE MCHttp -------------------------------
(* Http: streams that continue behind the first line of a request, inside  *)
(* the values of headers, and in a body in chunks; URLs of every shape,    *)
(* with and without a schema, user, port, address.                         *)
EXTENDS Http

FirstLine == <<"get", "SP", "url", "SP", "v11", "CR", "LF">>
AllBeginnings ==
  { FirstLine,
    FirstLine \o <<"connection", ":", "upgrade">>,
    FirstLine \o <<"content-length", ":", "2">>,
    FirstLine \o <<"transfer-encoding", ":", "chunked", "CR", "LF", "CR", "LF">> }
=============================================================================
