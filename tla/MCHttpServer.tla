---------------------------- MODULE MCHttpServer ----------------------------
(***************************************************************************)
(* HttpServer with pipelined requests, one that closes the connection and  *)
(* one that does not parse.                                                *)
(***************************************************************************)
EXTENDS HttpServer

MCScript == {<<"plain", "plain">>, <<"plain", "close", "plain">>,
             <<"malformed", "plain">>}
=============================================================================
