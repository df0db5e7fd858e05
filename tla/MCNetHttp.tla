------------------------------ MODULE MCNetHttp ------------------------------
(* A client that sends requests for two paths, with and without bodies.      *)
EXTENDS NetHttp

MCPaths == {<<"/", "a">>, <<"/", "a", "/", "b">>}
MCRegistered == {<<"/", "a">>, <<"/", "a", "/">>}
=============================================================================
