--------------------------- MODULE MCHttp2Streams ---------------------------
(* Two streams of one connection, which end differently.                   *)
EXTENDS Http2Streams

CONSTANTS s1, s3

MCAnswer == (s1 :> 200) @@ (s3 :> 404)

=============================================================================
