---------------------------- MODULE MCNetServer -----------------------------
(* Small instances of NetServer for TLC. *)
EXTENDS NetServer, TLC

\* The client of connection 1 makes two requests, that of connection 2 one.
MCRequests == 1 :> 2 @@ 2 :> 1

\* One that does not parse.
MCGarbled == {<<2, 1>>}
=============================================================================
