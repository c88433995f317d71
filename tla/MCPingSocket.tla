---------------------------- MODULE MCPingSocket ----------------------------
(* Two targets on one socket: two pings of the first, one of the second.    *)
EXTENDS PingSocket, TLC

CONSTANTS c1, c2

Owners == 1 :> c1 @@ 2 :> c1 @@ 3 :> c2
=============================================================================
