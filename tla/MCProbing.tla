------------------------------ MODULE MCProbing ------------------------------
(***************************************************************************)
(* How a target is probed: the pings of two targets on one socket, and one *)
(* bucket of one target with its clocks.  They share nothing, so one of    *)
(* them runs in each behaviour and the other stands still.                 *)
(***************************************************************************)
EXTENDS MCPingSocket, Bucket

VARIABLE side

ProbingInit ==
  /\ side \in {"socket", "bucket"}
  /\ SocketInit
  /\ side = "socket" => sendPlan = SendTimes("spread", 0)
  /\ BucketInit

ProbingNext ==
  /\ UNCHANGED side
  /\ \/ side = "socket" /\ SocketNext /\ UNCHANGED bucketVars
     \/ side = "bucket" /\ BucketNext /\ UNCHANGED socketVars

ProbingSpec == ProbingInit /\ [][ProbingNext]_<<side, socketVars, bucketVars>>
=============================================================================
