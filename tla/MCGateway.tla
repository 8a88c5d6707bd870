------------------------------ MODULE MCGateway ------------------------------
(* Two threads on one process, which race for its lock, and one on another. *)
EXTENDS Gateway, MCPlatform
CONSTANTS p1, p2, t1, t2, t3
MCHome == t1 :> p1 @@ t2 :> p1 @@ t3 :> p2
=============================================================================
