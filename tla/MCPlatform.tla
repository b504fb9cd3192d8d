----------------------------- MODULE MCPlatform ------------------------------
(* Platform with one partition. *)
EXTENDS Platform

OnePartition == [t \in Tickets |-> 1]
=============================================================================
