------------------------------- MODULE MCPipe -------------------------------
(* One side writes up to two items, the other one, and both may terminate. *)
EXTENDS Pipe

MCQuota == [s \in Sides |-> 2 - s]
=============================================================================
