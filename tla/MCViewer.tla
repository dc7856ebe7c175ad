------------------------------ MODULE MCViewer ------------------------------
(***************************************************************************)
(* Two nodes: one with two markets, one of which may be missing, or both;  *)
(* one with a market of its own.                                           *)
(***************************************************************************)
EXTENDS Viewer

MCStatuses == [n1 |-> {{}, {"sh"}, {"sh", "sz"}}, n2 |-> {{"sz"}}]
MCConfig == <<"sh", "sz">>
=============================================================================
