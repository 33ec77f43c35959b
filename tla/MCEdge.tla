------------------------------ MODULE MCEdge ------------------------------
(* A small instance of Edge.                                               *)
EXTENDS Edge
=============================================================================
