----------------------------- MODULE MCQueue -----------------------------
(* Small instances of Queue: the configurations give every constant. *)
EXTENDS Queue
=============================================================================
