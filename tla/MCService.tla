---------------------------- MODULE MCService ----------------------------
(* Small instances of Service: the configurations give every constant. *)
EXTENDS Service
=============================================================================
