---------------------------- MODULE MCSession ----------------------------
(* Small instances of Session: the configurations give every constant. *)
EXTENDS Session, TLC

(* The goroutines are interchangeable. *)
Symmetry == Permutations(Request)
=============================================================================
