------------------------------ MODULE MCHub ------------------------------
(* Small instances of Hub: the clients and the emitters are model values,  *)
(* interchangeable for the safety properties.                              *)
EXTENDS Hub, TLC

Symmetry == Permutations(Client) \cup Permutations(Emitter)
=============================================================================
