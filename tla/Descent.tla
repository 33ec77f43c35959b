----------------------------- MODULE Descent -----------------------------
(***************************************************************************)
(* The rule with which liveness is proved of a loop: what cannot go on     *)
(* without getting smaller comes to its end.  It holds of every behaviour, *)
(* as no sequence of naturals descends for ever (the rule LATTICE of the   *)
(* Temporal Logic of Actions); the prover has no temporal induction, so a  *)
(* theorem that needs the rule names the instances it uses.                *)
(***************************************************************************)
EXTENDS Naturals

(* From every n, what F measures gets below n or G comes: G comes. *)
Descends(F(_), G) ==
  (\A n \in Nat : F(n) ~> (G \/ \E m \in Nat : m < n /\ F(m)))
    => ((\E n \in Nat : F(n)) ~> G)
=============================================================================
