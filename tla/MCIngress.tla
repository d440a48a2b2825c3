----------------------------- MODULE MCIngress -----------------------------
(* Two mails against a monthly limit of five, of which three to five are used. *)
EXTENDS Ingress, TLC

Symmetry == Permutations(Mail)
=============================================================================
