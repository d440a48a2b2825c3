----------------------------- MODULE MCStorage -----------------------------
(* One mail with two attachments, two operations and one interruption. *)
EXTENDS Storage, TLC

Symmetry == Permutations(Att)
=============================================================================
