----------------------------- MODULE MCNotices -----------------------------
(* Bounces of one alias: two jobs that share one authentication slot. *)
EXTENDS Notices, TLC

Symmetry == Permutations(Job) \cup Permutations(Domain)
=============================================================================
