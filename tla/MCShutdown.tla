----------------------------- MODULE MCShutdown -----------------------------
(* Three updates, two requests, a retry run and a polling restart. *)
EXTENDS Shutdown
=============================================================================
