----------------------------- MODULE MCRedisFIFO -----------------------------
(* RedisFIFO on a small instance. *)
EXTENDS RedisFIFO
=============================================================================
