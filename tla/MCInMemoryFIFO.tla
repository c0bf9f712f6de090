--------------------------- MODULE MCInMemoryFIFO ---------------------------
(* InMemoryFIFO on small instances. *)
EXTENDS InMemoryFIFO
=============================================================================
