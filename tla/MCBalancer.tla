----------------------------- MODULE MCBalancer -----------------------------
(* Balancer on small instances. *)
EXTENDS Balancer

CONSTANTS r1, r2, r3

\* r1 needs more than a bucket of 1 can hold and is refused whenever it is tried.
OneTooCostly == [r \in Requests |-> IF r = r1 THEN 2 ELSE 1]

\* r2 needs the whole of a bucket of 2, the others half of it.
MixedCosts == [r \in Requests |-> IF r = r2 THEN 2 ELSE 1]

\* Goroutines are interchangeable.
Symmetry == Permutations(Goroutines)
=============================================================================
