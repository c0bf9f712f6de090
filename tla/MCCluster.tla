------------------------------ MODULE MCCluster ------------------------------
(* Cluster on small instances. *)
EXTENDS Cluster, TLC

CONSTANTS i1, i2, r1, r2, g1, g2, g3

\* The clients are those of the first instance, which has all slots but one;
\* the second takes requests from the queue as well.
MCHome == [r \in Requests |-> i1]

MCOn == [g \in Goroutines |-> IF g = g3 THEN i2 ELSE i1]

\* The requests that can be decoded are interchangeable, and so are the slots of
\* the first instance.
Symmetry == Permutations(Requests \ Undecodable) \cup Permutations({g1, g2})
=============================================================================
