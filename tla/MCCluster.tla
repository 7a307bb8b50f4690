----------------------------- MODULE MCCluster -----------------------------
(* Cluster on small instances.                                             *)
EXTENDS Cluster

\* What a report may carry; the sign of the sum of the sizes.
AnySign == {-1, 0, 1}
=============================================================================
