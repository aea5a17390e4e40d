------------------------- MODULE MCClusterElection -------------------------
(* TLC instance of ClusterElection: symmetric masters and slaves.          *)
EXTENDS ClusterElection, TLC

Symmetry == Permutations(Masters) \cup Permutations(Slaves)
=============================================================================
