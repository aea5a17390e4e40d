------------------------ MODULE MCSentinelFailover ------------------------
(* TLC instance of SentinelFailover: the Sentinels are symmetric, and so   *)
(* are the slaves.                                                         *)
EXTENDS SentinelFailover, TLC

Symmetry == Permutations(Starters) \cup Permutations(Sentinels \ Starters)
            \cup Permutations(Instances \ {M0})
=============================================================================
