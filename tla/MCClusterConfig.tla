--------------------------- MODULE MCClusterConfig ---------------------------
(* Instances of ClusterConfig for TLC.                                       *)
EXTENDS ClusterConfig, TLC

\* The masters 2 and 3 serve a slot each, node 1 is a slave of 3, and one slot
\* is not assigned yet.
MCOwner == 1 :> 3 @@ 2 :> 2 @@ 3 :> None
MCMaster == 1 :> 3 @@ 2 :> None @@ 3 :> None

\* Three masters, one of which serves all the slots.
MCOneOwner == 1 :> 2 @@ 2 :> 2
MCNoSlaves == 1 :> None @@ 2 :> None @@ 3 :> None

=============================================================================
