--------------------------- MODULE MCReplication ---------------------------
(* Three servers that start as a chain: a master, its replica, and a        *)
(* replica of the replica.                                                  *)
EXTENDS Replication

CONSTANTS n1, n2, n3

MCNodes == {n1, n2, n3}
MCConfigured == [n \in MCNodes |-> CASE n = n1 -> None [] n = n2 -> n1 [] n = n3 -> n2]
=============================================================================
