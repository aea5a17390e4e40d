----------------------------- MODULE MCKeyspace -----------------------------
(* Instance of Keyspace for TLC. *)
EXTENDS Keyspace, TLC

Symmetry == Permutations(Keys) \cup Permutations(Clients \ Watchers)

=============================================================================
