----------------------------- MODULE MCStreams -----------------------------
(* Instance of Streams for TLC. *)
EXTENDS Streams, TLC

MCOptions == {[count |-> 0, noack |-> FALSE], [count |-> 1, noack |-> FALSE],
              [count |-> 1, noack |-> TRUE]}

MCBlockOptions == {[count |-> 1, noack |-> FALSE]}

Symmetry == Permutations(Consumers)

=============================================================================
