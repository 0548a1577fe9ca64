------------------------- MODULE MCInputDelivery -------------------------
(* One session, its inputs and the worker runs and gateways that serve it. *)
EXTENDS InputDelivery, TLC

CONSTANTS s1, i1, i2, i3, g1, g2, r1, r2, r3

OneSession == [i \in Inputs |-> s1]
NoSkew == [g \in Gateways |-> 0]
Symmetry == Permutations(Inputs) \cup Permutations(Runs) \cup Permutations(Gateways)
=============================================================================
