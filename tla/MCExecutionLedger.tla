------------------------- MODULE MCExecutionLedger -------------------------
(* A small ledger for TLC: two inputs of one session, two gateways. *)
EXTENDS ExecutionLedger, TLC

CONSTANTS s1, i1, i2, g1, g2, r1

OneSession == [i \in Inputs |-> s1]

\* One gateway's clock lags a tick behind the database's, so that a lease a
\* claim stamps is already over when recovery looks at it.
OneLags == [g \in Gateways |-> IF g = g1 THEN -1 ELSE 0]

Symmetry == Permutations(Inputs) \cup Permutations(Runs)
=============================================================================
