--------------------------- MODULE MCEffectLedger ---------------------------
(* A small instance of EffectLedger: one delivery with two candidate texts, *)
(* the run that owes it and two recovery loops.                            *)
EXTENDS EffectLedger

CONSTANTS o1, t1, c1, c2, r1, l1, l2
=============================================================================
