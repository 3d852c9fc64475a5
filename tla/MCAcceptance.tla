--------------------------- MODULE MCAcceptance ---------------------------
(* Acceptance on a small instance: one task of each kind, of which the      *)
(* first two work on one key.                                              *)
EXTENDS Acceptance

CONSTANTS t1, t2, t3, k1, k2

Each   == [t \in Tasks |-> CASE t = t1 -> "create" [] t = t2 -> "retry" [] t = t3 -> "loss"]
Shared == [t \in Tasks |-> IF t = t3 THEN k2 ELSE k1]
===========================================================================
