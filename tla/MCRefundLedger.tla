-------------------------- MODULE MCRefundLedger --------------------------
(***************************************************************************)
(* RefundLedger on small instances.                                        *)
(***************************************************************************)
EXTENDS RefundLedger, TLC

CONSTANTS o1, o2, a1, a2, g1, g2

AttemptSymmetry == Permutations(Attempts)

OneOrderCredits == [o \in Orders |-> 2]
OneOrderPrice == [o \in Orders |-> 20]
TwoOrderCredits == [o \in Orders |-> 1]
TwoOrderPrice == [o \in Orders |-> 10]
OrderExpiry == [o \in Orders |-> IF o = o1 THEN 1 ELSE 2]
===========================================================================
