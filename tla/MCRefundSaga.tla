--------------------------- MODULE MCRefundSaga ---------------------------
(***************************************************************************)
(* RefundSaga on one order of one credit.                                  *)
(***************************************************************************)
EXTENDS RefundSaga, TLC

CONSTANTS o1, a1, cron, web

OrderCredits == [o \in Orders |-> 1]
OrderPrice == [o \in Orders |-> 10]
OrderExpiry == [o \in Orders |-> 1]
===========================================================================
