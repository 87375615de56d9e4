--------------------------- MODULE RefundPolicy ---------------------------
(***************************************************************************)
(* The arithmetic of refunds: how much money a number of credits is worth  *)
(* (bp_refund_rate_bps, bp_refund_amount), how many credits a cancelled    *)
(* amount is worth, and how a full external cancellation spreads an        *)
(* order's credits over several cancellation events.  Pure operators over  *)
(* naturals; amounts are in won, rates in basis points.                    *)
(***************************************************************************)
EXTENDS Integers, FiniteSets, Functions

Least(a, b) == IF a <= b THEN a ELSE b

\* The least integer not below p / q, for p \in Nat and q \in Nat \ {0}.
CeilDiv(p, q) == (p + q - 1) \div q

FullRate == 10000
LateRate == 9000

\* Seven days from payment decide between a full refund and one less 10%.
RefundRateBps(withinSevenDays) == IF withinSevenDays THEN FullRate ELSE LateRate

Rates == {RefundRateBps(w) : w \in BOOLEAN}

\* Money for qty of an order's credits: rounded up, capped by what the order
\* has not paid back yet.
RefundAmount(price, credits, qty, rate, remaining) ==
  Least(CeilDiv(price * qty * rate, credits * 10000), remaining)

\* Credits an externally cancelled amount stands for when the administrator
\* names no quantity: rounded down, capped by the credits not yet refunded.
ProportionalCredits(price, credits, amount, remainingCredits) ==
  Least((amount * credits) \div price, remainingCredits)

---------------------------------------------------------------------------
(* Largest-remainder allocation of an order's credits to its cancellation  *)
(* events.  amount is a function from event numbers to amounts; the number *)
(* of an event is its place in (requested_at, cancellation_id) order.      *)

BaseShare(amount, price, credits, c) == (amount[c] * credits) \div price

Fraction(amount, price, credits, c) == (amount[c] * credits) % price

\* The events served before c when left-over credits are handed out.
ServedBefore(amount, price, credits, c) ==
  {d \in DOMAIN amount :
     \/ Fraction(amount, price, credits, d) > Fraction(amount, price, credits, c)
     \/ /\ Fraction(amount, price, credits, d) = Fraction(amount, price, credits, c)
        /\ d < c}

\* The credits the base shares leave over go, one each, to those served first.
Allocation(amount, price, credits) ==
  LET left == credits - SumFunction([c \in DOMAIN amount |-> BaseShare(amount, price, credits, c)])
  IN  [c \in DOMAIN amount |->
         BaseShare(amount, price, credits, c)
           + IF Cardinality(ServedBefore(amount, price, credits, c)) < left THEN 1 ELSE 0]
===========================================================================
