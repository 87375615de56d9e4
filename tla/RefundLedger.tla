--------------------------- MODULE RefundLedger ---------------------------
(***************************************************************************)
(* One member's credits and refunds as the database keeps them: the cached *)
(* balance member_accounts.gen_credits, the purchase lots, the refund      *)
(* attempts with their requests, the cancellations observed at the payment *)
(* provider, the shortfalls and the reconciliation issues.                 *)
(*                                                                         *)
(* One action is one RPC, that is one database transaction.  Every RPC     *)
(* takes the advisory locks of its object and of the user before it reads  *)
(* (migration 0084), so transactions of one member do not interleave; the  *)
(* callers (browser, webhook, cron, administrators) do, in any order.  A   *)
(* call that raises leaves the state unchanged, so a raise and a CHECK     *)
(* constraint that can fail are guards; a call that answers no_op is a     *)
(* stuttering step.                                                        *)
(***************************************************************************)
EXTENDS RefundPolicy

CONSTANTS
  Orders,          \* the member's orders, all bought through PortOne
  Attempts,        \* refund attempts; each has a refund request of its own
  Cancellations,   \* provider cancellation ids, numbered in time order
  Gens,            \* paid AI generations
  Credits,         \* Credits[o]: the credits of order o
  Price,           \* Price[o]: its amount
  Expiry,          \* Expiry[o]: when its lot expires (paid_at + 1 year)
  ExternalAmounts, \* amounts of cancellations made outside the application
  Restated,        \* cancellations PortOne may report again with other data
  None

ASSUME CatalogAssumption ==
  /\ Credits \in [Orders -> Nat \ {0}]
  /\ Price \in [Orders -> Nat \ {0}]
  /\ Expiry \in [Orders -> Nat]
  /\ \A o, p \in Orders : Expiry[o] = Expiry[p] => o = p

ASSUME CancellationAssumption ==
  /\ Cancellations \subseteq Nat
  /\ ExternalAmounts \subseteq Nat \ {0}
  /\ Restated \subseteq Cancellations

\* The rows of one member are finitely many.
ASSUME FiniteAssumption ==
  IsFiniteSet(Orders) /\ IsFiniteSet(Attempts) /\ IsFiniteSet(Cancellations)

ASSUME NoneAssumption ==
  None \notin Orders \cup Attempts \cup Cancellations \cup Rates

VARIABLES
  deleted,     \* profiles.deleted_at is not null
  cache,       \* member_accounts.gen_credits
  orders, lots, attempts, requests, events, openIssues, gens

vars == <<deleted, cache, orders, lots, attempts, requests, events, openIssues, gens>>

---------------------------------------------------------------------------
(* Rows.                                                                   *)

\* rc, ra: refunded_credits, refunded_amount.  intent: None, or the rate the
\* recorded cancel_requested_at falls under.
OrderRow == [status : {"pending", "failed", "canceled", "paid"}, paid : BOOLEAN,
             intent : Rates \cup {None}, rc : Nat, ra : Nat]

\* owed: the sum of remaining_shortfall_qty over the lot's shortfall rows.
LotRow == [granted : BOOLEAN, live : BOOLEAN,
           consumed : Nat, refunded : Nat, reserved : Nat, owed : Nat]

OpenStates == {"prepared", "pg_requested", "pg_pending", "pg_succeeded",
               "manual_pending", "manual_review"}

ReleaseReasons == {"admin_cancelled_before_pg", "replanned_before_pg",
                   "replanned_before_pg_external", "replanned_after_pg_reconciliation"}

\* pgAsked: pg_requested_at is set.  cancel: pg_cancel_id.  closure: the
\* closure_qty of the refund_policy_close ledger row the commit wrote.
AttemptRow == [state : OpenStates \cup {"unused", "committed", "released"},
               order : Orders \cup {None}, qty : Nat, amount : Nat,
               rail : {"portone_cancel", "manual_transfer"},
               origin : {"admin_manual", "cancel_intent"},
               pgAsked : BOOLEAN, cancel : Cancellations \cup {None},
               closure : Nat, release : ReleaseReasons \cup {None}]

RequestStates == {"none", "prepared", "processing", "blocked",
                  "completed", "cancelled", "failed"}

\* marker: the attempt named by the BP_REFUND: prefix of the reason.
\* econ: resolved_economic_qty.
EventRow == [state : {"absent", "unmatched", "matched", "resolved", "ignored"},
             order : Orders \cup {None}, status : {"SUCCEEDED", "FAILED"},
             amount : Nat, marker : Attempts \cup {None},
             matched : Attempts \cup {None}, econ : Nat]

IssueRow == [type : {"late_paid", "unmatched_cancellation", "cancellation_discrepancy"},
             order : Orders, cancel : Cancellations \cup {None}]

GenRow == [state : {"none", "queued", "done", "failed"}, lot : Orders \cup {None}]

UnusedAttempt ==
  [state |-> "unused", order |-> None, qty |-> 0, amount |-> 0,
   rail |-> "portone_cancel", origin |-> "admin_manual", pgAsked |-> FALSE,
   cancel |-> None, closure |-> 0, release |-> None]

AbsentEvent ==
  [state |-> "absent", order |-> None, status |-> "FAILED", amount |-> 0,
   marker |-> None, matched |-> None, econ |-> 0]

LatePaid(o) == [type |-> "late_paid", order |-> o, cancel |-> None]
UnmatchedIssue(o, c) == [type |-> "unmatched_cancellation", order |-> o, cancel |-> c]
Discrepancy(o, c) == [type |-> "cancellation_discrepancy", order |-> o, cancel |-> c]

Init ==
  /\ deleted = FALSE
  /\ cache = 0
  /\ orders = [o \in Orders |->
       [status |-> "pending", paid |-> FALSE, intent |-> None, rc |-> 0, ra |-> 0]]
  /\ lots = [o \in Orders |->
       [granted |-> FALSE, live |-> FALSE,
        consumed |-> 0, refunded |-> 0, reserved |-> 0, owed |-> 0]]
  /\ attempts = [a \in Attempts |-> UnusedAttempt]
  /\ requests = [a \in Attempts |-> "none"]
  /\ events = [c \in Cancellations |-> AbsentEvent]
  /\ openIssues = {}
  /\ gens = [g \in Gens |-> [state |-> "none", lot |-> None]]

---------------------------------------------------------------------------
(* Helpers.                                                                *)

\* Defect: reserved credits count as available.
AvailWithReserved(o) == Credits[o] - lots[o].consumed - lots[o].refunded

\* Credits of order o's lot that are neither used, refunded nor reserved.
Avail(o) == Credits[o] - lots[o].consumed - lots[o].refunded - lots[o].reserved

\* Defect: an expired lot's credits move the balance too.
LiveCreditOfExpired(o, n) == n

\* What moving n credits of o's lot does to the cached balance.
LiveCredit(o, n) == IF lots[o].live THEN n ELSE 0

OpenAttempts(o) == {a \in Attempts : attempts[a].order = o /\ attempts[a].state \in OpenStates}

\* derive_refund_request_state for a request with exactly one attempt.
DerivedState(row) ==
  CASE row.state = "unused" -> "none"
    [] row.state \in {"manual_pending", "manual_review"} -> "blocked"
    [] row.state = "committed" -> "completed"
    [] row.state = "released" ->
         IF row.release = "admin_cancelled_before_pg" THEN "cancelled" ELSE "failed"
    [] row.state = "prepared" -> "prepared"
    [] OTHER -> "processing"

ActiveRequests == {"prepared", "processing", "blocked"}

EventsOf(o) == {c \in Cancellations : events[c].order = o}

\* Amount of o's payment the application has seen cancelled.
SeenCancelled(o) ==
  SumFunctionOnSet([c \in Cancellations |-> events[c].amount],
                   {c \in EventsOf(o) : events[c].status = "SUCCEEDED"})

\* External: a cancellation PortOne can report.  It never cancels more than
\* was paid, and repeats one cancellation per idempotency key, so at most one
\* bears the marker of an attempt, for its amount, after it was asked for.
Reportable(c, o, status, amount, marker) ==
  /\ status = "SUCCEEDED" => SeenCancelled(o) + amount <= Price[o]
  /\ marker = None => amount \in ExternalAmounts
  /\ marker # None =>
       /\ attempts[marker].pgAsked
       /\ attempts[marker].order = o
       /\ attempts[marker].amount = amount
       /\ \A d \in Cancellations : events[d].marker # marker

\* Defect: successful cancellations are closed with the attempt, too.
IgnoreUnmatchedEvents(o) ==
  [c \in Cancellations |->
     IF events[c].order = o /\ events[c].state = "unmatched"
       THEN [events[c] EXCEPT !.state = "ignored"]
       ELSE events[c]]

\* Verified FAILED cancellations of an order are closed with the attempt.
IgnoreFailedEvents(o) ==
  [c \in Cancellations |->
     IF events[c].order = o /\ events[c].status = "FAILED" /\ events[c].state = "unmatched"
       THEN [events[c] EXCEPT !.state = "ignored"]
       ELSE events[c]]

---------------------------------------------------------------------------
(* Payment of an order.                                                    *)

\* A late payment, one after a cancel intent and one of a deleted account are
\* recorded without a grant: an expired quarantine lot and a late_paid issue.
MarkPaidAndGrant(o) ==
  LET grant == orders[o].status # "canceled" /\ ~deleted /\ orders[o].intent = None
  IN  /\ ~orders[o].paid
      /\ orders[o].status \in {"pending", "failed", "canceled"}
      /\ orders' = [orders EXCEPT ![o] = [@ EXCEPT !.status = "paid", !.paid = TRUE]]
      /\ lots' = [lots EXCEPT ![o] = [@ EXCEPT !.granted = TRUE, !.live = grant]]
      /\ cache' = IF grant THEN cache + Credits[o] ELSE cache
      /\ openIssues' = IF grant THEN openIssues ELSE openIssues \cup {LatePaid(o)}
      /\ UNCHANGED <<deleted, attempts, requests, events, gens>>

MarkOrderFailed(o) ==
  /\ orders[o].status = "pending" /\ ~orders[o].paid
  /\ orders' = [orders EXCEPT ![o].status = "failed"]
  /\ UNCHANGED <<deleted, cache, lots, attempts, requests, events, openIssues, gens>>

MarkOrderCanceledUnpaid(o) ==
  /\ orders[o].status \in {"pending", "failed"} /\ ~orders[o].paid
  /\ orders' = [orders EXCEPT ![o].status = "canceled"]
  /\ UNCHANGED <<deleted, cache, lots, attempts, requests, events, openIssues, gens>>

---------------------------------------------------------------------------
(* Paid generations.                                                       *)

Consumable == {o \in Orders : lots[o].granted /\ lots[o].live /\ Avail(o) > 0}

\* create_generation_and_consume: one credit of the lot expiring first.
CreateGeneration(g, o) ==
  /\ gens[g].state = "none" /\ ~deleted
  /\ o \in Consumable
  /\ \A p \in Consumable : Expiry[o] <= Expiry[p]
  /\ cache >= 1
  /\ gens' = [gens EXCEPT ![g] = [state |-> "queued", lot |-> o]]
  /\ lots' = [lots EXCEPT ![o].consumed = @ + 1]
  /\ cache' = cache - 1
  /\ UNCHANGED <<deleted, orders, attempts, requests, events, openIssues>>

\* A finished generation keeps its credit: only a queued one is refunded.
CompleteGeneration(g) ==
  /\ gens[g].state = "queued"
  /\ gens' = [gens EXCEPT ![g].state = "done"]
  /\ UNCHANGED <<deleted, cache, orders, lots, attempts, requests, events, openIssues>>

\* Defect: the shortfall is checked for a row, not for what remains of it.
AbsorbsPaid(o) == lots[o].owed >= 0

\* Defect: only a live lot's credit pays the lot's shortfall.
AbsorbsWhileLive(o) == lots[o].live /\ lots[o].owed > 0

\* The credit of a failed generation pays a shortfall of its lot.
Absorbs(o) == lots[o].owed > 0

\* mark_generation_failed_and_refund: the credit pays the lot's shortfall
\* first and returns to the balance otherwise, unless the lot has expired.
FailGeneration(g) ==
  LET o == gens[g].lot
      lot == lots[o]
  IN  /\ gens[g].state = "queued"
      /\ lot.consumed > 0
      /\ gens' = [gens EXCEPT ![g].state = "failed"]
      /\ lots' = [lots EXCEPT ![o] =
           IF Absorbs(o)
             THEN [lot EXCEPT !.consumed = lot.consumed - 1,
                              !.refunded = lot.refunded + 1, !.owed = lot.owed - 1]
             ELSE [lot EXCEPT !.consumed = lot.consumed - 1]]
      /\ cache' = IF Absorbs(o) THEN cache ELSE cache + LiveCredit(o, 1)
      /\ UNCHANGED <<deleted, orders, attempts, requests, events, openIssues>>

---------------------------------------------------------------------------
(* Beginning a refund: credits are reserved and leave the balance at once. *)

\* Defect: the order's other open attempts are not looked at.
RefundableBesideOthers(o, qty) ==
  /\ orders[o].paid /\ lots[o].granted
  /\ qty > 0 /\ qty <= Avail(o)
  /\ qty <= Credits[o] - orders[o].rc

Refundable(o, qty) ==
  /\ orders[o].paid /\ lots[o].granted
  /\ qty > 0 /\ qty <= Avail(o)
  /\ qty <= Credits[o] - orders[o].rc
  /\ OpenAttempts(o) = {}

Reserve(a, o, qty, rate, rail, origin) ==
  LET remaining == Price[o] - orders[o].ra
      amount == RefundAmount(Price[o], Credits[o], qty, rate, remaining)
  IN  /\ attempts[a].state = "unused"
      /\ Refundable(o, qty)
      /\ remaining > 0 /\ amount > 0
      /\ attempts' = [attempts EXCEPT ![a] =
           [UnusedAttempt EXCEPT !.state = "prepared", !.order = o, !.qty = qty,
              !.amount = amount, !.rail = rail, !.origin = origin]]
      /\ requests' = [requests EXCEPT ![a] = "prepared"]
      /\ lots' = [lots EXCEPT ![o].reserved = @ + qty]
      /\ cache' = cache - LiveCredit(o, qty)
      /\ UNCHANGED <<deleted, orders, events, openIssues, gens>>

AdminRefundBegin(a, o, qty, rate, rail) == Reserve(a, o, qty, rate, rail, "admin_manual")

CancelIntentBegin(o, rate) ==
  /\ orders[o].intent = None
  /\ orders' = [orders EXCEPT ![o].intent = rate]
  /\ UNCHANGED <<deleted, cache, lots, attempts, requests, events, openIssues, gens>>

\* While the order has an unfinished cancel_intent request the call answers
\* with that request instead.
CancelIntentResolve(a, o, qty) ==
  /\ orders[o].intent # None
  /\ ~\E b \in Attempts : /\ attempts[b].origin = "cancel_intent" /\ attempts[b].order = o
                          /\ requests[b] \in ActiveRequests
  /\ Reserve(a, o, qty, orders[o].intent, "portone_cancel", "cancel_intent")

---------------------------------------------------------------------------
(* The provider's part of a refund.                                        *)

MarkPgRequested(a) ==
  /\ attempts[a].state = "prepared" /\ attempts[a].rail = "portone_cancel"
  /\ attempts' = [attempts EXCEPT ![a] = [@ EXCEPT !.state = "pg_requested", !.pgAsked = TRUE]]
  /\ requests' = IF requests[a] = "prepared"
                   THEN [requests EXCEPT ![a] = "processing"] ELSE requests
  /\ UNCHANGED <<deleted, cache, orders, lots, events, openIssues, gens>>

RecordPgPending(a) ==
  /\ attempts[a].state = "pg_requested"
  /\ attempts' = [attempts EXCEPT ![a].state = "pg_pending"]
  /\ UNCHANGED <<deleted, cache, orders, lots, requests, events, openIssues, gens>>

\* The cancellation is inserted unless it was observed before; then it must be of
\* the attempt's order and amount and still unmatched, or the call raises
\* cancellation_event_conflict.
Settles(a, c) ==
  \/ /\ events[c].state = "absent"
     /\ Reportable(c, attempts[a].order, "SUCCEEDED", attempts[a].amount, a)
  \/ /\ events[c].state = "unmatched" /\ events[c].status = "SUCCEEDED"
     /\ events[c].order = attempts[a].order /\ events[c].amount = attempts[a].amount

\* The caller's part, which the RPC does not check: the driver reports the
\* cancellation that bears the attempt's marker.
OwnCancellation(a, c) == events[c].state = "absent" \/ events[c].marker = a

RecordPgSucceeded(a, c) ==
  LET row == attempts[a]
  IN  /\ row.state \in {"pg_requested", "pg_pending"}
      /\ Settles(a, c) /\ OwnCancellation(a, c)
      /\ events' = [events EXCEPT ![c] =
           [state |-> "matched", order |-> row.order, status |-> "SUCCEEDED",
            amount |-> row.amount, marker |-> a, matched |-> a, econ |-> 0]]
      /\ attempts' = [attempts EXCEPT ![a] = [@ EXCEPT !.state = "pg_succeeded", !.cancel = c]]
      /\ UNCHANGED <<deleted, cache, orders, lots, requests, openIssues, gens>>

RecordPgFailed(a) ==
  /\ attempts[a].state \in {"pg_requested", "pg_pending"}
  /\ attempts' = [attempts EXCEPT ![a].state = "manual_review"]
  /\ requests' = [requests EXCEPT ![a] = "blocked"]
  /\ UNCHANGED <<deleted, cache, orders, lots, events, openIssues, gens>>

\* Defect: a refund the provider has already made can be paid by hand, too.
SwitchableAlsoSettled == {"prepared", "pg_requested", "pg_pending", "manual_review", "pg_succeeded"}

Switchable == {"prepared", "pg_requested", "pg_pending", "manual_review"}

\* Defect: the request keeps the state it had.
SwitchToManualUnderived(a) ==
  /\ attempts[a].state \in Switchable
  /\ attempts' = [attempts EXCEPT ![a] =
       [@ EXCEPT !.state = "manual_pending", !.rail = "manual_transfer"]]
  /\ events' = IgnoreFailedEvents(attempts[a].order)
  /\ UNCHANGED <<deleted, cache, orders, lots, requests, openIssues, gens>>

SwitchToManual(a) ==
  /\ attempts[a].state \in Switchable
  /\ attempts' = [attempts EXCEPT ![a] =
       [@ EXCEPT !.state = "manual_pending", !.rail = "manual_transfer"]]
  /\ requests' = [requests EXCEPT ![a] = DerivedState(attempts'[a])]
  /\ events' = IgnoreFailedEvents(attempts[a].order)
  /\ UNCHANGED <<deleted, cache, orders, lots, openIssues, gens>>

---------------------------------------------------------------------------
(* Commit.  When the last won is paid back while credits remain (the rate  *)
(* was below 100%), the rest of the order is closed: what the lot still    *)
(* has is recovered, what is already owed covers its part, the remainder   *)
(* becomes a new shortfall that may not exceed the credits in use.         *)

Closure(a) ==
  LET o == attempts[a].order
      left == Credits[o] - orders[o].rc - attempts[a].qty
  IN  IF orders[o].ra + attempts[a].amount = Price[o] /\ left > 0 THEN left ELSE 0

\* Defect: a closure leaves the lot's remaining credits in place.
RecoveredNone(a) == 0

Recovered(a) == Least(Closure(a), Avail(attempts[a].order))

NewShortfall(a) ==
  LET rest == Closure(a) - Recovered(a)
  IN  rest - Least(rest, lots[attempts[a].order].owed)

\* The commit passes the CHECK constraints and its own invariant checks.
CommitAdmissible(a) ==
  LET o == attempts[a].order
  IN  /\ orders[o].rc + attempts[a].qty <= Credits[o]
      /\ orders[o].ra + attempts[a].amount <= Price[o]
      /\ Closure(a) > 0 => lots[o].owed + NewShortfall(a) <= lots[o].consumed

ApplyCommit(a) ==
  LET o == attempts[a].order
      qty == attempts[a].qty
      row == orders[o]
      lot == lots[o]
  IN  /\ CommitAdmissible(a)
      /\ attempts' = [attempts EXCEPT ![a] = [@ EXCEPT !.state = "committed", !.closure = Closure(a)]]
      /\ orders' = [orders EXCEPT ![o] =
           [row EXCEPT !.rc = row.rc + qty + Closure(a), !.ra = row.ra + attempts[a].amount]]
      /\ lots' = [lots EXCEPT ![o] =
           [lot EXCEPT !.reserved = lot.reserved - qty,
                       !.refunded = lot.refunded + qty + Recovered(a),
                       !.owed = lot.owed + NewShortfall(a)]]
      /\ cache' = cache - LiveCredit(o, Recovered(a))
      /\ requests' = [requests EXCEPT ![a] = DerivedState(attempts'[a])]
      /\ UNCHANGED <<deleted, events, openIssues, gens>>

AdminRefundCommit(a) ==
  /\ attempts[a].state = "pg_succeeded" /\ attempts[a].rail = "portone_cancel"
  /\ ApplyCommit(a)

AdminRefundCommitManual(a) ==
  /\ attempts[a].state = "manual_pending" /\ attempts[a].rail = "manual_transfer"
  /\ ApplyCommit(a)

---------------------------------------------------------------------------
(* Giving a reservation back.                                              *)

ApplyRelease(a, reason) ==
  LET o == attempts[a].order
      qty == attempts[a].qty
  IN  /\ attempts' = [attempts EXCEPT ![a] = [@ EXCEPT !.state = "released", !.release = reason]]
      /\ lots' = [lots EXCEPT ![o].reserved = @ - qty]
      /\ cache' = cache + LiveCredit(o, qty)
      /\ requests' = [requests EXCEPT ![a] = DerivedState(attempts'[a])]
      /\ UNCHANGED <<deleted, orders, openIssues, gens>>

AdminRefundRelease(a) ==
  /\ attempts[a].state = "prepared"
  /\ ApplyRelease(a, "admin_cancelled_before_pg")
  /\ UNCHANGED events

ReplanPrePg(a, external) ==
  /\ attempts[a].state \in {"prepared", "manual_review"} /\ ~attempts[a].pgAsked
  /\ ApplyRelease(a, IF external THEN "replanned_before_pg_external"
                                 ELSE "replanned_before_pg")
  /\ UNCHANGED events

ReplanAfterPg(a) ==
  /\ attempts[a].state = "manual_review" /\ attempts[a].pgAsked
  /\ ApplyRelease(a, "replanned_after_pg_reconciliation")
  /\ events' = IgnoreFailedEvents(attempts[a].order)

---------------------------------------------------------------------------
(* Cancellations the application did not ask for.                          *)

\* The attempt a cancellation names is about to record it itself.
SelfAttributed(o, marker) ==
  /\ marker # None
  /\ attempts[marker].order = o
  /\ attempts[marker].state \in {"pg_requested", "pg_pending", "pg_succeeded"}

RecordCancellation(c, o, status, amount, marker) ==
  /\ events[c].state = "absent"
  /\ Reportable(c, o, status, amount, marker)
  /\ events' = [events EXCEPT ![c] =
       [AbsentEvent EXCEPT !.state = "unmatched", !.order = o, !.status = status,
                           !.amount = amount, !.marker = marker]]
  /\ openIssues' = IF status = "SUCCEEDED" /\ ~SelfAttributed(o, marker)
                     THEN openIssues \cup {UnmatchedIssue(o, c)} ELSE openIssues
  /\ UNCHANGED <<deleted, cache, orders, lots, attempts, requests, gens>>

\* A known cancellation reported with another order, amount or status.
RecordContradiction(c) ==
  /\ c \in Restated
  /\ events[c].state # "absent"
  /\ openIssues' = openIssues \cup {Discrepancy(events[c].order, c)}
  /\ UNCHANGED <<deleted, cache, orders, lots, attempts, requests, events, gens>>

\* bp_apply_external_resolution over one or several events of an order: econ
\* credits in all are taken from the lot while it has them and owed beyond.
ResolveFromLot(o, econ) ==
  LET immediate == Least(econ, Avail(o))
      lot == lots[o]
  IN  /\ lots' = [lots EXCEPT ![o] =
           [lot EXCEPT !.refunded = lot.refunded + immediate,
                       !.owed = lot.owed + (econ - immediate)]]
      /\ cache' = cache - LiveCredit(o, immediate)
      /\ UNCHANGED <<deleted, attempts, requests, gens>>

\* The strict CHECK on canceled orders holds: a canceled paid order is fully
\* refunded, and a further amount would exceed its price.
ResolveExternalCancellation(c, econ) ==
  LET o == events[c].order
      amount == events[c].amount
      row == orders[o]
  IN  /\ events[c].state = "unmatched" /\ events[c].status = "SUCCEEDED"
      /\ lots[o].granted
      /\ econ <= Credits[o] - orders[o].rc
      /\ orders[o].ra + amount <= Price[o]
      /\ ResolveFromLot(o, econ)
      /\ orders' = [orders EXCEPT ![o] = [row EXCEPT !.rc = row.rc + econ, !.ra = row.ra + amount]]
      /\ events' = [events EXCEPT ![c] = [@ EXCEPT !.state = "resolved", !.econ = econ]]
      /\ openIssues' = openIssues \ {UnmatchedIssue(o, c)}

\* Defect: one successful cancellation passes for a full one.
AutoFullOfPartial(o) ==
  /\ EventsOf(o) # {}
  /\ \A c \in EventsOf(o) : events[c].status = "SUCCEEDED" /\ events[c].state = "unmatched"
  /\ orders[o].ra = 0 /\ orders[o].rc = 0
  /\ orders[o].intent # None

AutoFullEligible(o) ==
  /\ EventsOf(o) # {}
  /\ \A c \in EventsOf(o) : events[c].status = "SUCCEEDED" /\ events[c].state = "unmatched"
  /\ SeenCancelled(o) = Price[o]
  /\ orders[o].ra = 0 /\ orders[o].rc = 0
  /\ \A a \in Attempts : attempts[a].order = o => attempts[a].state # "committed"
  /\ orders[o].intent # None

\* resolve_external_cancellation_auto_full: the shares of the events add up
\* to the order's credits, so the lot changes as by one resolution of all.
ResolveAutoFull(o) ==
  LET share == Allocation([c \in EventsOf(o) |-> events[c].amount], Price[o], Credits[o])
  IN  /\ AutoFullEligible(o)
      /\ lots[o].granted
      /\ ResolveFromLot(o, Credits[o])
      /\ orders' = [orders EXCEPT ![o] =
           [@ EXCEPT !.rc = Credits[o], !.ra = Price[o], !.status = "canceled"]]
      /\ events' = [c \in Cancellations |->
           IF c \in EventsOf(o)
             THEN [events[c] EXCEPT !.state = "resolved", !.econ = share[c]]
             ELSE events[c]]
      /\ openIssues' = openIssues \ {UnmatchedIssue(o, c) : c \in Cancellations}

---------------------------------------------------------------------------
(* Closing reconciliation issues: admin_resolve_reconciliation_issue.      *)

ResolveLatePaid(o) ==
  /\ LatePaid(o) \in openIssues
  /\ orders[o].status = "paid" /\ orders[o].paid
  /\ orders[o].rc >= Credits[o] /\ orders[o].ra >= Price[o]
  /\ openIssues' = openIssues \ {LatePaid(o)}
  /\ UNCHANGED <<deleted, cache, orders, lots, attempts, requests, events, gens>>

CloseEventIssue(i) ==
  /\ i \in openIssues /\ i.type # "late_paid"
  /\ events[i.cancel].state # "unmatched"
  /\ openIssues' = openIssues \ {i}
  /\ UNCHANGED <<deleted, cache, orders, lots, attempts, requests, events, gens>>

IgnoreFailedEventIssue(i) ==
  /\ i \in openIssues /\ i.type # "late_paid"
  /\ events[i.cancel].state = "unmatched" /\ events[i.cancel].status = "FAILED"
  /\ events' = [events EXCEPT ![i.cancel].state = "ignored"]
  /\ openIssues' = openIssues \ {i}
  /\ UNCHANGED <<deleted, cache, orders, lots, attempts, requests, gens>>

---------------------------------------------------------------------------
(* Expiry, deletion and reactivation of the account.                       *)

\* One lot per step: a batch expires its lots in this order, and under the
\* member's lock nothing the steps leave out happens between them.
SweepExpired(o) ==
  /\ lots[o].granted /\ lots[o].live
  /\ \A p \in Orders : lots[p].granted /\ lots[p].live => Expiry[o] <= Expiry[p]
  /\ lots' = [lots EXCEPT ![o].live = FALSE]
  /\ cache' = cache - Avail(o)
  /\ UNCHANGED <<deleted, orders, attempts, requests, events, openIssues, gens>>

\* An order pending for more than 30 minutes does not block the deletion.
DeleteAccount ==
  /\ ~deleted
  /\ \A a \in Attempts : /\ attempts[a].state \notin OpenStates
                         /\ requests[a] \notin ActiveRequests
  /\ \A i \in openIssues : i.type # "unmatched_cancellation"
  /\ deleted' = TRUE
  /\ lots' = [o \in Orders |-> [lots[o] EXCEPT !.live = FALSE]]
  /\ cache' = 0
  /\ UNCHANGED <<orders, attempts, requests, events, openIssues, gens>>

\* Expired lots stay expired.
ReactivateAccount ==
  /\ deleted
  /\ deleted' = FALSE
  /\ UNCHANGED <<cache, orders, lots, attempts, requests, events, openIssues, gens>>

---------------------------------------------------------------------------
Next ==
  \/ \E o \in Orders :
       \/ MarkPaidAndGrant(o)
       \/ MarkOrderFailed(o)
       \/ MarkOrderCanceledUnpaid(o)
       \/ \E rate \in Rates : CancelIntentBegin(o, rate)
       \/ ResolveAutoFull(o)
       \/ ResolveLatePaid(o)
       \/ SweepExpired(o)
  \/ \E g \in Gens :
       \/ \E o \in Orders : CreateGeneration(g, o)
       \/ CompleteGeneration(g)
       \/ FailGeneration(g)
  \/ \E a \in Attempts, o \in Orders : \E qty \in 1..Credits[o] :
       \/ \E rate \in Rates, rail \in {"portone_cancel", "manual_transfer"} :
            AdminRefundBegin(a, o, qty, rate, rail)
       \/ CancelIntentResolve(a, o, qty)
  \/ \E a \in Attempts :
       \/ MarkPgRequested(a)
       \/ RecordPgPending(a)
       \/ \E c \in Cancellations : RecordPgSucceeded(a, c)
       \/ RecordPgFailed(a)
       \/ SwitchToManual(a)
       \/ AdminRefundCommit(a)
       \/ AdminRefundCommitManual(a)
       \/ AdminRefundRelease(a)
       \/ \E external \in BOOLEAN : ReplanPrePg(a, external)
       \/ ReplanAfterPg(a)
  \/ \E c \in Cancellations :
       \/ \E o \in Orders, status \in {"SUCCEEDED", "FAILED"} :
            \/ \E amount \in ExternalAmounts : RecordCancellation(c, o, status, amount, None)
            \/ \E m \in Attempts : RecordCancellation(c, o, status, attempts[m].amount, m)
       \/ RecordContradiction(c)
       \/ events[c].order # None /\
            \E econ \in 0..Credits[events[c].order] : ResolveExternalCancellation(c, econ)
  \/ \E i \in openIssues : CloseEventIssue(i) \/ IgnoreFailedEventIssue(i)
  \/ DeleteAccount
  \/ ReactivateAccount

Spec == Init /\ [][Next]_vars

---------------------------------------------------------------------------
(* Invariants.                                                             *)

\* Every row has the columns and values its table allows.
TypeOK ==
  /\ deleted \in BOOLEAN
  /\ cache \in Int
  /\ orders \in [Orders -> OrderRow]
  /\ lots \in [Orders -> LotRow]
  /\ attempts \in [Attempts -> AttemptRow]
  /\ requests \in [Attempts -> RequestStates]
  /\ events \in [Cancellations -> EventRow]
  /\ openIssues \subseteq IssueRow
  /\ gens \in [Gens -> GenRow]

\* The cached balance is what the live lots have left (gate G-1), hence not
\* negative: it is moved by deltas in ten functions and never recomputed.
CacheIsLiveRemaining ==
  cache = SumFunctionOnSet([o \in Orders |-> Avail(o)],
                           {o \in Orders : lots[o].granted /\ lots[o].live})

\* A lot's reservation is exactly the quantity of the order's one open refund
\* attempt (gate G-2): no path releases, commits or expires it twice or never.
ReservedIsOpenAttempt ==
  \A o \in Orders :
    /\ OpenAttempts(o) = {} => lots[o].reserved = 0
    /\ \A a \in OpenAttempts(o) : /\ lots[o].reserved = attempts[a].qty
                                  /\ OpenAttempts(o) = {a}

\* An order's refunded credits and money are those of its committed attempts, of
\* its resolved cancellations and, for credits, of its policy closures (gates G-3
\* and G-4).
RefundsDecompose ==
  \A o \in Orders :
    LET committed == {a \in Attempts : attempts[a].order = o /\ attempts[a].state = "committed"}
        resolved == {c \in EventsOf(o) : events[c].state = "resolved"}
    IN  /\ orders[o].rc =
             SumFunctionOnSet([a \in Attempts |-> attempts[a].qty + attempts[a].closure], committed)
             + SumFunctionOnSet([c \in Cancellations |-> events[c].econ], resolved)
        /\ orders[o].ra =
             SumFunctionOnSet([a \in Attempts |-> attempts[a].amount], committed)
             + SumFunctionOnSet([c \in Cancellations |-> events[c].amount], resolved)

\* The stored state of a request is the one derived from its attempt (gate
\* G-30), so the deferred trigger enforce_request_state_derive never aborts a
\* transaction that has already moved money.
RequestStateDerived ==
  \A a \in Attempts : requests[a] = DerivedState(attempts[a])

\* A provider cancellation settles at most one attempt and an attempt is
\* settled by at most one cancellation, of its order and its amount; such a
\* cancellation is never resolved as an external one as well.
SettlementOneToOne ==
  /\ \A c \in Cancellations : events[c].state = "matched" =>
       LET a == events[c].matched
       IN  /\ a \in Attempts
           /\ attempts[a].cancel = c
           /\ attempts[a].state \in {"pg_succeeded", "committed"}
           /\ attempts[a].order = events[c].order
           /\ attempts[a].amount = events[c].amount
  /\ \A a \in Attempts :
       attempts[a].state = "pg_succeeded" \/ (attempts[a].state = "committed"
                                              /\ attempts[a].rail = "portone_cancel") =>
         /\ attempts[a].cancel \in Cancellations
         /\ events[attempts[a].cancel].state = "matched"
         /\ events[attempts[a].cancel].matched = a

\* What a lot gave back and what its owner still owes never exceed what the
\* order's refunds stand for, its counters never exceed the lot, and no order
\* pays back more than its price.
LotBacksRefunds ==
  \A o \in Orders :
    /\ lots[o].refunded + lots[o].owed <= orders[o].rc
    /\ orders[o].rc <= Credits[o] /\ orders[o].ra <= Price[o]
    /\ lots[o].consumed + lots[o].refunded + lots[o].reserved <= Credits[o]

\* While the late_paid issue of an order is open, administrators can still come to
\* close it: closing asks for status paid and for all credits and all money
\* refunded, and the order stays paid, however payment, intent, refunds and
\* observed cancellations meet.  The one exception is the automatic resolution of
\* a cancellation in full, which leaves the order canceled and the issue open for
\* good; never one of a part of the price.
ClosableUnlessAutoFull ==
  \A o \in Orders : LatePaid(o) \in openIssues =>
    /\ orders[o].paid
    /\ \/ orders[o].status = "paid"
       \/ /\ orders[o].status = "canceled" /\ orders[o].intent # None
          /\ orders[o].rc = Credits[o] /\ orders[o].ra = Price[o]
          /\ SeenCancelled(o) = Price[o]

---------------------------------------------------------------------------
(* Action properties.                                                      *)

ShortfallWithin(o) == lots[o].owed <= lots[o].consumed

\* A member comes to owe more credits than are in use only while a refund
\* attempt of the order holds a reservation: without one, whatever is resolved,
\* committed or refunded, the shortfall stays within consumption.
ShortfallBreaksOnlyUnderReservation ==
  [][\A o \in Orders :
       ShortfallWithin(o) /\ ~ShortfallWithin(o)' => OpenAttempts(o) # {}]_vars

\* An attempt whose commit would succeed stops being able to commit only when
\* a cancellation of its order is resolved as external in the same step.
CommitBlockedOnlyByResolution ==
  [][\A a \in Attempts :
       /\ attempts[a].state \in OpenStates /\ CommitAdmissible(a)
       /\ attempts'[a].state \in OpenStates /\ ~CommitAdmissible(a)'
       => \E c \in EventsOf(attempts[a].order) :
            events[c].state = "unmatched" /\ events'[c].state = "resolved"]_vars

\* Money already at the provider is never forgotten: an unmatched successful
\* cancellation leaves that state with its full amount added to the order's
\* refunds, or by settling the attempt it names.
CancellationAlwaysAccounted ==
  [][\A c \in Cancellations :
       /\ events[c].state = "unmatched" /\ events[c].status = "SUCCEEDED"
       /\ events'[c].state # "unmatched"
       => \/ /\ events'[c].state = "resolved"
             /\ orders'[events[c].order].ra >= orders[events[c].order].ra + events[c].amount
          \/ /\ events'[c].state = "matched"
             /\ attempts'[events[c].marker].state = "pg_succeeded"]_vars

===========================================================================
