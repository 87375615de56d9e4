-------------------------- MODULE Settlement_proofs -------------------------
(***************************************************************************)
(* The invariants that tie the ledger's tables to each other: requests     *)
(* follow their attempts, every cancellation the application asked for     *)
(* settles exactly one attempt, the cached balance is what the live lots   *)
(* have left, and an order's refunds are those of its committed attempts,  *)
(* closures and resolved cancellations - sums over the member's rows,      *)
(* however many there are.                                                 *)
(***************************************************************************)
EXTENDS RefundLedger_proofs

\* The states in which an attempt has been settled at the provider.
SettledStates == {"pg_succeeded", "committed"}

Links == Core /\ RequestStateDerived /\ SettlementOneToOne

---------------------------------------------------------------------------
(* Requests.                                                               *)

\* A step that gives one attempt's request the state derived from the new
\* row keeps every request derived.
LEMMA DerivedKept ==
  ASSUME Core, RequestStateDerived, NEW a \in Attempts, NEW row \in AttemptRow,
         attempts' = [attempts EXCEPT ![a] = row],
         requests' = [requests EXCEPT ![a] = DerivedState(row)]
  PROVE  RequestStateDerived'
  <1>1. /\ attempts'[a] = row
        /\ \A b \in Attempts : b # a => attempts'[b] = attempts[b]
    BY RowUpdate DEF Core, TypeOK
  <1>2. /\ requests'[a] = DerivedState(row)
        /\ \A b \in Attempts : b # a => requests'[b] = requests[b]
    BY DEF Core, TypeOK
  <1> QED BY <1>1, <1>2 DEF RequestStateDerived, DerivedState

\* A step that leaves attempts and requests alone.
LEMMA DerivedUnchanged ==
  ASSUME RequestStateDerived, UNCHANGED <<attempts, requests>>
  PROVE  RequestStateDerived'
  BY DEF RequestStateDerived, DerivedState

\* A step that moves an attempt between states its request does not tell
\* apart.
LEMMA DerivedMoved ==
  ASSUME Core, RequestStateDerived, NEW a \in Attempts, NEW row \in AttemptRow,
         attempts' = [attempts EXCEPT ![a] = row], requests' = requests,
         attempts[a].state \in {"pg_requested", "pg_pending"},
         row.state \in {"pg_pending", "pg_succeeded"}
  PROVE  RequestStateDerived'
  <1>1. DerivedState(attempts[a]) = "processing" /\ DerivedState(row) = "processing"
    BY DEF DerivedState
  <1>2. requests' = [requests EXCEPT ![a] = DerivedState(row)]
    BY <1>1 DEF RequestStateDerived, Core, TypeOK
  <1> QED BY <1>2, DerivedKept

---------------------------------------------------------------------------
(* Settlements.                                                            *)

\* A settlement stays when matched cancellations stay, and each attempt stays,
\* or is not settled before nor after, or stays settled as it was.
LEMMA SettledKept ==
  ASSUME SettlementOneToOne,
         \A c \in Cancellations :
           /\ events'[c].state = "matched" => events[c].state = "matched"
           /\ events[c].state = "matched" => events'[c] = events[c],
         \A a \in Attempts :
           \/ attempts'[a] = attempts[a]
           \/ /\ attempts[a].state \notin SettledStates
              /\ attempts'[a].state # "pg_succeeded"
              /\ attempts'[a].state = "committed" => attempts'[a].rail # "portone_cancel"
           \/ /\ attempts[a].state = "pg_succeeded" /\ attempts'[a].state = "committed"
              /\ attempts'[a].cancel = attempts[a].cancel
              /\ attempts'[a].order = attempts[a].order
              /\ attempts'[a].amount = attempts[a].amount
  PROVE  SettlementOneToOne'
  <1>1. ASSUME NEW c \in Cancellations, events'[c].state = "matched"
        PROVE  LET a == events'[c].matched
               IN  /\ a \in Attempts
                   /\ attempts'[a].cancel = c
                   /\ attempts'[a].state \in {"pg_succeeded", "committed"}
                   /\ attempts'[a].order = events'[c].order
                   /\ attempts'[a].amount = events'[c].amount
    BY <1>1 DEF SettlementOneToOne, SettledStates
  <1>2. ASSUME NEW a \in Attempts,
               \/ attempts'[a].state = "pg_succeeded"
               \/ attempts'[a].state = "committed" /\ attempts'[a].rail = "portone_cancel"
        PROVE  /\ attempts'[a].cancel \in Cancellations
               /\ events'[attempts'[a].cancel].state = "matched"
               /\ events'[attempts'[a].cancel].matched = a
    <2>1. CASE attempts'[a] = attempts[a]
      BY <1>2, <2>1 DEF SettlementOneToOne
    <2>2. CASE attempts[a].state = "pg_succeeded" /\ attempts'[a].cancel = attempts[a].cancel
      BY <2>2 DEF SettlementOneToOne
    <2> QED BY <1>2, <2>1, <2>2
  <1> QED BY <1>1, <1>2 DEF SettlementOneToOne

\* An attempt is settled by the cancellation that names it.
LEMMA SettlesKept ==
  ASSUME Core, SettlementOneToOne, NEW a \in Attempts, NEW c \in Cancellations,
         RecordPgSucceeded(a, c)
  PROVE  SettlementOneToOne'
  <1> DEFINE row == [attempts[a] EXCEPT !.state = "pg_succeeded", !.cancel = c]
             ev == [state |-> "matched", order |-> attempts[a].order, status |-> "SUCCEEDED",
                    amount |-> attempts[a].amount, marker |-> a, matched |-> a, econ |-> 0]
  <1>1. /\ attempts' = [attempts EXCEPT ![a] = row] /\ events' = [events EXCEPT ![c] = ev]
        /\ attempts[a].state \in {"pg_requested", "pg_pending"}
        /\ events[c].state \in {"absent", "unmatched"}
    BY DEF RecordPgSucceeded, Settles, OwnCancellation
  <1>2. /\ row.state = "pg_succeeded" /\ row.cancel = c
        /\ row.order = attempts[a].order /\ row.amount = attempts[a].amount
    BY DEF Core, TypeOK, AttemptRow
  <1>3. ev.state = "matched" /\ ev.matched = a /\ ev.order = row.order /\ ev.amount = row.amount
    BY <1>2
  <1> HIDE DEF row, ev
  <1>4. /\ attempts'[a] = row
        /\ \A b \in Attempts : b # a => attempts'[b] = attempts[b]
    BY <1>1 DEF Core, TypeOK
  <1>5. /\ events'[c] = ev
        /\ \A d \in Cancellations : d # c => events'[d] = events[d]
    BY <1>1 DEF Core, TypeOK
  <1>6. ASSUME NEW d \in Cancellations, events'[d].state = "matched"
        PROVE  LET b == events'[d].matched
               IN  /\ b \in Attempts
                   /\ attempts'[b].cancel = d
                   /\ attempts'[b].state \in {"pg_succeeded", "committed"}
                   /\ attempts'[b].order = events'[d].order
                   /\ attempts'[b].amount = events'[d].amount
    <2>1. CASE d = c
      BY <1>2, <1>3, <1>4, <1>5, <2>1
    <2>2. CASE d # c
      <3>1. events'[d] = events[d] /\ events[d].matched \in Attempts
            /\ attempts[events[d].matched].state \in {"pg_succeeded", "committed"}
        BY <1>5, <1>6, <2>2 DEF SettlementOneToOne
      <3>2. events[d].matched # a
        BY <1>1, <3>1
      <3> QED BY <1>4, <1>6, <3>1, <3>2 DEF SettlementOneToOne
    <2> QED BY <2>1, <2>2
  <1>7. ASSUME NEW b \in Attempts,
               \/ attempts'[b].state = "pg_succeeded"
               \/ attempts'[b].state = "committed" /\ attempts'[b].rail = "portone_cancel"
        PROVE  /\ attempts'[b].cancel \in Cancellations
               /\ events'[attempts'[b].cancel].state = "matched"
               /\ events'[attempts'[b].cancel].matched = b
    <2>1. CASE b = a
      BY <1>2, <1>3, <1>4, <1>5, <2>1
    <2>2. CASE b # a
      <3>1. /\ attempts[b].cancel \in Cancellations
            /\ events[attempts[b].cancel].state = "matched"
            /\ events[attempts[b].cancel].matched = b
        BY <1>4, <1>7, <2>2 DEF SettlementOneToOne
      <3>2. attempts[b].cancel # c
        BY <1>1, <3>1
      <3> QED BY <1>4, <1>5, <2>2, <3>1, <3>2
    <2> QED BY <2>1, <2>2
  <1> QED BY <1>6, <1>7 DEF SettlementOneToOne

---------------------------------------------------------------------------
(* Steps that move one attempt.                                            *)

\* Only unmatched cancellations are ignored, so a settlement survives it.
LEMMA IgnoredUnmatched ==
  ASSUME NEW o, events' = IgnoreFailedEvents(o)
  PROVE  \A c \in Cancellations :
           /\ events'[c].state = "matched" => events[c].state = "matched"
           /\ events[c].state = "matched" => events'[c] = events[c]
  <1>1. ASSUME NEW c \in Cancellations
        PROVE  \/ events'[c] = events[c]
               \/ /\ events[c].state = "unmatched"
                  /\ events'[c] = [events[c] EXCEPT !.state = "ignored"]
    BY DEF IgnoreFailedEvents
  <1>2. ASSUME NEW c \in Cancellations, events[c].state = "unmatched",
               events'[c] = [events[c] EXCEPT !.state = "ignored"]
        PROVE  events'[c].state # "matched"
    BY <1>2
  <1> QED BY <1>1, <1>2

\* An attempt that is not settled moves to a row that is not settled either.
LEMMA UnsettledMove ==
  ASSUME Core, RequestStateDerived, SettlementOneToOne,
         NEW a \in Attempts, NEW row \in AttemptRow,
         attempts' = [attempts EXCEPT ![a] = row],
         requests' = [requests EXCEPT ![a] = DerivedState(row)],
         attempts[a].state \notin SettledStates, row.state # "pg_succeeded",
         row.state = "committed" => row.rail # "portone_cancel",
         events' = events \/ \E o : events' = IgnoreFailedEvents(o)
  PROVE  RequestStateDerived' /\ SettlementOneToOne'
  <1>1. /\ attempts'[a] = row
        /\ \A b \in Attempts : b # a => attempts'[b] = attempts[b]
    BY RowUpdate DEF Core, TypeOK
  <1>2. \A c \in Cancellations :
           /\ events'[c].state = "matched" => events[c].state = "matched"
           /\ events[c].state = "matched" => events'[c] = events[c]
    BY IgnoredUnmatched
  <1>3. SettlementOneToOne'
    BY <1>1, <1>2, SettledKept
  <1>4. RequestStateDerived'
    BY DerivedKept
  <1> QED BY <1>3, <1>4

\* The steps of an attempt that neither settle nor commit it: the request moves
\* with it and what was settled stays settled.
LEMMA AttemptStepsLinked ==
  ASSUME Links, NEW a \in Attempts,
         \/ MarkPgRequested(a) \/ RecordPgPending(a) \/ RecordPgFailed(a) \/ SwitchToManual(a)
         \/ AdminRefundRelease(a) \/ (\E external \in BOOLEAN : ReplanPrePg(a, external))
         \/ ReplanAfterPg(a)
  PROVE  RequestStateDerived' /\ SettlementOneToOne'
  <1> USE DEF Links
  <1>1. attempts[a] \in AttemptRow
    BY DEF Core, TypeOK
  <1>2. CASE MarkPgRequested(a)
    <2> DEFINE row == [attempts[a] EXCEPT !.state = "pg_requested", !.pgAsked = TRUE]
    <2>1. attempts' = [attempts EXCEPT ![a] = row] /\ events' = events
          /\ attempts[a].state = "prepared"
      BY <1>2 DEF MarkPgRequested
    <2>2. row.state = "pg_requested" /\ row \in AttemptRow
      BY <1>1 DEF AttemptRow, OpenStates
    <2>3. requests[a] = "prepared"
      BY <2>1 DEF RequestStateDerived, DerivedState
    <2>4. requests' = [requests EXCEPT ![a] = "processing"]
      BY <1>2, <2>3 DEF MarkPgRequested
    <2> HIDE DEF row
    <2>5. DerivedState(row) = "processing"
      BY <2>2 DEF DerivedState
    <2> QED BY <2>1, <2>2, <2>4, <2>5, UnsettledMove DEF SettledStates
  <1>3. CASE RecordPgPending(a)
    <2> DEFINE row == [attempts[a] EXCEPT !.state = "pg_pending"]
    <2>1. /\ attempts' = [attempts EXCEPT ![a] = row] /\ events' = events
          /\ attempts[a].state = "pg_requested" /\ requests' = requests
      BY <1>3 DEF RecordPgPending
    <2>2. row.state = "pg_pending" /\ row \in AttemptRow
      BY <1>1 DEF AttemptRow, OpenStates
    <2> HIDE DEF row
    <2>3. DerivedState(row) = "processing" /\ requests[a] = "processing"
      BY <2>1, <2>2 DEF DerivedState, RequestStateDerived
    <2>4. requests' = [requests EXCEPT ![a] = DerivedState(row)]
      BY <2>1, <2>3 DEF Core, TypeOK
    <2> QED BY <2>1, <2>2, <2>4, UnsettledMove DEF SettledStates
  <1>4. CASE RecordPgFailed(a)
    <2> DEFINE row == [attempts[a] EXCEPT !.state = "manual_review"]
    <2>1. /\ attempts' = [attempts EXCEPT ![a] = row] /\ events' = events
          /\ attempts[a].state \in {"pg_requested", "pg_pending"}
          /\ requests' = [requests EXCEPT ![a] = "blocked"]
      BY <1>4 DEF RecordPgFailed
    <2>2. row.state = "manual_review" /\ row \in AttemptRow
      BY <1>1 DEF AttemptRow, OpenStates
    <2> HIDE DEF row
    <2>3. DerivedState(row) = "blocked"
      BY <2>2 DEF DerivedState
    <2> QED BY <2>1, <2>2, <2>3, UnsettledMove DEF SettledStates
  <1>5. CASE SwitchToManual(a)
    <2> DEFINE row == [attempts[a] EXCEPT !.state = "manual_pending", !.rail = "manual_transfer"]
    <2>1. /\ attempts' = [attempts EXCEPT ![a] = row]
          /\ attempts[a].state \in {"prepared", "pg_requested", "pg_pending", "manual_review"}
          /\ requests' = [requests EXCEPT ![a] = DerivedState(attempts'[a])]
          /\ events' = IgnoreFailedEvents(attempts[a].order)
      BY <1>5 DEF SwitchToManual, Switchable
    <2>2. row.state = "manual_pending" /\ row \in AttemptRow
      BY <1>1 DEF AttemptRow, OpenStates
    <2> HIDE DEF row
    <2>3. attempts'[a] = row
      BY <2>1, <2>2, RowUpdate DEF Core, TypeOK
    <2> QED BY <2>1, <2>2, <2>3, UnsettledMove DEF SettledStates
  <1>6. ASSUME NEW reason \in ReleaseReasons, ApplyRelease(a, reason),
               attempts[a].state \in {"prepared", "manual_review"},
               events' = events \/ \E o : events' = IgnoreFailedEvents(o)
        PROVE  RequestStateDerived' /\ SettlementOneToOne'
    <2> DEFINE row == [attempts[a] EXCEPT !.state = "released", !.release = reason]
    <2>1. /\ attempts' = [attempts EXCEPT ![a] = row]
          /\ requests' = [requests EXCEPT ![a] = DerivedState(attempts'[a])]
      BY <1>6 DEF ApplyRelease
    <2>2. row.state = "released" /\ row \in AttemptRow
      BY <1>1 DEF AttemptRow, OpenStates
    <2> HIDE DEF row
    <2>3. attempts'[a] = row
      BY <2>1, <2>2, RowUpdate DEF Core, TypeOK
    <2> QED BY <1>6, <2>1, <2>2, <2>3, UnsettledMove DEF SettledStates
  <1>7. CASE AdminRefundRelease(a)
    <2>1. ApplyRelease(a, "admin_cancelled_before_pg") /\ events' = events
          /\ attempts[a].state = "prepared"
      BY <1>7 DEF AdminRefundRelease
    <2> QED BY <1>6, <2>1 DEF ReleaseReasons
  <1>8. CASE \E external \in BOOLEAN : ReplanPrePg(a, external)
    <2>1. PICK external \in BOOLEAN : ReplanPrePg(a, external)
      BY <1>8
    <2> DEFINE reason == IF external THEN "replanned_before_pg_external" ELSE "replanned_before_pg"
    <2>2. ApplyRelease(a, reason) /\ events' = events
          /\ attempts[a].state \in {"prepared", "manual_review"}
      BY <2>1 DEF ReplanPrePg
    <2>3. reason \in ReleaseReasons
      BY DEF ReleaseReasons
    <2> HIDE DEF reason
    <2> QED BY <1>6, <2>2, <2>3
  <1>9. CASE ReplanAfterPg(a)
    <2>1. ApplyRelease(a, "replanned_after_pg_reconciliation")
          /\ events' = IgnoreFailedEvents(attempts[a].order)
          /\ attempts[a].state = "manual_review"
      BY <1>9 DEF ReplanAfterPg
    <2> QED BY <1>6, <2>1 DEF ReleaseReasons
  <1> QED BY <1>2, <1>3, <1>4, <1>5, <1>7, <1>8, <1>9

\* A commit ends an attempt the provider has settled, or one paid by hand.
LEMMA CommitsLinked ==
  ASSUME Links, NEW a \in Attempts, AdminRefundCommit(a) \/ AdminRefundCommitManual(a)
  PROVE  RequestStateDerived' /\ SettlementOneToOne'
  <1> USE DEF Links
  <1> DEFINE row == [attempts[a] EXCEPT !.state = "committed", !.closure = Closure(a)]
  <1>1. /\ attempts[a].state \in OpenStates /\ ApplyCommit(a)
        /\ attempts[a].order \in Orders
    BY DEF AdminRefundCommit, AdminRefundCommitManual, OpenStates, Core, Linked
  <1>2. /\ attempts' = [attempts EXCEPT ![a] = row] /\ events' = events
        /\ requests' = [requests EXCEPT ![a] = DerivedState(attempts'[a])]
    BY <1>1 DEF ApplyCommit
  <1>3. Closure(a) \in Nat
    BY <1>1, ClosureParts DEF ApplyCommit, CommitAdmissible
  <1>4. /\ row \in AttemptRow /\ row.state = "committed" /\ row.rail = attempts[a].rail
        /\ row.cancel = attempts[a].cancel /\ row.order = attempts[a].order
        /\ row.amount = attempts[a].amount
    BY <1>3 DEF Core, TypeOK, AttemptRow
  <1> HIDE DEF row
  <1>5. /\ attempts'[a] = row
        /\ \A b \in Attempts : b # a => attempts'[b] = attempts[b]
    BY <1>2, <1>4, RowUpdate DEF Core, TypeOK
  <1>6. RequestStateDerived'
    BY <1>2, <1>4, <1>5, DerivedKept
  <1>7. SettlementOneToOne'
    <2>1. CASE AdminRefundCommit(a)
      <3>1. attempts[a].state = "pg_succeeded"
        BY <2>1 DEF AdminRefundCommit
      <3> QED BY <1>2, <1>4, <1>5, <3>1, SettledKept
    <2>2. CASE AdminRefundCommitManual(a)
      <3>1. attempts[a].state = "manual_pending" /\ attempts[a].rail = "manual_transfer"
        BY <2>2 DEF AdminRefundCommitManual
      <3> QED BY <1>2, <1>4, <1>5, <3>1, SettledKept DEF SettledStates
    <2> QED BY <2>1, <2>2
  <1> QED BY <1>6, <1>7

\* Recording the provider's success ties an unmatched cancellation to its attempt.
LEMMA SettlesLinked ==
  ASSUME Links, NEW a \in Attempts, NEW c \in Cancellations, RecordPgSucceeded(a, c)
  PROVE  RequestStateDerived' /\ SettlementOneToOne'
  <1> USE DEF Links
  <1> DEFINE row == [attempts[a] EXCEPT !.state = "pg_succeeded", !.cancel = c]
  <1>1. /\ attempts' = [attempts EXCEPT ![a] = row] /\ requests' = requests
        /\ attempts[a].state \in {"pg_requested", "pg_pending"}
    BY DEF RecordPgSucceeded
  <1>2. row \in AttemptRow /\ row.state = "pg_succeeded"
    BY DEF Core, TypeOK, AttemptRow, OpenStates
  <1> HIDE DEF row
  <1> QED BY <1>1, <1>2, DerivedMoved, SettlesKept

\* A refund begins with a fresh request and an attempt nothing has settled.
LEMMA BeginsLinked ==
  ASSUME Links, NEW a \in Attempts, NEW o \in Orders, NEW qty \in Nat, NEW rate \in Rates,
         NEW rail \in {"portone_cancel", "manual_transfer"},
         NEW origin \in {"admin_manual", "cancel_intent"},
         Reserve(a, o, qty, rate, rail, origin)
  PROVE  RequestStateDerived' /\ SettlementOneToOne'
  <1> USE DEF Links
  <1> DEFINE amount == RefundAmount(Price[o], Credits[o], qty, rate, Price[o] - orders[o].ra)
             row == [UnusedAttempt EXCEPT !.state = "prepared", !.order = o, !.qty = qty,
                       !.amount = amount, !.rail = rail, !.origin = origin]
  <1>1. /\ attempts' = [attempts EXCEPT ![a] = row]
        /\ requests' = [requests EXCEPT ![a] = "prepared"]
        /\ events' = events /\ attempts[a].state = "unused"
    BY DEF Reserve
  <1>2. amount \in Nat
    <2>1. Price[o] - orders[o].ra > 0
      BY DEF Reserve
    <2>2. orders[o].ra \in Nat /\ Credits[o] \in Nat \ {0} /\ Price[o] \in Nat
      BY CatalogAssumption DEF Core, TypeOK, OrderRow
    <2>3. Price[o] - orders[o].ra \in Nat
      BY <2>1, <2>2
    <2> QED BY <2>2, <2>3, RatesAreNat, RefundAmountBound
  <1> HIDE DEF amount
  <1>3. row \in AttemptRow /\ row.state = "prepared"
    BY <1>2 DEF AttemptRow, UnusedAttempt, OpenStates
  <1> HIDE DEF row
  <1>4. DerivedState(row) = "prepared"
    BY <1>3 DEF DerivedState
  <1> QED BY <1>1, <1>3, <1>4, UnsettledMove DEF SettledStates

---------------------------------------------------------------------------
(* Steps that leave attempts and requests alone.                           *)

\* Matched cancellations stay matched while attempts and requests stay.
LEMMA OthersLinked ==
  ASSUME Links, UNCHANGED <<attempts, requests>>,
         \A c \in Cancellations :
           /\ events'[c].state = "matched" => events[c].state = "matched"
           /\ events[c].state = "matched" => events'[c] = events[c]
  PROVE  RequestStateDerived' /\ SettlementOneToOne'
  BY DerivedUnchanged, SettledKept DEF Links

\* Every action that writes a cancellation and no attempt finds it absent or
\* unmatched and does not match it.
LEMMA EventStepsLinked ==
  ASSUME Links,
         \/ \E c \in Cancellations : \E o, status, n, marker :
              RecordCancellation(c, o, status, n, marker)
         \/ \E c \in Cancellations : \E n : ResolveExternalCancellation(c, n)
         \/ \E o \in Orders : ResolveAutoFull(o)
         \/ \E i \in openIssues : IgnoreFailedEventIssue(i)
  PROVE  RequestStateDerived' /\ SettlementOneToOne'
  <1> USE DEF Links
  <1>1. ASSUME NEW c \in Cancellations, NEW o, NEW status, NEW n, NEW marker,
               RecordCancellation(c, o, status, n, marker)
        PROVE  RequestStateDerived' /\ SettlementOneToOne'
    <2> DEFINE ev == [AbsentEvent EXCEPT !.state = "unmatched", !.order = o, !.status = status,
                                         !.amount = n, !.marker = marker]
    <2>1. /\ events' = [events EXCEPT ![c] = ev] /\ UNCHANGED <<attempts, requests>>
          /\ events[c].state = "absent"
      BY <1>1 DEF RecordCancellation
    <2>2. ev.state = "unmatched"
      BY DEF AbsentEvent
    <2> HIDE DEF ev
    <2>3. events'[c] = ev /\ \A d \in Cancellations : d # c => events'[d] = events[d]
      BY <2>1 DEF Core, TypeOK
    <2> QED BY <2>1, <2>2, <2>3, OthersLinked
  <1>2. ASSUME NEW c \in Cancellations, NEW n, ResolveExternalCancellation(c, n)
        PROVE  RequestStateDerived' /\ SettlementOneToOne'
    <2> DEFINE ev == [events[c] EXCEPT !.state = "resolved", !.econ = n]
    <2>1. /\ events' = [events EXCEPT ![c] = ev] /\ UNCHANGED <<attempts, requests>>
          /\ events[c].state = "unmatched"
      BY <1>2 DEF ResolveExternalCancellation, ResolveFromLot
    <2>2. ev.state = "resolved"
      BY DEF Core, TypeOK, EventRow
    <2> HIDE DEF ev
    <2>3. events'[c] = ev /\ \A d \in Cancellations : d # c => events'[d] = events[d]
      BY <2>1 DEF Core, TypeOK
    <2> QED BY <2>1, <2>2, <2>3, OthersLinked
  <1>3. ASSUME NEW o \in Orders, ResolveAutoFull(o)
        PROVE  RequestStateDerived' /\ SettlementOneToOne'
    <2> DEFINE share == Allocation([d \in EventsOf(o) |-> events[d].amount],
                                   Price[o], Credits[o])
               ev(d) == [events[d] EXCEPT !.state = "resolved", !.econ = share[d]]
    <2>1. /\ events' = [d \in Cancellations |-> IF d \in EventsOf(o) THEN ev(d) ELSE events[d]]
          /\ UNCHANGED <<attempts, requests>>
          /\ \A d \in EventsOf(o) : events[d].state = "unmatched"
      BY <1>3 DEF ResolveAutoFull, AutoFullEligible, ResolveFromLot
    <2> HIDE DEF share
    <2>2. \A d \in Cancellations : ev(d).state = "resolved"
      BY DEF Core, TypeOK, EventRow
    <2> HIDE DEF ev
    <2> QED BY <2>1, <2>2, OthersLinked
  <1>4. CASE \E i \in openIssues : IgnoreFailedEventIssue(i)
    <2>1. PICK i \in openIssues : IgnoreFailedEventIssue(i)
      BY <1>4
    <2> DEFINE ev == [events[i.cancel] EXCEPT !.state = "ignored"]
    <2>2. /\ events' = [events EXCEPT ![i.cancel] = ev] /\ UNCHANGED <<attempts, requests>>
          /\ events[i.cancel].state = "unmatched"
      BY <2>1 DEF IgnoreFailedEventIssue
    <2>3. i.cancel \in Cancellations => ev.state = "ignored"
      BY DEF Core, TypeOK, EventRow
    <2> HIDE DEF ev
    <2>4. /\ i.cancel \in Cancellations => events'[i.cancel] = ev
          /\ \A d \in Cancellations : d # i.cancel => events'[d] = events[d]
      BY <2>2 DEF Core, TypeOK
    <2> QED BY <2>2, <2>3, <2>4, OthersLinked
  <1> QED BY <1>1, <1>2, <1>3, <1>4

---------------------------------------------------------------------------
(* The inductive invariant.                                                *)

\* Before any payment there is no attempt and no cancellation.
LEMMA LinksInit == Init => Links
  <1> SUFFICES ASSUME Init PROVE Links
    OBVIOUS
  <1>1. RequestStateDerived
    BY DEF Init, RequestStateDerived, DerivedState, UnusedAttempt
  <1>2. SettlementOneToOne
    BY DEF Init, SettlementOneToOne, UnusedAttempt, AbsentEvent
  <1> QED BY <1>1, <1>2, CoreInit DEF Links

\* No step of any caller leaves Links.
LEMMA LinksNext == Links /\ [Next]_vars => Links'
  <1> SUFFICES ASSUME Links, [Next]_vars PROVE RequestStateDerived' /\ SettlementOneToOne'
    BY CoreNext DEF Links
  <1> DEFINE Goal == RequestStateDerived' /\ SettlementOneToOne'
  <1>1. ASSUME UNCHANGED <<attempts, requests, events>> PROVE Goal
    BY <1>1, OthersLinked
  <1>2. ASSUME NEW o \in Orders,
               \/ MarkPaidAndGrant(o) \/ MarkOrderFailed(o) \/ MarkOrderCanceledUnpaid(o)
               \/ \E rate \in Rates : CancelIntentBegin(o, rate)
               \/ ResolveAutoFull(o) \/ ResolveLatePaid(o) \/ SweepExpired(o)
        PROVE  Goal
    <2>1. CASE ResolveAutoFull(o)
      BY <2>1, EventStepsLinked
    <2>2. CASE ~ResolveAutoFull(o)
      <3>1. UNCHANGED <<attempts, requests, events>>
        BY <1>2, <2>2 DEF MarkPaidAndGrant, MarkOrderFailed, MarkOrderCanceledUnpaid,
                          CancelIntentBegin, ResolveLatePaid, SweepExpired
      <3> QED BY <1>1, <3>1
    <2> QED BY <2>1, <2>2
  <1>3. ASSUME NEW g \in Gens,
               \/ \E o \in Orders : CreateGeneration(g, o)
               \/ CompleteGeneration(g) \/ FailGeneration(g)
        PROVE  Goal
    <2>1. UNCHANGED <<attempts, requests, events>>
      BY <1>3 DEF CreateGeneration, CompleteGeneration, FailGeneration
    <2> QED BY <1>1, <2>1
  <1>4. ASSUME NEW a \in Attempts, NEW o \in Orders, NEW qty \in 1..Credits[o],
               \/ \E rate \in Rates, rail \in {"portone_cancel", "manual_transfer"} :
                    AdminRefundBegin(a, o, qty, rate, rail)
               \/ CancelIntentResolve(a, o, qty)
        PROVE  Goal
    <2>1. qty \in Nat
      BY CatalogAssumption
    <2>2. CASE \E rate \in Rates, rail \in {"portone_cancel", "manual_transfer"} :
                 AdminRefundBegin(a, o, qty, rate, rail)
      BY <2>1, <2>2, BeginsLinked DEF AdminRefundBegin
    <2>3. CASE CancelIntentResolve(a, o, qty)
      <3>1. orders[o].intent \in Rates
        BY <2>3 DEF CancelIntentResolve, Links, Core, TypeOK, OrderRow
      <3>2. Reserve(a, o, qty, orders[o].intent, "portone_cancel", "cancel_intent")
        BY <2>3 DEF CancelIntentResolve
      <3> QED BY <2>1, <3>1, <3>2, BeginsLinked
    <2> QED BY <1>4, <2>2, <2>3
  <1>5. ASSUME NEW a \in Attempts,
               \/ MarkPgRequested(a) \/ RecordPgPending(a)
               \/ \E c \in Cancellations : RecordPgSucceeded(a, c)
               \/ RecordPgFailed(a) \/ SwitchToManual(a)
               \/ AdminRefundCommit(a) \/ AdminRefundCommitManual(a)
               \/ AdminRefundRelease(a)
               \/ \E external \in BOOLEAN : ReplanPrePg(a, external)
               \/ ReplanAfterPg(a)
        PROVE  Goal
    <2>1. CASE \E c \in Cancellations : RecordPgSucceeded(a, c)
      BY <2>1, SettlesLinked
    <2>2. CASE AdminRefundCommit(a) \/ AdminRefundCommitManual(a)
      BY <2>2, CommitsLinked
    <2>3. CASE \/ MarkPgRequested(a) \/ RecordPgPending(a) \/ RecordPgFailed(a) \/ SwitchToManual(a)
               \/ AdminRefundRelease(a) \/ (\E external \in BOOLEAN : ReplanPrePg(a, external))
               \/ ReplanAfterPg(a)
      BY <2>3, AttemptStepsLinked
    <2> QED BY <1>5, <2>1, <2>2, <2>3
  <1>6. ASSUME NEW c \in Cancellations,
               \/ \E o \in Orders, status \in {"SUCCEEDED", "FAILED"} :
                    \/ \E amount \in ExternalAmounts : RecordCancellation(c, o, status, amount, None)
                    \/ \E m \in Attempts : RecordCancellation(c, o, status, attempts[m].amount, m)
               \/ RecordContradiction(c)
               \/ events[c].order # None /\
                    \E econ \in 0..Credits[events[c].order] : ResolveExternalCancellation(c, econ)
        PROVE  Goal
    <2>1. CASE RecordContradiction(c)
      BY <1>1, <2>1 DEF RecordContradiction
    <2>2. CASE \E o \in Orders, status \in {"SUCCEEDED", "FAILED"} :
                 \/ \E amount \in ExternalAmounts : RecordCancellation(c, o, status, amount, None)
                 \/ \E m \in Attempts : RecordCancellation(c, o, status, attempts[m].amount, m)
      BY <2>2, EventStepsLinked
    <2>3. CASE \E econ \in 0..Credits[events[c].order] : ResolveExternalCancellation(c, econ)
      BY <2>3, EventStepsLinked
    <2> QED BY <1>6, <2>1, <2>2, <2>3
  <1>7. ASSUME NEW i \in openIssues, CloseEventIssue(i) \/ IgnoreFailedEventIssue(i)
        PROVE  Goal
    <2>1. CASE IgnoreFailedEventIssue(i)
      BY <2>1, EventStepsLinked
    <2>2. CASE CloseEventIssue(i)
      BY <1>1, <2>2 DEF CloseEventIssue
    <2> QED BY <1>7, <2>1, <2>2
  <1>8. CASE DeleteAccount \/ ReactivateAccount \/ UNCHANGED vars
    <2>1. UNCHANGED <<attempts, requests, events>>
      BY <1>8 DEF DeleteAccount, ReactivateAccount, vars
    <2> QED BY <1>1, <2>1
  <1> QED BY <1>2, <1>3, <1>4, <1>5, <1>6, <1>7, <1>8 DEF Next

\* Links holds in every state of every member.
THEOREM LinksInvariant == Spec => []Links
  <1> QED BY LinksInit, LinksNext, PTL DEF Spec

\* The stored state of a refund request is the one derived from its attempt,
\* so the deferred trigger that checks it never aborts a transaction.
THEOREM RequestsFollowAttempts == Spec => []RequestStateDerived
  <1>1. Links => RequestStateDerived
    BY DEF Links
  <1> QED BY <1>1, LinksInvariant, PTL

\* A provider cancellation settles at most one attempt, of its order and its
\* amount, and every attempt refunded by the provider has one.
THEOREM SettledOnce == Spec => []SettlementOneToOne
  <1>1. Links => SettlementOneToOne
    BY DEF Links
  <1> QED BY <1>1, LinksInvariant, PTL

---------------------------------------------------------------------------
(* Late payments.                                                          *)

Seen(c, o) == events[c].order = o /\ events[c].status = "SUCCEEDED"

\* What is seen of an order stays when every cancellation stays as reported, or
\* was not seen and counts for nothing.
LEMMA SeenStays ==
  ASSUME Core, Core', NEW o \in Orders,
         \A c \in Cancellations :
           \/ /\ events'[c].order = events[c].order /\ events'[c].status = events[c].status
              /\ events'[c].amount = events[c].amount
           \/ ~Seen(c, o) /\ (Seen(c, o)' => events'[c].amount = 0)
  PROVE  SeenCancelled(o)' = SeenCancelled(o)
  <1> DEFINE S == {c \in EventsOf(o) : events[c].status = "SUCCEEDED"}
             T == {c \in EventsOf(o)' : events'[c].status = "SUCCEEDED"}
             f == [c \in Cancellations |-> events[c].amount]
             g == [c \in Cancellations |-> events'[c].amount]
  <1>1. S \subseteq T /\ T \subseteq Cancellations
    BY DEF EventsOf, Seen
  <1>2. \A c \in S : g[c] = f[c]
    BY DEF EventsOf, Seen
  <1>3. \A c \in T \ S : g[c] = 0
    BY DEF EventsOf, Seen
  <1>4. \A c \in Cancellations : g[c] \in Int
    BY DEF Core, TypeOK, EventRow
  <1>5. SeenCancelled(o) = SumFunctionOnSet(f, S) /\ SeenCancelled(o)' = SumFunctionOnSet(g, T)
    BY DEF SeenCancelled
  <1>6. IsFiniteSet(S) /\ IsFiniteSet(T)
    BY <1>1, FiniteAssumption, FS_Subset
  <1> HIDE DEF S, T, f, g
  <1>7. SumFunctionOnSet(g, T) = SumFunctionOnSet(g, S)
    BY <1>1, <1>3, <1>4, <1>6, SumOfSome
  <1>8. SumFunctionOnSet(g, S) = SumFunctionOnSet(f, S)
    BY <1>2, <1>6, SumSame
  <1> QED BY <1>5, <1>7, <1>8

Late(o) == LatePaid(o) \in openIssues

\* The other issues are not late payments.
LEMMA OtherIssues ==
  ASSUME NEW o, NEW p, NEW c
  PROVE  LatePaid(o) # UnmatchedIssue(p, c) /\ LatePaid(o) # Discrepancy(p, c)
  BY DEF LatePaid, UnmatchedIssue, Discrepancy

\* A late payment of a canceled order: whatever is seen is the whole price.
Full(o) == orders[o].rc = Credits[o] /\ orders[o].ra = Price[o] /\ SeenCancelled(o) = Price[o]

\* A step that opens no such issue keeps the invariant when it keeps the orders,
\* and what is seen of a full one.
LEMMA ClosableStays ==
  ASSUME ClosableUnlessAutoFull,
         \A o \in Orders : Late(o)' => Late(o),
         \A o \in Orders : Late(o) =>
           /\ orders'[o].paid = orders[o].paid /\ orders'[o].status = orders[o].status
           /\ orders[o].intent # None => orders'[o].intent # None
           /\ Full(o) => Full(o)'
  PROVE  ClosableUnlessAutoFull'
  BY DEF ClosableUnlessAutoFull, Late, Full

\* Steps that touch neither orders nor cancellations.
LEMMA ClosableUntouched ==
  ASSUME ClosableUnlessAutoFull, UNCHANGED <<orders, events>>, \A o \in Orders : Late(o)' => Late(o)
  PROVE  ClosableUnlessAutoFull'
  <1>1. \A o \in Orders : Full(o) => Full(o)'
    BY DEF Full, SeenCancelled, EventsOf
  <1> QED BY <1>1, ClosableStays

\* A payment opens the issue of a paid order; nothing else makes a late payment's
\* order fail or expire.
LEMMA ClosableByOrderSteps ==
  ASSUME Core, ClosableUnlessAutoFull, NEW p \in Orders,
         \/ MarkPaidAndGrant(p) \/ MarkOrderFailed(p) \/ MarkOrderCanceledUnpaid(p)
         \/ \E rate \in Rates : CancelIntentBegin(p, rate)
  PROVE  ClosableUnlessAutoFull'
  <1>1. UNCHANGED events /\ \A o \in Orders : o # p => orders'[o] = orders[o]
    BY DEF MarkPaidAndGrant, MarkOrderFailed, MarkOrderCanceledUnpaid, CancelIntentBegin, Core, TypeOK
  <1>2. \A o \in Orders : SeenCancelled(o)' = SeenCancelled(o)
    BY <1>1 DEF SeenCancelled, EventsOf
  <1>3. \A o \in Orders : o # p /\ Late(o)' => Late(o)
    <2>1. \A o \in Orders : o # p => LatePaid(o) # LatePaid(p)
      BY DEF LatePaid
    <2> QED BY <2>1 DEF MarkPaidAndGrant, MarkOrderFailed, MarkOrderCanceledUnpaid, CancelIntentBegin, Late
  <1>4. CASE MarkPaidAndGrant(p)
    <2>1. orders'[p].paid /\ orders'[p].status = "paid"
      BY <1>4 DEF MarkPaidAndGrant, Core, TypeOK, OrderRow
    <2> QED BY <1>1, <1>2, <1>3, <2>1 DEF ClosableUnlessAutoFull, Late
  <1>5. CASE MarkOrderFailed(p) \/ MarkOrderCanceledUnpaid(p)
    <2>1. ~Late(p) /\ ~Late(p)'
      BY <1>5 DEF MarkOrderFailed, MarkOrderCanceledUnpaid, ClosableUnlessAutoFull, Late
    <2> QED BY <1>1, <1>2, <1>3, <2>1 DEF ClosableUnlessAutoFull, Late
  <1>6. ASSUME NEW rate \in Rates, CancelIntentBegin(p, rate) PROVE ClosableUnlessAutoFull'
    <2>1. /\ orders'[p].paid = orders[p].paid /\ orders'[p].status = orders[p].status
          /\ orders'[p].rc = orders[p].rc /\ orders'[p].ra = orders[p].ra
          /\ orders'[p].intent = rate /\ rate # None
      BY <1>6, NoneAssumption DEF CancelIntentBegin, Core, TypeOK, OrderRow
    <2>2. \A o \in Orders : (Late(o)' => Late(o)) /\ (Full(o) => Full(o)')
      BY <1>1, <1>2, <1>6, <2>1 DEF CancelIntentBegin, Late, Full
    <2> QED BY <1>1, <2>1, <2>2, ClosableStays
  <1> QED BY <1>4, <1>5, <1>6

\* A fully refunded order leaves a commit nothing to add.
LEMMA ClosableByCommit ==
  ASSUME Core, Core', ClosableUnlessAutoFull, NEW a \in Attempts,
         AdminRefundCommit(a) \/ AdminRefundCommitManual(a)
  PROVE  ClosableUnlessAutoFull'
  <1>1. PICK p : p = attempts[a].order
    OBVIOUS
  <1>2. ApplyCommit(a) /\ attempts[a].state # "unused" /\ p \in Orders
    BY <1>1 DEF AdminRefundCommit, AdminRefundCommitManual, Core, Linked
  <1>3. /\ UNCHANGED <<events, openIssues>> /\ CommitAdmissible(a)
        /\ orders' = [orders EXCEPT ![p] =
             [orders[p] EXCEPT !.rc = orders[p].rc + attempts[a].qty + Closure(a),
                               !.ra = orders[p].ra + attempts[a].amount]]
    BY <1>1, <1>2 DEF ApplyCommit
  <1>4. /\ attempts[a].qty \in Nat /\ attempts[a].amount \in Nat
        /\ orders[p].rc \in Nat /\ orders[p].ra \in Nat /\ Credits[p] \in Nat /\ Price[p] \in Nat
    BY <1>2, CatalogAssumption DEF Core, TypeOK, AttemptRow, OrderRow
  <1>5. /\ orders'[p].paid = orders[p].paid /\ orders'[p].status = orders[p].status
        /\ orders'[p].intent = orders[p].intent
        /\ orders'[p].rc = orders[p].rc + attempts[a].qty + Closure(a)
        /\ orders'[p].ra = orders[p].ra + attempts[a].amount
        /\ \A o \in Orders : o # p => orders'[o] = orders[o]
    BY <1>2, <1>3 DEF Core, TypeOK, OrderRow
  <1>6. Full(p) => attempts[a].qty = 0 /\ attempts[a].amount = 0 /\ Closure(a) = 0
    BY <1>1, <1>3, <1>4 DEF Full, CommitAdmissible, Closure
  <1>7. \A o \in Orders : SeenCancelled(o)' = SeenCancelled(o)
    BY <1>3 DEF SeenCancelled, EventsOf
  <1>8. \A o \in Orders : Full(o) => Full(o)'
    BY <1>4, <1>5, <1>6, <1>7 DEF Full
  <1> QED BY <1>3, <1>5, <1>8, ClosableStays DEF Late

\* Cancellations that only change their state.
LEMMA ClosableByMarks ==
  ASSUME Core, Core', ClosableUnlessAutoFull, UNCHANGED orders,
         \A o \in Orders : Late(o)' => Late(o),
         \A c \in Cancellations :
           /\ events'[c].order = events[c].order /\ events'[c].status = events[c].status
           /\ events'[c].amount = events[c].amount
  PROVE  ClosableUnlessAutoFull'
  <1>1. \A o \in Orders : SeenCancelled(o)' = SeenCancelled(o)
    BY SeenStays
  <1> QED BY <1>1, ClosableStays DEF Full

LEMMA IgnoredMarks ==
  ASSUME Core, NEW o, events' = IgnoreFailedEvents(o), NEW c \in Cancellations
  PROVE  /\ events'[c].order = events[c].order /\ events'[c].status = events[c].status
         /\ events'[c].amount = events[c].amount
  <1>1. events[c] \in EventRow
    BY DEF Core, TypeOK
  <1>2. \/ events'[c] = events[c]
        \/ events'[c] = [events[c] EXCEPT !.state = "ignored"]
    BY DEF IgnoreFailedEvents
  <1> QED BY <1>1, <1>2 DEF EventRow

\* A cancellation nobody reported has not been seen to succeed.
Unreported == \A c \in Cancellations : events[c].state = "absent" => events[c].status = "FAILED"

\* A cancellation reported anew: PortOne has nothing left of a full order.
LEMMA ClosableByReport ==
  ASSUME Core, Core', ClosableUnlessAutoFull, Unreported, UNCHANGED orders,
         \A o \in Orders : Late(o)' => Late(o),
         NEW c \in Cancellations, NEW p \in Orders, NEW status, NEW amount \in Nat, NEW marker,
         events[c].state = "absent", Reportable(c, p, status, amount, marker),
         events'[c].order = p, events'[c].status = status, events'[c].amount = amount,
         \A d \in Cancellations : d # c => events'[d] = events[d]
  PROVE  ClosableUnlessAutoFull'
  <1>1. ASSUME NEW o \in Orders, SeenCancelled(o) = Price[o]
        PROVE  SeenCancelled(o)' = SeenCancelled(o)
    <2>1. ~Seen(c, o)
      BY DEF Seen, Unreported
    <2>2. Price[o] \in Nat
      BY CatalogAssumption
    <2>3. Seen(c, o)' => amount = 0
      BY <1>1, <2>2 DEF Seen, Reportable
    <2> QED BY <2>1, <2>3, SeenStays
  <1> QED BY <1>1, ClosableStays DEF Full

LEMMA ClosableBySettlement ==
  ASSUME Core, Core', ClosableUnlessAutoFull, Unreported, NEW a \in Attempts, NEW c \in Cancellations,
         RecordPgSucceeded(a, c)
  PROVE  ClosableUnlessAutoFull' /\ Unreported'
  <1> DEFINE ev == [state |-> "matched", order |-> attempts[a].order, status |-> "SUCCEEDED",
                    amount |-> attempts[a].amount, marker |-> a, matched |-> a, econ |-> 0]
  <1>1. /\ events' = [events EXCEPT ![c] = ev] /\ Settles(a, c)
        /\ UNCHANGED <<orders, openIssues>> /\ attempts[a].state # "unused"
    BY DEF RecordPgSucceeded
  <1>2. /\ ev.order = attempts[a].order /\ ev.status = "SUCCEEDED" /\ ev.amount = attempts[a].amount
        /\ ev.state = "matched"
    OBVIOUS
  <1> HIDE DEF ev
  <1>3. events'[c] = ev /\ \A d \in Cancellations : d # c => events'[d] = events[d]
    BY <1>1 DEF Core, TypeOK
  <1>4. Unreported'
    BY <1>2, <1>3 DEF Unreported
  <1>5. attempts[a].order \in Orders /\ attempts[a].amount \in Nat
    BY <1>1 DEF Core, TypeOK, Linked, AttemptRow
  <1>6. CASE events[c].state = "absent"
    <2>1. Reportable(c, attempts[a].order, "SUCCEEDED", attempts[a].amount, a)
      BY <1>1, <1>6 DEF Settles
    <2> QED BY <1>1, <1>2, <1>3, <1>4, <1>5, <1>6, <2>1, ClosableByReport DEF Late
  <1>7. CASE events[c].state # "absent"
    <2>1. /\ events[c].status = "SUCCEEDED" /\ events[c].order = attempts[a].order
          /\ events[c].amount = attempts[a].amount
      BY <1>1, <1>7 DEF Settles
    <2> QED BY <1>1, <1>2, <1>3, <1>4, <2>1, ClosableByMarks DEF Late
  <1> QED BY <1>6, <1>7

LEMMA ClosableByObservation ==
  ASSUME Core, Core', ClosableUnlessAutoFull, Unreported, NEW c \in Cancellations, NEW p \in Orders,
         NEW status \in {"SUCCEEDED", "FAILED"}, NEW amount \in Nat, NEW marker \in Attempts \cup {None},
         RecordCancellation(c, p, status, amount, marker)
  PROVE  ClosableUnlessAutoFull' /\ Unreported'
  <1> DEFINE ev == [AbsentEvent EXCEPT !.state = "unmatched", !.order = p, !.status = status,
                                       !.amount = amount, !.marker = marker]
  <1>1. /\ events' = [events EXCEPT ![c] = ev] /\ UNCHANGED orders
        /\ events[c].state = "absent" /\ Reportable(c, p, status, amount, marker)
        /\ openIssues' \subseteq openIssues \cup {UnmatchedIssue(p, c)}
    BY DEF RecordCancellation
  <1>2. ev.order = p /\ ev.status = status /\ ev.amount = amount /\ ev.state = "unmatched"
    BY DEF AbsentEvent
  <1> HIDE DEF ev
  <1>3. events'[c] = ev /\ \A d \in Cancellations : d # c => events'[d] = events[d]
    BY <1>1 DEF Core, TypeOK
  <1>4. \A o \in Orders : Late(o)' => Late(o)
    BY <1>1, OtherIssues DEF Late
  <1>5. ClosableUnlessAutoFull'
    BY <1>1, <1>2, <1>3, <1>4, ClosableByReport
  <1>6. Unreported'
    BY <1>2, <1>3 DEF Unreported
  <1> QED BY <1>5, <1>6

\* What a cancellation resolved as external may still add to a full order is nothing.
LEMMA ClosableByResolution ==
  ASSUME Core, Core', ClosableUnlessAutoFull, Unreported, NEW c \in Cancellations, NEW econ \in Nat,
         ResolveExternalCancellation(c, econ)
  PROVE  ClosableUnlessAutoFull' /\ Unreported'
  <1>1. PICK p : p = events[c].order
    OBVIOUS
  <1>2. /\ p \in Orders /\ events[c] \in EventRow /\ events[c].state = "unmatched"
        /\ events[c].amount \in Nat
    BY <1>1 DEF ResolveExternalCancellation, Core, TypeOK, Linked, EventRow
  <1>3. /\ econ <= Credits[p] - orders[p].rc /\ orders[p].ra + events[c].amount <= Price[p]
        /\ orders' = [orders EXCEPT ![p] = [orders[p] EXCEPT !.rc = orders[p].rc + econ,
                                                             !.ra = orders[p].ra + events[c].amount]]
        /\ events' = [events EXCEPT ![c] = [events[c] EXCEPT !.state = "resolved", !.econ = econ]]
        /\ openIssues' \subseteq openIssues
    BY <1>1 DEF ResolveExternalCancellation
  <1>4. /\ orders[p].rc \in Nat /\ orders[p].ra \in Nat /\ Credits[p] \in Nat /\ Price[p] \in Nat
    BY <1>2, CatalogAssumption DEF Core, TypeOK, OrderRow
  <1>5. /\ orders'[p].paid = orders[p].paid /\ orders'[p].status = orders[p].status
        /\ orders'[p].intent = orders[p].intent
        /\ orders'[p].rc = orders[p].rc + econ /\ orders'[p].ra = orders[p].ra + events[c].amount
        /\ \A o \in Orders : o # p => orders'[o] = orders[o]
    BY <1>2, <1>3 DEF Core, TypeOK, OrderRow
  <1>6. /\ events'[c].order = events[c].order /\ events'[c].status = events[c].status
        /\ events'[c].amount = events[c].amount /\ events'[c].state = "resolved"
        /\ \A d \in Cancellations : d # c => events'[d] = events[d]
    BY <1>2, <1>3 DEF Core, TypeOK, EventRow
  <1>7. \A o \in Orders : SeenCancelled(o)' = SeenCancelled(o)
    BY <1>6, SeenStays
  <1>8. Full(p) => econ = 0 /\ events[c].amount = 0
    BY <1>2, <1>3, <1>4 DEF Full
  <1>9. \A o \in Orders : Full(o) => Full(o)'
    BY <1>4, <1>5, <1>7, <1>8 DEF Full
  <1>10. Unreported'
    BY <1>6 DEF Unreported
  <1> QED BY <1>3, <1>5, <1>9, <1>10, ClosableStays DEF Late

\* The automatic resolution makes an order full; one that is full is beyond it.
LEMMA ClosableByAutoFull ==
  ASSUME Core, Core', ClosableUnlessAutoFull, Unreported, NEW p \in Orders, ResolveAutoFull(p)
  PROVE  ClosableUnlessAutoFull' /\ Unreported'
  <1> DEFINE share == Allocation([c \in EventsOf(p) |-> events[c].amount], Price[p], Credits[p])
             row == [orders[p] EXCEPT !.rc = Credits[p], !.ra = Price[p], !.status = "canceled"]
  <1>1. /\ orders' = [orders EXCEPT ![p] = row] /\ openIssues' \subseteq openIssues
        /\ SeenCancelled(p) = Price[p] /\ orders[p].intent # None
    BY DEF ResolveAutoFull, AutoFullEligible
  <1>2. /\ row.paid = orders[p].paid /\ row.intent = orders[p].intent
        /\ row.rc = Credits[p] /\ row.ra = Price[p] /\ row.status = "canceled"
    BY DEF Core, TypeOK, OrderRow
  <1> HIDE DEF row
  <1>3. orders'[p] = row /\ \A o \in Orders : o # p => orders'[o] = orders[o]
    BY <1>1 DEF Core, TypeOK
  <1>4. ASSUME NEW c \in Cancellations
        PROVE  /\ events'[c].order = events[c].order /\ events'[c].status = events[c].status
               /\ events'[c].amount = events[c].amount
               /\ events'[c].state = "absent" => events[c].state = "absent"
    <2>1. events[c] \in EventRow
      BY DEF Core, TypeOK
    <2>2. \/ events'[c] = events[c]
          \/ events'[c] = [events[c] EXCEPT !.state = "resolved", !.econ = share[c]]
      BY DEF ResolveAutoFull
    <2> HIDE DEF share
    <2> QED BY <2>1, <2>2 DEF EventRow
  <1>5. \A o \in Orders : SeenCancelled(o)' = SeenCancelled(o)
    BY <1>4, SeenStays
  <1>6. \A o \in Orders : Late(o)' => Late(o)
    BY <1>1 DEF Late
  <1>7. Unreported'
    BY <1>4 DEF Unreported
  <1>8. ClosableUnlessAutoFull'
    BY <1>1, <1>2, <1>3, <1>5, <1>6 DEF ClosableUnlessAutoFull, Late
  <1> QED BY <1>7, <1>8

Closing == Core /\ ClosableUnlessAutoFull /\ Unreported

\* No step of any caller leaves it.
LEMMA ClosingNext == Closing /\ [Next]_vars => Closing'
  <1> SUFFICES ASSUME Closing, [Next]_vars PROVE ClosableUnlessAutoFull' /\ Unreported'
    BY CoreNext DEF Closing
  <1> DEFINE Goal == ClosableUnlessAutoFull' /\ Unreported'
  <1>0. Core /\ Core' /\ ClosableUnlessAutoFull /\ Unreported
    BY CoreNext DEF Closing
  <1>1. ASSUME UNCHANGED <<orders, events>>, \A o \in Orders : Late(o)' => Late(o) PROVE Goal
    BY <1>0, <1>1, ClosableUntouched DEF Unreported
  <1>2. ASSUME UNCHANGED <<orders, openIssues>>, NEW p, events' = IgnoreFailedEvents(p) PROVE Goal
    <2>1. ClosableUnlessAutoFull'
      BY <1>0, <1>2, IgnoredMarks, ClosableByMarks DEF Late
    <2>2. Unreported'
      BY <1>0, <1>2, IgnoredMarks DEF Unreported, IgnoreFailedEvents
    <2> QED BY <2>1, <2>2
  <1>3. ASSUME NEW p \in Orders,
               \/ MarkPaidAndGrant(p) \/ MarkOrderFailed(p) \/ MarkOrderCanceledUnpaid(p)
               \/ \E rate \in Rates : CancelIntentBegin(p, rate)
               \/ ResolveAutoFull(p) \/ ResolveLatePaid(p) \/ SweepExpired(p)
        PROVE  Goal
    <2>1. CASE \/ MarkPaidAndGrant(p) \/ MarkOrderFailed(p) \/ MarkOrderCanceledUnpaid(p)
               \/ \E rate \in Rates : CancelIntentBegin(p, rate)
      <3>1. UNCHANGED events
        BY <2>1 DEF MarkPaidAndGrant, MarkOrderFailed, MarkOrderCanceledUnpaid, CancelIntentBegin
      <3> QED BY <1>0, <2>1, <3>1, ClosableByOrderSteps DEF Unreported
    <2>2. CASE ResolveAutoFull(p)
      BY <1>0, <2>2, ClosableByAutoFull
    <2>3. CASE ResolveLatePaid(p) \/ SweepExpired(p)
      <3>1. UNCHANGED <<orders, events>> /\ openIssues' \subseteq openIssues
        BY <2>3 DEF ResolveLatePaid, SweepExpired
      <3> QED BY <1>1, <3>1 DEF Late
    <2> QED BY <1>3, <2>1, <2>2, <2>3
  <1>4. ASSUME NEW g \in Gens,
               \/ \E o \in Orders : CreateGeneration(g, o)
               \/ CompleteGeneration(g) \/ FailGeneration(g)
        PROVE  Goal
    <2>1. UNCHANGED <<orders, events, openIssues>>
      BY <1>4 DEF CreateGeneration, CompleteGeneration, FailGeneration
    <2> QED BY <1>1, <2>1 DEF Late
  <1>5. ASSUME NEW a \in Attempts, NEW o \in Orders, NEW qty \in 1..Credits[o],
               \/ \E rate \in Rates, rail \in {"portone_cancel", "manual_transfer"} :
                    AdminRefundBegin(a, o, qty, rate, rail)
               \/ CancelIntentResolve(a, o, qty)
        PROVE  Goal
    <2>1. UNCHANGED <<orders, events, openIssues>>
      BY <1>5 DEF AdminRefundBegin, CancelIntentResolve, Reserve
    <2> QED BY <1>1, <2>1 DEF Late
  <1>6. ASSUME NEW a \in Attempts,
               \/ MarkPgRequested(a) \/ RecordPgPending(a)
               \/ \E c \in Cancellations : RecordPgSucceeded(a, c)
               \/ RecordPgFailed(a) \/ SwitchToManual(a)
               \/ AdminRefundCommit(a) \/ AdminRefundCommitManual(a)
               \/ AdminRefundRelease(a)
               \/ \E external \in BOOLEAN : ReplanPrePg(a, external)
               \/ ReplanAfterPg(a)
        PROVE  Goal
    <2>1. CASE \E c \in Cancellations : RecordPgSucceeded(a, c)
      BY <1>0, <2>1, ClosableBySettlement
    <2>2. CASE AdminRefundCommit(a) \/ AdminRefundCommitManual(a)
      <3>1. UNCHANGED events
        BY <2>2 DEF AdminRefundCommit, AdminRefundCommitManual, ApplyCommit
      <3> QED BY <1>0, <2>2, <3>1, ClosableByCommit DEF Unreported
    <2>3. CASE SwitchToManual(a) \/ ReplanAfterPg(a)
      <3>1. UNCHANGED <<orders, openIssues>> /\ events' = IgnoreFailedEvents(attempts[a].order)
        BY <2>3 DEF SwitchToManual, ReplanAfterPg, ApplyRelease
      <3> QED BY <1>2, <3>1
    <2>4. CASE \/ MarkPgRequested(a) \/ RecordPgPending(a) \/ RecordPgFailed(a)
               \/ AdminRefundRelease(a) \/ \E external \in BOOLEAN : ReplanPrePg(a, external)
      <3>1. UNCHANGED <<orders, events, openIssues>>
        BY <2>4 DEF MarkPgRequested, RecordPgPending, RecordPgFailed, AdminRefundRelease, ReplanPrePg,
                    ApplyRelease
      <3> QED BY <1>1, <3>1 DEF Late
    <2> QED BY <1>6, <2>1, <2>2, <2>3, <2>4
  <1>7. ASSUME NEW c \in Cancellations,
               \/ \E o \in Orders, status \in {"SUCCEEDED", "FAILED"} :
                    \/ \E amount \in ExternalAmounts : RecordCancellation(c, o, status, amount, None)
                    \/ \E m \in Attempts : RecordCancellation(c, o, status, attempts[m].amount, m)
               \/ RecordContradiction(c)
               \/ events[c].order # None /\
                    \E econ \in 0..Credits[events[c].order] : ResolveExternalCancellation(c, econ)
        PROVE  Goal
    <2>1. CASE RecordContradiction(c)
      <3>1. /\ UNCHANGED <<orders, events>>
            /\ openIssues' = openIssues \cup {Discrepancy(events[c].order, c)}
        BY <2>1 DEF RecordContradiction
      <3> QED BY <1>1, <3>1, OtherIssues DEF Late
    <2>2. ASSUME NEW o \in Orders, NEW status \in {"SUCCEEDED", "FAILED"},
                 \/ \E amount \in ExternalAmounts : RecordCancellation(c, o, status, amount, None)
                 \/ \E m \in Attempts : RecordCancellation(c, o, status, attempts[m].amount, m)
          PROVE  Goal
      <3>1. ASSUME NEW amount \in ExternalAmounts, RecordCancellation(c, o, status, amount, None)
            PROVE  Goal
        <4>1. amount \in Nat
          BY CancellationAssumption
        <4> QED BY <1>0, <3>1, <4>1, ClosableByObservation
      <3>2. ASSUME NEW m \in Attempts, RecordCancellation(c, o, status, attempts[m].amount, m)
            PROVE  Goal
        <4>1. attempts[m].amount \in Nat
          BY <1>0 DEF Core, TypeOK, AttemptRow
        <4> QED BY <1>0, <3>2, <4>1, ClosableByObservation
      <3> QED BY <2>2, <3>1, <3>2
    <2>3. ASSUME NEW econ \in 0..Credits[events[c].order], ResolveExternalCancellation(c, econ)
          PROVE  Goal
      <3>1. econ \in Nat
        OBVIOUS
      <3> QED BY <1>0, <2>3, <3>1, ClosableByResolution
    <2> QED BY <1>7, <2>1, <2>2, <2>3
  <1>8. ASSUME NEW i \in openIssues, CloseEventIssue(i) \/ IgnoreFailedEventIssue(i)
        PROVE  Goal
    <2>1. CASE CloseEventIssue(i)
      <3>1. UNCHANGED <<orders, events>> /\ openIssues' \subseteq openIssues
        BY <2>1 DEF CloseEventIssue
      <3> QED BY <1>1, <3>1 DEF Late
    <2>2. CASE IgnoreFailedEventIssue(i)
      <3>1. /\ UNCHANGED orders /\ openIssues' \subseteq openIssues
            /\ events' = [events EXCEPT ![i.cancel].state = "ignored"]
        BY <2>2 DEF IgnoreFailedEventIssue
      <3>2. ASSUME NEW c \in Cancellations
            PROVE  /\ events'[c].order = events[c].order /\ events'[c].status = events[c].status
                   /\ events'[c].amount = events[c].amount
                   /\ events'[c].state = "absent" => events[c].state = "absent"
        <4>1. events[c] \in EventRow
          BY <1>0 DEF Core, TypeOK
        <4>2. events'[c] = events[c] \/ events'[c] = [events[c] EXCEPT !.state = "ignored"]
          BY <1>0, <3>1 DEF Core, TypeOK
        <4> QED BY <4>1, <4>2 DEF EventRow
      <3>3. ClosableUnlessAutoFull'
        BY <1>0, <3>1, <3>2, ClosableByMarks DEF Late
      <3>4. Unreported'
        BY <1>0, <3>2 DEF Unreported
      <3> QED BY <3>3, <3>4
    <2> QED BY <1>8, <2>1, <2>2
  <1>9. CASE DeleteAccount \/ ReactivateAccount \/ UNCHANGED vars
    <2>1. UNCHANGED <<orders, events, openIssues>>
      BY <1>9 DEF DeleteAccount, ReactivateAccount, vars
    <2> QED BY <1>1, <2>1 DEF Late
  <1> QED BY <1>3, <1>4, <1>5, <1>6, <1>7, <1>8, <1>9 DEF Next

LEMMA ClosingInit == Init => Closing
  BY CoreInit DEF Init, Closing, ClosableUnlessAutoFull, Unreported, AbsentEvent

\* An order with an open late_paid issue stays paid, so that the issue can be
\* closed when all is refunded, whatever payments, refunds and cancellations do;
\* only the automatic resolution of a cancellation of the whole price, after a
\* cancel intent, leaves it canceled (mark_paid_and_grant,
\* resolve_external_cancellation_auto_full, admin_resolve_reconciliation_issue).
THEOREM LatePaidClosable == Spec => []ClosableUnlessAutoFull
  <1>1. Closing => ClosableUnlessAutoFull
    BY DEF Closing
  <1> QED BY <1>1, ClosingInit, ClosingNext, PTL DEF Spec

---------------------------------------------------------------------------
(* The cached balance.                                                     *)

\* A lot is opened by a payment only, and only a lot that is open is used.
Granted ==
  /\ \A o \in Orders :
       /\ lots[o].live => lots[o].granted
       /\ lots[o].granted => orders[o].paid
       /\ ~lots[o].granted => lots[o].consumed = 0 /\ lots[o].refunded = 0 /\ lots[o].reserved = 0
  /\ \A a \in Attempts : attempts[a].state # "unused" => lots[attempts[a].order].granted

Balance == Core /\ Granted /\ CacheIsLiveRemaining

\* What order o's lot counts for in the balance.
Value(o) == IF lots[o].granted /\ lots[o].live THEN Avail(o) ELSE 0

\* The balance is the sum of the values of all lots.
LEMMA BalanceOfValues ==
  ASSUME Core
  PROVE  /\ \A o \in Orders : Avail(o) \in Int /\ Value(o) \in Int
         /\ CacheIsLiveRemaining
              <=> cache = SumFunctionOnSet([o \in Orders |-> Value(o)], Orders)
  <1> DEFINE live == {o \in Orders : lots[o].granted /\ lots[o].live}
  <1>1. \A o \in Orders : Avail(o) \in Int /\ Value(o) \in Int
    BY CatalogAssumption DEF Core, TypeOK, LotRow, Avail, Value
  <1>2. PICK f, g : f = [o \in Orders |-> Value(o)] /\ g = [o \in Orders |-> Avail(o)]
    OBVIOUS
  <1>3. /\ \A o \in live : f[o] = g[o] /\ f[o] \in Int
        /\ \A o \in Orders \ live : f[o] = 0
    BY <1>1, <1>2 DEF Value
  <1>4. live \in SUBSET Orders /\ IsFiniteSet(live) /\ IsFiniteSet(Orders)
    BY FiniteAssumption, FS_Subset
  <1>5. PICK L : L = live
    OBVIOUS
  <1>6. SumFunctionOnSet(f, Orders) = SumFunctionOnSet(f, L)
    BY <1>3, <1>4, <1>5, SumOfSome
  <1>7. SumFunctionOnSet(f, L) = SumFunctionOnSet(g, L)
    BY <1>3, <1>4, <1>5, SumSame
  <1>8. CacheIsLiveRemaining <=> cache = SumFunctionOnSet(g, L)
    BY <1>2, <1>5 DEF CacheIsLiveRemaining
  <1> HIDE DEF live
  <1> QED BY <1>1, <1>2, <1>6, <1>7, <1>8

\* The same in the next state.
LEMMA BalanceOfValuesNext ==
  ASSUME Core'
  PROVE  /\ \A o \in Orders : Avail(o)' \in Int /\ Value(o)' \in Int
         /\ CacheIsLiveRemaining'
              <=> cache' = SumFunctionOnSet([o \in Orders |-> Value(o)'], Orders)
  <1> DEFINE live == {o \in Orders : lots'[o].granted /\ lots'[o].live}
  <1>1. \A o \in Orders : Avail(o)' \in Int /\ Value(o)' \in Int
    BY CatalogAssumption DEF Core, TypeOK, LotRow, Avail, Value
  <1>2. PICK f, g : f = [o \in Orders |-> Value(o)'] /\ g = [o \in Orders |-> Avail(o)']
    OBVIOUS
  <1>3. /\ \A o \in live : f[o] = g[o] /\ f[o] \in Int
        /\ \A o \in Orders \ live : f[o] = 0
    BY <1>1, <1>2 DEF Value
  <1>4. live \in SUBSET Orders /\ IsFiniteSet(live) /\ IsFiniteSet(Orders)
    BY FiniteAssumption, FS_Subset
  <1>5. PICK L : L = live
    OBVIOUS
  <1>6. SumFunctionOnSet(f, Orders) = SumFunctionOnSet(f, L)
    BY <1>3, <1>4, <1>5, SumOfSome
  <1>7. SumFunctionOnSet(f, L) = SumFunctionOnSet(g, L)
    BY <1>3, <1>4, <1>5, SumSame
  <1>8. CacheIsLiveRemaining' <=> cache' = SumFunctionOnSet(g, L)
    BY <1>2, <1>5 DEF CacheIsLiveRemaining
  <1> HIDE DEF live
  <1> QED BY <1>1, <1>2, <1>6, <1>7, <1>8

\* The balance follows the value of the one lot a step touches.
LEMMA ValueMoves ==
  ASSUME Core, Core', CacheIsLiveRemaining, NEW o \in Orders,
         \A p \in Orders : p # o => lots'[p] = lots[p],
         cache' = cache - Value(o) + Value(o)'
  PROVE  CacheIsLiveRemaining'
  <1>1. PICK f, g : f = [p \in Orders |-> Value(p)] /\ g = [p \in Orders |-> Value(p)']
    OBVIOUS
  <1>2. \A p \in Orders : f[p] \in Int /\ g[p] \in Int
    BY <1>1, BalanceOfValues, BalanceOfValuesNext
  <1>3. \A p \in Orders : p # o => g[p] = f[p]
    BY <1>1 DEF Value, Avail
  <1>4. SumFunctionOnSet(g, Orders) = SumFunctionOnSet(f, Orders) - f[o] + g[o]
    BY <1>2, <1>3, FiniteAssumption, SumChange
  <1>5. cache = SumFunctionOnSet(f, Orders) /\ f[o] = Value(o) /\ g[o] = Value(o)'
    BY <1>1, BalanceOfValues
  <1>6. cache' = SumFunctionOnSet(g, Orders)
    BY <1>4, <1>5
  <1> QED BY <1>1, <1>6, BalanceOfValuesNext

\* A step that leaves the lots and the balance alone.
LEMMA BalanceUntouched ==
  ASSUME Balance, Core', UNCHANGED <<cache, lots>>,
         \A o \in Orders : orders[o].paid => orders'[o].paid,
         \A a \in Attempts : attempts'[a].state # "unused" =>
           attempts[a].state # "unused" /\ attempts'[a].order = attempts[a].order
  PROVE  Balance'
  <1>1. Granted'
    BY DEF Balance, Granted
  <1>2. CacheIsLiveRemaining'
    BY DEF Balance, CacheIsLiveRemaining, Avail
  <1> QED BY <1>1, <1>2 DEF Balance

\* d credits return to a lot that is open (or leave it, when d is negative).
LEMMA LotMoves ==
  ASSUME Balance, Core', NEW o \in Orders, NEW lot \in LotRow, NEW d \in Int,
         lots' = [lots EXCEPT ![o] = lot],
         lots[o].granted, lot.granted = lots[o].granted, lot.live = lots[o].live,
         lot.consumed + lot.refunded + lot.reserved
           = lots[o].consumed + lots[o].refunded + lots[o].reserved - d,
         cache' = cache + (IF lots[o].live THEN d ELSE 0),
         \A p \in Orders : orders'[p].paid = orders[p].paid,
         \A a \in Attempts : attempts'[a].state # "unused" =>
           \/ attempts[a].state # "unused" /\ attempts'[a].order = attempts[a].order
           \/ attempts'[a].order = o
  PROVE  Balance'
  <1>1. lots'[o] = lot /\ \A p \in Orders : p # o => lots'[p] = lots[p]
    BY RowUpdate DEF Balance, Core, TypeOK
  <1>2. Granted'
    <2>1. \A p \in Orders : lots'[p].granted = lots[p].granted
      BY <1>1
    <2>2. \A a \in Attempts : attempts'[a].state # "unused" => attempts'[a].order \in Orders
      BY DEF Core, Linked
    <2>3. \A a \in Attempts : attempts'[a].state # "unused" => lots'[attempts'[a].order].granted
      BY <2>1, <2>2 DEF Balance, Granted
    <2> QED BY <1>1, <2>3 DEF Balance, Granted
  <1>3. cache' = cache - Value(o) + Value(o)'
    <2>1. /\ lots[o].consumed \in Nat /\ lots[o].refunded \in Nat /\ lots[o].reserved \in Nat
          /\ lot.consumed \in Nat /\ lot.refunded \in Nat /\ lot.reserved \in Nat
          /\ Credits[o] \in Nat /\ cache \in Int
      BY CatalogAssumption DEF Balance, Core, TypeOK, LotRow
    <2>2. /\ Avail(o) = Credits[o] - lots[o].consumed - lots[o].refunded - lots[o].reserved
          /\ Avail(o)' = Credits[o] - lot.consumed - lot.refunded - lot.reserved
      BY <1>1 DEF Avail
    <2>3. Avail(o)' = Avail(o) + d /\ Avail(o) \in Int
      BY <2>1, <2>2
    <2>4. /\ Value(o) = IF lots[o].live THEN Avail(o) ELSE 0
          /\ Value(o)' = IF lots[o].live THEN Avail(o)' ELSE 0
      BY <1>1 DEF Value
    <2>5. PICK v, w : v = Avail(o) /\ w = Avail(o)'
      OBVIOUS
    <2> QED BY <2>1, <2>3, <2>4, <2>5
  <1>4. CacheIsLiveRemaining'
    BY <1>1, <1>3, ValueMoves DEF Balance
  <1> QED BY <1>2, <1>4 DEF Balance

\* A payment opens a lot that nothing has used.
LEMMA PaymentBalance ==
  ASSUME Balance, Core', NEW o \in Orders, MarkPaidAndGrant(o)
  PROVE  Balance'
  <1> DEFINE grant == orders[o].status # "canceled" /\ ~deleted /\ orders[o].intent = None
             row == [orders[o] EXCEPT !.status = "paid", !.paid = TRUE]
             lot == [lots[o] EXCEPT !.granted = TRUE, !.live = grant]
  <1>1. /\ orders' = [orders EXCEPT ![o] = row] /\ lots' = [lots EXCEPT ![o] = lot]
        /\ cache' = IF grant THEN cache + Credits[o] ELSE cache
        /\ UNCHANGED attempts /\ ~orders[o].paid
    BY DEF MarkPaidAndGrant
  <1>2. /\ lots[o].consumed = 0 /\ lots[o].refunded = 0 /\ lots[o].reserved = 0
        /\ ~lots[o].granted
    BY <1>1 DEF Balance, Granted
  <1>3. grant \in BOOLEAN /\ Credits[o] \in Nat /\ cache \in Int
    BY CatalogAssumption DEF Balance, Core, TypeOK
  <1>4. row \in OrderRow /\ row.paid
    BY DEF Balance, Core, TypeOK, OrderRow
  <1> HIDE DEF grant, row
  <1>5. /\ lot \in LotRow /\ lot.granted /\ lot.live = grant
        /\ lot.consumed = 0 /\ lot.refunded = 0 /\ lot.reserved = 0
    BY <1>2, <1>3 DEF Balance, Core, TypeOK, LotRow
  <1> HIDE DEF lot
  <1>6. /\ lots'[o] = lot /\ \A p \in Orders : p # o => lots'[p] = lots[p]
        /\ orders'[o] = row /\ \A p \in Orders : p # o => orders'[p] = orders[p]
    BY <1>1, <1>4, <1>5, RowUpdate DEF Balance, Core, TypeOK
  <1>7. Granted'
    <2>1. \A p \in Orders : lots[p].granted => lots'[p].granted
      BY <1>2, <1>6
    <2>2. \A a \in Attempts : attempts[a].state # "unused" => attempts[a].order \in Orders
      BY DEF Balance, Core, Linked
    <2>3. \A a \in Attempts : attempts'[a].state # "unused" => lots'[attempts'[a].order].granted
      BY <1>1, <2>1, <2>2 DEF Balance, Granted
    <2> QED BY <1>4, <1>5, <1>6, <2>3 DEF Balance, Granted
  <1>8. cache' = cache - Value(o) + Value(o)'
    <2>1. Value(o) = 0
      BY <1>2 DEF Value
    <2>2. Avail(o)' = Credits[o]
      BY <1>3, <1>5, <1>6 DEF Avail
    <2>3. Value(o)' = IF grant THEN Credits[o] ELSE 0
      BY <1>5, <1>6, <2>2 DEF Value
    <2> QED BY <1>1, <1>3, <2>1, <2>3
  <1> QED BY <1>6, <1>7, <1>8, ValueMoves DEF Balance

\* A lot expires with what it has left.
LEMMA ExpiryBalance ==
  ASSUME Balance, Core', NEW o \in Orders, SweepExpired(o)
  PROVE  Balance'
  <1> DEFINE lot == [lots[o] EXCEPT !.live = FALSE]
  <1>1. /\ lots' = [lots EXCEPT ![o] = lot] /\ cache' = cache - Avail(o)
        /\ UNCHANGED <<orders, attempts>> /\ lots[o].granted /\ lots[o].live
    BY DEF SweepExpired
  <1>2. /\ lot \in LotRow /\ lot.granted = lots[o].granted /\ ~lot.live
        /\ lot.consumed = lots[o].consumed /\ lot.refunded = lots[o].refunded
        /\ lot.reserved = lots[o].reserved
    BY <1>1 DEF Balance, Core, TypeOK, LotRow
  <1> HIDE DEF lot
  <1>3. lots'[o] = lot /\ \A p \in Orders : p # o => lots'[p] = lots[p]
    BY <1>1, <1>2, RowUpdate DEF Balance, Core, TypeOK
  <1>4. Granted'
    <2>1. \A p \in Orders : lots'[p].granted = lots[p].granted
      BY <1>1, <1>2, <1>3
    <2>2. \A a \in Attempts : attempts[a].state # "unused" => attempts[a].order \in Orders
      BY DEF Balance, Core, Linked
    <2>3. \A a \in Attempts : attempts'[a].state # "unused" => lots'[attempts'[a].order].granted
      BY <1>1, <2>1, <2>2 DEF Balance, Granted
    <2> QED BY <1>1, <1>2, <1>3, <2>3 DEF Balance, Granted
  <1>5. cache' = cache - Value(o) + Value(o)'
    <2>1. Value(o) = Avail(o) /\ Value(o)' = 0
      BY <1>1, <1>2, <1>3 DEF Value
    <2>2. Value(o) \in Int /\ cache \in Int
      BY BalanceOfValues DEF Balance, Core, TypeOK
    <2> QED BY <1>1, <2>1, <2>2
  <1> QED BY <1>3, <1>4, <1>5, ValueMoves DEF Balance

\* A deleted account keeps no live lot and no balance.
LEMMA DeletionBalance ==
  ASSUME Balance, Core', DeleteAccount
  PROVE  Balance'
  <1> DEFINE lot(p) == [lots[p] EXCEPT !.live = FALSE]
  <1>1. /\ lots' = [p \in Orders |-> lot(p)] /\ cache' = 0 /\ UNCHANGED <<orders, attempts>>
    BY DEF DeleteAccount
  <1>2. \A p \in Orders :
          /\ lot(p).granted = lots[p].granted /\ ~lot(p).live
          /\ lot(p).consumed = lots[p].consumed /\ lot(p).refunded = lots[p].refunded
          /\ lot(p).reserved = lots[p].reserved
    BY DEF Balance, Core, TypeOK, LotRow
  <1> HIDE DEF lot
  <1>3. Granted'
    <2>1. \A a \in Attempts : attempts[a].state # "unused" => attempts[a].order \in Orders
      BY DEF Balance, Core, Linked
    <2>2. \A a \in Attempts : attempts'[a].state # "unused" => lots'[attempts'[a].order].granted
      BY <1>1, <1>2, <2>1 DEF Balance, Granted
    <2> QED BY <1>1, <1>2, <2>2 DEF Balance, Granted
  <1>4. PICK f : f = [p \in Orders |-> Value(p)']
    OBVIOUS
  <1>5. \A p \in Orders : f[p] = 0
    BY <1>1, <1>2, <1>4 DEF Value
  <1>6. SumFunctionOnSet(f, Orders) = 0
    BY <1>5, FiniteAssumption, SumOfZeros
  <1> QED BY <1>1, <1>3, <1>4, <1>6, BalanceOfValuesNext DEF Balance

\* Generations take a credit, and give it to the shortfall or back.
LEMMA GenerationBalance ==
  ASSUME Balance, Core', NEW g \in Gens,
         (\E o \in Orders : CreateGeneration(g, o)) \/ CompleteGeneration(g) \/ FailGeneration(g)
  PROVE  Balance'
  <1>1. ASSUME NEW o \in Orders, CreateGeneration(g, o) PROVE Balance'
    <2> DEFINE lot == [lots[o] EXCEPT !.consumed = lots[o].consumed + 1]
    <2>1. /\ lots' = [lots EXCEPT ![o] = lot] /\ cache' = cache - 1
          /\ UNCHANGED <<orders, attempts>> /\ lots[o].granted /\ lots[o].live
      BY <1>1 DEF CreateGeneration, Consumable
    <2>2. /\ lots[o].consumed \in Nat /\ lots[o].refunded \in Nat /\ lots[o].reserved \in Nat
          /\ lots[o] \in LotRow /\ cache \in Int
      BY DEF Balance, Core, TypeOK, LotRow
    <2>3. /\ lot \in LotRow /\ lot.granted = lots[o].granted /\ lot.live = lots[o].live
          /\ lot.consumed = lots[o].consumed + 1 /\ lot.refunded = lots[o].refunded
          /\ lot.reserved = lots[o].reserved
      BY <2>2 DEF LotRow
    <2> HIDE DEF lot
    <2>4. /\ lot.consumed + lot.refunded + lot.reserved
               = lots[o].consumed + lots[o].refunded + lots[o].reserved - (-1)
          /\ cache' = cache + (IF lots[o].live THEN -1 ELSE 0) /\ -1 \in Int
      BY <2>1, <2>2, <2>3
    <2> QED BY <2>1, <2>3, <2>4, LotMoves
  <1>2. CASE CompleteGeneration(g)
    BY <1>2, BalanceUntouched DEF CompleteGeneration
  <1>3. CASE FailGeneration(g)
    <2> DEFINE o == gens[g].lot
               back == IF Absorbs(o) THEN lots[o].refunded + 1 ELSE lots[o].refunded
               lot == IF Absorbs(o)
                        THEN [lots[o] EXCEPT !.consumed = lots[o].consumed - 1,
                                             !.refunded = lots[o].refunded + 1,
                                             !.owed = lots[o].owed - 1]
                        ELSE [lots[o] EXCEPT !.consumed = lots[o].consumed - 1]
    <2>1. /\ lots' = [lots EXCEPT ![o] = lot] /\ UNCHANGED <<orders, attempts>>
          /\ cache' = IF Absorbs(o) THEN cache ELSE cache + LiveCredit(o, 1)
          /\ gens[g].state = "queued" /\ lots[o].consumed > 0
      BY <1>3 DEF FailGeneration
    <2>2. o \in Orders
      BY <2>1 DEF Balance, Core, Linked
    <2>3. /\ lots[o] \in LotRow /\ lots[o].consumed \in Nat /\ lots[o].refunded \in Nat
          /\ lots[o].reserved \in Nat /\ lots[o].owed \in Nat /\ cache \in Int
      BY <2>2 DEF Balance, Core, TypeOK, LotRow
    <2>4. lots[o].granted
      BY <2>1, <2>2, <2>3 DEF Balance, Granted
    <2>5. /\ lot \in LotRow /\ lot.granted = lots[o].granted /\ lot.live = lots[o].live
          /\ lot.consumed = lots[o].consumed - 1 /\ lot.refunded = back
          /\ lot.reserved = lots[o].reserved
      <3>1. lots[o].consumed - 1 \in Nat /\ (Absorbs(o) => lots[o].owed - 1 \in Nat)
        BY <2>1, <2>3 DEF Absorbs
      <3> DEFINE used == lots[o].consumed - 1
                 due == lots[o].owed - 1
      <3>2. back \in Nat
        BY <2>3
      <3>3. CASE Absorbs(o)
        <4>1. lot = [lots[o] EXCEPT !.consumed = used, !.refunded = back, !.owed = due]
          BY <3>3
        <4>2. used \in Nat /\ due \in Nat
          BY <3>1, <3>3
        <4> HIDE DEF lot, back, due
        <4>3. lot.consumed = used
          BY <2>3, <4>1 DEF LotRow
        <4> HIDE DEF used
        <4>4. /\ lot \in LotRow /\ lot.granted = lots[o].granted /\ lot.live = lots[o].live
              /\ lot.refunded = back /\ lot.reserved = lots[o].reserved
          BY <2>3, <3>2, <4>1, <4>2 DEF LotRow
        <4> QED BY <4>3, <4>4 DEF used
      <3>4. CASE ~Absorbs(o)
        BY <2>3, <3>1, <3>4 DEF LotRow
      <3> QED BY <3>3, <3>4
    <2> HIDE DEF lot
    <2> DEFINE d == IF Absorbs(o) THEN 0 ELSE 1
    <2>6. /\ lot.consumed + lot.refunded + lot.reserved
               = lots[o].consumed + lots[o].refunded + lots[o].reserved - d
          /\ cache' = cache + (IF lots[o].live THEN d ELSE 0) /\ d \in Int
      BY <2>1, <2>3, <2>5 DEF LiveCredit
    <2> HIDE DEF d, o
    <2> QED BY <2>1, <2>2, <2>4, <2>5, <2>6, LotMoves
  <1> QED BY <1>1, <1>2, <1>3

\* A reservation leaves the balance.
LEMMA ReservationBalance ==
  ASSUME Balance, Core', NEW a \in Attempts, NEW o \in Orders, NEW qty \in Nat, NEW rate, NEW rail,
         NEW origin, Reserve(a, o, qty, rate, rail, origin)
  PROVE  Balance'
  <1> DEFINE amount == RefundAmount(Price[o], Credits[o], qty, rate, Price[o] - orders[o].ra)
             row == [UnusedAttempt EXCEPT !.state = "prepared", !.order = o, !.qty = qty,
                       !.amount = amount, !.rail = rail, !.origin = origin]
             lot == [lots[o] EXCEPT !.reserved = lots[o].reserved + qty]
  <1>1. /\ lots' = [lots EXCEPT ![o] = lot] /\ attempts' = [attempts EXCEPT ![a] = row]
        /\ cache' = cache - LiveCredit(o, qty) /\ UNCHANGED orders /\ lots[o].granted
    BY DEF Reserve, Refundable
  <1>2. /\ lots[o].consumed \in Nat /\ lots[o].refunded \in Nat /\ lots[o].reserved \in Nat
        /\ lots[o] \in LotRow /\ cache \in Int
    BY DEF Balance, Core, TypeOK, LotRow
  <1>3. /\ lot \in LotRow /\ lot.granted = lots[o].granted /\ lot.live = lots[o].live
        /\ lot.consumed = lots[o].consumed /\ lot.refunded = lots[o].refunded
        /\ lot.reserved = lots[o].reserved + qty
    BY <1>2 DEF LotRow
  <1>4. row.order = o
    BY DEF UnusedAttempt
  <1> HIDE DEF lot, row
  <1>5. \A b \in Attempts : attempts'[b].state # "unused" =>
          \/ attempts[b].state # "unused" /\ attempts'[b].order = attempts[b].order
          \/ attempts'[b].order = o
    BY <1>1, <1>4 DEF Balance, Core, TypeOK
  <1>6. /\ lot.consumed + lot.refunded + lot.reserved
             = lots[o].consumed + lots[o].refunded + lots[o].reserved - (-qty)
        /\ cache' = cache + (IF lots[o].live THEN -qty ELSE 0) /\ -qty \in Int
    BY <1>1, <1>2, <1>3 DEF LiveCredit
  <1> QED BY <1>1, <1>3, <1>5, <1>6, LotMoves

\* An open attempt's order has an open lot.
LEMMA OpenLot ==
  ASSUME Balance, NEW a \in Attempts, attempts[a].state \in OpenStates
  PROVE  attempts[a].order \in Orders /\ lots[attempts[a].order].granted
  BY DEF Balance, Granted, Core, Linked, OpenStates

\* A released reservation returns to the balance.
LEMMA ReleaseBalance ==
  ASSUME Balance, Core', NEW a \in Attempts, NEW reason, attempts[a].state \in OpenStates,
         ApplyRelease(a, reason)
  PROVE  Balance'
  <1> DEFINE o == attempts[a].order
             held == lots[o].reserved - attempts[a].qty
             row == [attempts[a] EXCEPT !.state = "released", !.release = reason]
             lot == [lots[o] EXCEPT !.reserved = held]
  <1>1. /\ lots' = [lots EXCEPT ![o] = lot] /\ attempts' = [attempts EXCEPT ![a] = row]
        /\ cache' = cache + LiveCredit(o, attempts[a].qty) /\ UNCHANGED orders
    BY DEF ApplyRelease
  <1>2. o \in Orders /\ lots[o].granted /\ attempts[a].state # "unused"
    BY OpenLot DEF OpenStates
  <1>3. /\ lots[o].consumed \in Nat /\ lots[o].refunded \in Nat /\ lots[o].reserved \in Nat
        /\ lots[o] \in LotRow /\ cache \in Int /\ attempts[a].qty \in Nat
    BY <1>2 DEF Balance, Core, TypeOK, LotRow, AttemptRow
  <1>4. held = 0
    <2>1. a \in OpenAttempts(o)
      BY DEF OpenAttempts
    <2> QED BY <1>2, <1>3, <2>1 DEF Balance, Core, ReservedIsOpenAttempt
  <1>5. row.order = o
    BY DEF Balance, Core, TypeOK, AttemptRow
  <1> HIDE DEF held, row
  <1>6. /\ lot \in LotRow /\ lot.granted = lots[o].granted /\ lot.live = lots[o].live
        /\ lot.consumed = lots[o].consumed /\ lot.refunded = lots[o].refunded
        /\ lot.reserved = held
    BY <1>3, <1>4 DEF LotRow
  <1> HIDE DEF lot
  <1>7. \A b \in Attempts : attempts'[b].state # "unused" =>
          \/ attempts[b].state # "unused" /\ attempts'[b].order = attempts[b].order
          \/ attempts'[b].order = o
    BY <1>1, <1>5 DEF Balance, Core, TypeOK
  <1>8. PICK d \in Int : d = attempts[a].qty
    BY <1>3
  <1>9. /\ lot.consumed + lot.refunded + lot.reserved
             = lots[o].consumed + lots[o].refunded + lots[o].reserved - d
        /\ cache' = cache + (IF lots[o].live THEN d ELSE 0)
    BY <1>1, <1>3, <1>6, <1>8 DEF LiveCredit, held
  <1> QED BY <1>1, <1>2, <1>6, <1>7, <1>9, LotMoves

\* A commit takes from the balance what a closure recovers.
LEMMA CommitBalance ==
  ASSUME Balance, Core', NEW a \in Attempts, attempts[a].state \in OpenStates, ApplyCommit(a)
  PROVE  Balance'
  <1> DEFINE o == attempts[a].order
             qty == attempts[a].qty
             held == lots[o].reserved - qty
             back == lots[o].refunded + qty + Recovered(a)
             due == lots[o].owed + NewShortfall(a)
             row == [attempts[a] EXCEPT !.state = "committed", !.closure = Closure(a)]
             ord == [orders[o] EXCEPT !.rc = orders[o].rc + qty + Closure(a),
                                      !.ra = orders[o].ra + attempts[a].amount]
             lot == [lots[o] EXCEPT !.reserved = held, !.refunded = back, !.owed = due]
  <1>1. /\ attempts' = [attempts EXCEPT ![a] = row] /\ orders' = [orders EXCEPT ![o] = ord]
        /\ lots' = [lots EXCEPT ![o] = lot] /\ cache' = cache - LiveCredit(o, Recovered(a))
        /\ orders[o].rc + qty <= Credits[o]
    BY DEF ApplyCommit, CommitAdmissible
  <1>2. o \in Orders /\ lots[o].granted /\ attempts[a].state # "unused"
    BY OpenLot DEF OpenStates
  <1>3. /\ lots[o].consumed \in Nat /\ lots[o].refunded \in Nat /\ lots[o].reserved \in Nat
        /\ lots[o].owed \in Nat /\ lots[o] \in LotRow /\ cache \in Int /\ qty \in Nat
    BY <1>2 DEF Balance, Core, TypeOK, LotRow, AttemptRow
  <1>4. /\ Recovered(a) \in Nat /\ NewShortfall(a) \in Nat
    BY <1>1, <1>2, ClosureParts DEF Balance
  <1>5. held = 0
    <2>1. a \in OpenAttempts(o)
      BY DEF OpenAttempts
    <2> QED BY <1>2, <1>3, <2>1 DEF Balance, Core, ReservedIsOpenAttempt
  <1>6. back \in Nat /\ due \in Nat
    BY <1>3, <1>4
  <1>7. row.order = o /\ ord.paid = orders[o].paid
    BY <1>2 DEF Balance, Core, TypeOK, AttemptRow, OrderRow
  <1> HIDE DEF held, back, due, row, ord
  <1>8. /\ lot \in LotRow /\ lot.granted = lots[o].granted /\ lot.live = lots[o].live
        /\ lot.consumed = lots[o].consumed /\ lot.refunded = back /\ lot.reserved = held
    BY <1>3, <1>5, <1>6 DEF LotRow
  <1> HIDE DEF lot
  <1>9. /\ \A b \in Attempts : attempts'[b].state # "unused" =>
             \/ attempts[b].state # "unused" /\ attempts'[b].order = attempts[b].order
             \/ attempts'[b].order = o
        /\ \A p \in Orders : orders'[p].paid = orders[p].paid
    BY <1>1, <1>2, <1>7 DEF Balance, Core, TypeOK
  <1>10. /\ lot.consumed + lot.refunded + lot.reserved
              = lots[o].consumed + lots[o].refunded + lots[o].reserved - (-Recovered(a))
         /\ cache' = cache + (IF lots[o].live THEN -Recovered(a) ELSE 0) /\ -Recovered(a) \in Int
    BY <1>1, <1>3, <1>4, <1>8 DEF LiveCredit, held, back
  <1> QED BY <1>1, <1>2, <1>8, <1>9, <1>10, LotMoves

\* An external cancellation takes what the lot still has.
LEMMA ResolutionBalance ==
  ASSUME Balance, Core', NEW o \in Orders, NEW econ \in Nat, ResolveFromLot(o, econ),
         lots[o].granted, \A p \in Orders : orders'[p].paid = orders[p].paid
  PROVE  Balance'
  <1> DEFINE imm == Least(econ, Avail(o))
             back == lots[o].refunded + imm
             due == lots[o].owed + (econ - imm)
             lot == [lots[o] EXCEPT !.refunded = back, !.owed = due]
  <1>1. /\ lots' = [lots EXCEPT ![o] = lot] /\ cache' = cache - LiveCredit(o, imm)
        /\ UNCHANGED attempts
    BY DEF ResolveFromLot
  <1>2. /\ lots[o] \in LotRow /\ lots[o].consumed \in Nat /\ lots[o].refunded \in Nat
        /\ lots[o].reserved \in Nat /\ lots[o].owed \in Nat /\ cache \in Int
    BY DEF Balance, Core, TypeOK, LotRow
  <1>3. Avail(o) \in Nat
    BY <1>2, CatalogAssumption DEF Balance, Core, LotBacksRefunds, Avail
  <1>4. imm \in Nat /\ econ - imm \in Nat
    BY <1>3 DEF Least
  <1>5. back \in Nat /\ due \in Nat
    BY <1>2, <1>4
  <1> HIDE DEF imm, back, due
  <1>6. /\ lot \in LotRow /\ lot.granted = lots[o].granted /\ lot.live = lots[o].live
        /\ lot.consumed = lots[o].consumed /\ lot.refunded = back
        /\ lot.reserved = lots[o].reserved
    BY <1>2, <1>5 DEF LotRow
  <1> HIDE DEF lot
  <1>7. /\ lot.consumed + lot.refunded + lot.reserved
             = lots[o].consumed + lots[o].refunded + lots[o].reserved - (-imm)
        /\ cache' = cache + (IF lots[o].live THEN -imm ELSE 0) /\ -imm \in Int
    BY <1>1, <1>2, <1>4, <1>6 DEF LiveCredit, back
  <1> QED BY <1>1, <1>6, <1>7, LotMoves

\* Steps of an order that move no credit.
LEMMA OrderBalance ==
  ASSUME Balance, Core', NEW o \in Orders,
         \/ MarkOrderFailed(o) \/ MarkOrderCanceledUnpaid(o) \/ ResolveLatePaid(o)
         \/ \E rate \in Rates : CancelIntentBegin(o, rate)
  PROVE  Balance'
  <1>1. UNCHANGED <<cache, lots, attempts>>
    BY DEF MarkOrderFailed, MarkOrderCanceledUnpaid, ResolveLatePaid, CancelIntentBegin
  <1>2. \A p \in Orders : orders[p] \in OrderRow
    BY DEF Balance, Core, TypeOK
  <1>3. \A p \in Orders : orders'[p].paid = orders[p].paid
    <2>1. CASE MarkOrderFailed(o)
      BY <1>2, <2>1 DEF MarkOrderFailed, OrderRow, Balance, Core, TypeOK
    <2>2. CASE MarkOrderCanceledUnpaid(o)
      BY <1>2, <2>2 DEF MarkOrderCanceledUnpaid, OrderRow, Balance, Core, TypeOK
    <2>3. CASE \E rate \in Rates : CancelIntentBegin(o, rate)
      BY <1>2, <2>3 DEF CancelIntentBegin, OrderRow, Balance, Core, TypeOK
    <2>4. CASE ResolveLatePaid(o)
      BY <2>4 DEF ResolveLatePaid
    <2> QED BY <2>1, <2>2, <2>3, <2>4
  <1> QED BY <1>1, <1>3, BalanceUntouched

\* Steps of an attempt that keeps its reservation.
LEMMA ProviderBalance ==
  ASSUME Balance, Core', NEW a \in Attempts,
         \/ MarkPgRequested(a) \/ RecordPgPending(a) \/ RecordPgFailed(a) \/ SwitchToManual(a)
         \/ \E c \in Cancellations : RecordPgSucceeded(a, c)
  PROVE  Balance'
  <1>1. UNCHANGED <<cache, lots, orders>> /\ attempts[a].state # "unused"
    BY DEF MarkPgRequested, RecordPgPending, RecordPgFailed, SwitchToManual, Switchable,
           RecordPgSucceeded
  <1>2. \A b \in Attempts : attempts[b] \in AttemptRow
    BY DEF Balance, Core, TypeOK
  <1> DEFINE Same == /\ attempts'[a].order = attempts[a].order
                     /\ \A b \in Attempts : b # a => attempts'[b] = attempts[b]
  <1>3. Same
    <2>1. CASE MarkPgRequested(a)
      BY <1>2, <2>1 DEF MarkPgRequested, AttemptRow, Balance, Core, TypeOK
    <2>2. CASE RecordPgPending(a)
      BY <1>2, <2>2 DEF RecordPgPending, AttemptRow, Balance, Core, TypeOK
    <2>3. CASE RecordPgFailed(a)
      BY <1>2, <2>3 DEF RecordPgFailed, AttemptRow, Balance, Core, TypeOK
    <2>4. CASE SwitchToManual(a)
      BY <1>2, <2>4 DEF SwitchToManual, AttemptRow, Balance, Core, TypeOK
    <2>5. ASSUME NEW c \in Cancellations, RecordPgSucceeded(a, c)
          PROVE  Same
      <3> DEFINE row == [attempts[a] EXCEPT !.state = "pg_succeeded", !.cancel = c]
      <3>1. attempts' = [attempts EXCEPT ![a] = row]
        BY <2>5 DEF RecordPgSucceeded
      <3>2. row.order = attempts[a].order
        BY <1>2 DEF AttemptRow
      <3> HIDE DEF row
      <3> QED BY <3>1, <3>2 DEF Balance, Core, TypeOK
    <2> HIDE DEF Same
    <2> QED BY <2>1, <2>2, <2>3, <2>4, <2>5
  <1>4. \A b \in Attempts : attempts'[b].state # "unused" =>
          attempts[b].state # "unused" /\ attempts'[b].order = attempts[b].order
    BY <1>1, <1>3
  <1> QED BY <1>1, <1>4, BalanceUntouched

\* No step of any caller leaves Balance.
LEMMA BalanceNext == Balance /\ [Next]_vars => Balance'
  <1> SUFFICES ASSUME Balance, [Next]_vars PROVE Balance'
    OBVIOUS
  <1>0. Core'
    BY CoreNext DEF Balance
  <1>1. ASSUME UNCHANGED <<cache, lots, orders, attempts>> PROVE Balance'
    BY <1>0, <1>1, BalanceUntouched
  <1>2. ASSUME NEW o \in Orders,
               \/ MarkPaidAndGrant(o) \/ MarkOrderFailed(o) \/ MarkOrderCanceledUnpaid(o)
               \/ \E rate \in Rates : CancelIntentBegin(o, rate)
               \/ ResolveAutoFull(o) \/ ResolveLatePaid(o) \/ SweepExpired(o)
        PROVE  Balance'
    <2>1. CASE MarkPaidAndGrant(o)
      BY <1>0, <2>1, PaymentBalance
    <2>2. CASE \/ MarkOrderFailed(o) \/ MarkOrderCanceledUnpaid(o) \/ ResolveLatePaid(o)
               \/ \E rate \in Rates : CancelIntentBegin(o, rate)
      BY <1>0, <2>2, OrderBalance
    <2>3. CASE ResolveAutoFull(o)
      <3> DEFINE row == [orders[o] EXCEPT !.rc = Credits[o], !.ra = Price[o], !.status = "canceled"]
      <3>1. /\ ResolveFromLot(o, Credits[o]) /\ lots[o].granted
            /\ orders' = [orders EXCEPT ![o] = row]
        BY <2>3 DEF ResolveAutoFull
      <3>2. row.paid = orders[o].paid
        BY DEF Balance, Core, TypeOK, OrderRow
      <3> HIDE DEF row
      <3>3. \A p \in Orders : orders'[p].paid = orders[p].paid
        BY <3>1, <3>2 DEF Balance, Core, TypeOK
      <3>4. Credits[o] \in Nat
        BY CatalogAssumption
      <3> QED BY <1>0, <3>1, <3>3, <3>4, ResolutionBalance
    <2>4. CASE SweepExpired(o)
      BY <1>0, <2>4, ExpiryBalance
    <2> QED BY <1>2, <2>1, <2>2, <2>3, <2>4
  <1>3. ASSUME NEW g \in Gens,
               \/ \E o \in Orders : CreateGeneration(g, o)
               \/ CompleteGeneration(g) \/ FailGeneration(g)
        PROVE  Balance'
    BY <1>0, <1>3, GenerationBalance
  <1>4. ASSUME NEW a \in Attempts, NEW o \in Orders, NEW qty \in 1..Credits[o],
               \/ \E rate \in Rates, rail \in {"portone_cancel", "manual_transfer"} :
                    AdminRefundBegin(a, o, qty, rate, rail)
               \/ CancelIntentResolve(a, o, qty)
        PROVE  Balance'
    <2>1. qty \in Nat
      BY CatalogAssumption
    <2>2. \E rate, rail, origin : Reserve(a, o, qty, rate, rail, origin)
      BY <1>4 DEF AdminRefundBegin, CancelIntentResolve
    <2> QED BY <1>0, <2>1, <2>2, ReservationBalance
  <1>5. ASSUME NEW a \in Attempts,
               \/ MarkPgRequested(a) \/ RecordPgPending(a)
               \/ \E c \in Cancellations : RecordPgSucceeded(a, c)
               \/ RecordPgFailed(a) \/ SwitchToManual(a)
               \/ AdminRefundCommit(a) \/ AdminRefundCommitManual(a)
               \/ AdminRefundRelease(a)
               \/ \E external \in BOOLEAN : ReplanPrePg(a, external)
               \/ ReplanAfterPg(a)
        PROVE  Balance'
    <2>1. CASE \/ MarkPgRequested(a) \/ RecordPgPending(a) \/ RecordPgFailed(a) \/ SwitchToManual(a)
               \/ \E c \in Cancellations : RecordPgSucceeded(a, c)
      BY <1>0, <2>1, ProviderBalance
    <2>2. CASE AdminRefundCommit(a) \/ AdminRefundCommitManual(a)
      <3>1. ApplyCommit(a) /\ attempts[a].state \in OpenStates
        BY <2>2 DEF AdminRefundCommit, AdminRefundCommitManual, OpenStates
      <3> QED BY <1>0, <3>1, CommitBalance
    <2>3. CASE \/ AdminRefundRelease(a) \/ ReplanAfterPg(a)
               \/ \E external \in BOOLEAN : ReplanPrePg(a, external)
      <3>1. (\E reason : ApplyRelease(a, reason)) /\ attempts[a].state \in OpenStates
        BY <2>3 DEF AdminRefundRelease, ReplanAfterPg, ReplanPrePg, OpenStates
      <3> QED BY <1>0, <3>1, ReleaseBalance
    <2> QED BY <1>5, <2>1, <2>2, <2>3
  <1>6. ASSUME NEW c \in Cancellations,
               \/ \E o \in Orders, status \in {"SUCCEEDED", "FAILED"} :
                    \/ \E amount \in ExternalAmounts : RecordCancellation(c, o, status, amount, None)
                    \/ \E m \in Attempts : RecordCancellation(c, o, status, attempts[m].amount, m)
               \/ RecordContradiction(c)
               \/ events[c].order # None /\
                    \E econ \in 0..Credits[events[c].order] : ResolveExternalCancellation(c, econ)
        PROVE  Balance'
    <2>1. CASE \/ \E o \in Orders, status \in {"SUCCEEDED", "FAILED"} :
                    \/ \E amount \in ExternalAmounts : RecordCancellation(c, o, status, amount, None)
                    \/ \E m \in Attempts : RecordCancellation(c, o, status, attempts[m].amount, m)
               \/ RecordContradiction(c)
      <3>1. UNCHANGED <<cache, lots, orders, attempts>>
        BY <2>1 DEF RecordCancellation, RecordContradiction
      <3> QED BY <1>1, <3>1
    <2>2. CASE events[c].order # None /\
                 \E econ \in 0..Credits[events[c].order] : ResolveExternalCancellation(c, econ)
      <3>1. PICK o \in Orders : o = events[c].order
        BY <2>2 DEF Balance, Core, TypeOK, EventRow
      <3>2. PICK econ \in 0..Credits[o] : ResolveExternalCancellation(c, econ)
        BY <2>2, <3>1
      <3>3. econ \in Nat
        BY CatalogAssumption
      <3> DEFINE row == [orders[o] EXCEPT !.rc = orders[o].rc + econ, !.ra = orders[o].ra + events[c].amount]
      <3>4. /\ ResolveFromLot(o, econ) /\ lots[o].granted
            /\ orders' = [orders EXCEPT ![o] = row]
        BY <3>1, <3>2 DEF ResolveExternalCancellation
      <3>5. row.paid = orders[o].paid
        BY DEF Balance, Core, TypeOK, OrderRow
      <3> HIDE DEF row
      <3>6. \A p \in Orders : orders'[p].paid = orders[p].paid
        BY <3>4, <3>5 DEF Balance, Core, TypeOK
      <3> QED BY <1>0, <3>3, <3>4, <3>6, ResolutionBalance
    <2> QED BY <1>6, <2>1, <2>2
  <1>7. ASSUME NEW i \in openIssues, CloseEventIssue(i) \/ IgnoreFailedEventIssue(i)
        PROVE  Balance'
    <2>1. UNCHANGED <<cache, lots, orders, attempts>>
      BY <1>7 DEF CloseEventIssue, IgnoreFailedEventIssue
    <2> QED BY <1>1, <2>1
  <1>8. CASE DeleteAccount
    BY <1>0, <1>8, DeletionBalance
  <1>9. CASE ReactivateAccount \/ UNCHANGED vars
    <2>1. UNCHANGED <<cache, lots, orders, attempts>>
      BY <1>9 DEF ReactivateAccount, vars
    <2> QED BY <1>1, <2>1
  <1> QED BY <1>2, <1>3, <1>4, <1>5, <1>6, <1>7, <1>8, <1>9 DEF Next

\* No lot is open at first and the balance is zero.
LEMMA BalanceInit == Init => Balance
  <1> SUFFICES ASSUME Init PROVE Balance
    OBVIOUS
  <1>1. Core
    BY CoreInit
  <1>2. Granted
    BY DEF Init, Granted, UnusedAttempt
  <1>3. PICK f : f = [o \in Orders |-> Value(o)]
    OBVIOUS
  <1>4. \A o \in Orders : f[o] = 0
    BY <1>3 DEF Init, Value
  <1>5. SumFunctionOnSet(f, Orders) = 0
    BY <1>4, FiniteAssumption, SumOfZeros
  <1>6. cache = 0
    BY DEF Init
  <1> QED BY <1>1, <1>2, <1>3, <1>5, <1>6, BalanceOfValues DEF Balance

\* The cached balance is what the member's live lots have left, after any
\* number of payments, generations, refunds, resolutions and expiries.
THEOREM BalanceIsLiveRemaining == Spec => []CacheIsLiveRemaining
  <1>1. Balance => CacheIsLiveRemaining
    BY DEF Balance
  <1> QED BY <1>1, BalanceInit, BalanceNext, PTL DEF Spec

---------------------------------------------------------------------------
(* What an order's refunds are made of.                                    *)

CommittedFor(o) == {a \in Attempts : attempts[a].order = o /\ attempts[a].state = "committed"}
ResolvedFor(o) == {c \in Cancellations : events[c].order = o /\ events[c].state = "resolved"}

\* The columns that are summed.
QtyColumn == [a \in Attempts |-> attempts[a].qty + attempts[a].closure]
PaidColumn == [a \in Attempts |-> attempts[a].amount]
EconColumn == [c \in Cancellations |-> events[c].econ]
CancelledColumn == [c \in Cancellations |-> events[c].amount]

\* RefundsDecompose for one order.
Decomposed(o) ==
  /\ orders[o].rc = SumFunctionOnSet(QtyColumn, CommittedFor(o))
                     + SumFunctionOnSet(EconColumn, ResolvedFor(o))
  /\ orders[o].ra = SumFunctionOnSet(PaidColumn, CommittedFor(o))
                     + SumFunctionOnSet(CancelledColumn, ResolvedFor(o))

\* The invariant is Decomposed of every order.
LEMMA DecomposedMeaning == RefundsDecompose <=> \A o \in Orders : Decomposed(o)
  <1>1. ASSUME NEW o \in Orders
        PROVE  {c \in EventsOf(o) : events[c].state = "resolved"} = ResolvedFor(o)
    BY DEF EventsOf, ResolvedFor
  <1> QED BY <1>1 DEF RefundsDecompose, Decomposed, CommittedFor,
                      QtyColumn, PaidColumn, EconColumn, CancelledColumn

\* The same after a step.
LEMMA DecomposedMeaningNext == RefundsDecompose' <=> \A o \in Orders : Decomposed(o)'
  <1>1. ASSUME NEW o \in Orders
        PROVE  {c \in EventsOf(o)' : events'[c].state = "resolved"} = ResolvedFor(o)'
    BY DEF EventsOf, ResolvedFor
  <1> QED BY <1>1 DEF RefundsDecompose, Decomposed, CommittedFor,
                      QtyColumn, PaidColumn, EconColumn, CancelledColumn

\* The columns hold natural numbers.
LEMMA Columns ==
  ASSUME Core
  PROVE  /\ \A a \in Attempts :
              /\ QtyColumn[a] = attempts[a].qty + attempts[a].closure /\ QtyColumn[a] \in Nat
              /\ PaidColumn[a] = attempts[a].amount /\ PaidColumn[a] \in Nat
         /\ \A c \in Cancellations :
              /\ EconColumn[c] = events[c].econ /\ EconColumn[c] \in Nat
              /\ CancelledColumn[c] = events[c].amount /\ CancelledColumn[c] \in Nat
  BY DEF Core, TypeOK, AttemptRow, EventRow, QtyColumn, PaidColumn, EconColumn, CancelledColumn

\* The same after a step.
LEMMA ColumnsNext ==
  ASSUME Core'
  PROVE  /\ \A a \in Attempts :
              /\ QtyColumn'[a] = attempts'[a].qty + attempts'[a].closure /\ QtyColumn'[a] \in Nat
              /\ PaidColumn'[a] = attempts'[a].amount /\ PaidColumn'[a] \in Nat
         /\ \A c \in Cancellations :
              /\ EconColumn'[c] = events'[c].econ /\ EconColumn'[c] \in Nat
              /\ CancelledColumn'[c] = events'[c].amount /\ CancelledColumn'[c] \in Nat
  BY DEF Core, TypeOK, AttemptRow, EventRow, QtyColumn, PaidColumn, EconColumn, CancelledColumn

\* The sets summed over are finite, and the sums are natural numbers.
LEMMA Parts ==
  ASSUME Core
  PROVE  \A o : /\ CommittedFor(o) \in SUBSET Attempts /\ IsFiniteSet(CommittedFor(o))
                /\ ResolvedFor(o) \in SUBSET Cancellations /\ IsFiniteSet(ResolvedFor(o))
                /\ SumFunctionOnSet(QtyColumn, CommittedFor(o)) \in Nat
                /\ SumFunctionOnSet(PaidColumn, CommittedFor(o)) \in Nat
                /\ SumFunctionOnSet(EconColumn, ResolvedFor(o)) \in Nat
                /\ SumFunctionOnSet(CancelledColumn, ResolvedFor(o)) \in Nat
  <1> SUFFICES ASSUME NEW o
               PROVE  /\ CommittedFor(o) \in SUBSET Attempts /\ IsFiniteSet(CommittedFor(o))
                      /\ ResolvedFor(o) \in SUBSET Cancellations /\ IsFiniteSet(ResolvedFor(o))
                      /\ SumFunctionOnSet(QtyColumn, CommittedFor(o)) \in Nat
                      /\ SumFunctionOnSet(PaidColumn, CommittedFor(o)) \in Nat
                      /\ SumFunctionOnSet(EconColumn, ResolvedFor(o)) \in Nat
                      /\ SumFunctionOnSet(CancelledColumn, ResolvedFor(o)) \in Nat
    OBVIOUS
  <1>1. /\ CommittedFor(o) \in SUBSET Attempts /\ IsFiniteSet(CommittedFor(o))
        /\ ResolvedFor(o) \in SUBSET Cancellations /\ IsFiniteSet(ResolvedFor(o))
    BY FiniteAssumption, FS_Subset DEF CommittedFor, ResolvedFor
  <1>2. PICK C, R : C = CommittedFor(o) /\ R = ResolvedFor(o)
    OBVIOUS
  <1>3. PICK f, g, h, k : f = QtyColumn /\ g = PaidColumn /\ h = EconColumn /\ k = CancelledColumn
    OBVIOUS
  <1>4. /\ \A a \in C : f[a] \in Nat /\ g[a] \in Nat
        /\ \A c \in R : h[c] \in Nat /\ k[c] \in Nat
        /\ IsFiniteSet(C) /\ IsFiniteSet(R)
    BY <1>1, <1>2, <1>3, Columns
  <1>5. /\ SumFunctionOnSet(f, C) \in Nat /\ SumFunctionOnSet(g, C) \in Nat
        /\ SumFunctionOnSet(h, R) \in Nat /\ SumFunctionOnSet(k, R) \in Nat
    BY <1>4, SumIsNat
  <1> QED BY <1>1, <1>2, <1>3, <1>5

\* Commits a step leaves alone count for as much as before.
LEMMA CommitsKept ==
  ASSUME Core, Core', NEW o, \A a \in CommittedFor(o) : attempts'[a] = attempts[a]
  PROVE  /\ SumFunctionOnSet(QtyColumn', CommittedFor(o)) = SumFunctionOnSet(QtyColumn, CommittedFor(o))
         /\ SumFunctionOnSet(PaidColumn', CommittedFor(o)) = SumFunctionOnSet(PaidColumn, CommittedFor(o))
  <1>1. PICK C, f, g, fn, gn : /\ C = CommittedFor(o) /\ f = QtyColumn /\ g = PaidColumn
                               /\ fn = QtyColumn' /\ gn = PaidColumn'
    OBVIOUS
  <1>2. IsFiniteSet(C) /\ C \in SUBSET Attempts
    BY <1>1, Parts
  <1>3. \A a \in C : fn[a] = f[a] /\ gn[a] = g[a]
    BY <1>1, <1>2, Columns, ColumnsNext
  <1>4. SumFunctionOnSet(fn, C) = SumFunctionOnSet(f, C) /\ SumFunctionOnSet(gn, C) = SumFunctionOnSet(g, C)
    BY <1>2, <1>3, SumSame
  <1> QED BY <1>1, <1>4

\* So do resolutions.
LEMMA ResolutionsKept ==
  ASSUME Core, Core', NEW o, \A c \in ResolvedFor(o) : events'[c] = events[c]
  PROVE  /\ SumFunctionOnSet(EconColumn', ResolvedFor(o)) = SumFunctionOnSet(EconColumn, ResolvedFor(o))
         /\ SumFunctionOnSet(CancelledColumn', ResolvedFor(o))
              = SumFunctionOnSet(CancelledColumn, ResolvedFor(o))
  <1>1. PICK R, f, g, fn, gn : /\ R = ResolvedFor(o) /\ f = EconColumn /\ g = CancelledColumn
                               /\ fn = EconColumn' /\ gn = CancelledColumn'
    OBVIOUS
  <1>2. IsFiniteSet(R) /\ R \in SUBSET Cancellations
    BY <1>1, Parts
  <1>3. \A c \in R : fn[c] = f[c] /\ gn[c] = g[c]
    BY <1>1, <1>2, Columns, ColumnsNext
  <1>4. SumFunctionOnSet(fn, R) = SumFunctionOnSet(f, R) /\ SumFunctionOnSet(gn, R) = SumFunctionOnSet(g, R)
    BY <1>2, <1>3, SumSame
  <1> QED BY <1>1, <1>4

\* An order whose counters, commits and resolutions a step leaves alone.
LEMMA OrderKept ==
  ASSUME Core, Core', NEW o, Decomposed(o),
         orders'[o].rc = orders[o].rc, orders'[o].ra = orders[o].ra,
         CommittedFor(o)' = CommittedFor(o), ResolvedFor(o)' = ResolvedFor(o),
         \A a \in CommittedFor(o) : attempts'[a] = attempts[a],
         \A c \in ResolvedFor(o) : events'[c] = events[c]
  PROVE  Decomposed(o)'
  BY CommitsKept, ResolutionsKept DEF Decomposed

\* One more attempt is committed.
LEMMA OrderCommits ==
  ASSUME Core, Core', NEW o, Decomposed(o), NEW a \in Attempts, a \notin CommittedFor(o),
         orders'[o].rc = orders[o].rc + attempts'[a].qty + attempts'[a].closure,
         orders'[o].ra = orders[o].ra + attempts'[a].amount,
         CommittedFor(o)' = CommittedFor(o) \cup {a}, ResolvedFor(o)' = ResolvedFor(o),
         \A b \in CommittedFor(o) : attempts'[b] = attempts[b],
         \A c \in ResolvedFor(o) : events'[c] = events[c]
  PROVE  Decomposed(o)'
  <1>1. PICK C, fn, gn : C = CommittedFor(o) /\ fn = QtyColumn' /\ gn = PaidColumn'
    OBVIOUS
  <1>2. IsFiniteSet(C) /\ a \notin C /\ \A b \in C : fn[b] \in Int /\ gn[b] \in Int
    BY <1>1, Parts, ColumnsNext
  <1>3. fn[a] \in Int /\ gn[a] \in Int
    BY <1>1, ColumnsNext
  <1>4. /\ SumFunctionOnSet(fn, C \cup {a}) = fn[a] + SumFunctionOnSet(fn, C)
        /\ SumFunctionOnSet(gn, C \cup {a}) = gn[a] + SumFunctionOnSet(gn, C)
    BY <1>2, <1>3, SumInsert
  <1>5. PICK v, w, y, z : /\ v = SumFunctionOnSet(QtyColumn, CommittedFor(o))
                          /\ w = SumFunctionOnSet(PaidColumn, CommittedFor(o))
                          /\ y = SumFunctionOnSet(EconColumn, ResolvedFor(o))
                          /\ z = SumFunctionOnSet(CancelledColumn, ResolvedFor(o))
    OBVIOUS
  <1>6. v \in Nat /\ w \in Nat /\ y \in Nat /\ z \in Nat
    BY <1>5, Parts
  <1>7. orders[o].rc = v + y /\ orders[o].ra = w + z
    BY <1>5 DEF Decomposed
  <1>8. /\ SumFunctionOnSet(fn, C \cup {a}) = fn[a] + v
        /\ SumFunctionOnSet(gn, C \cup {a}) = gn[a] + w
    BY <1>1, <1>4, <1>5, CommitsKept
  <1>9. /\ SumFunctionOnSet(EconColumn', ResolvedFor(o)) = y
        /\ SumFunctionOnSet(CancelledColumn', ResolvedFor(o)) = z
    BY <1>5, ResolutionsKept
  <1>10. fn[a] = attempts'[a].qty + attempts'[a].closure /\ gn[a] = attempts'[a].amount
    BY <1>1, ColumnsNext
  <1>11. orders'[o].rc = (fn[a] + v) + y /\ orders'[o].ra = (gn[a] + w) + z
    <2>1. attempts'[a].qty \in Nat /\ attempts'[a].closure \in Nat /\ attempts'[a].amount \in Nat
      BY DEF Core, TypeOK, AttemptRow
    <2> QED BY <1>6, <1>7, <1>10, <2>1
  <1> QED BY <1>1, <1>8, <1>9, <1>11 DEF Decomposed

\* One more cancellation is resolved.
LEMMA OrderResolves ==
  ASSUME Core, Core', NEW o, Decomposed(o), NEW c \in Cancellations, c \notin ResolvedFor(o),
         orders'[o].rc = orders[o].rc + events'[c].econ,
         orders'[o].ra = orders[o].ra + events'[c].amount,
         CommittedFor(o)' = CommittedFor(o), ResolvedFor(o)' = ResolvedFor(o) \cup {c},
         \A a \in CommittedFor(o) : attempts'[a] = attempts[a],
         \A d \in ResolvedFor(o) : events'[d] = events[d]
  PROVE  Decomposed(o)'
  <1>1. PICK R, fn, gn : R = ResolvedFor(o) /\ fn = EconColumn' /\ gn = CancelledColumn'
    OBVIOUS
  <1>2. IsFiniteSet(R) /\ c \notin R /\ \A d \in R : fn[d] \in Int /\ gn[d] \in Int
    BY <1>1, Parts, ColumnsNext
  <1>3. fn[c] \in Int /\ gn[c] \in Int
    BY <1>1, ColumnsNext
  <1>4. /\ SumFunctionOnSet(fn, R \cup {c}) = fn[c] + SumFunctionOnSet(fn, R)
        /\ SumFunctionOnSet(gn, R \cup {c}) = gn[c] + SumFunctionOnSet(gn, R)
    BY <1>2, <1>3, SumInsert
  <1>5. PICK v, w, y, z : /\ v = SumFunctionOnSet(QtyColumn, CommittedFor(o))
                          /\ w = SumFunctionOnSet(PaidColumn, CommittedFor(o))
                          /\ y = SumFunctionOnSet(EconColumn, ResolvedFor(o))
                          /\ z = SumFunctionOnSet(CancelledColumn, ResolvedFor(o))
    OBVIOUS
  <1>6. v \in Nat /\ w \in Nat /\ y \in Nat /\ z \in Nat
    BY <1>5, Parts
  <1>7. orders[o].rc = v + y /\ orders[o].ra = w + z
    BY <1>5 DEF Decomposed
  <1>8. /\ SumFunctionOnSet(fn, R \cup {c}) = fn[c] + y
        /\ SumFunctionOnSet(gn, R \cup {c}) = gn[c] + z
    BY <1>1, <1>4, <1>5, ResolutionsKept
  <1>9. /\ SumFunctionOnSet(QtyColumn', CommittedFor(o)) = v
        /\ SumFunctionOnSet(PaidColumn', CommittedFor(o)) = w
    BY <1>5, CommitsKept
  <1>10. fn[c] = events'[c].econ /\ gn[c] = events'[c].amount
    BY <1>1, ColumnsNext
  <1>11. orders'[o].rc = v + (fn[c] + y) /\ orders'[o].ra = w + (gn[c] + z)
    BY <1>3, <1>6, <1>7, <1>10
  <1> QED BY <1>1, <1>8, <1>9, <1>11 DEF Decomposed

\* A full external cancellation of an order with no commit and no resolution.
LEMMA OrderCancelledInFull ==
  ASSUME Core, Core', NEW o \in Orders, ResolveAutoFull(o)
  PROVE  Decomposed(o)'
  <1> DEFINE amount == [c \in EventsOf(o) |-> events[c].amount]
             share == Allocation(amount, Price[o], Credits[o])
             row == [orders[o] EXCEPT !.rc = Credits[o], !.ra = Price[o], !.status = "canceled"]
             ev(c) == [events[c] EXCEPT !.state = "resolved", !.econ = share[c]]
  <1>1. /\ orders' = [orders EXCEPT ![o] = row] /\ UNCHANGED attempts
        /\ events' = [c \in Cancellations |-> IF c \in EventsOf(o) THEN ev(c) ELSE events[c]]
        /\ AutoFullEligible(o)
    BY DEF ResolveAutoFull, ResolveFromLot
  <1>2. CommittedFor(o)' = {}
    BY <1>1 DEF AutoFullEligible, CommittedFor
  <1>3. /\ \A c \in EventsOf(o) :
             /\ events[c].amount \in Nat /\ events[c].order = o
             /\ events[c].status = "SUCCEEDED" /\ events[c] \in EventRow
        /\ Credits[o] \in Nat /\ Price[o] \in Nat \ {0}
    BY <1>1, CatalogAssumption DEF Core, TypeOK, EventRow, EventsOf, AutoFullEligible
  <1>4. SumFunctionOnSet(amount, EventsOf(o)) = Price[o]
    <2>1. {c \in EventsOf(o) : events[c].status = "SUCCEEDED"} = EventsOf(o)
      BY <1>3
    <2>2. PICK S, f, g : S = EventsOf(o) /\ f = amount /\ g = [c \in Cancellations |-> events[c].amount]
      OBVIOUS
    <2>3. IsFiniteSet(S) /\ \A c \in S : f[c] = g[c]
      BY <2>2, FiniteAssumption, FS_Subset DEF EventsOf
    <2>4. SumFunctionOnSet(f, S) = SumFunctionOnSet(g, S)
      BY <2>3, SumSame
    <2>5. SumFunctionOnSet(g, S) = Price[o]
      BY <1>1, <2>1, <2>2 DEF AutoFullEligible, SeenCancelled
    <2> QED BY <2>2, <2>4, <2>5
  <1>5. SumFunctionOnSet(share, EventsOf(o)) = Credits[o]
    <2>1. EventsOf(o) \in SUBSET Nat /\ IsFiniteSet(EventsOf(o))
      BY CancellationAssumption, FiniteAssumption, FS_Subset DEF EventsOf
    <2>2. amount \in [EventsOf(o) -> Nat]
      BY <1>3
    <2> HIDE DEF amount
    <2> QED BY <1>3, <1>4, <2>1, <2>2, AllocationExact
  <1> HIDE DEF share
  <1>6. \A c \in EventsOf(o) : /\ c \in Cancellations /\ ev(c).state = "resolved"
                                /\ ev(c).order = o /\ ev(c).econ = share[c]
                                /\ ev(c).amount = events[c].amount
    BY <1>3 DEF EventRow, EventsOf
  <1> HIDE DEF ev
  <1>7. ResolvedFor(o)' = EventsOf(o)
    BY <1>1, <1>6 DEF ResolvedFor, EventsOf
  <1>8. orders'[o].rc = Credits[o] /\ orders'[o].ra = Price[o]
    <2>1. row.rc = Credits[o] /\ row.ra = Price[o]
      BY DEF Core, TypeOK, OrderRow
    <2> HIDE DEF row
    <2> QED BY <1>1, <2>1 DEF Core, TypeOK
  <1>9. PICK S, f, g, h, k : /\ S = EventsOf(o) /\ f = EconColumn' /\ g = CancelledColumn'
                             /\ h = share /\ k = amount
    OBVIOUS
  <1>10. IsFiniteSet(S) /\ \A c \in S : f[c] = h[c] /\ g[c] = k[c]
    BY <1>1, <1>6, <1>9, ColumnsNext, FiniteAssumption, FS_Subset DEF EventsOf
  <1>11. SumFunctionOnSet(f, S) = SumFunctionOnSet(h, S) /\ SumFunctionOnSet(g, S) = SumFunctionOnSet(k, S)
    BY <1>10, SumSame
  <1>12. SumFunctionOnSet(QtyColumn', {}) = 0 /\ SumFunctionOnSet(PaidColumn', {}) = 0
    BY FS_EmptySet, SumUnfolds
  <1> HIDE DEF amount
  <1> QED BY <1>2, <1>3, <1>4, <1>5, <1>7, <1>8, <1>9, <1>11, <1>12 DEF Decomposed

\* The steps after which every order has the refunds it had.
RefundsStay ==
  /\ \A o \in Orders : orders'[o].rc = orders[o].rc /\ orders'[o].ra = orders[o].ra
  /\ \A a \in Attempts : \/ attempts'[a] = attempts[a]
                         \/ attempts[a].state # "committed" /\ attempts'[a].state # "committed"
  /\ \A c \in Cancellations : \/ events'[c] = events[c]
                              \/ events[c].state # "resolved" /\ events'[c].state # "resolved"

\* Such a step keeps every order decomposed.
LEMMA StaysDecomposed ==
  ASSUME Core, Core', RefundsDecompose, RefundsStay
  PROVE  RefundsDecompose'
  <1>1. ASSUME NEW o \in Orders PROVE Decomposed(o)'
    <2>1. Decomposed(o)
      BY DecomposedMeaning
    <2>2. /\ CommittedFor(o)' = CommittedFor(o)
          /\ \A a \in CommittedFor(o) : attempts'[a] = attempts[a]
      BY DEF CommittedFor, RefundsStay
    <2>3. /\ ResolvedFor(o)' = ResolvedFor(o)
          /\ \A c \in ResolvedFor(o) : events'[c] = events[c]
      BY DEF ResolvedFor, RefundsStay
    <2> QED BY <2>1, <2>2, <2>3, OrderKept DEF RefundsStay
  <1> QED BY <1>1, DecomposedMeaningNext

\* Both commits.
LEMMA CommitsDecomposed ==
  ASSUME Core, Core', RefundsDecompose, NEW a \in Attempts, attempts[a].state \in OpenStates,
         ApplyCommit(a)
  PROVE  RefundsDecompose'
  <1>1. PICK o, row, ord :
          /\ o = attempts[a].order
          /\ row = [attempts[a] EXCEPT !.state = "committed", !.closure = Closure(a)]
          /\ ord = [orders[o] EXCEPT !.rc = orders[o].rc + attempts[a].qty + Closure(a),
                                     !.ra = orders[o].ra + attempts[a].amount]
          /\ attempts' = [attempts EXCEPT ![a] = row] /\ orders' = [orders EXCEPT ![o] = ord]
          /\ UNCHANGED events
    BY DEF ApplyCommit
  <1>2. o \in Orders /\ attempts[a].state # "committed"
    BY <1>1 DEF Core, Linked, OpenStates
  <1>3. /\ row.state = "committed" /\ row.order = o /\ row.qty = attempts[a].qty
        /\ row.closure = Closure(a) /\ row.amount = attempts[a].amount
        /\ ord.rc = orders[o].rc + attempts[a].qty + Closure(a)
        /\ ord.ra = orders[o].ra + attempts[a].amount
    BY <1>1, <1>2 DEF Core, TypeOK, AttemptRow, OrderRow
  <1>4. /\ attempts'[a] = row /\ \A b \in Attempts : b # a => attempts'[b] = attempts[b]
        /\ orders'[o] = ord /\ \A p \in Orders : p # o => orders'[p] = orders[p]
    BY <1>1, <1>2 DEF Core, TypeOK
  <1>5. a \notin CommittedFor(o)
    BY <1>2 DEF CommittedFor
  <1>6. CommittedFor(o)' = CommittedFor(o) \cup {a}
    <2>1. \A b \in Attempts :
            attempts'[b].order = o /\ attempts'[b].state = "committed"
              <=> b = a \/ (attempts[b].order = o /\ attempts[b].state = "committed")
      BY <1>2, <1>3, <1>4
    <2> QED BY <2>1 DEF CommittedFor
  <1>7. \A p \in Orders : p # o => CommittedFor(p)' = CommittedFor(p)
    <2>1. \A p \in Orders, b \in Attempts : p # o =>
            (attempts'[b].order = p /\ attempts'[b].state = "committed"
              <=> attempts[b].order = p /\ attempts[b].state = "committed")
      BY <1>1, <1>3, <1>4
    <2> QED BY <2>1 DEF CommittedFor
  <1>8. \A p \in Orders : \A b \in CommittedFor(p) : attempts'[b] = attempts[b]
    BY <1>2, <1>4 DEF CommittedFor
  <1>9. \A p : /\ ResolvedFor(p)' = ResolvedFor(p)
               /\ \A c \in ResolvedFor(p) : events'[c] = events[c]
    BY <1>1 DEF ResolvedFor
  <1>10. ASSUME NEW p \in Orders PROVE Decomposed(p)'
    <2>1. Decomposed(p)
      BY DecomposedMeaning
    <2>2. CASE p = o
      <3>1. /\ orders'[o].rc = orders[o].rc + attempts'[a].qty + attempts'[a].closure
            /\ orders'[o].ra = orders[o].ra + attempts'[a].amount
        BY <1>3, <1>4
      <3> QED BY <1>2, <1>5, <1>6, <1>8, <1>9, <2>1, <2>2, <3>1, OrderCommits
    <2>3. CASE p # o
      <3>1. orders'[p] = orders[p]
        BY <1>4, <2>3
      <3> QED BY <1>7, <1>8, <1>9, <2>1, <2>3, <3>1, OrderKept
    <2> QED BY <2>2, <2>3
  <1> QED BY <1>10, DecomposedMeaningNext

\* The resolution of one cancellation.
LEMMA ResolutionDecomposed ==
  ASSUME Core, Core', RefundsDecompose, NEW c \in Cancellations, NEW econ \in Nat,
         ResolveExternalCancellation(c, econ)
  PROVE  RefundsDecompose'
  <1>1. PICK o, row, ev :
          /\ o = events[c].order
          /\ row = [orders[o] EXCEPT !.rc = orders[o].rc + econ, !.ra = orders[o].ra + events[c].amount]
          /\ ev = [events[c] EXCEPT !.state = "resolved", !.econ = econ]
          /\ orders' = [orders EXCEPT ![o] = row] /\ events' = [events EXCEPT ![c] = ev]
          /\ UNCHANGED attempts /\ events[c].state = "unmatched"
    BY DEF ResolveExternalCancellation, ResolveFromLot
  <1>2. o \in Orders
    BY <1>1 DEF Core, Linked
  <1>3. /\ ev.state = "resolved" /\ ev.order = o /\ ev.econ = econ /\ ev.amount = events[c].amount
        /\ row.rc = orders[o].rc + econ /\ row.ra = orders[o].ra + events[c].amount
    BY <1>1, <1>2 DEF Core, TypeOK, EventRow, OrderRow
  <1>4. /\ events'[c] = ev /\ \A d \in Cancellations : d # c => events'[d] = events[d]
        /\ orders'[o] = row /\ \A p \in Orders : p # o => orders'[p] = orders[p]
    BY <1>1, <1>2 DEF Core, TypeOK
  <1>5. c \notin ResolvedFor(o)
    BY <1>1 DEF ResolvedFor
  <1>6. ResolvedFor(o)' = ResolvedFor(o) \cup {c}
    <2>1. \A d \in Cancellations :
            events'[d].order = o /\ events'[d].state = "resolved"
              <=> d = c \/ (events[d].order = o /\ events[d].state = "resolved")
      BY <1>1, <1>3, <1>4
    <2> QED BY <2>1 DEF ResolvedFor
  <1>7. \A p \in Orders : p # o => ResolvedFor(p)' = ResolvedFor(p)
    <2>1. \A p \in Orders, d \in Cancellations : p # o =>
            (events'[d].order = p /\ events'[d].state = "resolved"
              <=> events[d].order = p /\ events[d].state = "resolved")
      BY <1>1, <1>3, <1>4
    <2> QED BY <2>1 DEF ResolvedFor
  <1>8. \A p \in Orders : \A d \in ResolvedFor(p) : events'[d] = events[d]
    BY <1>1, <1>4 DEF ResolvedFor
  <1>9. \A p : /\ CommittedFor(p)' = CommittedFor(p)
               /\ \A a \in CommittedFor(p) : attempts'[a] = attempts[a]
    BY <1>1 DEF CommittedFor
  <1>10. ASSUME NEW p \in Orders PROVE Decomposed(p)'
    <2>1. Decomposed(p)
      BY DecomposedMeaning
    <2>2. CASE p = o
      <3>1. /\ orders'[o].rc = orders[o].rc + events'[c].econ
            /\ orders'[o].ra = orders[o].ra + events'[c].amount
        BY <1>3, <1>4
      <3> QED BY <1>2, <1>5, <1>6, <1>8, <1>9, <2>1, <2>2, <3>1, OrderResolves
    <2>3. CASE p # o
      <3>1. orders'[p] = orders[p]
        BY <1>4, <2>3
      <3> QED BY <1>7, <1>8, <1>9, <2>1, <2>3, <3>1, OrderKept
    <2> QED BY <2>2, <2>3
  <1> QED BY <1>10, DecomposedMeaningNext

\* The resolution of all cancellations of an order.
LEMMA FullCancellationDecomposed ==
  ASSUME Core, Core', RefundsDecompose, NEW o \in Orders, ResolveAutoFull(o)
  PROVE  RefundsDecompose'
  <1>1. PICK row, ev : /\ orders' = [orders EXCEPT ![o] = row] /\ UNCHANGED attempts
                       /\ events' = [c \in Cancellations |-> IF c \in EventsOf(o) THEN ev[c] ELSE events[c]]
                       /\ \A c \in EventsOf(o) : ev[c].order = o
    <2> DEFINE share == Allocation([c \in EventsOf(o) |-> events[c].amount], Price[o], Credits[o])
               r == [orders[o] EXCEPT !.rc = Credits[o], !.ra = Price[o], !.status = "canceled"]
               e == [c \in EventsOf(o) |-> [events[c] EXCEPT !.state = "resolved", !.econ = share[c]]]
    <2>1. /\ orders' = [orders EXCEPT ![o] = r] /\ UNCHANGED attempts
          /\ events' = [c \in Cancellations |->
               IF c \in EventsOf(o)
                 THEN [events[c] EXCEPT !.state = "resolved", !.econ = share[c]] ELSE events[c]]
      BY DEF ResolveAutoFull, ResolveFromLot
    <2> HIDE DEF share, r
    <2>2. \A c \in EventsOf(o) : e[c].order = o
      BY DEF Core, TypeOK, EventRow, EventsOf
    <2>3. events' = [c \in Cancellations |-> IF c \in EventsOf(o) THEN e[c] ELSE events[c]]
      BY <2>1
    <2> HIDE DEF e
    <2> QED BY <2>1, <2>2, <2>3
  <1>2. ASSUME NEW p \in Orders, p # o PROVE Decomposed(p)'
    <2>1. Decomposed(p)
      BY DecomposedMeaning
    <2>2. \A c \in Cancellations : events[c].order = p => events'[c] = events[c]
      BY <1>1, <1>2 DEF EventsOf
    <2>3. \A c \in Cancellations : events'[c].order = p => events'[c] = events[c]
      BY <1>1, <1>2
    <2>4. /\ ResolvedFor(p)' = ResolvedFor(p)
          /\ \A c \in ResolvedFor(p) : events'[c] = events[c]
      BY <2>2, <2>3 DEF ResolvedFor
    <2>5. /\ CommittedFor(p)' = CommittedFor(p)
          /\ \A a \in CommittedFor(p) : attempts'[a] = attempts[a]
      BY <1>1 DEF CommittedFor
    <2>6. orders'[p] = orders[p]
      BY <1>1, <1>2 DEF Core, TypeOK
    <2> QED BY <2>1, <2>4, <2>5, <2>6, OrderKept
  <1>3. Decomposed(o)'
    BY OrderCancelledInFull
  <1> QED BY <1>2, <1>3, DecomposedMeaningNext

\* Steps that move no order's refunds, commit no attempt and resolve no event.
LEMMA RefundsUntouched ==
  ASSUME Core, Core', RefundsDecompose, UNCHANGED <<orders, attempts, events>>
  PROVE  RefundsDecompose'
  BY StaysDecomposed DEF RefundsStay

\* Payments, failures and intents.
LEMMA OrderStepsDecomposed ==
  ASSUME Core, Core', RefundsDecompose, NEW o \in Orders,
         \/ MarkPaidAndGrant(o) \/ MarkOrderFailed(o) \/ MarkOrderCanceledUnpaid(o)
         \/ \E rate \in Rates : CancelIntentBegin(o, rate)
  PROVE  RefundsDecompose'
  <1>1. PICK row : /\ orders' = [orders EXCEPT ![o] = row] /\ UNCHANGED <<attempts, events>>
                   /\ row.rc = orders[o].rc /\ row.ra = orders[o].ra
    <2>1. orders[o] \in OrderRow
      BY DEF Core, TypeOK
    <2>2. CASE MarkPaidAndGrant(o)
      <3> DEFINE row == [orders[o] EXCEPT !.status = "paid", !.paid = TRUE]
      <3>1. orders' = [orders EXCEPT ![o] = row] /\ UNCHANGED <<attempts, events>>
        BY <2>2 DEF MarkPaidAndGrant
      <3>2. row.rc = orders[o].rc /\ row.ra = orders[o].ra
        BY <2>1 DEF OrderRow
      <3> QED BY <3>1, <3>2
    <2>3. CASE MarkOrderFailed(o)
      <3> DEFINE row == [orders[o] EXCEPT !.status = "failed"]
      <3>1. orders' = [orders EXCEPT ![o] = row] /\ UNCHANGED <<attempts, events>>
        BY <2>3 DEF MarkOrderFailed
      <3>2. row.rc = orders[o].rc /\ row.ra = orders[o].ra
        BY <2>1 DEF OrderRow
      <3> QED BY <3>1, <3>2
    <2>4. CASE MarkOrderCanceledUnpaid(o)
      <3> DEFINE row == [orders[o] EXCEPT !.status = "canceled"]
      <3>1. orders' = [orders EXCEPT ![o] = row] /\ UNCHANGED <<attempts, events>>
        BY <2>4 DEF MarkOrderCanceledUnpaid
      <3>2. row.rc = orders[o].rc /\ row.ra = orders[o].ra
        BY <2>1 DEF OrderRow
      <3> QED BY <3>1, <3>2
    <2>5. ASSUME NEW rate \in Rates, CancelIntentBegin(o, rate)
          PROVE  \E row : /\ orders' = [orders EXCEPT ![o] = row] /\ UNCHANGED <<attempts, events>>
                          /\ row.rc = orders[o].rc /\ row.ra = orders[o].ra
      <3> DEFINE row == [orders[o] EXCEPT !.intent = rate]
      <3>1. orders' = [orders EXCEPT ![o] = row] /\ UNCHANGED <<attempts, events>>
        BY <2>5 DEF CancelIntentBegin
      <3>2. row.rc = orders[o].rc /\ row.ra = orders[o].ra
        BY <2>1 DEF OrderRow
      <3> QED BY <3>1, <3>2
    <2> QED BY <2>2, <2>3, <2>4, <2>5
  <1>2. \A p \in Orders : orders'[p].rc = orders[p].rc /\ orders'[p].ra = orders[p].ra
    BY <1>1 DEF Core, TypeOK
  <1>3. RefundsStay
    BY <1>1, <1>2 DEF RefundsStay
  <1> QED BY <1>3, StaysDecomposed

\* Attempts that begin, or move on without being committed.
LEMMA MovesDecomposed ==
  ASSUME Core, Core', RefundsDecompose, NEW a \in Attempts, NEW row,
         attempts' = [attempts EXCEPT ![a] = row], UNCHANGED orders,
         attempts[a].state # "committed", row.state # "committed",
         \A c \in Cancellations : \/ events'[c] = events[c]
                                  \/ events[c].state # "resolved" /\ events'[c].state # "resolved"
  PROVE  RefundsDecompose'
  <1>1. attempts'[a] = row /\ \A b \in Attempts : b # a => attempts'[b] = attempts[b]
    BY DEF Core, TypeOK
  <1>2. RefundsStay
    BY <1>1 DEF RefundsStay
  <1> QED BY <1>2, StaysDecomposed

\* A reservation.
LEMMA ReserveDecomposed ==
  ASSUME Core, Core', RefundsDecompose, NEW a \in Attempts, NEW o \in Orders, NEW qty,
         NEW rate, NEW rail, NEW origin, Reserve(a, o, qty, rate, rail, origin)
  PROVE  RefundsDecompose'
  <1> DEFINE row == [UnusedAttempt EXCEPT !.state = "prepared", !.order = o, !.qty = qty,
                       !.amount = RefundAmount(Price[o], Credits[o], qty, rate, Price[o] - orders[o].ra),
                       !.rail = rail, !.origin = origin]
  <1>1. /\ attempts' = [attempts EXCEPT ![a] = row] /\ UNCHANGED <<orders, events>>
        /\ attempts[a].state # "committed"
    BY DEF Reserve
  <1>2. row.state # "committed"
    BY DEF UnusedAttempt
  <1> HIDE DEF row
  <1>3. \A c \in Cancellations : events'[c] = events[c]
    BY <1>1
  <1>4. UNCHANGED orders
    BY <1>1
  <1> QED BY <1>1, <1>2, <1>3, <1>4, MovesDecomposed

\* Failed cancellations are closed; none of them is resolved.
LEMMA IgnoredNeverResolved ==
  ASSUME Core, NEW o, events' = IgnoreFailedEvents(o)
  PROVE  \A c \in Cancellations : \/ events'[c] = events[c]
                                  \/ events[c].state # "resolved" /\ events'[c].state # "resolved"
  <1>1. ASSUME NEW c \in Cancellations, events'[c] # events[c]
        PROVE  events[c].state # "resolved" /\ events'[c].state # "resolved"
    <2>1. events[c].state = "unmatched" /\ events'[c] = [events[c] EXCEPT !.state = "ignored"]
      BY <1>1 DEF IgnoreFailedEvents
    <2>2. events[c] \in EventRow
      BY DEF Core, TypeOK
    <2> QED BY <2>1, <2>2 DEF EventRow
  <1> QED BY <1>1

\* The provider's answers, a change of rail and the release of a reservation.
LEMMA ProviderDecomposed ==
  ASSUME Core, Core', RefundsDecompose, NEW a \in Attempts,
         \/ MarkPgRequested(a) \/ RecordPgPending(a) \/ RecordPgFailed(a) \/ SwitchToManual(a)
         \/ \E c \in Cancellations : RecordPgSucceeded(a, c)
         \/ AdminRefundRelease(a) \/ ReplanAfterPg(a)
         \/ \E external \in BOOLEAN : ReplanPrePg(a, external)
  PROVE  RefundsDecompose'
  <1>1. attempts[a].state # "committed" /\ UNCHANGED orders
    BY DEF MarkPgRequested, RecordPgPending, RecordPgFailed, SwitchToManual, Switchable,
           RecordPgSucceeded, AdminRefundRelease, ReplanAfterPg, ReplanPrePg, ApplyRelease
  <1>2. attempts[a] \in AttemptRow
    BY DEF Core, TypeOK
  <1>3. PICK row : attempts' = [attempts EXCEPT ![a] = row] /\ row.state # "committed"
    <2>1. CASE MarkPgRequested(a)
      <3> DEFINE row == [attempts[a] EXCEPT !.state = "pg_requested", !.pgAsked = TRUE]
      <3>1. attempts' = [attempts EXCEPT ![a] = row]
        BY <2>1 DEF MarkPgRequested
      <3>2. row.state # "committed"
        BY <1>2 DEF AttemptRow
      <3> QED BY <3>1, <3>2
    <2>2. CASE RecordPgPending(a)
      <3> DEFINE row == [attempts[a] EXCEPT !.state = "pg_pending"]
      <3>1. attempts' = [attempts EXCEPT ![a] = row]
        BY <2>2 DEF RecordPgPending
      <3>2. row.state # "committed"
        BY <1>2 DEF AttemptRow
      <3> QED BY <3>1, <3>2
    <2>3. CASE RecordPgFailed(a)
      <3> DEFINE row == [attempts[a] EXCEPT !.state = "manual_review"]
      <3>1. attempts' = [attempts EXCEPT ![a] = row]
        BY <2>3 DEF RecordPgFailed
      <3>2. row.state # "committed"
        BY <1>2 DEF AttemptRow
      <3> QED BY <3>1, <3>2
    <2>4. CASE SwitchToManual(a)
      <3> DEFINE row == [attempts[a] EXCEPT !.state = "manual_pending", !.rail = "manual_transfer"]
      <3>1. attempts' = [attempts EXCEPT ![a] = row]
        BY <2>4 DEF SwitchToManual
      <3>2. row.state # "committed"
        BY <1>2 DEF AttemptRow
      <3> QED BY <3>1, <3>2
    <2>5. CASE \E c \in Cancellations : RecordPgSucceeded(a, c)
      <3>1. PICK c \in Cancellations : RecordPgSucceeded(a, c)
        BY <2>5
      <3> DEFINE row == [attempts[a] EXCEPT !.state = "pg_succeeded", !.cancel = c]
      <3>2. attempts' = [attempts EXCEPT ![a] = row]
        BY <3>1 DEF RecordPgSucceeded
      <3>3. row.state # "committed"
        BY <1>2 DEF AttemptRow
      <3> QED BY <3>2, <3>3
    <2>6. CASE \/ AdminRefundRelease(a) \/ ReplanAfterPg(a)
               \/ \E external \in BOOLEAN : ReplanPrePg(a, external)
      <3>1. PICK reason : ApplyRelease(a, reason)
        BY <2>6 DEF AdminRefundRelease, ReplanAfterPg, ReplanPrePg
      <3> DEFINE row == [attempts[a] EXCEPT !.state = "released", !.release = reason]
      <3>2. attempts' = [attempts EXCEPT ![a] = row]
        BY <3>1 DEF ApplyRelease
      <3>3. row.state # "committed"
        BY <1>2 DEF AttemptRow
      <3> QED BY <3>2, <3>3
    <2> QED BY <2>1, <2>2, <2>3, <2>4, <2>5, <2>6
  <1>4. \A c \in Cancellations : \/ events'[c] = events[c]
                                 \/ events[c].state # "resolved" /\ events'[c].state # "resolved"
    <2>1. CASE UNCHANGED events
      BY <2>1
    <2>2. CASE SwitchToManual(a) \/ ReplanAfterPg(a)
      <3>1. events' = IgnoreFailedEvents(attempts[a].order)
        BY <2>2 DEF SwitchToManual, ReplanAfterPg
      <3> QED BY <3>1, IgnoredNeverResolved
    <2>3. CASE \E c \in Cancellations : RecordPgSucceeded(a, c)
      <3>1. PICK c \in Cancellations : RecordPgSucceeded(a, c)
        BY <2>3
      <3> DEFINE ev == [state |-> "matched", order |-> attempts[a].order, status |-> "SUCCEEDED",
                        amount |-> attempts[a].amount, marker |-> a, matched |-> a, econ |-> 0]
      <3>2. events' = [events EXCEPT ![c] = ev] /\ events[c].state # "resolved"
        BY <3>1 DEF RecordPgSucceeded, Settles, OwnCancellation
      <3>3. ev.state # "resolved"
        OBVIOUS
      <3> HIDE DEF ev
      <3>4. events'[c] = ev /\ \A d \in Cancellations : d # c => events'[d] = events[d]
        BY <3>2 DEF Core, TypeOK
      <3> QED BY <3>2, <3>3, <3>4
    <2> QED BY <2>1, <2>2, <2>3
         DEF MarkPgRequested, RecordPgPending, RecordPgFailed, AdminRefundRelease, ReplanPrePg
  <1> QED BY <1>1, <1>3, <1>4, MovesDecomposed

\* What is reported or closed changes no refund.
LEMMA EventsDecomposed ==
  ASSUME Core, Core', RefundsDecompose, NEW c \in Cancellations, NEW ev,
         events' = [events EXCEPT ![c] = ev], UNCHANGED <<orders, attempts>>,
         events[c].state # "resolved", ev.state # "resolved"
  PROVE  RefundsDecompose'
  <1>1. events'[c] = ev /\ \A d \in Cancellations : d # c => events'[d] = events[d]
    BY DEF Core, TypeOK
  <1>2. /\ \A o \in Orders : orders'[o].rc = orders[o].rc /\ orders'[o].ra = orders[o].ra
        /\ \A a \in Attempts : attempts'[a] = attempts[a]
    OBVIOUS
  <1>3. RefundsStay
    BY <1>1, <1>2 DEF RefundsStay
  <1> QED BY <1>3, StaysDecomposed

\* A cancellation is reported, or an issue about one is closed.
LEMMA ReportsDecomposed ==
  ASSUME Core, Core', RefundsDecompose,
         \/ \E c \in Cancellations, o \in Orders : \E status, amount, marker :
              RecordCancellation(c, o, status, amount, marker)
         \/ \E i \in openIssues : IgnoreFailedEventIssue(i)
  PROVE  RefundsDecompose'
  <1>1. ASSUME NEW c \in Cancellations, NEW o \in Orders, NEW status, NEW amount, NEW marker,
               RecordCancellation(c, o, status, amount, marker)
        PROVE  RefundsDecompose'
    <2> DEFINE ev == [AbsentEvent EXCEPT !.state = "unmatched", !.order = o, !.status = status,
                                         !.amount = amount, !.marker = marker]
    <2>1. events' = [events EXCEPT ![c] = ev] /\ UNCHANGED <<orders, attempts>>
      BY <1>1 DEF RecordCancellation
    <2>2. events[c].state # "resolved" /\ ev.state # "resolved"
      BY <1>1 DEF RecordCancellation, AbsentEvent
    <2> HIDE DEF ev
    <2> QED BY <2>1, <2>2, EventsDecomposed
  <1>2. ASSUME NEW i \in openIssues, IgnoreFailedEventIssue(i)
        PROVE  RefundsDecompose'
    <2> DEFINE c == i.cancel
               ev == [events[c] EXCEPT !.state = "ignored"]
    <2>1. /\ events' = [events EXCEPT ![c] = ev] /\ UNCHANGED <<orders, attempts>>
          /\ events[c].state # "resolved" /\ i.type # "late_paid"
      BY <1>2 DEF IgnoreFailedEventIssue
    <2>2. CASE c \in Cancellations
      <3>1. ev.state # "resolved"
        BY <2>2 DEF Core, TypeOK, EventRow
      <3> HIDE DEF ev
      <3> QED BY <2>1, <2>2, <3>1, EventsDecomposed
    <2>3. CASE c \notin Cancellations
      <3>1. events' = events
        BY <2>1, <2>3 DEF Core, TypeOK
      <3> QED BY <2>1, <3>1, RefundsUntouched
    <2> QED BY <2>2, <2>3
  <1> QED BY <1>1, <1>2

\* Every step keeps every order's refunds equal to what they are made of.
LEMMA RefundsNext == Core /\ Core' /\ RefundsDecompose /\ [Next]_vars => RefundsDecompose'
  <1> SUFFICES ASSUME Core, Core', RefundsDecompose, [Next]_vars PROVE RefundsDecompose'
    OBVIOUS
  <1>1. ASSUME UNCHANGED <<orders, attempts, events>> PROVE RefundsDecompose'
    BY <1>1, RefundsUntouched
  <1>2. ASSUME NEW o \in Orders,
               \/ MarkPaidAndGrant(o) \/ MarkOrderFailed(o) \/ MarkOrderCanceledUnpaid(o)
               \/ \E rate \in Rates : CancelIntentBegin(o, rate)
               \/ ResolveAutoFull(o) \/ ResolveLatePaid(o) \/ SweepExpired(o)
        PROVE  RefundsDecompose'
    <2>1. CASE \/ MarkPaidAndGrant(o) \/ MarkOrderFailed(o) \/ MarkOrderCanceledUnpaid(o)
               \/ \E rate \in Rates : CancelIntentBegin(o, rate)
      BY <2>1, OrderStepsDecomposed
    <2>2. CASE ResolveAutoFull(o)
      BY <2>2, FullCancellationDecomposed
    <2>3. CASE ResolveLatePaid(o) \/ SweepExpired(o)
      <3>1. UNCHANGED <<orders, attempts, events>>
        BY <2>3 DEF ResolveLatePaid, SweepExpired
      <3> QED BY <1>1, <3>1
    <2> QED BY <1>2, <2>1, <2>2, <2>3
  <1>3. ASSUME NEW g \in Gens,
               \/ \E o \in Orders : CreateGeneration(g, o)
               \/ CompleteGeneration(g) \/ FailGeneration(g)
        PROVE  RefundsDecompose'
    <2>1. UNCHANGED <<orders, attempts, events>>
      BY <1>3 DEF CreateGeneration, CompleteGeneration, FailGeneration
    <2> QED BY <1>1, <2>1
  <1>4. ASSUME NEW a \in Attempts, NEW o \in Orders, NEW qty \in 1..Credits[o],
               \/ \E rate \in Rates, rail \in {"portone_cancel", "manual_transfer"} :
                    AdminRefundBegin(a, o, qty, rate, rail)
               \/ CancelIntentResolve(a, o, qty)
        PROVE  RefundsDecompose'
    <2>1. \E rate, rail, origin : Reserve(a, o, qty, rate, rail, origin)
      BY <1>4 DEF AdminRefundBegin, CancelIntentResolve
    <2> QED BY <2>1, ReserveDecomposed
  <1>5. ASSUME NEW a \in Attempts,
               \/ MarkPgRequested(a) \/ RecordPgPending(a)
               \/ \E c \in Cancellations : RecordPgSucceeded(a, c)
               \/ RecordPgFailed(a) \/ SwitchToManual(a)
               \/ AdminRefundCommit(a) \/ AdminRefundCommitManual(a)
               \/ AdminRefundRelease(a)
               \/ \E external \in BOOLEAN : ReplanPrePg(a, external)
               \/ ReplanAfterPg(a)
        PROVE  RefundsDecompose'
    <2>1. CASE AdminRefundCommit(a) \/ AdminRefundCommitManual(a)
      <3>1. ApplyCommit(a) /\ attempts[a].state \in OpenStates
        BY <2>1 DEF AdminRefundCommit, AdminRefundCommitManual, OpenStates
      <3> QED BY <3>1, CommitsDecomposed
    <2>2. CASE \/ MarkPgRequested(a) \/ RecordPgPending(a) \/ RecordPgFailed(a) \/ SwitchToManual(a)
               \/ \E c \in Cancellations : RecordPgSucceeded(a, c)
               \/ AdminRefundRelease(a) \/ ReplanAfterPg(a)
               \/ \E external \in BOOLEAN : ReplanPrePg(a, external)
      BY <2>2, ProviderDecomposed
    <2> QED BY <1>5, <2>1, <2>2
  <1>6. ASSUME NEW c \in Cancellations,
               \/ \E o \in Orders, status \in {"SUCCEEDED", "FAILED"} :
                    \/ \E amount \in ExternalAmounts : RecordCancellation(c, o, status, amount, None)
                    \/ \E m \in Attempts : RecordCancellation(c, o, status, attempts[m].amount, m)
               \/ RecordContradiction(c)
               \/ events[c].order # None /\
                    \E econ \in 0..Credits[events[c].order] : ResolveExternalCancellation(c, econ)
        PROVE  RefundsDecompose'
    <2>1. CASE \E o \in Orders, status \in {"SUCCEEDED", "FAILED"} :
                    \/ \E amount \in ExternalAmounts : RecordCancellation(c, o, status, amount, None)
                    \/ \E m \in Attempts : RecordCancellation(c, o, status, attempts[m].amount, m)
      BY <2>1, ReportsDecomposed
    <2>2. CASE RecordContradiction(c)
      <3>1. UNCHANGED <<orders, attempts, events>>
        BY <2>2 DEF RecordContradiction
      <3> QED BY <1>1, <3>1
    <2>3. CASE events[c].order # None /\
                 \E econ \in 0..Credits[events[c].order] : ResolveExternalCancellation(c, econ)
      <3>1. PICK o \in Orders : o = events[c].order
        BY <2>3 DEF Core, TypeOK, EventRow
      <3>2. PICK econ \in 0..Credits[o] : ResolveExternalCancellation(c, econ)
        BY <2>3, <3>1
      <3>3. econ \in Nat
        BY CatalogAssumption
      <3> QED BY <3>2, <3>3, ResolutionDecomposed
    <2> QED BY <1>6, <2>1, <2>2, <2>3
  <1>7. ASSUME NEW i \in openIssues, CloseEventIssue(i) \/ IgnoreFailedEventIssue(i)
        PROVE  RefundsDecompose'
    <2>1. CASE IgnoreFailedEventIssue(i)
      BY <2>1, ReportsDecomposed
    <2>2. CASE CloseEventIssue(i)
      <3>1. UNCHANGED <<orders, attempts, events>>
        BY <2>2 DEF CloseEventIssue
      <3> QED BY <1>1, <3>1
    <2> QED BY <1>7, <2>1, <2>2
  <1>8. CASE DeleteAccount \/ ReactivateAccount \/ UNCHANGED vars
    <2>1. UNCHANGED <<orders, attempts, events>>
      BY <1>8 DEF DeleteAccount, ReactivateAccount, vars
    <2> QED BY <1>1, <2>1
  <1> QED BY <1>2, <1>3, <1>4, <1>5, <1>6, <1>7, <1>8 DEF Next

\* At first nothing is refunded, committed or resolved.
LEMMA RefundsInit == Init => RefundsDecompose
  <1> SUFFICES ASSUME Init, NEW o \in Orders PROVE Decomposed(o)
    BY DecomposedMeaning
  <1>1. CommittedFor(o) = {} /\ ResolvedFor(o) = {}
    BY DEF Init, CommittedFor, ResolvedFor, UnusedAttempt, AbsentEvent
  <1>2. PICK f, g, h, k : f = QtyColumn /\ g = PaidColumn /\ h = EconColumn /\ k = CancelledColumn
    OBVIOUS
  <1>3. /\ SumFunctionOnSet(f, {}) = 0 /\ SumFunctionOnSet(g, {}) = 0
        /\ SumFunctionOnSet(h, {}) = 0 /\ SumFunctionOnSet(k, {}) = 0
    BY FS_EmptySet, SumUnfolds
  <1>4. orders[o].rc = 0 /\ orders[o].ra = 0
    BY DEF Init
  <1> QED BY <1>1, <1>2, <1>3, <1>4 DEF Decomposed

\* An order's refunded credits and refunded money are those of its committed
\* attempts, its closures and its resolved cancellations, and of nothing else.
THEOREM RefundsAddUp == Spec => []RefundsDecompose
  <1>1. Init => RefundsDecompose
    BY RefundsInit
  <1>2. Core /\ Core' /\ RefundsDecompose /\ [Next]_vars => RefundsDecompose'
    BY RefundsNext
  <1> QED BY <1>1, <1>2, CoreInvariant, PTL DEF Spec

---------------------------------------------------------------------------
(* Cancellations leave the queue with their money accounted for.           *)

\* Cancellation c is still waiting, is settled by the attempt it names, or has
\* its whole amount in the order's refunds.
Accounted(c) ==
  \/ events'[c].state = "unmatched"
  \/ /\ events'[c].state = "resolved"
     /\ orders'[events[c].order].ra >= orders[events[c].order].ra + events[c].amount
  \/ /\ events'[c].state = "matched"
     /\ attempts'[events[c].marker].state = "pg_succeeded"

\* In a full cancellation the order's price is the sum of its events' amounts.
LEMMA FullCancellationAccounts ==
  ASSUME Core, NEW c \in Cancellations, events[c].state = "unmatched", NEW o \in Orders,
         ResolveAutoFull(o)
  PROVE  Accounted(c)
  <1>1. CASE c \notin EventsOf(o)
    <2>1. events'[c] = events[c]
      BY <1>1 DEF ResolveAutoFull
    <2> QED BY <2>1 DEF Accounted
  <1>2. CASE c \in EventsOf(o)
    <2>1. PICK row, ev, share :
            /\ row = [orders[o] EXCEPT !.rc = Credits[o], !.ra = Price[o], !.status = "canceled"]
            /\ ev = [events[c] EXCEPT !.state = "resolved", !.econ = share[c]]
            /\ orders' = [orders EXCEPT ![o] = row] /\ events'[c] = ev
            /\ AutoFullEligible(o)
      BY <1>2 DEF ResolveAutoFull
    <2>2. events'[c].state = "resolved" /\ orders'[o].ra = Price[o] /\ orders[o].ra = 0
      <3>1. row.ra = Price[o] /\ ev.state = "resolved"
        BY <2>1 DEF Core, TypeOK, OrderRow, EventRow
      <3>2. orders[o].ra = 0
        BY <2>1 DEF AutoFullEligible
      <3> QED BY <2>1, <3>1, <3>2 DEF Core, TypeOK
    <2>3. PICK S, f : /\ S = {d \in EventsOf(o) : events[d].status = "SUCCEEDED"}
                      /\ f = [d \in Cancellations |-> events[d].amount]
      OBVIOUS
    <2>4. c \in S /\ IsFiniteSet(S) /\ \A d \in S : f[d] \in Nat
      <3>1. c \in S /\ S \in SUBSET Cancellations
        BY <1>2, <2>1, <2>3 DEF AutoFullEligible, EventsOf
      <3>2. \A d \in Cancellations : f[d] \in Nat
        BY <2>3 DEF Core, TypeOK, EventRow
      <3> QED BY <3>1, <3>2, FiniteAssumption, FS_Subset
    <2>5. f[c] <= SumFunctionOnSet(f, S)
      BY <2>4, SumIsNat
    <2>6. SumFunctionOnSet(f, S) = Price[o] /\ f[c] = events[c].amount
      BY <2>1, <2>3 DEF AutoFullEligible, SeenCancelled
    <2>7. events[c].order = o /\ events[c].amount \in Nat /\ Price[o] \in Nat
      BY <1>2, CatalogAssumption DEF EventsOf, Core, TypeOK, EventRow
    <2> QED BY <2>2, <2>5, <2>6, <2>7 DEF Accounted
  <1> QED BY <1>1, <1>2

\* Failed cancellations only are closed without an entry.
LEMMA IgnoredFailedOnly ==
  ASSUME NEW c \in Cancellations, events[c].state = "unmatched", events[c].status = "SUCCEEDED",
         NEW o, events' = IgnoreFailedEvents(o)
  PROVE  Accounted(c)
  <1>1. events'[c] = events[c]
    BY DEF IgnoreFailedEvents
  <1> QED BY <1>1 DEF Accounted

\* A settlement takes the attempt the cancellation names.
LEMMA SettlementAccounts ==
  ASSUME Core, NEW c \in Cancellations, events[c].state = "unmatched",
         NEW a \in Attempts, NEW d \in Cancellations, RecordPgSucceeded(a, d)
  PROVE  Accounted(c)
  <1>1. PICK row, ev : /\ row = [attempts[a] EXCEPT !.state = "pg_succeeded", !.cancel = d]
                       /\ ev.state = "matched"
                       /\ attempts' = [attempts EXCEPT ![a] = row]
                       /\ events' = [events EXCEPT ![d] = ev]
                       /\ events[d].state = "unmatched" => events[d].marker = a
    <2> DEFINE ev == [state |-> "matched", order |-> attempts[a].order, status |-> "SUCCEEDED",
                      amount |-> attempts[a].amount, marker |-> a, matched |-> a, econ |-> 0]
    <2>1. ev.state = "matched" /\ events' = [events EXCEPT ![d] = ev]
      BY DEF RecordPgSucceeded
    <2>2. events[d].state = "unmatched" => events[d].marker = a
      BY DEF RecordPgSucceeded, Settles, OwnCancellation
    <2> HIDE DEF ev
    <2> QED BY <2>1, <2>2 DEF RecordPgSucceeded
  <1>2. CASE d # c
    <2>1. events'[c] = events[c]
      BY <1>1, <1>2 DEF Core, TypeOK
    <2> QED BY <2>1 DEF Accounted
  <1>3. CASE d = c
    <2>1. row.state = "pg_succeeded"
      BY <1>1 DEF Core, TypeOK, AttemptRow
    <2>2. attempts'[a] = row /\ events'[c] = ev
      BY <1>1, <1>3 DEF Core, TypeOK
    <2> QED BY <1>1, <1>3, <2>1, <2>2 DEF Accounted
  <1> QED BY <1>2, <1>3

\* An administrator's resolution adds the whole amount.
LEMMA ResolutionAccounts ==
  ASSUME Core, NEW c \in Cancellations, events[c].state = "unmatched",
         NEW d \in Cancellations, NEW econ, ResolveExternalCancellation(d, econ)
  PROVE  Accounted(c)
  <1>1. PICK o, row, ev :
          /\ o = events[d].order
          /\ row = [orders[o] EXCEPT !.rc = orders[o].rc + econ, !.ra = orders[o].ra + events[d].amount]
          /\ ev = [events[d] EXCEPT !.state = "resolved", !.econ = econ]
          /\ orders' = [orders EXCEPT ![o] = row] /\ events' = [events EXCEPT ![d] = ev]
          /\ events[d].state = "unmatched"
    BY DEF ResolveExternalCancellation
  <1>2. o \in Orders
    BY <1>1 DEF Core, Linked
  <1>3. CASE d # c
    <2>1. events'[c] = events[c]
      BY <1>1, <1>3 DEF Core, TypeOK
    <2> QED BY <2>1 DEF Accounted
  <1>4. CASE d = c
    <2>1. row.ra = orders[o].ra + events[c].amount /\ ev.state = "resolved"
      BY <1>1, <1>2, <1>4 DEF Core, TypeOK, OrderRow, EventRow
    <2>2. orders'[o] = row /\ events'[c] = ev
      BY <1>1, <1>2, <1>4 DEF Core, TypeOK
    <2>3. orders[o].ra \in Nat /\ events[c].amount \in Nat
      BY <1>2 DEF Core, TypeOK, OrderRow, EventRow
    <2>4. orders'[o].ra >= orders[o].ra + events[c].amount /\ events'[c].state = "resolved"
      BY <2>1, <2>2, <2>3
    <2> QED BY <1>1, <1>4, <2>4 DEF Accounted
  <1> QED BY <1>3, <1>4

\* A step that writes another cancellation's row.
LEMMA OtherRowWritten ==
  ASSUME Core, NEW c \in Cancellations, events[c].state = "unmatched",
         NEW d, d # c, NEW ev, events' = [events EXCEPT ![d] = ev]
  PROVE  Accounted(c)
  <1>1. events'[c] = events[c]
    BY DEF Core, TypeOK
  <1> QED BY <1>1 DEF Accounted

\* Every step leaves a waiting successful cancellation accounted for.
LEMMA StepAccounts ==
  ASSUME Core, [Next]_vars, NEW c \in Cancellations,
         events[c].state = "unmatched", events[c].status = "SUCCEEDED"
  PROVE  Accounted(c)
  <1>1. ASSUME UNCHANGED events PROVE Accounted(c)
    BY <1>1 DEF Accounted
  <1>2. ASSUME NEW o \in Orders,
               \/ MarkPaidAndGrant(o) \/ MarkOrderFailed(o) \/ MarkOrderCanceledUnpaid(o)
               \/ \E rate \in Rates : CancelIntentBegin(o, rate)
               \/ ResolveAutoFull(o) \/ ResolveLatePaid(o) \/ SweepExpired(o)
        PROVE  Accounted(c)
    <2>1. CASE ResolveAutoFull(o)
      BY <2>1, FullCancellationAccounts
    <2>2. CASE ~ResolveAutoFull(o)
      <3>1. UNCHANGED events
        BY <1>2, <2>2 DEF MarkPaidAndGrant, MarkOrderFailed, MarkOrderCanceledUnpaid,
                          CancelIntentBegin, ResolveLatePaid, SweepExpired
      <3> QED BY <1>1, <3>1
    <2> QED BY <2>1, <2>2
  <1>3. ASSUME NEW g \in Gens,
               \/ \E o \in Orders : CreateGeneration(g, o)
               \/ CompleteGeneration(g) \/ FailGeneration(g)
        PROVE  Accounted(c)
    <2>1. UNCHANGED events
      BY <1>3 DEF CreateGeneration, CompleteGeneration, FailGeneration
    <2> QED BY <1>1, <2>1
  <1>4. ASSUME NEW a \in Attempts, NEW o \in Orders, NEW qty \in 1..Credits[o],
               \/ \E rate \in Rates, rail \in {"portone_cancel", "manual_transfer"} :
                    AdminRefundBegin(a, o, qty, rate, rail)
               \/ CancelIntentResolve(a, o, qty)
        PROVE  Accounted(c)
    <2>1. \E rate, rail, origin : Reserve(a, o, qty, rate, rail, origin)
      BY <1>4 DEF AdminRefundBegin, CancelIntentResolve
    <2>2. UNCHANGED events
      BY <2>1 DEF Reserve
    <2> QED BY <1>1, <2>2
  <1>5. ASSUME NEW a \in Attempts,
               \/ MarkPgRequested(a) \/ RecordPgPending(a)
               \/ \E d \in Cancellations : RecordPgSucceeded(a, d)
               \/ RecordPgFailed(a) \/ SwitchToManual(a)
               \/ AdminRefundCommit(a) \/ AdminRefundCommitManual(a)
               \/ AdminRefundRelease(a)
               \/ \E external \in BOOLEAN : ReplanPrePg(a, external)
               \/ ReplanAfterPg(a)
        PROVE  Accounted(c)
    <2>1. CASE \E d \in Cancellations : RecordPgSucceeded(a, d)
      BY <2>1, SettlementAccounts
    <2>2. CASE SwitchToManual(a) \/ ReplanAfterPg(a)
      <3>1. events' = IgnoreFailedEvents(attempts[a].order)
        BY <2>2 DEF SwitchToManual, ReplanAfterPg
      <3> QED BY <3>1, IgnoredFailedOnly
    <2>3. CASE \/ MarkPgRequested(a) \/ RecordPgPending(a) \/ RecordPgFailed(a)
               \/ AdminRefundCommit(a) \/ AdminRefundCommitManual(a) \/ AdminRefundRelease(a)
               \/ \E external \in BOOLEAN : ReplanPrePg(a, external)
      <3>1. UNCHANGED events
        BY <2>3 DEF MarkPgRequested, RecordPgPending, RecordPgFailed, AdminRefundCommit,
                    AdminRefundCommitManual, ApplyCommit, AdminRefundRelease, ReplanPrePg
      <3> QED BY <1>1, <3>1
    <2> QED BY <1>5, <2>1, <2>2, <2>3
  <1>6. ASSUME NEW d \in Cancellations,
               \/ \E o \in Orders, status \in {"SUCCEEDED", "FAILED"} :
                    \/ \E amount \in ExternalAmounts : RecordCancellation(d, o, status, amount, None)
                    \/ \E m \in Attempts : RecordCancellation(d, o, status, attempts[m].amount, m)
               \/ RecordContradiction(d)
               \/ events[d].order # None /\
                    \E econ \in 0..Credits[events[d].order] : ResolveExternalCancellation(d, econ)
        PROVE  Accounted(c)
    <2>1. CASE \E o, status, amount, marker : RecordCancellation(d, o, status, amount, marker)
      <3>1. d # c /\ \E ev : events' = [events EXCEPT ![d] = ev]
        BY <2>1 DEF RecordCancellation
      <3> QED BY <3>1, OtherRowWritten
    <2>2. CASE RecordContradiction(d)
      <3>1. UNCHANGED events
        BY <2>2 DEF RecordContradiction
      <3> QED BY <1>1, <3>1
    <2>3. CASE \E econ : ResolveExternalCancellation(d, econ)
      BY <2>3, ResolutionAccounts
    <2> QED BY <1>6, <2>1, <2>2, <2>3
  <1>7. ASSUME NEW i \in openIssues, CloseEventIssue(i) \/ IgnoreFailedEventIssue(i)
        PROVE  Accounted(c)
    <2>1. CASE CloseEventIssue(i)
      <3>1. UNCHANGED events
        BY <2>1 DEF CloseEventIssue
      <3> QED BY <1>1, <3>1
    <2>2. CASE IgnoreFailedEventIssue(i)
      <3>1. i.cancel # c /\ \E ev : events' = [events EXCEPT ![i.cancel] = ev]
        BY <2>2 DEF IgnoreFailedEventIssue
      <3> QED BY <3>1, OtherRowWritten
    <2> QED BY <1>7, <2>1, <2>2
  <1>8. CASE DeleteAccount \/ ReactivateAccount \/ UNCHANGED vars
    <2>1. UNCHANGED events
      BY <1>8 DEF DeleteAccount, ReactivateAccount, vars
    <2> QED BY <1>1, <2>1
  <1> QED BY <1>2, <1>3, <1>4, <1>5, <1>6, <1>7, <1>8 DEF Next

\* No step forgets money the provider has already paid back: a successful
\* cancellation that leaves the queue has settled the attempt it names, or its
\* whole amount counts among the order's refunds.
THEOREM CancellationsAccounted == Spec => CancellationAlwaysAccounted
  <1>1. Core /\ [Next]_vars =>
          [\A c \in Cancellations :
             /\ events[c].state = "unmatched" /\ events[c].status = "SUCCEEDED"
             /\ events'[c].state # "unmatched"
             => \/ /\ events'[c].state = "resolved"
                   /\ orders'[events[c].order].ra >= orders[events[c].order].ra + events[c].amount
                \/ /\ events'[c].state = "matched"
                   /\ attempts'[events[c].marker].state = "pg_succeeded"]_vars
    BY StepAccounts DEF Accounted
  <1> QED BY <1>1, CoreInvariant, PTL DEF Spec, CancellationAlwaysAccounted
=============================================================================
