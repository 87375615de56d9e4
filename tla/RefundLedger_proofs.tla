------------------------ MODULE RefundLedger_proofs ------------------------
(***************************************************************************)
(* What RefundLedger promises for every member, whatever the numbers of    *)
(* orders, attempts, cancellations and generations: the types and bounds   *)
(* of all counters, exact reservations, and what a step may do to a        *)
(* member's shortfall and to a refund under way.                           *)
(***************************************************************************)
EXTENDS RefundLedger, RefundPolicy_proofs

\* Rows that are in use name an order of the member.
Linked ==
  /\ \A a \in Attempts : attempts[a].state # "unused" => attempts[a].order \in Orders
  /\ \A c \in Cancellations : events[c].state # "absent" => events[c].order \in Orders
  /\ \A g \in Gens : gens[g].state # "none" => gens[g].lot \in Orders

\* The part of the inductive invariant that keeps every counter a natural
\* number: none of the four conjuncts is inductive without the others.
Core == TypeOK /\ Linked /\ ReservedIsOpenAttempt /\ LotBacksRefunds

---------------------------------------------------------------------------
(* Updates of one row.                                                     *)

\* One row of a table changes, the others stay.
LEMMA RowUpdate ==
  ASSUME NEW S, NEW T, NEW f \in [S -> T], NEW x \in S, NEW row \in T
  PROVE  /\ [f EXCEPT ![x] = row] \in [S -> T]
         /\ [f EXCEPT ![x] = row][x] = row
         /\ \A y \in S : y # x => [f EXCEPT ![x] = row][y] = f[y]
  OBVIOUS


---------------------------------------------------------------------------
(* Steps that leave some of the tables alone.                              *)

\* A step that moves no reservation and opens or ends no attempt keeps every
\* reservation exact.
LEMMA SameReservations ==
  ASSUME ReservedIsOpenAttempt,
         \A o \in Orders : lots'[o].reserved = lots[o].reserved,
         \A a \in Attempts : /\ attempts'[a].order = attempts[a].order
                             /\ attempts'[a].qty = attempts[a].qty
                             /\ attempts'[a].state \in OpenStates <=> attempts[a].state \in OpenStates
  PROVE  ReservedIsOpenAttempt'
  <1>1. \A o \in Orders : OpenAttempts(o)' = OpenAttempts(o)
    BY DEF OpenAttempts
  <1> QED BY <1>1 DEF ReservedIsOpenAttempt, OpenAttempts

---------------------------------------------------------------------------
(* Each action keeps the invariant.                                        *)

\* Before any payment every counter is zero and every row unused.
LEMMA CoreInit == Init => Core
  <1> SUFFICES ASSUME Init PROVE Core
    OBVIOUS
  <1> USE CatalogAssumption, NoneAssumption
  <1>1. TypeOK
    <2>1. orders \in [Orders -> OrderRow]
      BY DEF Init, OrderRow
    <2>2. lots \in [Orders -> LotRow]
      BY DEF Init, LotRow
    <2>3. attempts \in [Attempts -> AttemptRow]
      BY DEF Init, AttemptRow, UnusedAttempt
    <2>4. requests \in [Attempts -> RequestStates]
      BY DEF Init, RequestStates
    <2>5. events \in [Cancellations -> EventRow]
      BY DEF Init, EventRow, AbsentEvent
    <2>6. gens \in [Gens -> GenRow]
      BY DEF Init, GenRow
    <2>7. cache \in Int /\ openIssues \subseteq IssueRow
      BY DEF Init
    <2>8. deleted \in BOOLEAN
      BY DEF Init
    <2> QED BY <2>1, <2>2, <2>3, <2>4, <2>5, <2>6, <2>7, <2>8 DEF TypeOK
  <1>2. Linked
    BY DEF Init, Linked, UnusedAttempt, AbsentEvent
  <1>3. ReservedIsOpenAttempt
    BY DEF Init, ReservedIsOpenAttempt, OpenAttempts, UnusedAttempt, OpenStates
  <1>4. LotBacksRefunds
    BY DEF Init, LotBacksRefunds
  <1> QED BY <1>1, <1>2, <1>3, <1>4 DEF Core

\* The credits taken at once and the credits owed for an external
\* cancellation.
LEMMA ResolvedLot ==
  ASSUME Core, NEW o \in Orders, NEW econ \in Nat, ResolveFromLot(o, econ)
  PROVE  /\ lots' \in [Orders -> LotRow] /\ cache' \in Int
         /\ \A p \in Orders : /\ p # o => lots'[p] = lots[p]
                              /\ lots'[p].reserved = lots[p].reserved
         /\ lots'[o].consumed = lots[o].consumed
         /\ lots'[o].refunded + lots'[o].owed = lots[o].refunded + lots[o].owed + econ
         /\ lots'[o].consumed + lots'[o].refunded + lots'[o].reserved <= Credits[o]
  <1> DEFINE imm == Least(econ, Avail(o))
             back == lots[o].refunded + imm
             due == lots[o].owed + (econ - imm)
             lot == [lots[o] EXCEPT !.refunded = back, !.owed = due]
  <1>1. /\ lots[o] \in LotRow
        /\ lots[o].consumed \in Nat /\ lots[o].refunded \in Nat
        /\ lots[o].reserved \in Nat /\ lots[o].owed \in Nat
    BY DEF Core, TypeOK, LotRow
  <1>2. Avail(o) \in Nat
    BY <1>1, CatalogAssumption DEF Core, LotBacksRefunds, Avail
  <1>3. imm \in Nat /\ econ - imm \in Nat /\ imm <= Avail(o)
    BY <1>2 DEF Least
  <1>4. back \in Nat /\ due \in Nat
    BY <1>1, <1>3
  <1>5. lots' = [lots EXCEPT ![o] = lot]
    BY DEF ResolveFromLot
  <1>6. cache' \in Int
    BY <1>3 DEF ResolveFromLot, LiveCredit, Core, TypeOK
  <1>7. back + due = lots[o].refunded + lots[o].owed + econ
    BY <1>1, <1>3
  <1>8. lots[o].consumed + back + lots[o].reserved <= Credits[o]
    BY <1>1, <1>2, <1>3, CatalogAssumption DEF Avail
  <1> HIDE DEF back, due, imm
  <1>9. /\ lot \in LotRow
        /\ lot.consumed = lots[o].consumed /\ lot.reserved = lots[o].reserved
        /\ lot.refunded = back /\ lot.owed = due
    BY <1>1, <1>4 DEF LotRow
  <1> HIDE DEF lot
  <1>10. /\ lots' \in [Orders -> LotRow] /\ lots'[o] = lot
         /\ \A p \in Orders : p # o => lots'[p] = lots[p]
    BY <1>5, <1>9, RowUpdate DEF Core, TypeOK
  <1> QED BY <1>6, <1>7, <1>8, <1>9, <1>10

\* Resolving one external cancellation: the guards on credits and money are
\* what keeps the order within its price.
LEMMA ResolveExternalCore ==
  ASSUME Core, NEW c \in Cancellations, NEW econ \in Nat, ResolveExternalCancellation(c, econ)
  PROVE  Core'
  <1> DEFINE o == events[c].order
             n == orders[o].rc + econ
             m == orders[o].ra + events[c].amount
             row == [orders[o] EXCEPT !.rc = n, !.ra = m]
             ev == [events[c] EXCEPT !.state = "resolved", !.econ = econ]
  <1>1. o \in Orders
    BY DEF Core, Linked, ResolveExternalCancellation
  <1>2. ResolveFromLot(o, econ)
    BY DEF ResolveExternalCancellation
  <1>3. orders' = [orders EXCEPT ![o] = row] /\ events' = [events EXCEPT ![c] = ev]
    BY DEF ResolveExternalCancellation
  <1>4. UNCHANGED <<deleted, attempts, requests, gens>> /\ openIssues' \subseteq openIssues
    BY DEF ResolveExternalCancellation, ResolveFromLot
  <1>5. n \in Nat /\ m \in Nat /\ n <= Credits[o] /\ m <= Price[o]
    <2>1. econ <= Credits[o] - orders[o].rc /\ orders[o].ra + events[c].amount <= Price[o]
      BY DEF ResolveExternalCancellation
    <2>2. /\ orders[o].rc \in Nat /\ orders[o].ra \in Nat /\ events[c].amount \in Nat
          /\ Credits[o] \in Nat
      BY <1>1, CatalogAssumption DEF Core, TypeOK, OrderRow, EventRow
    <2> QED BY <2>1, <2>2
  <1> HIDE DEF n, m
  <1>6. row \in OrderRow /\ row.rc = n /\ row.ra = m
    BY <1>1, <1>5 DEF Core, TypeOK, OrderRow
  <1>7. ev \in EventRow /\ ev.order = o
    BY DEF Core, TypeOK, EventRow
  <1> HIDE DEF row, ev
  <1>8. /\ orders' \in [Orders -> OrderRow] /\ orders'[o] = row
        /\ \A p \in Orders : p # o => orders'[p] = orders[p]
    BY <1>1, <1>3, <1>6, RowUpdate DEF Core, TypeOK
  <1>9. /\ events' \in [Cancellations -> EventRow] /\ events'[c] = ev
        /\ \A d \in Cancellations : d # c => events'[d] = events[d]
    BY <1>3, <1>7, RowUpdate DEF Core, TypeOK
  <1>10. TypeOK'
    BY <1>1, <1>2, <1>4, <1>8, <1>9, ResolvedLot DEF Core, TypeOK
  <1>11. Linked'
    BY <1>1, <1>4, <1>7, <1>9 DEF Core, Linked
  <1>12. ReservedIsOpenAttempt'
    BY <1>1, <1>2, <1>4, ResolvedLot, SameReservations DEF Core
  <1>13. LotBacksRefunds'
    <2>1. lots'[o].refunded + lots'[o].owed <= orders'[o].rc
      <3>1. n = orders[o].rc + econ
        BY DEF n
      <3>2. lots[o].refunded + lots[o].owed <= orders[o].rc
        BY <1>1 DEF Core, LotBacksRefunds
      <3> QED BY <1>1, <1>2, <1>6, <1>8, <3>1, <3>2, ResolvedLot DEF Core, TypeOK, LotRow, OrderRow
    <2> QED BY <1>1, <1>2, <1>5, <1>6, <1>8, <2>1, ResolvedLot DEF Core, LotBacksRefunds
  <1> QED BY <1>10, <1>11, <1>12, <1>13 DEF Core

\* A refund attempt goes from one open state to another.
LEMMA MoveCore ==
  ASSUME Core, NEW a \in Attempts, NEW row \in AttemptRow,
         attempts[a].state \in OpenStates, row.state \in OpenStates,
         row.order = attempts[a].order, row.qty = attempts[a].qty,
         attempts' = [attempts EXCEPT ![a] = row],
         requests' \in [Attempts -> RequestStates],
         events' \in [Cancellations -> EventRow],
         \A c \in Cancellations : events'[c].state # "absent" => events'[c].order \in Orders,
         UNCHANGED <<deleted, cache, orders, lots, openIssues, gens>>
  PROVE  Core'
  <1>1. /\ attempts' \in [Attempts -> AttemptRow] /\ attempts'[a] = row
        /\ \A b \in Attempts : b # a => attempts'[b] = attempts[b]
    BY RowUpdate DEF Core, TypeOK
  <1>2. TypeOK'
    BY <1>1 DEF Core, TypeOK
  <1>3. Linked'
    BY <1>1 DEF Core, Linked, OpenStates
  <1>4. ReservedIsOpenAttempt'
    BY <1>1, SameReservations DEF Core
  <1>5. LotBacksRefunds'
    BY DEF Core, LotBacksRefunds
  <1> QED BY <1>2, <1>3, <1>4, <1>5 DEF Core

\* Recording that the provider is about to be asked.
LEMMA MarkPgRequestedCore ==
  ASSUME Core, NEW a \in Attempts, MarkPgRequested(a)
  PROVE  Core'
  <1> DEFINE row == [attempts[a] EXCEPT !.state = "pg_requested", !.pgAsked = TRUE]
  <1>1. row \in AttemptRow /\ row.state = "pg_requested"
        /\ row.order = attempts[a].order /\ row.qty = attempts[a].qty
    BY DEF Core, TypeOK, AttemptRow, OpenStates
  <1>2. attempts' = [attempts EXCEPT ![a] = row] /\ attempts[a].state = "prepared"
    BY DEF MarkPgRequested
  <1>3. requests' \in [Attempts -> RequestStates]
    BY DEF MarkPgRequested, Core, TypeOK, RequestStates
  <1>4. UNCHANGED <<deleted, cache, orders, lots, events, openIssues, gens>>
    BY DEF MarkPgRequested
  <1> HIDE DEF row
  <1> QED BY <1>1, <1>2, <1>3, <1>4, MoveCore DEF Core, TypeOK, Linked, OpenStates

\* A refund attempt ends and gives its reservation up.
LEMMA ReservationEnds ==
  ASSUME Core, NEW a \in Attempts, NEW row \in AttemptRow,
         attempts[a].state \in OpenStates, row.state \notin OpenStates,
         row.order = attempts[a].order,
         attempts' = [attempts EXCEPT ![a] = row],
         \A p \in Orders : p # row.order => lots'[p].reserved = lots[p].reserved,
         lots'[row.order].reserved = lots[row.order].reserved - attempts[a].qty
  PROVE  ReservedIsOpenAttempt'
  <1> DEFINE o == row.order
  <1>1. /\ attempts'[a] = row
        /\ \A b \in Attempts : b # a => attempts'[b] = attempts[b]
    BY RowUpdate DEF Core, TypeOK
  <1>2. o \in Orders /\ a \in OpenAttempts(o)
    BY DEF Core, Linked, OpenStates, OpenAttempts
  <1>3. OpenAttempts(o) = {a} /\ lots[o].reserved = attempts[a].qty
    BY <1>2 DEF Core, ReservedIsOpenAttempt
  <1>4. OpenAttempts(o)' = {}
    BY <1>1, <1>3 DEF OpenAttempts
  <1>5. lots'[o].reserved = 0
    BY <1>2, <1>3 DEF Core, TypeOK, LotRow
  <1>6. ASSUME NEW p \in Orders, p # o
        PROVE  OpenAttempts(p)' = OpenAttempts(p) /\ lots'[p].reserved = lots[p].reserved
    <2>1. a \notin OpenAttempts(p) /\ a \notin OpenAttempts(p)'
      BY <1>1, <1>6 DEF OpenAttempts
    <2> QED BY <1>1, <1>6, <2>1 DEF OpenAttempts
  <1>7. \A b \in Attempts : b # a => attempts'[b].qty = attempts[b].qty
    BY <1>1
  <1>8. ASSUME NEW p \in Orders, p # o
        PROVE  /\ OpenAttempts(p)' = {} => lots'[p].reserved = 0
               /\ \A b \in OpenAttempts(p)' : /\ lots'[p].reserved = attempts'[b].qty
                                              /\ OpenAttempts(p)' = {b}
    <2>1. a \notin OpenAttempts(p)
      BY <1>8 DEF OpenAttempts
    <2>2. \A b \in OpenAttempts(p) : b \in Attempts /\ b # a
      BY <2>1 DEF OpenAttempts
    <2> QED BY <1>6, <1>7, <1>8, <2>2 DEF Core, ReservedIsOpenAttempt
  <1> QED BY <1>4, <1>5, <1>8 DEF ReservedIsOpenAttempt

\* The four actions that release a reservation.
LEMMA ReleaseCore ==
  ASSUME Core, NEW a \in Attempts, NEW reason \in ReleaseReasons,
         attempts[a].state \in OpenStates, ApplyRelease(a, reason),
         requests' \in [Attempts -> RequestStates],
         events' \in [Cancellations -> EventRow],
         \A c \in Cancellations : events'[c].state # "absent" => events'[c].order \in Orders
  PROVE  Core'
  <1> DEFINE o == attempts[a].order
             held == lots[o].reserved - attempts[a].qty
             lot == [lots[o] EXCEPT !.reserved = held]
             row == [attempts[a] EXCEPT !.state = "released", !.release = reason]
  <1>1. o \in Orders /\ a \in OpenAttempts(o)
    BY DEF Core, Linked, OpenStates, OpenAttempts
  <1>2. /\ lots[o] \in LotRow /\ attempts[a] \in AttemptRow
        /\ lots[o].consumed \in Nat /\ lots[o].refunded \in Nat
        /\ lots[o].reserved \in Nat /\ attempts[a].qty \in Nat
    BY <1>1 DEF Core, TypeOK, LotRow, AttemptRow
  <1>3. held = 0
    BY <1>1, <1>2 DEF Core, ReservedIsOpenAttempt
  <1>4. /\ row \in AttemptRow /\ row.state = "released" /\ row.order = o
    BY <1>2 DEF AttemptRow
  <1>5. /\ lots' = [lots EXCEPT ![o] = lot] /\ attempts' = [attempts EXCEPT ![a] = row]
        /\ UNCHANGED <<deleted, orders, openIssues, gens>>
    BY DEF ApplyRelease
  <1>6. cache' \in Int
    BY <1>2 DEF ApplyRelease, LiveCredit, Core, TypeOK
  <1> HIDE DEF held, row
  <1>7. /\ lot \in LotRow /\ lot.reserved = held /\ lot.refunded = lots[o].refunded
        /\ lot.consumed = lots[o].consumed /\ lot.owed = lots[o].owed
    BY <1>2, <1>3 DEF LotRow
  <1> HIDE DEF lot
  <1>8. /\ lots' \in [Orders -> LotRow] /\ lots'[o] = lot
        /\ \A p \in Orders : p # o => lots'[p] = lots[p]
    BY <1>1, <1>5, <1>7, RowUpdate DEF Core, TypeOK
  <1>9. /\ attempts' \in [Attempts -> AttemptRow] /\ attempts'[a] = row
        /\ \A b \in Attempts : b # a => attempts'[b] = attempts[b]
    BY <1>4, <1>5, RowUpdate DEF Core, TypeOK
  <1>10. TypeOK'
    BY <1>5, <1>6, <1>8, <1>9 DEF Core, TypeOK
  <1>11. Linked'
    BY <1>1, <1>4, <1>5, <1>9 DEF Core, Linked
  <1>12. ReservedIsOpenAttempt'
    <2>1. row.state \notin OpenStates
      BY <1>4 DEF OpenStates
    <2>2. lots'[row.order].reserved = lots[row.order].reserved - attempts[a].qty
      BY <1>4, <1>7, <1>8 DEF held
    <2>3. row \in AttemptRow /\ row.order = attempts[a].order
      BY <1>4
    <2>4. attempts' = [attempts EXCEPT ![a] = row]
      BY <1>5
    <2>5. \A p \in Orders : p # row.order => lots'[p].reserved = lots[p].reserved
      BY <1>8, <2>3
    <2> QED BY <2>1, <2>2, <2>3, <2>4, <2>5, ReservationEnds
  <1>13. LotBacksRefunds'
    BY <1>1, <1>2, <1>3, <1>5, <1>7, <1>8, CatalogAssumption DEF Core, LotBacksRefunds, TypeOK, LotRow
  <1> QED BY <1>10, <1>11, <1>12, <1>13 DEF Core

\* Only the flags of an order change.
LEMMA OrderFlagsCore ==
  ASSUME Core, NEW o \in Orders, NEW row \in OrderRow,
         row.rc = orders[o].rc, row.ra = orders[o].ra,
         orders' = [orders EXCEPT ![o] = row],
         UNCHANGED <<deleted, cache, lots, attempts, requests, events, openIssues, gens>>
  PROVE  Core'
  <1>1. /\ orders' \in [Orders -> OrderRow] /\ orders'[o] = row
        /\ \A p \in Orders : p # o => orders'[p] = orders[p]
    BY RowUpdate DEF Core, TypeOK
  <1>2. TypeOK'
    BY <1>1 DEF Core, TypeOK
  <1>3. Linked'
    BY DEF Core, Linked
  <1>4. ReservedIsOpenAttempt'
    BY SameReservations DEF Core
  <1>5. LotBacksRefunds'
    BY <1>1 DEF Core, LotBacksRefunds
  <1> QED BY <1>2, <1>3, <1>4, <1>5 DEF Core

\* A payment ends, a payment is called off, a cancel intent is recorded.
LEMMA OrderActionsCore ==
  ASSUME Core, NEW o \in Orders, NEW rate \in Rates,
         MarkOrderFailed(o) \/ MarkOrderCanceledUnpaid(o) \/ CancelIntentBegin(o, rate)
  PROVE  Core'
  <1>1. orders[o] \in OrderRow
    BY DEF Core, TypeOK
  <1>2. CASE MarkOrderFailed(o)
    <2> DEFINE row == [orders[o] EXCEPT !.status = "failed"]
    <2>1. row \in OrderRow /\ row.rc = orders[o].rc /\ row.ra = orders[o].ra
      BY <1>1 DEF OrderRow
    <2> QED BY <1>2, <2>1, OrderFlagsCore DEF MarkOrderFailed
  <1>3. CASE MarkOrderCanceledUnpaid(o)
    <2> DEFINE row == [orders[o] EXCEPT !.status = "canceled"]
    <2>1. row \in OrderRow /\ row.rc = orders[o].rc /\ row.ra = orders[o].ra
      BY <1>1 DEF OrderRow
    <2> QED BY <1>3, <2>1, OrderFlagsCore DEF MarkOrderCanceledUnpaid
  <1>4. CASE CancelIntentBegin(o, rate)
    <2> DEFINE row == [orders[o] EXCEPT !.intent = rate]
    <2>1. row \in OrderRow /\ row.rc = orders[o].rc /\ row.ra = orders[o].ra
      BY <1>1 DEF OrderRow
    <2> QED BY <1>4, <2>1, OrderFlagsCore DEF CancelIntentBegin
  <1> QED BY <1>2, <1>3, <1>4

\* A payment opens the lot, live or quarantined.
LEMMA MarkPaidAndGrantCore ==
  ASSUME Core, NEW o \in Orders, MarkPaidAndGrant(o)
  PROVE  Core'
  <1> DEFINE grant == orders[o].status # "canceled" /\ ~deleted /\ orders[o].intent = None
             row == [orders[o] EXCEPT !.status = "paid", !.paid = TRUE]
             lot == [lots[o] EXCEPT !.granted = TRUE, !.live = grant]
  <1>1. /\ orders' = [orders EXCEPT ![o] = row] /\ lots' = [lots EXCEPT ![o] = lot]
        /\ UNCHANGED <<deleted, attempts, requests, events, gens>>
    BY DEF MarkPaidAndGrant
  <1>2. row \in OrderRow /\ row.rc = orders[o].rc /\ row.ra = orders[o].ra
    BY DEF Core, TypeOK, OrderRow
  <1>3. grant \in BOOLEAN
    OBVIOUS
  <1>4. cache' \in Int
    <2>1. cache' = cache \/ cache' = cache + Credits[o]
      BY DEF MarkPaidAndGrant
    <2>2. cache \in Int /\ Credits[o] \in Int
      BY CatalogAssumption DEF Core, TypeOK
    <2> QED BY <2>1, <2>2
  <1>5. openIssues' \subseteq IssueRow
    BY DEF MarkPaidAndGrant, LatePaid, IssueRow, Core, TypeOK
  <1> HIDE DEF grant, row
  <1>6. /\ lot \in LotRow /\ lot.reserved = lots[o].reserved /\ lot.consumed = lots[o].consumed
        /\ lot.refunded = lots[o].refunded /\ lot.owed = lots[o].owed
    BY <1>3 DEF Core, TypeOK, LotRow
  <1> HIDE DEF lot
  <1>7. /\ orders' \in [Orders -> OrderRow] /\ orders'[o] = row
        /\ \A p \in Orders : p # o => orders'[p] = orders[p]
    BY <1>1, <1>2, RowUpdate DEF Core, TypeOK
  <1>8. /\ lots' \in [Orders -> LotRow] /\ lots'[o] = lot
        /\ \A p \in Orders : p # o => lots'[p] = lots[p]
    BY <1>1, <1>6, RowUpdate DEF Core, TypeOK
  <1>9. TypeOK'
    BY <1>1, <1>4, <1>5, <1>7, <1>8 DEF Core, TypeOK
  <1>10. Linked'
    BY <1>1 DEF Core, Linked
  <1>11. ReservedIsOpenAttempt'
    BY <1>1, <1>6, <1>8, SameReservations DEF Core
  <1>12. LotBacksRefunds'
    BY <1>2, <1>6, <1>7, <1>8 DEF Core, LotBacksRefunds
  <1> QED BY <1>9, <1>10, <1>11, <1>12 DEF Core

\* A generation takes a credit the lot has.
LEMMA CreateGenerationCore ==
  ASSUME Core, NEW g \in Gens, NEW o \in Orders, CreateGeneration(g, o)
  PROVE  Core'
  <1> DEFINE used == lots[o].consumed + 1
             lot == [lots[o] EXCEPT !.consumed = used]
             gen == [state |-> "queued", lot |-> o]
  <1>1. /\ lots' = [lots EXCEPT ![o] = lot] /\ gens' = [gens EXCEPT ![g] = gen]
        /\ UNCHANGED <<deleted, orders, attempts, requests, events, openIssues>>
    BY DEF CreateGeneration
  <1>2. /\ lots[o] \in LotRow
        /\ lots[o].consumed \in Nat /\ lots[o].refunded \in Nat
        /\ lots[o].reserved \in Nat /\ lots[o].owed \in Nat /\ Credits[o] \in Nat
    BY CatalogAssumption DEF Core, TypeOK, LotRow
  <1>3. Avail(o) > 0
    BY DEF CreateGeneration, Consumable
  <1>4. used \in Nat /\ used + lots[o].refunded + lots[o].reserved <= Credits[o]
    BY <1>2, <1>3 DEF Avail
  <1>5. cache' \in Int
    BY DEF CreateGeneration, Core, TypeOK
  <1>6. gen \in GenRow /\ gen.lot = o
    BY DEF GenRow
  <1> HIDE DEF used, gen
  <1>7. /\ lot \in LotRow /\ lot.reserved = lots[o].reserved /\ lot.consumed = used
        /\ lot.refunded = lots[o].refunded /\ lot.owed = lots[o].owed
    BY <1>2, <1>4 DEF LotRow
  <1> HIDE DEF lot
  <1>8. /\ lots' \in [Orders -> LotRow] /\ lots'[o] = lot
        /\ \A p \in Orders : p # o => lots'[p] = lots[p]
    BY <1>1, <1>7, RowUpdate DEF Core, TypeOK
  <1>9. /\ gens' \in [Gens -> GenRow] /\ gens'[g] = gen
        /\ \A h \in Gens : h # g => gens'[h] = gens[h]
    BY <1>1, <1>6, RowUpdate DEF Core, TypeOK
  <1>10. TypeOK'
    BY <1>1, <1>5, <1>8, <1>9 DEF Core, TypeOK
  <1>11. Linked'
    BY <1>1, <1>6, <1>9 DEF Core, Linked
  <1>12. ReservedIsOpenAttempt'
    BY <1>1, <1>7, <1>8, SameReservations DEF Core
  <1>13. LotBacksRefunds'
    BY <1>1, <1>4, <1>7, <1>8 DEF Core, LotBacksRefunds
  <1> QED BY <1>10, <1>11, <1>12, <1>13 DEF Core

\* A finished generation moves no credit.
LEMMA CompleteGenerationCore ==
  ASSUME Core, NEW g \in Gens, CompleteGeneration(g)
  PROVE  Core'
  <1> DEFINE gen == [gens[g] EXCEPT !.state = "done"]
  <1>1. /\ gens' = [gens EXCEPT ![g] = gen] /\ gens[g].state = "queued"
        /\ UNCHANGED <<deleted, cache, orders, lots, attempts, requests, events, openIssues>>
    BY DEF CompleteGeneration
  <1>2. gen \in GenRow /\ gen.lot = gens[g].lot
    BY DEF Core, TypeOK, GenRow
  <1> HIDE DEF gen
  <1>3. /\ gens' \in [Gens -> GenRow] /\ gens'[g] = gen
        /\ \A h \in Gens : h # g => gens'[h] = gens[h]
    BY <1>1, <1>2, RowUpdate DEF Core, TypeOK
  <1>4. TypeOK'
    BY <1>1, <1>3 DEF Core, TypeOK
  <1>5. Linked'
    BY <1>1, <1>2, <1>3 DEF Core, Linked
  <1>6. ReservedIsOpenAttempt'
    BY <1>1, SameReservations DEF Core
  <1>7. LotBacksRefunds'
    BY <1>1 DEF Core, LotBacksRefunds
  <1> QED BY <1>4, <1>5, <1>6, <1>7 DEF Core

\* A failed generation gives its credit to the shortfall or back to the lot.
LEMMA FailGenerationCore ==
  ASSUME Core, NEW g \in Gens, FailGeneration(g)
  PROVE  Core'
  <1> DEFINE o == gens[g].lot
             used == lots[o].consumed - 1
             back == IF Absorbs(o) THEN lots[o].refunded + 1 ELSE lots[o].refunded
             due == IF Absorbs(o) THEN lots[o].owed - 1 ELSE lots[o].owed
             lot == IF Absorbs(o)
                      THEN [lots[o] EXCEPT !.consumed = lots[o].consumed - 1,
                                           !.refunded = lots[o].refunded + 1,
                                           !.owed = lots[o].owed - 1]
                      ELSE [lots[o] EXCEPT !.consumed = lots[o].consumed - 1]
             gen == [gens[g] EXCEPT !.state = "failed"]
  <1>1. /\ lots' = [lots EXCEPT ![o] = lot] /\ gens' = [gens EXCEPT ![g] = gen]
        /\ UNCHANGED <<deleted, orders, attempts, requests, events, openIssues>>
        /\ gens[g].state = "queued" /\ lots[o].consumed > 0
    BY DEF FailGeneration
  <1>2. o \in Orders
    BY <1>1 DEF Core, Linked
  <1>3. /\ lots[o] \in LotRow
        /\ lots[o].consumed \in Nat /\ lots[o].refunded \in Nat
        /\ lots[o].reserved \in Nat /\ lots[o].owed \in Nat
    BY <1>2 DEF Core, TypeOK, LotRow
  <1>4. used \in Nat /\ back \in Nat /\ due \in Nat /\ back + due = lots[o].refunded + lots[o].owed
        /\ used + back <= lots[o].consumed + lots[o].refunded
    BY <1>1, <1>3 DEF Absorbs
  <1>5. cache' \in Int
    BY DEF FailGeneration, LiveCredit, Core, TypeOK
  <1>6. gen \in GenRow /\ gen.lot = o
    BY DEF Core, TypeOK, GenRow
  <1>7. /\ lot \in LotRow /\ lot.reserved = lots[o].reserved /\ lot.consumed = used
        /\ lot.refunded = back /\ lot.owed = due
    <2>1. CASE Absorbs(o)
      <3>1. lot = [lots[o] EXCEPT !.consumed = used, !.refunded = back, !.owed = due]
        BY <2>1
      <3> HIDE DEF lot, used, back, due
      <3> QED BY <1>3, <1>4, <3>1 DEF LotRow
    <2>2. CASE ~Absorbs(o)
      <3>1. lot = [lots[o] EXCEPT !.consumed = used] /\ back = lots[o].refunded /\ due = lots[o].owed
        BY <2>2
      <3> HIDE DEF lot, used, back, due
      <3> QED BY <1>3, <1>4, <3>1 DEF LotRow
    <2> QED BY <2>1, <2>2
  <1> HIDE DEF lot, used, back, due, gen
  <1>8. /\ lots' \in [Orders -> LotRow] /\ lots'[o] = lot
        /\ \A p \in Orders : p # o => lots'[p] = lots[p]
    BY <1>1, <1>2, <1>7, RowUpdate DEF Core, TypeOK
  <1>9. /\ gens' \in [Gens -> GenRow] /\ gens'[g] = gen
         /\ \A h \in Gens : h # g => gens'[h] = gens[h]
    BY <1>1, <1>6, RowUpdate DEF Core, TypeOK
  <1>10. TypeOK'
    BY <1>1, <1>5, <1>8, <1>9 DEF Core, TypeOK
  <1>11. Linked'
    BY <1>1, <1>2, <1>6, <1>9 DEF Core, Linked
  <1>12. ReservedIsOpenAttempt'
    BY <1>1, <1>7, <1>8, SameReservations DEF Core
  <1>13. LotBacksRefunds'
    <2>1. /\ lots[o].refunded + lots[o].owed <= orders[o].rc
          /\ lots[o].consumed + lots[o].refunded + lots[o].reserved <= Credits[o]
          /\ Credits[o] \in Nat /\ orders[o].rc \in Nat
      BY <1>2, CatalogAssumption DEF Core, LotBacksRefunds, TypeOK, OrderRow
    <2>2. used + back + lots[o].reserved <= Credits[o]
      BY <1>3, <1>4, <2>1
    <2> QED BY <1>1, <1>4, <1>7, <1>8, <2>1, <2>2 DEF Core, LotBacksRefunds
  <1> QED BY <1>10, <1>11, <1>12, <1>13 DEF Core

\* Beginning a refund reserves what is available, when nothing is reserved.
LEMMA ReserveCore ==
  ASSUME Core, NEW a \in Attempts, NEW o \in Orders, NEW qty \in Nat, NEW rate \in Rates,
         NEW rail \in {"portone_cancel", "manual_transfer"},
         NEW origin \in {"admin_manual", "cancel_intent"},
         Reserve(a, o, qty, rate, rail, origin)
  PROVE  Core'
  <1> DEFINE amount == RefundAmount(Price[o], Credits[o], qty, rate, Price[o] - orders[o].ra)
             row == [UnusedAttempt EXCEPT !.state = "prepared", !.order = o, !.qty = qty,
                       !.amount = amount, !.rail = rail, !.origin = origin]
             held == lots[o].reserved + qty
             lot == [lots[o] EXCEPT !.reserved = held]
  <1>1. /\ attempts' = [attempts EXCEPT ![a] = row]
        /\ lots' = [lots EXCEPT ![o] = lot]
        /\ requests' = [requests EXCEPT ![a] = "prepared"]
        /\ UNCHANGED <<deleted, orders, events, openIssues, gens>>
    BY DEF Reserve
  <1>2. /\ attempts[a].state = "unused" /\ OpenAttempts(o) = {}
        /\ qty <= Avail(o) /\ Price[o] - orders[o].ra > 0
    BY DEF Reserve, Refundable
  <1>3. /\ lots[o] \in LotRow
        /\ lots[o].consumed \in Nat /\ lots[o].refunded \in Nat
        /\ lots[o].reserved \in Nat /\ lots[o].owed \in Nat
        /\ Credits[o] \in Nat \ {0} /\ Price[o] \in Nat /\ orders[o].ra \in Nat
    BY CatalogAssumption DEF Core, TypeOK, LotRow, OrderRow
  <1>4. Price[o] - orders[o].ra \in Nat
    BY <1>2, <1>3
  <1>5. rate \in Nat
    BY RatesAreNat
  <1>6. amount \in Nat
    BY <1>3, <1>4, <1>5, RefundAmountBound
  <1>7. cache' \in Int
    BY DEF Reserve, LiveCredit, Core, TypeOK
  <1>8. requests' \in [Attempts -> RequestStates]
    BY <1>1 DEF Core, TypeOK, RequestStates
  <1>9. lots[o].reserved = 0 /\ held = qty
    BY <1>2, <1>3 DEF Core, ReservedIsOpenAttempt
  <1>10. lots[o].consumed + lots[o].refunded + held <= Credits[o]
    BY <1>2, <1>3, <1>9 DEF Avail
  <1> HIDE DEF amount, held
  <1>11. row \in AttemptRow /\ row.state = "prepared" /\ row.order = o /\ row.qty = qty
    BY <1>6 DEF AttemptRow, UnusedAttempt, OpenStates
  <1>12. /\ lot \in LotRow /\ lot.reserved = held /\ lot.consumed = lots[o].consumed
         /\ lot.refunded = lots[o].refunded /\ lot.owed = lots[o].owed
    BY <1>3, <1>9 DEF LotRow
  <1> HIDE DEF row, lot
  <1>13. /\ lots' \in [Orders -> LotRow] /\ lots'[o] = lot
         /\ \A p \in Orders : p # o => lots'[p] = lots[p]
    BY <1>1, <1>12, RowUpdate DEF Core, TypeOK
  <1>14. /\ attempts' \in [Attempts -> AttemptRow] /\ attempts'[a] = row
         /\ \A b \in Attempts : b # a => attempts'[b] = attempts[b]
    BY <1>1, <1>11, RowUpdate DEF Core, TypeOK
  <1>15. TypeOK'
    BY <1>1, <1>7, <1>8, <1>13, <1>14 DEF Core, TypeOK
  <1>16. Linked'
    BY <1>1, <1>11, <1>14 DEF Core, Linked
  <1>17. ReservedIsOpenAttempt'
    <2>1. OpenAttempts(o)' = {a}
      BY <1>2, <1>11, <1>14 DEF OpenAttempts, OpenStates
    <2>2. ASSUME NEW p \in Orders, p # o
          PROVE  OpenAttempts(p)' = OpenAttempts(p) /\ a \notin OpenAttempts(p)
      BY <1>2, <1>11, <1>14, <2>2 DEF OpenAttempts, OpenStates
    <2>3. \A b \in Attempts : b # a => attempts'[b].qty = attempts[b].qty
      BY <1>14
    <2>4. ASSUME NEW p \in Orders, p # o
          PROVE  /\ OpenAttempts(p)' = {} => lots'[p].reserved = 0
                 /\ \A b \in OpenAttempts(p)' : /\ lots'[p].reserved = attempts'[b].qty
                                                /\ OpenAttempts(p)' = {b}
      <3>1. \A b \in OpenAttempts(p) : b \in Attempts /\ b # a
        BY <2>2, <2>4 DEF OpenAttempts
      <3> QED BY <1>13, <2>2, <2>3, <2>4, <3>1 DEF Core, ReservedIsOpenAttempt
    <2>5. lots'[o].reserved = attempts'[a].qty
      BY <1>9, <1>11, <1>12, <1>13, <1>14
    <2> QED BY <2>1, <2>4, <2>5 DEF ReservedIsOpenAttempt
  <1>18. LotBacksRefunds'
    BY <1>1, <1>10, <1>12, <1>13 DEF Core, LotBacksRefunds
  <1> QED BY <1>15, <1>16, <1>17, <1>18 DEF Core

\* The three parts of a closure are natural numbers that add up to no more
\* than the closure, and the lot has what is recovered from it.
LEMMA ClosureParts ==
  ASSUME Core, NEW a \in Attempts, attempts[a].order \in Orders,
         orders[attempts[a].order].rc + attempts[a].qty <= Credits[attempts[a].order]
  PROVE  /\ Closure(a) \in Nat /\ Recovered(a) \in Nat /\ NewShortfall(a) \in Nat
         /\ Recovered(a) + NewShortfall(a) <= Closure(a)
         /\ Recovered(a) <= Avail(attempts[a].order)
         /\ orders[attempts[a].order].rc + attempts[a].qty + Closure(a)
              <= Credits[attempts[a].order]
  <1> DEFINE o == attempts[a].order
  <1>1. /\ lots[o].consumed \in Nat /\ lots[o].refunded \in Nat
        /\ lots[o].reserved \in Nat /\ lots[o].owed \in Nat
        /\ Credits[o] \in Nat /\ orders[o].rc \in Nat /\ attempts[a].qty \in Nat
    BY CatalogAssumption DEF Core, TypeOK, LotRow, OrderRow, AttemptRow
  <1>2. Avail(o) \in Nat
    BY <1>1 DEF Avail, Core, LotBacksRefunds
  <1>3. Closure(a) \in Nat /\ orders[o].rc + attempts[a].qty + Closure(a) <= Credits[o]
    BY <1>1 DEF Closure
  <1>4. /\ Recovered(a) \in Nat /\ Recovered(a) <= Closure(a) /\ Recovered(a) <= Avail(o)
    BY <1>2, <1>3 DEF Recovered, Least
  <1>5. NewShortfall(a) \in Nat /\ NewShortfall(a) <= Closure(a) - Recovered(a)
    BY <1>1, <1>3, <1>4 DEF NewShortfall, Least
  <1> QED BY <1>3, <1>4, <1>5

\* A commit turns the reservation into a refund and closes the order if the
\* last won is paid.
LEMMA CommitCore ==
  ASSUME Core, NEW a \in Attempts, attempts[a].state \in OpenStates, ApplyCommit(a),
         requests' \in [Attempts -> RequestStates]
  PROVE  Core'
  <1> DEFINE o == attempts[a].order
             qty == attempts[a].qty
             n == orders[o].rc + qty + Closure(a)
             m == orders[o].ra + attempts[a].amount
             held == lots[o].reserved - qty
             back == lots[o].refunded + qty + Recovered(a)
             due == lots[o].owed + NewShortfall(a)
             row == [attempts[a] EXCEPT !.state = "committed", !.closure = Closure(a)]
             ord == [orders[o] EXCEPT !.rc = n, !.ra = m]
             lot == [lots[o] EXCEPT !.reserved = held, !.refunded = back, !.owed = due]
  <1>1. o \in Orders /\ a \in OpenAttempts(o)
    BY DEF Core, Linked, OpenStates, OpenAttempts
  <1>2. /\ attempts' = [attempts EXCEPT ![a] = row]
        /\ orders' = [orders EXCEPT ![o] = ord]
        /\ lots' = [lots EXCEPT ![o] = lot]
        /\ UNCHANGED <<deleted, events, openIssues, gens>>
    BY DEF ApplyCommit
  <1>3. orders[o].rc + qty <= Credits[o] /\ m <= Price[o]
    BY DEF ApplyCommit, CommitAdmissible
  <1>4. /\ lots[o] \in LotRow /\ orders[o] \in OrderRow /\ attempts[a] \in AttemptRow
        /\ lots[o].consumed \in Nat /\ lots[o].refunded \in Nat
        /\ lots[o].reserved \in Nat /\ lots[o].owed \in Nat
        /\ Credits[o] \in Nat /\ orders[o].rc \in Nat /\ orders[o].ra \in Nat
        /\ qty \in Nat /\ attempts[a].amount \in Nat
    BY <1>1, CatalogAssumption DEF Core, TypeOK, LotRow, OrderRow, AttemptRow
  <1>5. /\ Closure(a) \in Nat /\ Recovered(a) \in Nat /\ NewShortfall(a) \in Nat
        /\ Recovered(a) + NewShortfall(a) <= Closure(a)
        /\ Recovered(a) <= Avail(o) /\ n <= Credits[o]
    BY <1>1, <1>3, ClosureParts
  <1>6. lots[o].reserved = qty
    BY <1>1 DEF Core, ReservedIsOpenAttempt
  <1>7. n \in Nat /\ m \in Nat /\ held = 0 /\ back \in Nat /\ due \in Nat
    BY <1>4, <1>5, <1>6
  <1>8. /\ back + due <= n
        /\ lots[o].consumed + back + held <= Credits[o]
    <2>1. lots[o].refunded + lots[o].owed <= orders[o].rc
      BY <1>1 DEF Core, LotBacksRefunds
    <2> QED BY <1>4, <1>5, <1>6, <2>1 DEF Avail
  <1>9. cache' \in Int
    BY <1>5 DEF ApplyCommit, LiveCredit, Core, TypeOK
  <1>10. row \in AttemptRow /\ row.state = "committed" /\ row.order = o
    BY <1>4, <1>5 DEF AttemptRow
  <1> HIDE DEF n, m, held, back, due, row
  <1>11. ord \in OrderRow /\ ord.rc = n /\ ord.ra = m
    BY <1>4, <1>7 DEF OrderRow
  <1>12. /\ lot \in LotRow /\ lot.reserved = held /\ lot.refunded = back /\ lot.owed = due
         /\ lot.consumed = lots[o].consumed
    BY <1>4, <1>7 DEF LotRow
  <1> HIDE DEF ord, lot
  <1>13. /\ attempts' \in [Attempts -> AttemptRow] /\ attempts'[a] = row
         /\ \A b \in Attempts : b # a => attempts'[b] = attempts[b]
    BY <1>2, <1>10, RowUpdate DEF Core, TypeOK
  <1>14. /\ orders' \in [Orders -> OrderRow] /\ orders'[o] = ord
         /\ \A p \in Orders : p # o => orders'[p] = orders[p]
    BY <1>1, <1>2, <1>11, RowUpdate DEF Core, TypeOK
  <1>15. /\ lots' \in [Orders -> LotRow] /\ lots'[o] = lot
         /\ \A p \in Orders : p # o => lots'[p] = lots[p]
    BY <1>1, <1>2, <1>12, RowUpdate DEF Core, TypeOK
  <1>16. TypeOK'
    BY <1>2, <1>9, <1>13, <1>14, <1>15 DEF Core, TypeOK
  <1>17. Linked'
    BY <1>1, <1>2, <1>10, <1>13 DEF Core, Linked
  <1>18. ReservedIsOpenAttempt'
    <2>1. row.state \notin OpenStates
      BY <1>10 DEF OpenStates
    <2>2. lots'[row.order].reserved = lots[row.order].reserved - attempts[a].qty
      BY <1>10, <1>12, <1>15 DEF held
    <2>3. row \in AttemptRow /\ row.order = attempts[a].order
      BY <1>2, <1>10
    <2>4. attempts' = [attempts EXCEPT ![a] = row]
      BY <1>2
    <2>5. \A p \in Orders : p # row.order => lots'[p].reserved = lots[p].reserved
      BY <1>10, <1>15
    <2> QED BY <2>1, <2>2, <2>3, <2>4, <2>5, ReservationEnds
  <1>19. LotBacksRefunds'
    BY <1>1, <1>3, <1>5, <1>8, <1>11, <1>12, <1>14, <1>15 DEF Core, LotBacksRefunds, m
  <1> QED BY <1>16, <1>17, <1>18, <1>19 DEF Core

\* Closing failed cancellations leaves rows of the table, with their orders.
LEMMA IgnoreFailedEventsTyped ==
  ASSUME Core, NEW o
  PROVE  /\ IgnoreFailedEvents(o) \in [Cancellations -> EventRow]
         /\ \A c \in Cancellations :
              IgnoreFailedEvents(o)[c].state # "absent" => IgnoreFailedEvents(o)[c].order \in Orders
  <1>1. ASSUME NEW c \in Cancellations
        PROVE  /\ [events[c] EXCEPT !.state = "ignored"] \in EventRow
               /\ [events[c] EXCEPT !.state = "ignored"].order = events[c].order
    BY DEF Core, TypeOK, EventRow
  <1>2. \A c \in Cancellations : events[c] \in EventRow
    BY DEF Core, TypeOK
  <1>3. ASSUME NEW c \in Cancellations
        PROVE  IgnoreFailedEvents(o)[c] = events[c]
                \/ /\ events[c].state = "unmatched"
                   /\ IgnoreFailedEvents(o)[c] = [events[c] EXCEPT !.state = "ignored"]
    BY DEF IgnoreFailedEvents
  <1>4. IgnoreFailedEvents(o) \in [Cancellations -> EventRow]
    BY <1>1, <1>2 DEF IgnoreFailedEvents
  <1> QED BY <1>1, <1>3, <1>4 DEF Core, Linked

\* The states a request is given are states of a request.
LEMMA DerivedStateTyped ==
  ASSUME NEW row \in AttemptRow
  PROVE  DerivedState(row) \in RequestStates
  BY DEF DerivedState, RequestStates

\* What the provider answered is recorded, or the transfer made by hand.
LEMMA ProviderStepsCore ==
  ASSUME Core, NEW a \in Attempts,
         \/ RecordPgPending(a) \/ RecordPgFailed(a) \/ SwitchToManual(a)
         \/ \E c \in Cancellations : RecordPgSucceeded(a, c)
  PROVE  Core'
  <1>1. CASE RecordPgPending(a)
    <2> DEFINE row == [attempts[a] EXCEPT !.state = "pg_pending"]
    <2>1. row \in AttemptRow /\ row.state = "pg_pending"
          /\ row.order = attempts[a].order /\ row.qty = attempts[a].qty
      BY DEF Core, TypeOK, AttemptRow, OpenStates
    <2>2. /\ attempts' = [attempts EXCEPT ![a] = row] /\ attempts[a].state = "pg_requested"
          /\ UNCHANGED <<deleted, cache, orders, lots, requests, events, openIssues, gens>>
      BY <1>1 DEF RecordPgPending
    <2> HIDE DEF row
    <2> QED BY <2>1, <2>2, MoveCore DEF Core, TypeOK, Linked, OpenStates
  <1>2. ASSUME NEW c \in Cancellations, RecordPgSucceeded(a, c)
        PROVE  Core'
    <2> DEFINE row == [attempts[a] EXCEPT !.state = "pg_succeeded", !.cancel = c]
               ev == [state |-> "matched", order |-> attempts[a].order, status |-> "SUCCEEDED",
                      amount |-> attempts[a].amount, marker |-> a, matched |-> a, econ |-> 0]
    <2>1. row \in AttemptRow /\ row.state = "pg_succeeded"
          /\ row.order = attempts[a].order /\ row.qty = attempts[a].qty
      BY DEF Core, TypeOK, AttemptRow, OpenStates
    <2>2. /\ attempts' = [attempts EXCEPT ![a] = row]
          /\ attempts[a].state \in {"pg_requested", "pg_pending"}
          /\ events' = [events EXCEPT ![c] = ev]
          /\ UNCHANGED <<deleted, cache, orders, lots, requests, openIssues, gens>>
      BY <1>2 DEF RecordPgSucceeded
    <2>3. attempts[a].order \in Orders
      BY <2>2 DEF Core, Linked
    <2>4. ev \in EventRow /\ ev.order \in Orders
      BY <2>3 DEF EventRow, Core, TypeOK, AttemptRow
    <2> HIDE DEF row, ev
    <2>5. /\ events' \in [Cancellations -> EventRow] /\ events'[c] = ev
          /\ \A d \in Cancellations : d # c => events'[d] = events[d]
      BY <2>2, <2>4, RowUpdate DEF Core, TypeOK
    <2>6. \A d \in Cancellations : events'[d].state # "absent" => events'[d].order \in Orders
      BY <2>4, <2>5 DEF Core, Linked
    <2> QED BY <2>1, <2>2, <2>5, <2>6, MoveCore DEF Core, TypeOK, OpenStates
  <1>3. CASE RecordPgFailed(a)
    <2> DEFINE row == [attempts[a] EXCEPT !.state = "manual_review"]
    <2>1. row \in AttemptRow /\ row.state = "manual_review"
          /\ row.order = attempts[a].order /\ row.qty = attempts[a].qty
      BY DEF Core, TypeOK, AttemptRow, OpenStates
    <2>2. /\ attempts' = [attempts EXCEPT ![a] = row]
          /\ attempts[a].state \in {"pg_requested", "pg_pending"}
          /\ requests' = [requests EXCEPT ![a] = "blocked"]
          /\ UNCHANGED <<deleted, cache, orders, lots, events, openIssues, gens>>
      BY <1>3 DEF RecordPgFailed
    <2> HIDE DEF row
    <2>3. requests' \in [Attempts -> RequestStates]
      BY <2>2 DEF Core, TypeOK, RequestStates
    <2> QED BY <2>1, <2>2, <2>3, MoveCore DEF Core, TypeOK, Linked, OpenStates
  <1>4. CASE SwitchToManual(a)
    <2> DEFINE row == [attempts[a] EXCEPT !.state = "manual_pending", !.rail = "manual_transfer"]
    <2>1. row \in AttemptRow /\ row.state = "manual_pending"
          /\ row.order = attempts[a].order /\ row.qty = attempts[a].qty
      BY DEF Core, TypeOK, AttemptRow, OpenStates
    <2>2. /\ attempts' = [attempts EXCEPT ![a] = row]
          /\ attempts[a].state \in {"prepared", "pg_requested", "pg_pending", "manual_review"}
          /\ requests' = [requests EXCEPT ![a] = DerivedState(attempts'[a])]
          /\ events' = IgnoreFailedEvents(attempts[a].order)
          /\ UNCHANGED <<deleted, cache, orders, lots, openIssues, gens>>
      BY <1>4 DEF SwitchToManual, Switchable
    <2> HIDE DEF row
    <2>3. attempts'[a] = row
      BY <2>1, <2>2, RowUpdate DEF Core, TypeOK
    <2>4. requests' \in [Attempts -> RequestStates]
      BY <2>1, <2>2, <2>3, DerivedStateTyped DEF Core, TypeOK
    <2> QED BY <2>1, <2>2, <2>4, IgnoreFailedEventsTyped, MoveCore DEF OpenStates
  <1> QED BY <1>1, <1>2, <1>3, <1>4

\* The three ways to give a reservation back.
LEMMA ReleasesCore ==
  ASSUME Core, NEW a \in Attempts, NEW external \in BOOLEAN,
         AdminRefundRelease(a) \/ ReplanPrePg(a, external) \/ ReplanAfterPg(a)
  PROVE  Core'
  <1>1. ASSUME NEW reason \in ReleaseReasons, ApplyRelease(a, reason)
        PROVE  requests' \in [Attempts -> RequestStates]
    <2> DEFINE row == [attempts[a] EXCEPT !.state = "released", !.release = reason]
    <2>1. row \in AttemptRow
      BY DEF Core, TypeOK, AttemptRow
    <2>2. /\ attempts' = [attempts EXCEPT ![a] = row]
          /\ requests' = [requests EXCEPT ![a] = DerivedState(attempts'[a])]
      BY <1>1 DEF ApplyRelease
    <2> HIDE DEF row
    <2>3. attempts'[a] = row
      BY <2>1, <2>2, RowUpdate DEF Core, TypeOK
    <2> QED BY <2>1, <2>2, <2>3, DerivedStateTyped DEF Core, TypeOK
  <1>2. CASE AdminRefundRelease(a)
    <2>1. /\ attempts[a].state \in OpenStates /\ events' = events
          /\ ApplyRelease(a, "admin_cancelled_before_pg")
      BY <1>2 DEF AdminRefundRelease, OpenStates
    <2>2. "admin_cancelled_before_pg" \in ReleaseReasons
      BY DEF ReleaseReasons
    <2> QED BY <1>1, <2>1, <2>2, ReleaseCore DEF Core, TypeOK, Linked
  <1>3. CASE ReplanPrePg(a, external)
    <2> DEFINE reason == IF external THEN "replanned_before_pg_external" ELSE "replanned_before_pg"
    <2>1. /\ attempts[a].state \in OpenStates /\ events' = events
          /\ ApplyRelease(a, reason)
      BY <1>3 DEF ReplanPrePg, OpenStates
    <2>2. reason \in ReleaseReasons
      BY DEF ReleaseReasons
    <2> HIDE DEF reason
    <2> QED BY <1>1, <2>1, <2>2, ReleaseCore DEF Core, TypeOK, Linked
  <1>4. CASE ReplanAfterPg(a)
    <2>1. /\ attempts[a].state \in OpenStates
          /\ events' = IgnoreFailedEvents(attempts[a].order)
          /\ ApplyRelease(a, "replanned_after_pg_reconciliation")
      BY <1>4 DEF ReplanAfterPg, OpenStates
    <2>2. "replanned_after_pg_reconciliation" \in ReleaseReasons
      BY DEF ReleaseReasons
    <2> QED BY <1>1, <2>1, <2>2, ReleaseCore, IgnoreFailedEventsTyped
  <1> QED BY <1>2, <1>3, <1>4

\* Both commits, after the provider and after a manual transfer.
LEMMA CommitsCore ==
  ASSUME Core, NEW a \in Attempts, AdminRefundCommit(a) \/ AdminRefundCommitManual(a)
  PROVE  Core'
  <1> DEFINE row == [attempts[a] EXCEPT !.state = "committed", !.closure = Closure(a)]
  <1>1. attempts[a].state \in OpenStates /\ ApplyCommit(a)
    BY DEF AdminRefundCommit, AdminRefundCommitManual, OpenStates
  <1>2. attempts[a].order \in Orders
    BY <1>1 DEF Core, Linked, OpenStates
  <1>3. Closure(a) \in Nat
    BY <1>1, <1>2, ClosureParts DEF ApplyCommit, CommitAdmissible
  <1>4. row \in AttemptRow
    BY <1>3 DEF Core, TypeOK, AttemptRow
  <1>5. /\ attempts' = [attempts EXCEPT ![a] = row]
        /\ requests' = [requests EXCEPT ![a] = DerivedState(attempts'[a])]
    BY <1>1 DEF ApplyCommit
  <1> HIDE DEF row
  <1>6. attempts'[a] = row
    BY <1>4, <1>5, RowUpdate DEF Core, TypeOK
  <1>7. requests' \in [Attempts -> RequestStates]
    BY <1>4, <1>5, <1>6, DerivedStateTyped DEF Core, TypeOK
  <1> QED BY <1>1, <1>7, CommitCore

\* A step that touches only cancellations and issues.
LEMMA EventsCore ==
  ASSUME Core,
         events' \in [Cancellations -> EventRow],
         \A c \in Cancellations : events'[c].state # "absent" => events'[c].order \in Orders,
         openIssues' \subseteq IssueRow,
         UNCHANGED <<deleted, cache, orders, lots, attempts, requests, gens>>
  PROVE  Core'
  <1>1. TypeOK'
    BY DEF Core, TypeOK
  <1>2. Linked'
    BY DEF Core, Linked
  <1>3. ReservedIsOpenAttempt'
    BY SameReservations DEF Core
  <1>4. LotBacksRefunds'
    BY DEF Core, LotBacksRefunds
  <1> QED BY <1>1, <1>2, <1>3, <1>4 DEF Core

\* A cancellation is observed for the first time.
LEMMA RecordCancellationCore ==
  ASSUME Core, NEW c \in Cancellations, NEW o \in Orders, NEW status \in {"SUCCEEDED", "FAILED"},
         NEW amount \in Nat, NEW marker \in Attempts \cup {None},
         RecordCancellation(c, o, status, amount, marker)
  PROVE  Core'
  <1> DEFINE ev == [AbsentEvent EXCEPT !.state = "unmatched", !.order = o, !.status = status,
                                       !.amount = amount, !.marker = marker]
  <1>1. ev \in EventRow /\ ev.order = o
    BY DEF EventRow, AbsentEvent
  <1>2. /\ events' = [events EXCEPT ![c] = ev]
        /\ UNCHANGED <<deleted, cache, orders, lots, attempts, requests, gens>>
    BY DEF RecordCancellation
  <1>3. UnmatchedIssue(o, c) \in IssueRow
    BY DEF UnmatchedIssue, IssueRow
  <1>4. openIssues' \subseteq IssueRow
    BY <1>3 DEF RecordCancellation, Core, TypeOK
  <1> HIDE DEF ev
  <1>5. /\ events' \in [Cancellations -> EventRow] /\ events'[c] = ev
        /\ \A d \in Cancellations : d # c => events'[d] = events[d]
    BY <1>1, <1>2, RowUpdate DEF Core, TypeOK
  <1>6. \A d \in Cancellations : events'[d].state # "absent" => events'[d].order \in Orders
    BY <1>1, <1>5 DEF Core, Linked
  <1> QED BY <1>2, <1>4, <1>5, <1>6, EventsCore

\* An issue about a cancellation is closed.
LEMMA IssuesCore ==
  ASSUME Core, NEW i \in openIssues, CloseEventIssue(i) \/ IgnoreFailedEventIssue(i)
  PROVE  Core'
  <1>1. CASE CloseEventIssue(i)
    BY <1>1, EventsCore DEF CloseEventIssue, Core, TypeOK, Linked
  <1>2. CASE IgnoreFailedEventIssue(i)
    <2> DEFINE ev == [events[i.cancel] EXCEPT !.state = "ignored"]
    <2>1. /\ events' = [events EXCEPT ![i.cancel] = ev] /\ openIssues' \subseteq openIssues
          /\ UNCHANGED <<deleted, cache, orders, lots, attempts, requests, gens>>
      BY <1>2 DEF IgnoreFailedEventIssue
    <2>2. CASE i.cancel \in Cancellations
      <3>1. ev \in EventRow /\ ev.order = events[i.cancel].order
        BY <2>2 DEF Core, TypeOK, EventRow
      <3> HIDE DEF ev
      <3>2. /\ events' \in [Cancellations -> EventRow] /\ events'[i.cancel] = ev
            /\ \A d \in Cancellations : d # i.cancel => events'[d] = events[d]
        BY <2>1, <2>2, <3>1, RowUpdate DEF Core, TypeOK
      <3>3. events[i.cancel].state # "absent"
        BY <1>2 DEF IgnoreFailedEventIssue
      <3>4. \A d \in Cancellations : events'[d].state # "absent" => events'[d].order \in Orders
        BY <2>2, <3>1, <3>2, <3>3 DEF Core, Linked
      <3> QED BY <2>1, <3>2, <3>4, EventsCore DEF Core, TypeOK
    <2>3. CASE i.cancel \notin Cancellations
      <3>1. events' = events
        BY <2>1, <2>3 DEF Core, TypeOK
      <3> QED BY <2>1, <3>1, EventsCore DEF Core, TypeOK, Linked
    <2> QED BY <2>2, <2>3
  <1> QED BY <1>1, <1>2

\* A full external cancellation uses up the order's credits and its price.
LEMMA ResolveAutoFullCore ==
  ASSUME Core, NEW o \in Orders, ResolveAutoFull(o)
  PROVE  Core'
  <1> DEFINE amount == [c \in EventsOf(o) |-> events[c].amount]
             share == Allocation(amount, Price[o], Credits[o])
             row == [orders[o] EXCEPT !.rc = Credits[o], !.ra = Price[o], !.status = "canceled"]
             ev(c) == [events[c] EXCEPT !.state = "resolved", !.econ = share[c]]
  <1>1. /\ orders' = [orders EXCEPT ![o] = row]
        /\ events' = [c \in Cancellations |-> IF c \in EventsOf(o) THEN ev(c) ELSE events[c]]
        /\ ResolveFromLot(o, Credits[o])
        /\ openIssues' \subseteq openIssues
        /\ orders[o].rc = 0
    BY DEF ResolveAutoFull, AutoFullEligible
  <1>2. UNCHANGED <<deleted, attempts, requests, gens>>
    BY <1>1 DEF ResolveFromLot
  <1>3. Credits[o] \in Nat \ {0} /\ Price[o] \in Nat \ {0}
    BY CatalogAssumption
  <1>4. amount \in [EventsOf(o) -> Nat]
    BY DEF Core, TypeOK, EventRow, EventsOf
  <1> HIDE DEF amount
  <1>5. \A c \in EventsOf(o) : share[c] \in Nat
    BY <1>3, <1>4, ShareNat
  <1> HIDE DEF share
  <1>6. \A c \in EventsOf(o) : c \in Cancellations /\ ev(c) \in EventRow /\ ev(c).order = o
    BY <1>5 DEF Core, TypeOK, EventRow, EventsOf
  <1>7. row \in OrderRow /\ row.rc = Credits[o] /\ row.ra = Price[o]
    BY <1>3 DEF Core, TypeOK, OrderRow
  <1> HIDE DEF row, ev
  <1>8. /\ orders' \in [Orders -> OrderRow] /\ orders'[o] = row
        /\ \A p \in Orders : p # o => orders'[p] = orders[p]
    BY <1>1, <1>7, RowUpdate DEF Core, TypeOK
  <1>9. events' \in [Cancellations -> EventRow]
    BY <1>1, <1>6 DEF Core, TypeOK
  <1>10. \A c \in Cancellations : events'[c].state # "absent" => events'[c].order \in Orders
    BY <1>1, <1>6 DEF Core, Linked
  <1>11. TypeOK'
    BY <1>1, <1>2, <1>3, <1>8, <1>9, ResolvedLot DEF Core, TypeOK
  <1>12. Linked'
    BY <1>2, <1>10 DEF Core, Linked
  <1>13. ReservedIsOpenAttempt'
    BY <1>1, <1>2, <1>3, ResolvedLot, SameReservations DEF Core
  <1>14. LotBacksRefunds'
    <2>1. lots[o].refunded + lots[o].owed = 0
      <3>1. lots[o].refunded \in Nat /\ lots[o].owed \in Nat
        BY DEF Core, TypeOK, LotRow
      <3>2. lots[o].refunded + lots[o].owed <= orders[o].rc
        BY DEF Core, LotBacksRefunds
      <3> QED BY <1>1, <3>1, <3>2
    <2>2. lots'[o].refunded + lots'[o].owed = lots[o].refunded + lots[o].owed + Credits[o]
      BY <1>1, <1>3, ResolvedLot
    <2>3. lots'[o].refunded + lots'[o].owed <= Credits[o]
      BY <1>3, <2>1, <2>2
    <2>4. Credits[o] <= Credits[o] /\ Price[o] <= Price[o]
      BY <1>3
    <2> QED BY <1>1, <1>3, <1>7, <1>8, <2>3, <2>4, ResolvedLot DEF Core, LotBacksRefunds
  <1> QED BY <1>11, <1>12, <1>13, <1>14 DEF Core

\* Lots expire, an account is deleted or comes back: no counter moves.
LEMMA ExpiryCore ==
  ASSUME Core, lots' \in [Orders -> LotRow], cache' \in Int, deleted' \in BOOLEAN,
         \A p \in Orders : /\ lots'[p].consumed = lots[p].consumed
                           /\ lots'[p].refunded = lots[p].refunded
                           /\ lots'[p].reserved = lots[p].reserved
                           /\ lots'[p].owed = lots[p].owed,
         UNCHANGED <<orders, attempts, requests, events, openIssues, gens>>
  PROVE  Core'
  <1>1. TypeOK'
    BY DEF Core, TypeOK
  <1>2. Linked'
    BY DEF Core, Linked
  <1>3. ReservedIsOpenAttempt'
    BY SameReservations DEF Core
  <1>4. LotBacksRefunds'
    BY DEF Core, LotBacksRefunds
  <1> QED BY <1>1, <1>2, <1>3, <1>4 DEF Core

\* Lots expire, accounts are deleted and reactivated.
LEMMA AccountActionsCore ==
  ASSUME Core, (\E o \in Orders : SweepExpired(o)) \/ DeleteAccount \/ ReactivateAccount
  PROVE  Core'
  <1> DEFINE expired(p) == [lots[p] EXCEPT !.live = FALSE]
  <1>1. ASSUME NEW p \in Orders
        PROVE  /\ expired(p) \in LotRow
               /\ expired(p).consumed = lots[p].consumed /\ expired(p).refunded = lots[p].refunded
               /\ expired(p).reserved = lots[p].reserved /\ expired(p).owed = lots[p].owed
    BY DEF Core, TypeOK, LotRow
  <1>2. ASSUME NEW o \in Orders, SweepExpired(o)
        PROVE  Core'
    <2>1. /\ lots' = [lots EXCEPT ![o] = expired(o)] /\ cache' = cache - Avail(o)
          /\ UNCHANGED <<deleted, orders, attempts, requests, events, openIssues, gens>>
      BY <1>2 DEF SweepExpired
    <2>2. cache' \in Int /\ deleted' \in BOOLEAN
      <3>1. Avail(o) \in Int
        BY CatalogAssumption DEF Avail, Core, TypeOK, LotRow
      <3> QED BY <2>1, <3>1 DEF Core, TypeOK
    <2> HIDE DEF expired
    <2>3. /\ lots' \in [Orders -> LotRow] /\ lots'[o] = expired(o)
          /\ \A p \in Orders : p # o => lots'[p] = lots[p]
      BY <1>1, <2>1, RowUpdate DEF Core, TypeOK
    <2> QED BY <1>1, <2>1, <2>2, <2>3, ExpiryCore
  <1>3. CASE DeleteAccount
    <2>1. /\ lots' = [p \in Orders |-> expired(p)] /\ cache' = 0 /\ deleted' = TRUE
          /\ UNCHANGED <<orders, attempts, requests, events, openIssues, gens>>
      BY <1>3 DEF DeleteAccount
    <2> HIDE DEF expired
    <2>2. lots' \in [Orders -> LotRow] /\ cache' \in Int
      BY <1>1, <2>1
    <2>3. deleted' \in BOOLEAN
      BY <2>1
    <2> QED BY <1>1, <2>1, <2>2, <2>3, ExpiryCore
  <1>4. CASE ReactivateAccount
    BY <1>4, ExpiryCore DEF ReactivateAccount, Core, TypeOK
  <1> QED BY <1>2, <1>3, <1>4

\* Both ways to begin a refund.
LEMMA BeginsCore ==
  ASSUME Core, NEW a \in Attempts, NEW o \in Orders, NEW qty \in Nat, NEW rate \in Rates,
         NEW rail \in {"portone_cancel", "manual_transfer"},
         AdminRefundBegin(a, o, qty, rate, rail) \/ CancelIntentResolve(a, o, qty)
  PROVE  Core'
  <1>1. CASE AdminRefundBegin(a, o, qty, rate, rail)
    BY <1>1, ReserveCore DEF AdminRefundBegin
  <1>2. CASE CancelIntentResolve(a, o, qty)
    <2>1. orders[o].intent \in Rates
      BY <1>2 DEF CancelIntentResolve, Core, TypeOK, OrderRow
    <2>2. Reserve(a, o, qty, orders[o].intent, "portone_cancel", "cancel_intent")
      BY <1>2 DEF CancelIntentResolve
    <2> QED BY <2>1, <2>2, ReserveCore
  <1> QED BY <1>1, <1>2

---------------------------------------------------------------------------
(* The inductive invariant.                                                *)

\* No step of any caller leaves Core.
LEMMA CoreNext == Core /\ [Next]_vars => Core'
  <1> SUFFICES ASSUME Core, [Next]_vars PROVE Core'
    OBVIOUS
  <1>1. ASSUME NEW o \in Orders, NEW rate \in Rates,
               \/ MarkOrderFailed(o) \/ MarkOrderCanceledUnpaid(o) \/ CancelIntentBegin(o, rate)
        PROVE  Core'
    BY <1>1, OrderActionsCore
  <1>2. ASSUME NEW o \in Orders,
               \/ MarkPaidAndGrant(o) \/ MarkOrderFailed(o) \/ MarkOrderCanceledUnpaid(o)
               \/ \E rate \in Rates : CancelIntentBegin(o, rate)
               \/ ResolveAutoFull(o) \/ ResolveLatePaid(o) \/ SweepExpired(o)
        PROVE  Core'
    <2>1. FullRate \in Rates
      BY DEF Rates, RefundRateBps
    <2>2. CASE MarkOrderFailed(o) \/ MarkOrderCanceledUnpaid(o)
      BY <1>1, <2>1, <2>2
    <2>3. CASE MarkPaidAndGrant(o)
      BY <2>3, MarkPaidAndGrantCore
    <2>4. CASE \E rate \in Rates : CancelIntentBegin(o, rate)
      BY <1>1, <2>4
    <2>5. CASE ResolveAutoFull(o)
      BY <2>5, ResolveAutoFullCore
    <2>6. CASE ResolveLatePaid(o)
      BY <2>6, EventsCore DEF ResolveLatePaid, Core, TypeOK, Linked
    <2>7. CASE SweepExpired(o)
      BY <2>7, AccountActionsCore
    <2> QED BY <1>2, <2>2, <2>3, <2>4, <2>5, <2>6, <2>7
  <1>3. ASSUME NEW g \in Gens,
               \/ \E o \in Orders : CreateGeneration(g, o)
               \/ CompleteGeneration(g) \/ FailGeneration(g)
        PROVE  Core'
    BY <1>3, CreateGenerationCore, CompleteGenerationCore, FailGenerationCore
  <1>4. ASSUME NEW a \in Attempts, NEW o \in Orders, NEW qty \in 1..Credits[o],
               \/ \E rate \in Rates, rail \in {"portone_cancel", "manual_transfer"} :
                    AdminRefundBegin(a, o, qty, rate, rail)
               \/ CancelIntentResolve(a, o, qty)
        PROVE  Core'
    <2>1. qty \in Nat
      BY CatalogAssumption
    <2>2. FullRate \in Rates
      BY DEF Rates, RefundRateBps
    <2> QED BY <1>4, <2>1, <2>2, BeginsCore
  <1>5. ASSUME NEW a \in Attempts,
               \/ MarkPgRequested(a) \/ RecordPgPending(a)
               \/ \E c \in Cancellations : RecordPgSucceeded(a, c)
               \/ RecordPgFailed(a) \/ SwitchToManual(a)
               \/ AdminRefundCommit(a) \/ AdminRefundCommitManual(a)
               \/ AdminRefundRelease(a)
               \/ \E external \in BOOLEAN : ReplanPrePg(a, external)
               \/ ReplanAfterPg(a)
        PROVE  Core'
    <2>1. CASE MarkPgRequested(a)
      BY <2>1, MarkPgRequestedCore
    <2>2. CASE \/ RecordPgPending(a) \/ RecordPgFailed(a) \/ SwitchToManual(a)
               \/ \E c \in Cancellations : RecordPgSucceeded(a, c)
      BY <2>2, ProviderStepsCore
    <2>3. CASE AdminRefundCommit(a) \/ AdminRefundCommitManual(a)
      BY <2>3, CommitsCore
    <2>4. CASE \/ AdminRefundRelease(a) \/ ReplanAfterPg(a)
               \/ \E external \in BOOLEAN : ReplanPrePg(a, external)
      BY <2>4, ReleasesCore
    <2> QED BY <1>5, <2>1, <2>2, <2>3, <2>4
  <1>6. ASSUME NEW c \in Cancellations,
               \/ \E o \in Orders, status \in {"SUCCEEDED", "FAILED"} :
                    \/ \E amount \in ExternalAmounts : RecordCancellation(c, o, status, amount, None)
                    \/ \E m \in Attempts : RecordCancellation(c, o, status, attempts[m].amount, m)
               \/ RecordContradiction(c)
               \/ events[c].order # None /\
                    \E econ \in 0..Credits[events[c].order] : ResolveExternalCancellation(c, econ)
        PROVE  Core'
    <2>1. CASE \E o \in Orders, status \in {"SUCCEEDED", "FAILED"} :
                 \E amount \in ExternalAmounts : RecordCancellation(c, o, status, amount, None)
      BY <2>1, CancellationAssumption, RecordCancellationCore
    <2>2. CASE \E o \in Orders, status \in {"SUCCEEDED", "FAILED"} :
                 \E m \in Attempts : RecordCancellation(c, o, status, attempts[m].amount, m)
      <3>1. \A m \in Attempts : attempts[m].amount \in Nat
        BY DEF Core, TypeOK, AttemptRow
      <3> QED BY <2>2, <3>1, RecordCancellationCore
    <2>3. CASE RecordContradiction(c)
      <3>1. events[c].order \in Orders
        BY <2>3 DEF RecordContradiction, Core, Linked
      <3>2. Discrepancy(events[c].order, c) \in IssueRow
        BY <3>1 DEF Discrepancy, IssueRow
      <3> QED BY <2>3, <3>2, EventsCore DEF RecordContradiction, Core, TypeOK, Linked
    <2>4. CASE events[c].order # None /\
                 \E econ \in 0..Credits[events[c].order] : ResolveExternalCancellation(c, econ)
      <3>1. PICK econ \in 0..Credits[events[c].order] : ResolveExternalCancellation(c, econ)
        BY <2>4
      <3>2. events[c].order \in Orders
        BY <2>4 DEF Core, TypeOK, EventRow
      <3>3. econ \in Nat
        BY <3>2, CatalogAssumption
      <3> QED BY <3>1, <3>3, ResolveExternalCore
    <2> QED BY <1>6, <2>1, <2>2, <2>3, <2>4
  <1>7. ASSUME NEW i \in openIssues, CloseEventIssue(i) \/ IgnoreFailedEventIssue(i)
        PROVE  Core'
    BY <1>7, IssuesCore
  <1>8. CASE DeleteAccount \/ ReactivateAccount
    BY <1>8, AccountActionsCore
  <1>9. CASE UNCHANGED vars
    BY <1>9, EventsCore DEF vars, Core, TypeOK, Linked
  <1> QED BY <1>2, <1>3, <1>4, <1>5, <1>6, <1>7, <1>8, <1>9 DEF Next

\* Core holds in every state of every member.
THEOREM CoreInvariant == Spec => []Core
  <1>1. Init => Core
    BY CoreInit
  <1>2. Core /\ [Next]_vars => Core'
    BY CoreNext
  <1> QED BY <1>1, <1>2, PTL DEF Spec

\* Every row keeps the columns and values its table allows.
THEOREM TypeCorrect == Spec => []TypeOK
  <1>1. Core => TypeOK
    BY DEF Core
  <1> QED BY <1>1, CoreInvariant, PTL

\* A lot's reservation is that of its order's one open refund attempt.
THEOREM ReservationExact == Spec => []ReservedIsOpenAttempt
  <1>1. Core => ReservedIsOpenAttempt
    BY DEF Core
  <1> QED BY <1>1, CoreInvariant, PTL

\* No order gives back more credits or money than it has, and no lot gives
\* back or owes more than the order's refunds stand for.
THEOREM LotsBackRefunds == Spec => []LotBacksRefunds
  <1>1. Core => LotBacksRefunds
    BY DEF Core
  <1> QED BY <1>1, CoreInvariant, PTL

---------------------------------------------------------------------------
(* When a commit is possible.                                              *)

\* An open attempt can commit exactly when its order has its credits and its
\* money left and, if the commit closes the order, the lot's shortfall is
\* within consumption already: the closure itself never breaks the bound.
AdmissibleMeaning ==
  \A a \in Attempts :
    LET o == attempts[a].order
    IN  attempts[a].state \in OpenStates =>
          (CommitAdmissible(a) <=>
             /\ orders[o].rc + attempts[a].qty <= Credits[o]
             /\ orders[o].ra + attempts[a].amount <= Price[o]
             /\ Closure(a) > 0 => ShortfallWithin(o))

\* What AdmissibleMeaning says follows from the bounds of lots and orders.
LEMMA ClosureWithinConsumption == Core => AdmissibleMeaning
  <1> SUFFICES ASSUME Core, NEW a \in Attempts, attempts[a].state \in OpenStates
               PROVE  LET o == attempts[a].order
                      IN  CommitAdmissible(a) <=>
                            /\ orders[o].rc + attempts[a].qty <= Credits[o]
                            /\ orders[o].ra + attempts[a].amount <= Price[o]
                            /\ Closure(a) > 0 => ShortfallWithin(o)
    BY DEF AdmissibleMeaning
  <1> DEFINE o == attempts[a].order
  <1>1. o \in Orders /\ a \in OpenAttempts(o)
    BY DEF Core, Linked, OpenStates, OpenAttempts
  <1>2. lots[o].reserved = attempts[a].qty
    BY <1>1 DEF Core, ReservedIsOpenAttempt
  <1>3. /\ lots[o].consumed \in Nat /\ lots[o].refunded \in Nat
        /\ lots[o].reserved \in Nat /\ lots[o].owed \in Nat
        /\ Credits[o] \in Nat /\ orders[o].rc \in Nat /\ attempts[a].qty \in Nat
        /\ lots[o].refunded + lots[o].owed <= orders[o].rc
    BY <1>1, CatalogAssumption DEF Core, TypeOK, LotRow, OrderRow, AttemptRow, LotBacksRefunds
  <1>4. ASSUME orders[o].rc + attempts[a].qty <= Credits[o], Closure(a) > 0
        PROVE  lots[o].owed + NewShortfall(a) <= lots[o].consumed <=> ShortfallWithin(o)
    <2>1. Closure(a) = Credits[o] - orders[o].rc - attempts[a].qty
      BY <1>4 DEF Closure
    <2>2. Avail(o) \in Nat
      BY <1>1, <1>3 DEF Avail, Core, LotBacksRefunds
    <2>3. Closure(a) - Avail(o) <= lots[o].consumed - lots[o].owed
      BY <1>2, <1>3, <2>1 DEF Avail
    <2>4. Closure(a) \in Nat
      BY <1>3, <1>4, <2>1
    <2>5. CASE Closure(a) <= Avail(o)
      <3>1. NewShortfall(a) = 0
        BY <1>3, <2>2, <2>4, <2>5 DEF NewShortfall, Recovered, Least
      <3> QED BY <1>3, <3>1 DEF ShortfallWithin
    <2>6. CASE ~(Closure(a) <= Avail(o))
      <3> DEFINE rest == Closure(a) - Avail(o)
      <3>1. Recovered(a) = Avail(o)
        BY <2>2, <2>4, <2>6 DEF Recovered, Least
      <3>2. NewShortfall(a) = IF rest <= lots[o].owed THEN 0 ELSE rest - lots[o].owed
        BY <1>3, <2>2, <2>4, <2>6, <3>1 DEF NewShortfall, Least
      <3>3. rest \in Nat /\ rest <= lots[o].consumed - lots[o].owed
        BY <2>2, <2>3, <2>4, <2>6
      <3> HIDE DEF rest
      <3> QED BY <1>3, <3>2, <3>3 DEF ShortfallWithin
    <2> QED BY <2>5, <2>6
  <1> QED BY <1>4 DEF CommitAdmissible

\* The same of the state after a step.
LEMMA ClosureWithinConsumptionNext == Core' => AdmissibleMeaning'
  BY ClosureWithinConsumption, PTL

---------------------------------------------------------------------------
(* What one step does to one order.                                        *)

\* Neither the order's totals move nor its shortfall leaves consumption.
Harmless(o) ==
  /\ orders'[o].rc = orders[o].rc /\ orders'[o].ra = orders[o].ra
  /\ ShortfallWithin(o) => ShortfallWithin(o)'

Commits(o) == \E a \in OpenAttempts(o) : attempts'[a].state = "committed"

Resolves(o) ==
  /\ \E econ \in Nat : ResolveFromLot(o, econ)
  /\ \E c \in EventsOf(o) : events[c].state = "unmatched" /\ events'[c].state = "resolved"

\* Neither the totals of the order nor the counters of its lot are written.
LEMMA NothingCounted ==
  ASSUME NEW o \in Orders,
         orders'[o].rc = orders[o].rc, orders'[o].ra = orders[o].ra,
         lots'[o].owed = lots[o].owed, lots'[o].consumed = lots[o].consumed
  PROVE  Harmless(o)
  BY DEF Harmless, ShortfallWithin

\* A row of lots is written without its debt and its consumption.
LEMMA RowKeepsDebt ==
  ASSUME Core, NEW o \in Orders, NEW p \in Orders, NEW row \in LotRow,
         row.owed = lots[p].owed, row.consumed = lots[p].consumed,
         lots' = [lots EXCEPT ![p] = row], orders' = orders
  PROVE  Harmless(o)
  <1>1. lots'[o].owed = lots[o].owed /\ lots'[o].consumed = lots[o].consumed
    BY RowUpdate DEF Core, TypeOK
  <1> QED BY <1>1, NothingCounted

\* Payments, expiry and deletion move no debt.
LEMMA AccountStepsHarmless ==
  ASSUME Core, NEW o \in Orders,
         \/ \E p \in Orders : \/ MarkPaidAndGrant(p) \/ MarkOrderFailed(p)
                              \/ MarkOrderCanceledUnpaid(p) \/ SweepExpired(p)
                              \/ \E rate \in Rates : CancelIntentBegin(p, rate)
         \/ DeleteAccount
  PROVE  Harmless(o)
  <1>0. \A p \in Orders : lots[p] \in LotRow /\ orders[p] \in OrderRow
    BY DEF Core, TypeOK
  <1>1. ASSUME NEW p \in Orders, NEW row \in OrderRow,
               row.rc = orders[p].rc, row.ra = orders[p].ra,
               orders' = [orders EXCEPT ![p] = row]
        PROVE  orders'[o].rc = orders[o].rc /\ orders'[o].ra = orders[o].ra
    BY <1>1, RowUpdate DEF Core, TypeOK
  <1>2. ASSUME NEW p \in Orders, MarkPaidAndGrant(p) PROVE Harmless(o)
    <2> DEFINE grant == orders[p].status # "canceled" /\ ~deleted /\ orders[p].intent = None
               row == [orders[p] EXCEPT !.status = "paid", !.paid = TRUE]
               lot == [lots[p] EXCEPT !.granted = TRUE, !.live = grant]
    <2>1. /\ orders' = [orders EXCEPT ![p] = row] /\ lots' = [lots EXCEPT ![p] = lot]
          /\ grant \in BOOLEAN
      BY <1>2 DEF MarkPaidAndGrant
    <2>2. row \in OrderRow /\ row.rc = orders[p].rc /\ row.ra = orders[p].ra
      BY <1>0 DEF OrderRow
    <2> HIDE DEF grant, row
    <2>3. lot \in LotRow /\ lot.owed = lots[p].owed /\ lot.consumed = lots[p].consumed
      BY <1>0, <2>1 DEF LotRow
    <2> HIDE DEF lot
    <2>4. lots'[o].owed = lots[o].owed /\ lots'[o].consumed = lots[o].consumed
      BY <2>1, <2>3, RowUpdate DEF Core, TypeOK
    <2> QED BY <1>1, <2>1, <2>2, <2>4, NothingCounted
  <1>3. ASSUME NEW p \in Orders, NEW rate \in Rates,
               MarkOrderFailed(p) \/ MarkOrderCanceledUnpaid(p) \/ CancelIntentBegin(p, rate)
        PROVE  Harmless(o)
    <2> DEFINE row == IF MarkOrderFailed(p) THEN [orders[p] EXCEPT !.status = "failed"]
                      ELSE IF MarkOrderCanceledUnpaid(p) THEN [orders[p] EXCEPT !.status = "canceled"]
                      ELSE [orders[p] EXCEPT !.intent = rate]
    <2>1. orders' = [orders EXCEPT ![p] = row] /\ lots' = lots
      BY <1>3 DEF MarkOrderFailed, MarkOrderCanceledUnpaid, CancelIntentBegin
    <2>2. row \in OrderRow /\ row.rc = orders[p].rc /\ row.ra = orders[p].ra
      BY <1>0 DEF OrderRow
    <2> HIDE DEF row
    <2> QED BY <1>1, <2>1, <2>2, NothingCounted
  <1>4. ASSUME NEW p \in Orders, SweepExpired(p) PROVE Harmless(o)
    <2> DEFINE lot == [lots[p] EXCEPT !.live = FALSE]
    <2>1. lots' = [lots EXCEPT ![p] = lot] /\ orders' = orders
      BY <1>4 DEF SweepExpired
    <2>2. lot \in LotRow /\ lot.owed = lots[p].owed /\ lot.consumed = lots[p].consumed
      BY <1>0 DEF LotRow
    <2> HIDE DEF lot
    <2> QED BY <2>1, <2>2, RowKeepsDebt
  <1>5. CASE DeleteAccount
    <2>1. lots' = [p \in Orders |-> [lots[p] EXCEPT !.live = FALSE]] /\ orders' = orders
      BY <1>5 DEF DeleteAccount
    <2>2. lots'[o] = [lots[o] EXCEPT !.live = FALSE]
      BY <2>1
    <2>3. lots'[o].owed = lots[o].owed /\ lots'[o].consumed = lots[o].consumed
      BY <1>0, <2>2 DEF LotRow
    <2> QED BY <2>1, <2>3, NothingCounted
  <1>6. FullRate \in Rates
    BY DEF Rates, RefundRateBps
  <1> QED BY <1>2, <1>3, <1>4, <1>5, <1>6

\* A generation uses a credit; a failed one gives it back, to the debt first.
LEMMA GenerationStepsHarmless ==
  ASSUME Core, NEW o \in Orders, NEW g \in Gens,
         (\E p \in Orders : CreateGeneration(g, p)) \/ FailGeneration(g)
  PROVE  Harmless(o)
  <1>0. \A p \in Orders : /\ lots[p] \in LotRow
                          /\ lots[p].consumed \in Nat /\ lots[p].refunded \in Nat /\ lots[p].owed \in Nat
    BY DEF Core, TypeOK, LotRow
  <1>1. ASSUME NEW p \in Orders, CreateGeneration(g, p) PROVE Harmless(o)
    <2> DEFINE used == lots[p].consumed + 1
               lot == [lots[p] EXCEPT !.consumed = used]
    <2>1. lots' = [lots EXCEPT ![p] = lot] /\ orders' = orders
      BY <1>1 DEF CreateGeneration
    <2>2. used \in Nat /\ used >= lots[p].consumed
      BY <1>0
    <2> HIDE DEF used
    <2>3. lot \in LotRow /\ lot.owed = lots[p].owed /\ lot.consumed = used
      BY <1>0, <2>2 DEF LotRow
    <2> HIDE DEF lot
    <2>4. lots'[o] = lots[o] \/ (o = p /\ lots'[o] = lot)
      BY <2>1, <2>3, RowUpdate DEF Core, TypeOK
    <2>5. ShortfallWithin(o) => ShortfallWithin(o)'
      BY <1>0, <2>2, <2>3, <2>4 DEF ShortfallWithin
    <2> QED BY <2>1, <2>5 DEF Harmless
  <1>2. CASE FailGeneration(g)
    <2> DEFINE p == gens[g].lot
               used == lots[p].consumed - 1
               due == IF Absorbs(p) THEN lots[p].owed - 1 ELSE lots[p].owed
               lot == IF Absorbs(p)
                        THEN [lots[p] EXCEPT !.consumed = lots[p].consumed - 1,
                                             !.refunded = lots[p].refunded + 1,
                                             !.owed = lots[p].owed - 1]
                        ELSE [lots[p] EXCEPT !.consumed = lots[p].consumed - 1]
    <2>1. lots' = [lots EXCEPT ![p] = lot] /\ orders' = orders
          /\ gens[g].state = "queued" /\ lots[p].consumed > 0
      BY <1>2 DEF FailGeneration
    <2>2. p \in Orders
      BY <2>1 DEF Core, Linked
    <2>3. /\ used \in Nat /\ due \in Nat /\ due \in {0, lots[p].owed - 1}
          /\ Absorbs(p) => lots[p].refunded + 1 \in Nat
      BY <1>0, <2>1, <2>2 DEF Absorbs
    <2>4. lots[p].owed <= lots[p].consumed => due <= used
      BY <1>0, <2>1, <2>2 DEF Absorbs
    <2>5. lot \in LotRow /\ lot.consumed = used /\ lot.owed = due
      <3>1. CASE Absorbs(p)
        <4> DEFINE back == lots[p].refunded + 1
        <4>1. lot = [lots[p] EXCEPT !.consumed = used, !.refunded = back, !.owed = due]
              /\ back \in Nat
          BY <2>3, <3>1
        <4> HIDE DEF lot, used, back, due
        <4> QED BY <1>0, <2>2, <2>3, <4>1 DEF LotRow
      <3>2. CASE ~Absorbs(p)
        <4>1. lot = [lots[p] EXCEPT !.consumed = used] /\ due = lots[p].owed
          BY <3>2
        <4> HIDE DEF lot, used, due
        <4> QED BY <1>0, <2>2, <2>3, <4>1 DEF LotRow
      <3> QED BY <3>1, <3>2
    <2> HIDE DEF lot, used, due
    <2>6. lots'[o] = lots[o] \/ (o = p /\ lots'[o] = lot)
      BY <2>1, <2>2, <2>5, RowUpdate DEF Core, TypeOK
    <2>7. ShortfallWithin(o) => ShortfallWithin(o)'
      BY <2>4, <2>5, <2>6 DEF ShortfallWithin
    <2> QED BY <2>1, <2>7 DEF Harmless
  <1> QED BY <1>1, <1>2

\* Reserving credits and giving them back moves no debt.
LEMMA ReservationStepsHarmless ==
  ASSUME Core, NEW o \in Orders, NEW a \in Attempts,
         \/ \E p \in Orders, qty \in Nat : \E rate, rail, origin : Reserve(a, p, qty, rate, rail, origin)
         \/ attempts[a].state \in OpenStates /\ \E reason : ApplyRelease(a, reason)
  PROVE  Harmless(o)
  <1>1. \A p \in Orders : lots[p] \in LotRow /\ lots[p].reserved \in Nat
    BY DEF Core, TypeOK, LotRow
  <1>2. ASSUME NEW p \in Orders, NEW held \in Nat, orders' = orders,
               lots' = [lots EXCEPT ![p] = [lots[p] EXCEPT !.reserved = held]]
        PROVE  Harmless(o)
    <2> DEFINE lot == [lots[p] EXCEPT !.reserved = held]
    <2>1. lot \in LotRow /\ lot.owed = lots[p].owed /\ lot.consumed = lots[p].consumed
      BY <1>1 DEF LotRow
    <2>2. lots' = [lots EXCEPT ![p] = lot]
      BY <1>2
    <2> HIDE DEF lot
    <2> QED BY <1>2, <2>1, <2>2, RowKeepsDebt
  <1>3. ASSUME NEW p \in Orders, NEW qty \in Nat, NEW rate, NEW rail, NEW origin,
               Reserve(a, p, qty, rate, rail, origin)
        PROVE  Harmless(o)
    <2>1. lots' = [lots EXCEPT ![p] = [lots[p] EXCEPT !.reserved = lots[p].reserved + qty]]
          /\ orders' = orders
      BY <1>3 DEF Reserve
    <2>2. lots[p].reserved + qty \in Nat
      BY <1>1
    <2> QED BY <1>2, <2>1, <2>2
  <1>4. ASSUME NEW reason, attempts[a].state \in OpenStates, ApplyRelease(a, reason)
        PROVE  Harmless(o)
    <2> DEFINE p == attempts[a].order
               held == lots[p].reserved - attempts[a].qty
    <2>1. lots' = [lots EXCEPT ![p] = [lots[p] EXCEPT !.reserved = held]] /\ orders' = orders
      BY <1>4 DEF ApplyRelease
    <2>2. p \in Orders /\ a \in OpenAttempts(p)
      BY <1>4 DEF Core, Linked, OpenStates, OpenAttempts
    <2>3. held \in Nat
      BY <1>1, <2>2 DEF Core, ReservedIsOpenAttempt
    <2> HIDE DEF held, p
    <2> QED BY <1>2, <2>1, <2>2, <2>3
  <1> QED BY <1>3, <1>4

\* A commit touches the order of its attempt only.
LEMMA CommitStepEffect ==
  ASSUME Core, NEW o \in Orders, NEW a \in Attempts,
         AdminRefundCommit(a) \/ AdminRefundCommitManual(a)
  PROVE  Harmless(o) \/ Commits(o)
  <1>1. attempts[a].state \in OpenStates /\ ApplyCommit(a)
    BY DEF AdminRefundCommit, AdminRefundCommitManual, OpenStates
  <1>2. attempts[a].order \in Orders /\ a \in OpenAttempts(attempts[a].order)
    BY <1>1 DEF Core, Linked, OpenStates, OpenAttempts
  <1>3. CASE attempts[a].order = o
    <2>1. attempts'[a].state = "committed"
      BY <1>1 DEF ApplyCommit, Core, TypeOK, AttemptRow
    <2> QED BY <1>2, <1>3, <2>1 DEF Commits
  <1>4. CASE attempts[a].order # o
    <2>1. orders'[o] = orders[o] /\ lots'[o] = lots[o]
      BY <1>1, <1>4 DEF ApplyCommit, Core, TypeOK
    <2> QED BY <2>1, NothingCounted
  <1> QED BY <1>3, <1>4

\* A resolution touches the order of its cancellations only.
LEMMA ResolutionStepEffect ==
  ASSUME Core, NEW o \in Orders,
         \/ \E p \in Orders : ResolveAutoFull(p)
         \/ \E c \in Cancellations, econ \in Nat : ResolveExternalCancellation(c, econ)
  PROVE  Harmless(o) \/ Resolves(o)
  <1>1. ASSUME NEW p \in Orders, ResolveAutoFull(p)
        PROVE  Harmless(o) \/ Resolves(o)
    <2> DEFINE row == [orders[p] EXCEPT !.rc = Credits[p], !.ra = Price[p], !.status = "canceled"]
               share == Allocation([d \in EventsOf(p) |-> events[d].amount],
                                   Price[p], Credits[p])
               ev(d) == [events[d] EXCEPT !.state = "resolved", !.econ = share[d]]
    <2>1. /\ ResolveFromLot(p, Credits[p])
          /\ orders' = [orders EXCEPT ![p] = row]
          /\ events' = [d \in Cancellations |-> IF d \in EventsOf(p) THEN ev(d) ELSE events[d]]
          /\ EventsOf(p) # {} /\ \A d \in EventsOf(p) : events[d].state = "unmatched"
      BY <1>1 DEF ResolveAutoFull, AutoFullEligible
    <2> HIDE DEF row, share
    <2>2. \A d \in Cancellations : ev(d).state = "resolved"
      BY DEF Core, TypeOK, EventRow
    <2> HIDE DEF ev
    <2>3. Credits[p] \in Nat
      BY CatalogAssumption
    <2>4. CASE p = o
      BY <2>1, <2>2, <2>3, <2>4 DEF Resolves, EventsOf
    <2>5. CASE p # o
      <3>1. orders'[o] = orders[o] /\ lots'[o] = lots[o]
        BY <2>1, <2>3, <2>5, ResolvedLot DEF Core, TypeOK
      <3> QED BY <3>1, NothingCounted
    <2> QED BY <2>4, <2>5
  <1>2. ASSUME NEW c \in Cancellations, NEW econ \in Nat, ResolveExternalCancellation(c, econ)
        PROVE  Harmless(o) \/ Resolves(o)
    <2> DEFINE p == events[c].order
               row == [orders[p] EXCEPT !.rc = orders[p].rc + econ,
                                        !.ra = orders[p].ra + events[c].amount]
               ev == [events[c] EXCEPT !.state = "resolved", !.econ = econ]
    <2>1. /\ ResolveFromLot(p, econ)
          /\ orders' = [orders EXCEPT ![p] = row]
          /\ events' = [events EXCEPT ![c] = ev]
          /\ events[c].state = "unmatched"
      BY <1>2 DEF ResolveExternalCancellation
    <2>2. p \in Orders
      BY <2>1 DEF Core, Linked
    <2> HIDE DEF row
    <2>3. events'[c].state = "resolved"
      BY <2>1 DEF Core, TypeOK, EventRow
    <2>4. CASE p = o
      BY <2>1, <2>3, <2>4 DEF Resolves, EventsOf
    <2>5. CASE p # o
      <3>1. orders'[o] = orders[o] /\ lots'[o] = lots[o]
        BY <2>1, <2>2, <2>5, ResolvedLot DEF Core, TypeOK
      <3> QED BY <3>1, NothingCounted
    <2> QED BY <2>4, <2>5
  <1> QED BY <1>1, <1>2

\* Every step is harmless to an order, commits its refund or resolves one of
\* its cancellations.
LEMMA StepEffect ==
  ASSUME Core, [Next]_vars, NEW o \in Orders
  PROVE  Harmless(o) \/ Commits(o) \/ Resolves(o)
  <1>1. ASSUME UNCHANGED <<orders, lots>> PROVE Harmless(o)
    BY <1>1, NothingCounted
  <1>2. ASSUME NEW p \in Orders,
               \/ MarkPaidAndGrant(p) \/ MarkOrderFailed(p) \/ MarkOrderCanceledUnpaid(p)
               \/ \E rate \in Rates : CancelIntentBegin(p, rate)
               \/ ResolveAutoFull(p) \/ ResolveLatePaid(p) \/ SweepExpired(p)
        PROVE  Harmless(o) \/ Resolves(o)
    BY <1>1, <1>2, AccountStepsHarmless, ResolutionStepEffect DEF ResolveLatePaid
  <1>3. ASSUME NEW g \in Gens,
               \/ \E p \in Orders : CreateGeneration(g, p)
               \/ CompleteGeneration(g) \/ FailGeneration(g)
        PROVE  Harmless(o)
    BY <1>1, <1>3, GenerationStepsHarmless DEF CompleteGeneration
  <1>4. ASSUME NEW a \in Attempts, NEW p \in Orders, NEW qty \in 1..Credits[p],
               \/ \E rate \in Rates, rail \in {"portone_cancel", "manual_transfer"} :
                    AdminRefundBegin(a, p, qty, rate, rail)
               \/ CancelIntentResolve(a, p, qty)
        PROVE  Harmless(o)
    <2>1. qty \in Nat
      BY CatalogAssumption
    <2>2. \E rate, rail, origin : Reserve(a, p, qty, rate, rail, origin)
      BY <1>4 DEF AdminRefundBegin, CancelIntentResolve
    <2> QED BY <2>1, <2>2, ReservationStepsHarmless
  <1>5. ASSUME NEW a \in Attempts,
               \/ MarkPgRequested(a) \/ RecordPgPending(a)
               \/ \E c \in Cancellations : RecordPgSucceeded(a, c)
               \/ RecordPgFailed(a) \/ SwitchToManual(a)
               \/ AdminRefundCommit(a) \/ AdminRefundCommitManual(a)
               \/ AdminRefundRelease(a)
               \/ \E external \in BOOLEAN : ReplanPrePg(a, external)
               \/ ReplanAfterPg(a)
        PROVE  Harmless(o) \/ Commits(o)
    <2>1. CASE \/ MarkPgRequested(a) \/ RecordPgPending(a)
               \/ \E c \in Cancellations : RecordPgSucceeded(a, c)
               \/ RecordPgFailed(a) \/ SwitchToManual(a)
      BY <1>1, <2>1 DEF MarkPgRequested, RecordPgPending, RecordPgSucceeded, RecordPgFailed,
                        SwitchToManual
    <2>2. CASE AdminRefundCommit(a) \/ AdminRefundCommitManual(a)
      BY <2>2, CommitStepEffect
    <2>3. CASE \/ AdminRefundRelease(a) \/ (\E external \in BOOLEAN : ReplanPrePg(a, external))
               \/ ReplanAfterPg(a)
      <3>1. attempts[a].state \in OpenStates /\ \E reason : ApplyRelease(a, reason)
        BY <2>3 DEF AdminRefundRelease, ReplanPrePg, ReplanAfterPg, OpenStates
      <3> QED BY <3>1, ReservationStepsHarmless
    <2> QED BY <1>5, <2>1, <2>2, <2>3
  <1>6. ASSUME NEW c \in Cancellations,
               \/ \E p \in Orders, status \in {"SUCCEEDED", "FAILED"} :
                    \/ \E amount \in ExternalAmounts : RecordCancellation(c, p, status, amount, None)
                    \/ \E m \in Attempts : RecordCancellation(c, p, status, attempts[m].amount, m)
               \/ RecordContradiction(c)
               \/ events[c].order # None /\
                    \E econ \in 0..Credits[events[c].order] : ResolveExternalCancellation(c, econ)
        PROVE  Harmless(o) \/ Resolves(o)
    <2>1. CASE \E econ \in 0..Credits[events[c].order] :
                 events[c].order # None /\ ResolveExternalCancellation(c, econ)
      <3>1. PICK econ \in 0..Credits[events[c].order] :
                   events[c].order # None /\ ResolveExternalCancellation(c, econ)
        BY <2>1
      <3>2. events[c].order \in Orders
        BY <3>1 DEF Core, TypeOK, EventRow
      <3>3. econ \in Nat
        BY <3>2, CatalogAssumption
      <3> QED BY <3>1, <3>3, ResolutionStepEffect
    <2>2. CASE ~\E econ \in 0..Credits[events[c].order] :
                  events[c].order # None /\ ResolveExternalCancellation(c, econ)
      BY <1>1, <1>6, <2>2 DEF RecordCancellation, RecordContradiction
    <2> QED BY <2>1, <2>2
  <1>7. ASSUME NEW i \in openIssues, CloseEventIssue(i) \/ IgnoreFailedEventIssue(i)
        PROVE  Harmless(o)
    BY <1>1, <1>7 DEF CloseEventIssue, IgnoreFailedEventIssue
  <1>8. CASE DeleteAccount
    BY <1>8, AccountStepsHarmless
  <1>9. CASE ReactivateAccount \/ UNCHANGED vars
    BY <1>1, <1>9 DEF ReactivateAccount, vars
  <1> QED BY <1>2, <1>3, <1>4, <1>5, <1>6, <1>7, <1>8, <1>9 DEF Next

---------------------------------------------------------------------------
(* The shortfall.                                                          *)

\* Without a reservation a resolution cannot owe more than is in use: what
\* the lot cannot give back at once is consumed.
LEMMA ResolutionWithinConsumption ==
  ASSUME Core, Core', NEW o \in Orders, Resolves(o), OpenAttempts(o) = {}, ShortfallWithin(o)
  PROVE  ShortfallWithin(o)'
  <1>1. PICK econ \in Nat : ResolveFromLot(o, econ)
    BY DEF Resolves
  <1> DEFINE imm == Least(econ, Avail(o))
  <1>2. /\ lots'[o].refunded = lots[o].refunded + imm
        /\ lots'[o].owed = lots[o].owed + (econ - imm)
        /\ lots'[o].consumed = lots[o].consumed
    BY <1>1 DEF ResolveFromLot, Core, TypeOK, LotRow
  <1>3. lots[o].reserved = 0
    BY DEF Core, ReservedIsOpenAttempt
  <1>4. /\ lots[o].consumed \in Nat /\ lots[o].refunded \in Nat /\ lots[o].owed \in Nat
        /\ lots'[o].refunded \in Nat /\ lots'[o].owed \in Nat
        /\ Credits[o] \in Nat /\ orders'[o].rc \in Nat
    BY CatalogAssumption DEF Core, TypeOK, LotRow, OrderRow
  <1>5. lots'[o].refunded + lots'[o].owed <= orders'[o].rc /\ orders'[o].rc <= Credits[o]
    BY DEF Core, LotBacksRefunds
  <1>6. CASE imm = econ
    BY <1>2, <1>4, <1>6 DEF ShortfallWithin
  <1>7. CASE imm # econ
    <2>1. imm = Credits[o] - lots[o].consumed - lots[o].refunded
      BY <1>3, <1>4, <1>7 DEF Least, Avail
    <2>2. lots'[o].refunded = Credits[o] - lots[o].consumed
      BY <1>2, <1>4, <2>1
    <2> HIDE DEF imm
    <2> QED BY <1>2, <1>4, <1>5, <2>2 DEF ShortfallWithin
  <1> QED BY <1>6, <1>7

\* A member comes to owe more credits than are in use only while a refund
\* attempt of the order holds a reservation.
THEOREM ShortfallNeedsReservation == Spec => ShortfallBreaksOnlyUnderReservation
  <1>1. Core /\ Core' /\ [Next]_vars =>
          [\A o \in Orders :
             ShortfallWithin(o) /\ ~ShortfallWithin(o)' => OpenAttempts(o) # {}]_vars
    <2> SUFFICES ASSUME Core, Core', [Next]_vars, NEW o \in Orders,
                        ShortfallWithin(o), OpenAttempts(o) = {}
                 PROVE  ShortfallWithin(o)'
      OBVIOUS
    <2>1. ~Commits(o)
      BY DEF Commits
    <2>2. Harmless(o) \/ Resolves(o)
      BY <2>1, StepEffect
    <2> QED BY <2>2, ResolutionWithinConsumption DEF Harmless
  <1> QED BY <1>1, CoreInvariant, PTL DEF Spec, ShortfallBreaksOnlyUnderReservation

---------------------------------------------------------------------------
(* Commits.                                                                *)

\* An open attempt that stays open keeps what it refunds.
LEMMA OpenAttemptKeepsTerms ==
  ASSUME Core, [Next]_vars, NEW a \in Attempts,
         attempts[a].state \in OpenStates, attempts'[a].state \in OpenStates
  PROVE  /\ attempts'[a].order = attempts[a].order
         /\ attempts'[a].qty = attempts[a].qty
         /\ attempts'[a].amount = attempts[a].amount
  <1> DEFINE Goal == /\ attempts'[a].order = attempts[a].order
                     /\ attempts'[a].qty = attempts[a].qty
                     /\ attempts'[a].amount = attempts[a].amount
             Opened(b) == attempts[b].state = "unused" /\ \A d \in Attempts : d # b => attempts'[d] = attempts[d]
             Ended(b) == /\ attempts'[b].state \notin OpenStates
                         /\ \A d \in Attempts : d # b => attempts'[d] = attempts[d]
  <1>0. \A b \in Attempts : attempts[b] \in AttemptRow
    BY DEF Core, TypeOK
  <1>1. ASSUME attempts' = attempts PROVE Goal
    BY <1>1
  <1>2. ASSUME NEW b \in Attempts, Opened(b) \/ Ended(b) PROVE Goal
    <2>1. a # b
      BY <1>2 DEF OpenStates
    <2> QED BY <1>2, <2>1
  <1>3. ASSUME NEW b \in Attempts, NEW p, NEW qty, NEW rate, NEW rail, NEW origin,
               Reserve(b, p, qty, rate, rail, origin)
        PROVE  Goal
    <2>1. Opened(b)
      BY <1>3 DEF Reserve, Core, TypeOK
    <2> QED BY <1>2, <2>1
  <1>4. ASSUME NEW b \in Attempts, NEW reason, ApplyRelease(b, reason) PROVE Goal
    <2>1. attempts' = [attempts EXCEPT ![b] = [attempts[b] EXCEPT !.state = "released", !.release = reason]]
      BY <1>4 DEF ApplyRelease
    <2>2. attempts'[b].state = "released"
      BY <1>0, <2>1 DEF Core, TypeOK, AttemptRow
    <2>3. Ended(b)
      BY <2>1, <2>2 DEF Core, TypeOK, OpenStates
    <2> QED BY <1>2, <2>3
  <1>5. ASSUME NEW b \in Attempts, ApplyCommit(b) PROVE Goal
    <2>1. attempts' = [attempts EXCEPT ![b] = [attempts[b] EXCEPT !.state = "committed", !.closure = Closure(b)]]
      BY <1>5 DEF ApplyCommit
    <2>2. attempts'[b].state = "committed"
      BY <1>0, <2>1 DEF Core, TypeOK, AttemptRow
    <2>3. Ended(b)
      BY <2>1, <2>2 DEF Core, TypeOK, OpenStates
    <2> QED BY <1>2, <2>3
  <1>6. ASSUME NEW b \in Attempts,
               \/ MarkPgRequested(b) \/ RecordPgPending(b)
               \/ \E c \in Cancellations : RecordPgSucceeded(b, c)
               \/ RecordPgFailed(b) \/ SwitchToManual(b)
        PROVE  Goal
    <2>1. PICK row : /\ attempts' = [attempts EXCEPT ![b] = row]
                     /\ row.order = attempts[b].order /\ row.qty = attempts[b].qty
                     /\ row.amount = attempts[b].amount
      <3>1. CASE MarkPgRequested(b)
        <4> WITNESS [attempts[b] EXCEPT !.state = "pg_requested", !.pgAsked = TRUE]
        <4> QED BY <1>0, <3>1 DEF MarkPgRequested, AttemptRow
      <3>2. CASE RecordPgPending(b)
        <4> WITNESS [attempts[b] EXCEPT !.state = "pg_pending"]
        <4> QED BY <1>0, <3>2 DEF RecordPgPending, AttemptRow
      <3>3. ASSUME NEW c \in Cancellations, RecordPgSucceeded(b, c)
            PROVE  \E row : /\ attempts' = [attempts EXCEPT ![b] = row]
                            /\ row.order = attempts[b].order /\ row.qty = attempts[b].qty
                            /\ row.amount = attempts[b].amount
        <4> WITNESS [attempts[b] EXCEPT !.state = "pg_succeeded", !.cancel = c]
        <4> QED BY <1>0, <3>3 DEF RecordPgSucceeded, AttemptRow
      <3>4. CASE RecordPgFailed(b)
        <4> WITNESS [attempts[b] EXCEPT !.state = "manual_review"]
        <4> QED BY <1>0, <3>4 DEF RecordPgFailed, AttemptRow
      <3>5. CASE SwitchToManual(b)
        <4> WITNESS [attempts[b] EXCEPT !.state = "manual_pending", !.rail = "manual_transfer"]
        <4> QED BY <1>0, <3>5 DEF SwitchToManual, AttemptRow
      <3> QED BY <1>6, <3>1, <3>2, <3>3, <3>4, <3>5
    <2>2. attempts'[a] = IF a = b THEN row ELSE attempts[a]
      BY <2>1 DEF Core, TypeOK
    <2> QED BY <2>1, <2>2
  <1>7. ASSUME NEW b \in Attempts,
               AdminRefundRelease(b) \/ (\E external \in BOOLEAN : ReplanPrePg(b, external))
                 \/ ReplanAfterPg(b)
        PROVE  \E reason : ApplyRelease(b, reason)
    BY <1>7 DEF AdminRefundRelease, ReplanPrePg, ReplanAfterPg
  <1>8. ASSUME NEW b \in Attempts, AdminRefundCommit(b) \/ AdminRefundCommitManual(b)
        PROVE  ApplyCommit(b)
    BY <1>8 DEF AdminRefundCommit, AdminRefundCommitManual
  <1>9. ASSUME NEW b \in Attempts, NEW p, NEW qty,
               (\E rate, rail : AdminRefundBegin(b, p, qty, rate, rail)) \/ CancelIntentResolve(b, p, qty)
        PROVE  \E rate, rail, origin : Reserve(b, p, qty, rate, rail, origin)
    BY <1>9 DEF AdminRefundBegin, CancelIntentResolve
  <1> HIDE DEF Goal
  <1>10. \/ \E b \in Attempts, p \in Orders : \E qty \in 1..Credits[p] :
              (\E rate, rail : AdminRefundBegin(b, p, qty, rate, rail)) \/ CancelIntentResolve(b, p, qty)
         \/ \E b \in Attempts :
              \/ MarkPgRequested(b) \/ RecordPgPending(b)
              \/ \E c \in Cancellations : RecordPgSucceeded(b, c)
              \/ RecordPgFailed(b) \/ SwitchToManual(b)
              \/ AdminRefundCommit(b) \/ AdminRefundCommitManual(b)
              \/ AdminRefundRelease(b)
              \/ \E external \in BOOLEAN : ReplanPrePg(b, external)
              \/ ReplanAfterPg(b)
         \/ attempts' = attempts
    <2>1. CASE UNCHANGED vars
      BY <2>1 DEF vars
    <2>2. ASSUME NEW p \in Orders,
                 \/ MarkPaidAndGrant(p) \/ MarkOrderFailed(p) \/ MarkOrderCanceledUnpaid(p)
                 \/ \E rate \in Rates : CancelIntentBegin(p, rate)
                 \/ ResolveAutoFull(p) \/ ResolveLatePaid(p) \/ SweepExpired(p)
          PROVE  attempts' = attempts
      <3>1. CASE MarkPaidAndGrant(p) \/ MarkOrderFailed(p) \/ MarkOrderCanceledUnpaid(p)
        BY <3>1 DEF MarkPaidAndGrant, MarkOrderFailed, MarkOrderCanceledUnpaid
      <3>2. CASE \E rate \in Rates : CancelIntentBegin(p, rate)
        BY <3>2 DEF CancelIntentBegin
      <3>3. CASE ResolveAutoFull(p) \/ ResolveLatePaid(p) \/ SweepExpired(p)
        BY <3>3 DEF ResolveAutoFull, ResolveFromLot, ResolveLatePaid, SweepExpired
      <3> QED BY <2>2, <3>1, <3>2, <3>3
    <2>3. ASSUME NEW g \in Gens,
                 (\E p \in Orders : CreateGeneration(g, p)) \/ CompleteGeneration(g) \/ FailGeneration(g)
          PROVE  attempts' = attempts
      BY <2>3 DEF CreateGeneration, CompleteGeneration, FailGeneration
    <2>4. ASSUME NEW c \in Cancellations,
                 \/ \E p \in Orders, status \in {"SUCCEEDED", "FAILED"} :
                      \/ \E amount \in ExternalAmounts : RecordCancellation(c, p, status, amount, None)
                      \/ \E m \in Attempts : RecordCancellation(c, p, status, attempts[m].amount, m)
                 \/ RecordContradiction(c)
                 \/ events[c].order # None /\
                      \E econ \in 0..Credits[events[c].order] : ResolveExternalCancellation(c, econ)
          PROVE  attempts' = attempts
      <3>1. ASSUME NEW p, NEW status, NEW amount, NEW m, RecordCancellation(c, p, status, amount, m)
            PROVE  attempts' = attempts
        BY <3>1 DEF RecordCancellation
      <3>2. CASE RecordContradiction(c)
        BY <3>2 DEF RecordContradiction
      <3>3. ASSUME NEW econ, ResolveExternalCancellation(c, econ)
            PROVE  attempts' = attempts
        BY <3>3 DEF ResolveExternalCancellation, ResolveFromLot
      <3> QED BY <2>4, <3>1, <3>2, <3>3
    <2>5. ASSUME NEW i, CloseEventIssue(i) \/ IgnoreFailedEventIssue(i)
          PROVE  attempts' = attempts
      BY <2>5 DEF CloseEventIssue, IgnoreFailedEventIssue
    <2>6. CASE DeleteAccount \/ ReactivateAccount
      BY <2>6 DEF DeleteAccount, ReactivateAccount
    <2> QED BY <2>1, <2>2, <2>3, <2>4, <2>5, <2>6 DEF Next
  <1>11. Goal
    BY <1>1, <1>3, <1>4, <1>5, <1>6, <1>7, <1>8, <1>9, <1>10
  <1> QED BY <1>11 DEF Goal

\* An attempt whose commit would succeed stops being able to commit only when
\* a cancellation of its order is resolved as external in the same step.
THEOREM CommitStaysPossible == Spec => CommitBlockedOnlyByResolution
  <1>1. Core /\ Core' /\ [Next]_vars =>
          [\A a \in Attempts :
             /\ attempts[a].state \in OpenStates /\ CommitAdmissible(a)
             /\ attempts'[a].state \in OpenStates /\ ~CommitAdmissible(a)'
             => \E c \in EventsOf(attempts[a].order) :
                  events[c].state = "unmatched" /\ events'[c].state = "resolved"]_vars
    <2> SUFFICES ASSUME Core, Core', [Next]_vars, NEW a \in Attempts,
                        attempts[a].state \in OpenStates, CommitAdmissible(a),
                        attempts'[a].state \in OpenStates, ~CommitAdmissible(a)'
                 PROVE  \E c \in EventsOf(attempts[a].order) :
                          events[c].state = "unmatched" /\ events'[c].state = "resolved"
      OBVIOUS
    <2> DEFINE o == attempts[a].order
    <2>1. o \in Orders /\ a \in OpenAttempts(o)
      BY DEF Core, Linked, OpenStates, OpenAttempts
    <2>2. ~Commits(o)
      <3>1. OpenAttempts(o) = {a}
        BY <2>1 DEF Core, ReservedIsOpenAttempt
      <3> QED BY <3>1 DEF Commits, OpenStates
    <2>3. /\ attempts'[a].order = o /\ attempts'[a].qty = attempts[a].qty
          /\ attempts'[a].amount = attempts[a].amount
      BY OpenAttemptKeepsTerms
    <2>4. ~Harmless(o)
      <3> SUFFICES ASSUME Harmless(o) PROVE FALSE
        OBVIOUS
      <3>1. orders'[o].rc = orders[o].rc /\ orders'[o].ra = orders[o].ra
        BY DEF Harmless
      <3>2. Closure(a)' = Closure(a)
        BY <2>3, <3>1 DEF Closure
      <3>3. /\ orders[o].rc + attempts[a].qty <= Credits[o]
            /\ orders[o].ra + attempts[a].amount <= Price[o]
            /\ Closure(a) > 0 => ShortfallWithin(o)
        BY ClosureWithinConsumption DEF AdmissibleMeaning
      <3>4. /\ orders'[o].rc + attempts'[a].qty <= Credits[o]
            /\ orders'[o].ra + attempts'[a].amount <= Price[o]
            /\ Closure(a)' > 0 => ShortfallWithin(o)'
        BY <2>3, <3>1, <3>2, <3>3 DEF Harmless
      <3>5. CommitAdmissible(a)'
        BY <2>3, <3>4, ClosureWithinConsumptionNext DEF AdmissibleMeaning
      <3> QED BY <3>5
    <2>5. Resolves(o)
      BY <2>1, <2>2, <2>4, StepEffect
    <2> QED BY <2>5 DEF Resolves
  <1> QED BY <1>1, CoreInvariant, PTL DEF Spec, CommitBlockedOnlyByResolution
=============================================================================
