------------------------- MODULE RefundSaga_proofs -------------------------
(***************************************************************************)
(* The refund driver beside PortOne and the ledger, for any number of      *)
(* orders, attempts, cancellations and workers: the driver gives the       *)
(* ledger what it assumes of its environment, so every theorem of the      *)
(* ledger holds here, and what the ledger commits PortOne has paid.        *)
(***************************************************************************)
EXTENDS RefundSaga, Settlement_proofs

---------------------------------------------------------------------------
(* What ties the driver, PortOne and the ledger together.                  *)

\* States of an attempt PortOne was asked to refund, and is still to settle.
AskedStates == {"pg_requested", "pg_pending", "pg_succeeded"}

\* An attempt in those states has pg_requested_at, and one that has it is in use.
AttemptSound(x) ==
  /\ x.state \in AskedStates => x.pgAsked
  /\ x.pgAsked => x.state # "unused"

\* How PortOne's answer n to an attempt bounds what became of its cancellation.
AnswerSound(n, state) ==
  /\ n # "none"
  /\ n \in {"stale_cancellable", "hard_reject"} => state = "failed"
  /\ n = "already_cancelled" => state = "succeeded"

\* A cancellation x of PortOne, with the answers n and the attempts t: one that
\* bears an attempt's marker is of its order and amount, after it was asked for.
CancellationSound(x, n, t) ==
  \/ x = NoCancellation
  \/ /\ x.state # "none" /\ x.order \in Orders
     /\ x.marker = None => x.amount \in ExternalAmounts
     /\ x.marker # None =>
          /\ t[x.marker].pgAsked
          /\ t[x.marker].order = x.order /\ t[x.marker].amount = x.amount
          /\ AnswerSound(n[x.marker], x.state)

\* No two cancellations bear the same marker.
OneMarker(p) ==
  \A c, d \in Cancellations : p[c].marker = p[d].marker /\ p[c].marker # None => c = d

\* What the ledger recorded of a cancellation is what PortOne did, and is final
\* there; only a success is matched or resolved, and a matched one with its marker.
EventSound(e, x) ==
  \/ e = AbsentEvent
  \/ /\ e.state # "absent"
     /\ x.state \in {"succeeded", "failed"}
     /\ e.order = x.order /\ e.amount = x.amount /\ e.marker = x.marker
     /\ e.status = (IF x.state = "succeeded" THEN "SUCCEEDED" ELSE "FAILED")
     /\ e.state \in {"matched", "resolved"} => e.status = "SUCCEEDED"
     /\ e.state = "matched" => e.matched = e.marker

\* A snapshot of order o shows cancellations of o; what it shows ended, is so.
SeenSound(seen, o, p) ==
  \A c \in Cancellations : seen[c] # "none" =>
    /\ p[c].state # "none" /\ p[c].order = o
    /\ seen[c] \in {"succeeded", "failed"} => p[c].state = seen[c]

\* After a rejection of the POST of attempt a nothing more becomes of it: its
\* cancellation failed, or it succeeded and the answer says so.
RejectionFinal(a, p, n) ==
  /\ n[a] # "none"
  /\ \A c \in Cancellations : p[c].marker = a =>
       p[c].state = "failed" \/ (p[c].state = "succeeded" /\ n[a] = "already_cancelled")

OwnSucceeded(a, p) == \E c \in Cancellations : p[c].marker = a /\ p[c].state = "succeeded"

\* What a worker's row says of its attempt, order, snapshot and place.
RowSound(r, p, n, t) ==
  /\ r.pc = "idle" => r = Idle
  /\ r.pc # "idle" => r.order \in Orders
  /\ r.pc \notin {"idle", "get", "act"} \/ r.row # "none" => r.job = "refund"
  /\ r.job \in {"refund", "switch", "replan"} =>
       /\ r.attempt \in Attempts
       /\ t[r.attempt].state # "unused" /\ t[r.attempt].order = r.order
  /\ r.pc \notin {"idle", "get", "act"} \/ r.row \in AskedStates => t[r.attempt].pgAsked
  /\ r.todo # {} => r.pc \in {"act", "react"}
  /\ \A c \in r.todo : r.seen[c] \in {"succeeded", "failed"}
  /\ SeenSound(r.seen, r.order, p)
  /\ r.pc = "settle" => OwnSucceeded(r.attempt, p)
  /\ r.pc \in {"reget", "react"} => RejectionFinal(r.attempt, p, n)
  /\ r.pc = "reget" => r.seen = NothingSeen
  /\ r.pc = "react" /\ r.seen # NothingSeen =>
       \A c \in Cancellations : p[c].marker = r.attempt => r.seen[c] = p[c].state

\* No order's payment has more cancelled, or being cancelled, than was paid.
NotOverCancelled == \A o \in Orders : PgTotal(o, {"requested", "succeeded"}) <= Price[o]

\* PortOne was asked with the cancellable amount the driver read, which had room
\* for the refund, and only for attempts that were marked as asked.
AskedWithRoom ==
  /\ \A a \in Attempts : attempts[a].pgAsked => preflight[a].cancellable >= attempts[a].amount
  /\ \A p \in posts : attempts[p.attempt].pgAsked

SagaLinks ==
  /\ \A a \in Attempts : AttemptSound(attempts[a])
  /\ \A c \in Cancellations : CancellationSound(pg[c], answers, attempts)
  /\ OneMarker(pg)
  /\ \A c \in Cancellations : EventSound(events[c], pg[c])
  /\ \A w \in Workers : RowSound(workers[w], pg, answers, attempts)
  /\ AskedWithRoom
  /\ NotOverCancelled

\* The inductive invariant.
SagaInv == SagaTypeOK /\ Core /\ SagaLinks

---------------------------------------------------------------------------
(* The parts of the invariant are stable.                                  *)

\* What a step of PortOne leaves of its cancellations p and answers n: an ended
\* cancellation stays as it is, one under way stays what it is for, and an
\* attempt that was answered gets no new cancellation.
PgGoes(p, n, q, m) ==
  /\ \A c \in Cancellations : p[c].state # "none" =>
       /\ q[c].state # "none"
       /\ q[c].order = p[c].order /\ q[c].amount = p[c].amount /\ q[c].marker = p[c].marker
       /\ p[c].state \in {"succeeded", "failed"} => q[c].state = p[c].state
  /\ \A a \in Attempts : n[a] # "none" =>
       /\ m[a] # "none"
       /\ n[a] = "already_cancelled" => m[a] = "already_cancelled"
       /\ \A c \in Cancellations : q[c].marker = a => p[c].state # "none"

\* What a step of the ledger leaves of the attempts t.
AttemptsGo(t, u) ==
  \A a \in Attempts :
    /\ t[a].state # "unused" =>
         u[a].state # "unused" /\ u[a].order = t[a].order /\ u[a].amount = t[a].amount
    /\ t[a].pgAsked => u[a].pgAsked

\* A worker's row stays sound whatever PortOne and the ledger do meanwhile.
LEMMA RowStays ==
  ASSUME NEW r, r.seen \in Snapshots, NEW p, NEW n, NEW t, NEW q, NEW m, NEW u,
         RowSound(r, p, n, t), PgGoes(p, n, q, m), AttemptsGo(t, u),
         r.attempt \in Attempts \cup {None}
  PROVE  RowSound(r, q, m, u)
  <1>0. r.pc \notin {"idle", "get", "act"} => r.attempt \in Attempts
    BY DEF RowSound
  <1>1. r.job \in {"refund", "switch", "replan"} =>
          /\ r.attempt \in Attempts
          /\ u[r.attempt].state # "unused" /\ u[r.attempt].order = r.order
    BY DEF RowSound, AttemptsGo
  <1>2. r.pc \notin {"idle", "get", "act"} \/ r.row \in AskedStates => u[r.attempt].pgAsked
    <2>1. r.row \in AskedStates => r.row # "none"
      BY DEF AskedStates
    <2>2. r.pc \notin {"idle", "get", "act"} \/ r.row \in AskedStates => r.attempt \in Attempts
      BY <2>1 DEF RowSound
    <2> QED BY <2>2 DEF RowSound, AttemptsGo
  <1>3. SeenSound(r.seen, r.order, q)
    <2> SUFFICES ASSUME NEW c \in Cancellations, r.seen[c] # "none"
                 PROVE  /\ q[c].state # "none" /\ q[c].order = r.order
                        /\ r.seen[c] \in {"succeeded", "failed"} => q[c].state = r.seen[c]
      BY DEF SeenSound
    <2>1. /\ p[c].state # "none" /\ p[c].order = r.order
          /\ r.seen[c] \in {"succeeded", "failed"} => p[c].state = r.seen[c]
      BY DEF RowSound, SeenSound
    <2> QED BY <2>1 DEF PgGoes
  <1>4. r.pc = "settle" => OwnSucceeded(r.attempt, q)
    <2> SUFFICES ASSUME r.pc = "settle" PROVE OwnSucceeded(r.attempt, q)
      OBVIOUS
    <2>1. PICK c \in Cancellations : p[c].marker = r.attempt /\ p[c].state = "succeeded"
      BY DEF RowSound, OwnSucceeded
    <2>2. q[c].marker = r.attempt /\ q[c].state = "succeeded"
      BY <2>1 DEF PgGoes
    <2> QED BY <2>2 DEF OwnSucceeded
  <1>5. ASSUME r.pc \in {"reget", "react"}
        PROVE  /\ RejectionFinal(r.attempt, q, m)
               /\ \A c \in Cancellations : q[c].marker = r.attempt =>
                    p[c].marker = r.attempt /\ q[c].state = p[c].state
    <2>1. r.attempt \in Attempts /\ RejectionFinal(r.attempt, p, n)
      BY <1>0, <1>5 DEF RowSound
    <2>2. \A c \in Cancellations : q[c].marker = r.attempt =>
            /\ p[c].marker = r.attempt /\ q[c].state = p[c].state
            /\ p[c].state = "failed" \/ (p[c].state = "succeeded" /\ n[r.attempt] = "already_cancelled")
      BY <2>1 DEF RejectionFinal, PgGoes
    <2>3. /\ m[r.attempt] # "none"
          /\ n[r.attempt] = "already_cancelled" => m[r.attempt] = "already_cancelled"
      BY <2>1 DEF RejectionFinal, PgGoes
    <2> QED BY <2>2, <2>3 DEF RejectionFinal
  <1>6. r.pc = "react" /\ r.seen # NothingSeen =>
          \A c \in Cancellations : q[c].marker = r.attempt => r.seen[c] = q[c].state
    BY <1>5 DEF RowSound
  <1> QED BY <1>1, <1>2, <1>3, <1>4, <1>5, <1>6 DEF RowSound

\* Nothing changes.
LEMMA PgStays == \A p, n : PgGoes(p, n, p, n) <=>
    \A a \in Attempts : n[a] # "none" =>
      \A c \in Cancellations : p[c].marker = a => p[c].state # "none"
  BY DEF PgGoes

\* What the ledger recorded stays true.
LEMMA EventStays ==
  ASSUME NEW p, NEW n, NEW q, NEW m, PgGoes(p, n, q, m),
         NEW c \in Cancellations, NEW e, EventSound(e, p[c])
  PROVE  EventSound(e, q[c])
  <1>1. CASE e = AbsentEvent
    BY <1>1 DEF EventSound
  <1>2. CASE e # AbsentEvent
    <2>1. p[c].state \in {"succeeded", "failed"}
      BY <1>2 DEF EventSound
    <2>2. /\ q[c].order = p[c].order /\ q[c].amount = p[c].amount /\ q[c].marker = p[c].marker
          /\ q[c].state = p[c].state
      BY <2>1 DEF PgGoes
    <2> QED BY <1>2, <2>1, <2>2 DEF EventSound
  <1> QED BY <1>1, <1>2

\* The cancellations stay sound while the ledger goes on.
LEMMA CancellationStays ==
  ASSUME NEW x, NEW n, NEW t, NEW u, CancellationSound(x, n, t), AttemptsGo(t, u),
         x.marker \in Attempts \cup {None}, \A a \in Attempts : AttemptSound(t[a])
  PROVE  CancellationSound(x, n, u)
  <1>1. CASE x = NoCancellation
    BY <1>1 DEF CancellationSound
  <1>2. CASE x # NoCancellation
    <2>1. x.marker # None => x.marker \in Attempts /\ t[x.marker].state # "unused"
      BY <1>2 DEF CancellationSound, AttemptSound
    <2> QED BY <1>2, <2>1 DEF CancellationSound, AttemptsGo
  <1> QED BY <1>1, <1>2

\* A worker that has ended its request.
LEMMA IdleSound ==
  \A p, n, t : RowSound(Idle, p, n, t) /\ Idle \in WorkerRow
  <1>1. /\ Idle.pc = "idle" /\ Idle.job = "none" /\ Idle.row = "none" /\ Idle.todo = {}
        /\ Idle.seen = NothingSeen /\ Idle.attempt = None /\ Idle.order = None /\ Idle.paid = FALSE
    BY DEF Idle
  <1>2. NothingSeen \in Snapshots /\ \A c \in Cancellations : NothingSeen[c] = "none"
    BY DEF NothingSeen, Snapshots, PgStates
  <1>3. Idle \in WorkerRow
    BY <1>2 DEF Idle, WorkerRow
  <1>4. \A p, n, t : RowSound(Idle, p, n, t)
    BY <1>1, <1>2 DEF RowSound, SeenSound, AskedStates
  <1> QED BY <1>3, <1>4

---------------------------------------------------------------------------
(* Steps of the ledger.                                                    *)

\* What every step of the ledger keeps that PortOne or a worker relies on.
LedgerGoes ==
  /\ [Next]_vars
  /\ AttemptsGo(attempts, attempts')
  /\ \A a \in Attempts : AttemptSound(attempts'[a])
  /\ \A c \in Cancellations : EventSound(events'[c], pg[c])

\* No attempt is asked of PortOne that was not before.
NoneAsked == \A a \in Attempts : attempts'[a].pgAsked => attempts[a].pgAsked

\* A step that writes one attempt.
LEMMA AttemptMoves ==
  ASSUME SagaInv, NEW a \in Attempts, NEW row, attempts' = [attempts EXCEPT ![a] = row],
         attempts[a].state # "unused" =>
           /\ row.state # "unused"
           /\ row.order = attempts[a].order /\ row.amount = attempts[a].amount,
         attempts[a].pgAsked => row.pgAsked,
         AttemptSound(row)
  PROVE  /\ AttemptsGo(attempts, attempts')
         /\ \A b \in Attempts : AttemptSound(attempts'[b])
         /\ row.pgAsked = attempts[a].pgAsked => NoneAsked
  <1>1. /\ attempts'[a] = row
        /\ \A b \in Attempts : b # a => attempts'[b] = attempts[b]
    BY DEF SagaInv, Core, TypeOK
  <1>2. AttemptsGo(attempts, attempts')
    BY <1>1 DEF AttemptsGo
  <1>3. \A b \in Attempts : AttemptSound(attempts'[b])
    BY <1>1 DEF SagaInv, SagaLinks
  <1>4. row.pgAsked = attempts[a].pgAsked => NoneAsked
    BY <1>1 DEF NoneAsked
  <1> QED BY <1>2, <1>3, <1>4

\* Events that are closed as ignored stay what they report.
LEMMA IgnoredSound ==
  ASSUME SagaInv, NEW o, events' = IgnoreFailedEvents(o)
  PROVE  \A c \in Cancellations : EventSound(events'[c], pg[c])
  <1> SUFFICES ASSUME NEW c \in Cancellations PROVE EventSound(events'[c], pg[c])
    OBVIOUS
  <1>1. EventSound(events[c], pg[c]) /\ events[c] \in EventRow
    BY DEF SagaInv, SagaLinks, Core, TypeOK
  <1>2. events'[c] = events[c] \/ (/\ events[c].state = "unmatched"
                                   /\ events'[c] = [events[c] EXCEPT !.state = "ignored"])
    BY DEF IgnoreFailedEvents
  <1>3. CASE events'[c] = events[c]
    BY <1>1, <1>3
  <1>4. CASE events[c].state = "unmatched" /\ events'[c] = [events[c] EXCEPT !.state = "ignored"]
    <2>1. events[c] # AbsentEvent
      BY <1>4 DEF AbsentEvent
    <2>2. /\ events'[c].state = "ignored"
          /\ events'[c].order = events[c].order /\ events'[c].amount = events[c].amount
          /\ events'[c].marker = events[c].marker /\ events'[c].status = events[c].status
      BY <1>1, <1>4 DEF EventRow
    <2> QED BY <1>1, <2>1, <2>2 DEF EventSound
  <1> QED BY <1>2, <1>3, <1>4

\* A step that leaves attempts and events alone.
LEMMA TablesStay ==
  ASSUME SagaInv, UNCHANGED <<attempts, events>>, [Next]_vars
  PROVE  LedgerGoes /\ NoneAsked
  <1>1. AttemptsGo(attempts, attempts') /\ NoneAsked
    BY DEF AttemptsGo, NoneAsked
  <1>2. /\ \A a \in Attempts : AttemptSound(attempts'[a])
        /\ \A c \in Cancellations : EventSound(events'[c], pg[c])
    BY DEF SagaInv, SagaLinks
  <1> QED BY <1>1, <1>2 DEF LedgerGoes

LEMMA LedgerStays ==
  ASSUME SagaInv, UNCHANGED vars
  PROVE  LedgerGoes /\ NoneAsked
  BY TablesStay DEF vars

\* Every row of an attempt has its columns.
LEMMA AttemptRows == SagaInv => \A a \in Attempts : attempts[a] \in AttemptRow /\ AttemptSound(attempts[a])
  BY DEF SagaInv, SagaLinks, Core, TypeOK

\* The driver's steps on an attempt that touch no event.
LEMMA DriverGoes ==
  ASSUME SagaInv, NEW a \in Attempts, RecordPgPending(a) \/ RecordPgFailed(a)
  PROVE  LedgerGoes /\ NoneAsked
  <1>1. PICK row : /\ attempts' = [attempts EXCEPT ![a] = row]
                   /\ row \in {[attempts[a] EXCEPT !.state = "pg_pending"],
                               [attempts[a] EXCEPT !.state = "manual_review"]}
    BY DEF RecordPgPending, RecordPgFailed
  <1>2. attempts[a].state \in {"pg_requested", "pg_pending"}
    BY DEF RecordPgPending, RecordPgFailed
  <1>3. /\ row.state \in {"pg_pending", "manual_review"}
        /\ row.order = attempts[a].order /\ row.amount = attempts[a].amount
        /\ row.pgAsked = attempts[a].pgAsked /\ attempts[a].pgAsked
    BY <1>1, <1>2, AttemptRows DEF AttemptRow, AttemptSound, AskedStates
  <1>4. AttemptSound(row)
    BY <1>3 DEF AttemptSound
  <1>5. /\ AttemptsGo(attempts, attempts')
        /\ \A b \in Attempts : AttemptSound(attempts'[b])
        /\ NoneAsked
    BY <1>1, <1>3, <1>4, AttemptMoves
  <1>6. events' = events
    BY DEF RecordPgPending, RecordPgFailed
  <1>7. [Next]_vars
    BY DEF Next
  <1> QED BY <1>5, <1>6, <1>7 DEF LedgerGoes, SagaInv, SagaLinks

\* mark_pg_requested: the one step that asks PortOne.
LEMMA MarkGoes ==
  ASSUME SagaInv, NEW a \in Attempts, MarkPgRequested(a)
  PROVE  /\ LedgerGoes
         /\ attempts'[a].pgAsked /\ attempts'[a].amount = attempts[a].amount
         /\ \A b \in Attempts : b # a => attempts'[b] = attempts[b]
  <1> DEFINE row == [attempts[a] EXCEPT !.state = "pg_requested", !.pgAsked = TRUE]
  <1>1. attempts' = [attempts EXCEPT ![a] = row] /\ attempts[a].state = "prepared" /\ events' = events
    BY DEF MarkPgRequested
  <1>2. /\ row.state = "pg_requested" /\ row.pgAsked
        /\ row.order = attempts[a].order /\ row.amount = attempts[a].amount
    BY AttemptRows DEF AttemptRow
  <1> HIDE DEF row
  <1>3. AttemptSound(row)
    BY <1>2 DEF AttemptSound
  <1>4. /\ AttemptsGo(attempts, attempts')
        /\ \A b \in Attempts : AttemptSound(attempts'[b])
    BY <1>1, <1>2, <1>3, AttemptMoves
  <1>5. attempts'[a] = row /\ \A b \in Attempts : b # a => attempts'[b] = attempts[b]
    BY <1>1 DEF SagaInv, Core, TypeOK
  <1>6. [Next]_vars
    BY DEF Next
  <1> QED BY <1>1, <1>2, <1>4, <1>5, <1>6 DEF LedgerGoes, SagaInv, SagaLinks

\* Commits.
LEMMA CommitGoes ==
  ASSUME SagaInv, NEW a \in Attempts, AdminRefundCommit(a) \/ AdminRefundCommitManual(a)
  PROVE  LedgerGoes /\ NoneAsked
  <1> DEFINE row == [attempts[a] EXCEPT !.state = "committed", !.closure = Closure(a)]
  <1>1. ApplyCommit(a) /\ attempts[a].state \in {"pg_succeeded", "manual_pending"}
    BY DEF AdminRefundCommit, AdminRefundCommitManual
  <1>2. attempts' = [attempts EXCEPT ![a] = row] /\ events' = events
    BY <1>1 DEF ApplyCommit
  <1>3. /\ row.state = "committed" /\ row.pgAsked = attempts[a].pgAsked
        /\ row.order = attempts[a].order /\ row.amount = attempts[a].amount
    BY AttemptRows DEF AttemptRow
  <1> HIDE DEF row
  <1>4. AttemptSound(row)
    BY <1>3 DEF AttemptSound, AskedStates
  <1>5. /\ AttemptsGo(attempts, attempts')
        /\ \A b \in Attempts : AttemptSound(attempts'[b])
        /\ NoneAsked
    BY <1>2, <1>3, <1>4, AttemptMoves
  <1>6. [Next]_vars
    BY DEF Next
  <1> QED BY <1>2, <1>5, <1>6 DEF LedgerGoes, SagaInv, SagaLinks

\* Releases and the switch to a manual transfer.
LEMMA ReleaseGoes ==
  ASSUME SagaInv, NEW a \in Attempts,
         AdminRefundRelease(a) \/ ReplanPrePg(a, FALSE) \/ ReplanAfterPg(a) \/ SwitchToManual(a)
  PROVE  LedgerGoes /\ NoneAsked
  <1>1. \E row : /\ attempts' = [attempts EXCEPT ![a] = row]
                 /\ row.state \in {"released", "manual_pending"}
                 /\ row.order = attempts[a].order /\ row.amount = attempts[a].amount
                 /\ row.pgAsked = attempts[a].pgAsked
    <2>1. ASSUME NEW reason, ApplyRelease(a, reason) PROVE <1>1!:
      <3> WITNESS [attempts[a] EXCEPT !.state = "released", !.release = reason]
      <3> QED BY <2>1, AttemptRows DEF ApplyRelease, AttemptRow
    <2>2. ASSUME SwitchToManual(a) PROVE <1>1!:
      <3> WITNESS [attempts[a] EXCEPT !.state = "manual_pending", !.rail = "manual_transfer"]
      <3> QED BY <2>2, AttemptRows DEF SwitchToManual, AttemptRow
    <2> QED BY <2>1, <2>2 DEF AdminRefundRelease, ReplanPrePg, ReplanAfterPg
  <1>2. attempts[a].state # "unused"
    BY DEF AdminRefundRelease, ReplanPrePg, ReplanAfterPg, SwitchToManual, Switchable
  <1>3. PICK row : /\ attempts' = [attempts EXCEPT ![a] = row]
                   /\ row.state \in {"released", "manual_pending"}
                   /\ row.order = attempts[a].order /\ row.amount = attempts[a].amount
                   /\ row.pgAsked = attempts[a].pgAsked
    BY <1>1
  <1>4. AttemptSound(row)
    BY <1>3 DEF AttemptSound, AskedStates
  <1>5. /\ AttemptsGo(attempts, attempts')
        /\ \A b \in Attempts : AttemptSound(attempts'[b])
        /\ NoneAsked
    BY <1>3, <1>4, AttemptMoves
  <1>6. \A c \in Cancellations : EventSound(events'[c], pg[c])
    <2>1. events' = events \/ events' = IgnoreFailedEvents(attempts[a].order)
      BY DEF AdminRefundRelease, ReplanPrePg, ReplanAfterPg, SwitchToManual
    <2> QED BY <2>1, IgnoredSound DEF SagaInv, SagaLinks
  <1>7. [Next]_vars
    <2>1. FALSE \in BOOLEAN
      OBVIOUS
    <2> QED BY <2>1 DEF Next
  <1> QED BY <1>5, <1>6, <1>7 DEF LedgerGoes

\* Begins of refunds.
LEMMA BeginGoes ==
  ASSUME SagaInv, NEW a \in Attempts, NEW o \in Orders, NEW qty \in 1..Credits[o],
         \/ \E rate \in SagaRates : AdminRefundBegin(a, o, qty, rate, "portone_cancel")
         \/ CancelIntentResolve(a, o, qty)
  PROVE  LedgerGoes /\ NoneAsked
  <1>1. [Next]_vars
    <2>1. SagaRates \subseteq Rates /\ "portone_cancel" \in {"portone_cancel", "manual_transfer"}
      BY SagaAssumption
    <2> QED BY <2>1 DEF Next
  <1>2. PICK rate, origin : Reserve(a, o, qty, rate, "portone_cancel", origin)
    BY DEF AdminRefundBegin, CancelIntentResolve
  <1>3. PICK amount : attempts' = [attempts EXCEPT ![a] =
          [UnusedAttempt EXCEPT !.state = "prepared", !.order = o, !.qty = qty,
             !.amount = amount, !.rail = "portone_cancel", !.origin = origin]]
    BY <1>2 DEF Reserve
  <1> DEFINE row == [UnusedAttempt EXCEPT !.state = "prepared", !.order = o, !.qty = qty,
                       !.amount = amount, !.rail = "portone_cancel", !.origin = origin]
  <1>4. row.state = "prepared" /\ row.pgAsked = FALSE
    BY DEF UnusedAttempt
  <1>5. attempts[a].state = "unused" /\ events' = events
    BY <1>2 DEF Reserve
  <1>6. attempts[a].pgAsked = FALSE
    BY <1>5, AttemptRows DEF AttemptSound, AttemptRow
  <1>7. attempts' = [attempts EXCEPT ![a] = row]
    BY <1>3
  <1> HIDE DEF row
  <1>8. AttemptSound(row)
    BY <1>4 DEF AttemptSound, AskedStates
  <1>9. /\ AttemptsGo(attempts, attempts')
        /\ \A b \in Attempts : AttemptSound(attempts'[b])
        /\ NoneAsked
    BY <1>4, <1>5, <1>6, <1>7, <1>8, AttemptMoves
  <1> QED BY <1>1, <1>5, <1>9 DEF LedgerGoes, SagaInv, SagaLinks

\* Payments and cancel intents.
LEMMA OrderGoes ==
  ASSUME SagaInv, NEW o \in Orders,
         \/ MarkPaidAndGrant(o) \/ MarkOrderCanceledUnpaid(o)
         \/ \E rate \in SagaRates : CancelIntentBegin(o, rate)
  PROVE  LedgerGoes /\ NoneAsked
  <1>1. [Next]_vars
    BY SagaAssumption DEF Next
  <1>2. UNCHANGED <<attempts, events>>
    BY DEF MarkPaidAndGrant, MarkOrderCanceledUnpaid, CancelIntentBegin
  <1> QED BY <1>1, <1>2, TablesStay

\* A successful event that becomes resolved stays what it reports.
LEMMA ResolvedSound ==
  ASSUME SagaInv, NEW c \in Cancellations, NEW econ,
         events[c].state = "unmatched", events[c].status = "SUCCEEDED",
         events'[c] = [events[c] EXCEPT !.state = "resolved", !.econ = econ]
  PROVE  EventSound(events'[c], pg[c])
  <1>1. EventSound(events[c], pg[c]) /\ events[c] \in EventRow /\ events[c] # AbsentEvent
    BY DEF SagaInv, SagaLinks, Core, TypeOK, AbsentEvent
  <1>2. /\ events'[c].state = "resolved" /\ events'[c].status = "SUCCEEDED"
        /\ events'[c].order = events[c].order /\ events'[c].amount = events[c].amount
        /\ events'[c].marker = events[c].marker
    BY <1>1 DEF EventRow
  <1> QED BY <1>1, <1>2 DEF EventSound

\* Resolutions as external cancellations.
LEMMA ResolveGoes ==
  ASSUME SagaInv,
         \/ \E o \in Orders : ResolveAutoFull(o)
         \/ \E c \in Cancellations : events[c].order # None /\
              \E econ \in 0..Credits[events[c].order] : ResolveExternalCancellation(c, econ)
  PROVE  LedgerGoes /\ NoneAsked
  <1>1. [Next]_vars
    BY DEF Next
  <1>2. AttemptsGo(attempts, attempts') /\ NoneAsked /\ attempts' = attempts
    BY DEF ResolveAutoFull, ResolveExternalCancellation, ResolveFromLot, AttemptsGo, NoneAsked
  <1>3. ASSUME NEW c \in Cancellations PROVE EventSound(events'[c], pg[c])
    <2>1. events'[c] = events[c] => EventSound(events'[c], pg[c])
      BY DEF SagaInv, SagaLinks
    <2>2. ASSUME NEW o \in Orders, ResolveAutoFull(o) PROVE EventSound(events'[c], pg[c])
      <3>1. CASE c \in EventsOf(o)
        <4>1. events[c].state = "unmatched" /\ events[c].status = "SUCCEEDED"
          BY <2>2, <3>1 DEF ResolveAutoFull, AutoFullEligible
        <4>2. \E econ : events'[c] = [events[c] EXCEPT !.state = "resolved", !.econ = econ]
          BY <2>2, <3>1 DEF ResolveAutoFull
        <4> QED BY <4>1, <4>2, ResolvedSound
      <3>2. CASE c \notin EventsOf(o)
        BY <2>1, <2>2, <3>2 DEF ResolveAutoFull
      <3> QED BY <3>1, <3>2
    <2>3. ASSUME NEW d \in Cancellations, NEW econ, ResolveExternalCancellation(d, econ)
          PROVE  EventSound(events'[c], pg[c])
      <3>1. events' = [events EXCEPT ![d] = [events[d] EXCEPT !.state = "resolved", !.econ = econ]]
        BY <2>3 DEF ResolveExternalCancellation
      <3>2. CASE c = d
        <4>1. events'[c] = [events[c] EXCEPT !.state = "resolved", !.econ = econ]
          BY <3>1, <3>2 DEF SagaInv, Core, TypeOK
        <4>2. events[c].state = "unmatched" /\ events[c].status = "SUCCEEDED"
          BY <2>3, <3>2 DEF ResolveExternalCancellation
        <4> QED BY <4>1, <4>2, ResolvedSound
      <3>3. CASE c # d
        BY <2>1, <3>1, <3>3 DEF SagaInv, Core, TypeOK
      <3> QED BY <3>2, <3>3
    <2> QED BY <2>2, <2>3
  <1> QED BY <1>1, <1>2, <1>3 DEF LedgerGoes, SagaInv, SagaLinks

\* A report of what PortOne did to one of the order's cancellations.
LEMMA ReportGoes ==
  ASSUME SagaInv, NEW c \in Cancellations, NEW o \in Orders, NEW status \in {"SUCCEEDED", "FAILED"},
         RecordCancellation(c, o, status, pg[c].amount, pg[c].marker),
         pg[c].order = o, pg[c].state = (IF status = "SUCCEEDED" THEN "succeeded" ELSE "failed")
  PROVE  LedgerGoes /\ NoneAsked
  <1>0. pg[c].marker \in Attempts \cup {None}
    BY DEF SagaInv, SagaTypeOK
  <1>1. [Next]_vars
    <2>1. CASE pg[c].marker = None
      <3>1. pg[c].amount \in ExternalAmounts
        BY <2>1 DEF RecordCancellation, Reportable
      <3> QED BY <2>1, <3>1 DEF Next
    <2>2. CASE pg[c].marker # None
      <3>1. pg[c].marker \in Attempts
        BY <1>0, <2>2
      <3>2. attempts[pg[c].marker].amount = pg[c].amount
        BY <2>2 DEF RecordCancellation, Reportable
      <3>3. RecordCancellation(c, o, status, attempts[pg[c].marker].amount, pg[c].marker)
        BY <3>2
      <3> QED BY <3>1, <3>3 DEF Next
    <2> QED BY <2>1, <2>2
  <1>2. AttemptsGo(attempts, attempts') /\ NoneAsked /\ attempts' = attempts
    BY DEF RecordCancellation, AttemptsGo, NoneAsked
  <1> DEFINE new == [AbsentEvent EXCEPT !.state = "unmatched", !.order = o, !.status = status,
                                        !.amount = pg[c].amount, !.marker = pg[c].marker]
  <1>3. events' = [events EXCEPT ![c] = new]
    BY DEF RecordCancellation
  <1>4. /\ new.state = "unmatched" /\ new.order = o /\ new.status = status
        /\ new.amount = pg[c].amount /\ new.marker = pg[c].marker
    BY DEF AbsentEvent
  <1> HIDE DEF new
  <1>5. EventSound(new, pg[c])
    BY <1>4 DEF EventSound
  <1>6. \A d \in Cancellations : EventSound(events'[d], pg[d])
    BY <1>3, <1>5 DEF SagaInv, SagaLinks, Core, TypeOK
  <1> QED BY <1>1, <1>2, <1>6 DEF LedgerGoes, SagaInv, SagaLinks

\* record_pg_result of the attempt's own cancellation.
LEMMA SettleGoes ==
  ASSUME SagaInv, NEW a \in Attempts, NEW c \in Cancellations, RecordPgSucceeded(a, c),
         pg[c].marker = a, pg[c].state = "succeeded"
  PROVE  LedgerGoes /\ NoneAsked
  <1>1. [Next]_vars
    BY DEF Next
  <1> DEFINE row == [attempts[a] EXCEPT !.state = "pg_succeeded", !.cancel = c]
             new == [state |-> "matched", order |-> attempts[a].order, status |-> "SUCCEEDED",
                     amount |-> attempts[a].amount, marker |-> a, matched |-> a, econ |-> 0]
  <1>2. /\ attempts' = [attempts EXCEPT ![a] = row] /\ events' = [events EXCEPT ![c] = new]
        /\ attempts[a].state \in {"pg_requested", "pg_pending"}
    BY DEF RecordPgSucceeded
  <1>3. /\ row.state = "pg_succeeded" /\ row.pgAsked = attempts[a].pgAsked /\ attempts[a].pgAsked
        /\ row.order = attempts[a].order /\ row.amount = attempts[a].amount
    BY <1>2, AttemptRows DEF AttemptRow, AttemptSound, AskedStates
  <1> HIDE DEF row
  <1>4. AttemptSound(row)
    BY <1>3 DEF AttemptSound
  <1>5. /\ AttemptsGo(attempts, attempts')
        /\ \A b \in Attempts : AttemptSound(attempts'[b])
        /\ NoneAsked
    BY <1>2, <1>3, <1>4, AttemptMoves
  <1>6. EventSound(new, pg[c])
    <2>1. a # None
      BY NoneAssumption
    <2>2. CancellationSound(pg[c], answers, attempts) /\ pg[c] # NoCancellation
      BY DEF SagaInv, SagaLinks, NoCancellation
    <2>3. attempts[a].order = pg[c].order /\ attempts[a].amount = pg[c].amount
      BY <2>1, <2>2 DEF CancellationSound
    <2> QED BY <2>3 DEF EventSound
  <1> HIDE DEF new
  <1>7. \A d \in Cancellations : EventSound(events'[d], pg[d])
    BY <1>2, <1>6 DEF SagaInv, SagaLinks, Core, TypeOK
  <1> QED BY <1>1, <1>5, <1>7 DEF LedgerGoes

---------------------------------------------------------------------------
(* Sums of cancelled amounts.                                              *)

\* A sum over two parts of a set.
LEMMA SumSplit ==
  ASSUME NEW f, NEW S, IsFiniteSet(S), NEW U, NEW V, S = U \cup V, U \cap V = {},
         \A x \in S : f[x] \in Nat
  PROVE  /\ SumFunctionOnSet(f, U) \in Nat /\ SumFunctionOnSet(f, V) \in Nat
         /\ SumFunctionOnSet(f, S) = SumFunctionOnSet(f, U) + SumFunctionOnSet(f, V)
  <1> DEFINE g == [x \in S |-> IF x \in U THEN f[x] ELSE 0]
             k == [x \in S |-> IF x \in V THEN f[x] ELSE 0]
  <1>1. IsFiniteSet(U) /\ IsFiniteSet(V) /\ U \in SUBSET S /\ V \in SUBSET S
    BY FS_Subset
  <1>2. SumFunctionOnSet(f, S) = SumFunctionOnSet(g, S) + SumFunctionOnSet(k, S)
    BY SumPlus
  <1>3. SumFunctionOnSet(g, S) = SumFunctionOnSet(g, U) /\ SumFunctionOnSet(g, U) = SumFunctionOnSet(f, U)
    <2>1. \A x \in U : g[x] = f[x] /\ g[x] \in Int
      OBVIOUS
    <2>2. \A x \in S \ U : g[x] = 0
      OBVIOUS
    <2> HIDE DEF g
    <2> QED BY <1>1, <2>1, <2>2, SumOfSome, SumSame
  <1>4. SumFunctionOnSet(k, S) = SumFunctionOnSet(k, V) /\ SumFunctionOnSet(k, V) = SumFunctionOnSet(f, V)
    <2>1. \A x \in V : k[x] = f[x] /\ k[x] \in Int
      OBVIOUS
    <2>2. \A x \in S \ V : k[x] = 0
      OBVIOUS
    <2> HIDE DEF k
    <2> QED BY <1>1, <2>1, <2>2, SumOfSome, SumSame
  <1>5. SumFunctionOnSet(f, U) \in Nat /\ SumFunctionOnSet(f, V) \in Nat
    BY <1>1, SumIsNat
  <1> QED BY <1>2, <1>3, <1>4, <1>5

\* A sum of naturals over fewer terms is at most the sum.
LEMMA SumOfFewer ==
  ASSUME NEW f, NEW S, IsFiniteSet(S), NEW U \in SUBSET S, \A x \in S : f[x] \in Nat
  PROVE  /\ SumFunctionOnSet(f, U) \in Nat /\ SumFunctionOnSet(f, S) \in Nat
         /\ SumFunctionOnSet(f, U) <= SumFunctionOnSet(f, S)
  <1> DEFINE V == S \ U
  <1>1. /\ SumFunctionOnSet(f, U) \in Nat /\ SumFunctionOnSet(f, V) \in Nat
        /\ SumFunctionOnSet(f, S) = SumFunctionOnSet(f, U) + SumFunctionOnSet(f, V)
    <2>1. S = U \cup V /\ U \cap V = {}
      OBVIOUS
    <2> HIDE DEF V
    <2> QED BY <2>1, SumSplit
  <1> HIDE DEF V
  <1> QED BY <1>1

\* A sum over other names of the same terms.
LEMMA SumRenamed ==
  ASSUME NEW f, NEW g, NEW h, NEW S, IsFiniteSet(S), NEW D, IsFiniteSet(D),
         \A x \in S : h[x] \in D /\ f[x] \in Int /\ f[x] = g[h[x]],
         \A x, y \in S : h[x] = h[y] => x = y
  PROVE  SumFunctionOnSet(f, S) = SumFunctionOnSet(g, {h[x] : x \in S})
  <1> DEFINE Img(T) == {h[x] : x \in T}
             B == {T \in SUBSET S : SumFunctionOnSet(f, T) # SumFunctionOnSet(g, Img(T))}
  <1>1. SUFFICES ASSUME B # {} PROVE FALSE
    OBVIOUS
  <1>2. PICK T \in B : \A x \in T : T \ {x} \notin B
    BY <1>1, LeastBad
  <1>3. IsFiniteSet(T) /\ T \in SUBSET S
    BY FS_Subset
  <1>4. CASE T = {}
    <2>1. Img(T) = {}
      BY <1>4
    <2>2. SumFunctionOnSet(f, {}) = 0 /\ SumFunctionOnSet(g, {}) = 0
      BY SumUnfolds
    <2> QED BY <1>2, <1>4, <2>1, <2>2
  <1>5. CASE T # {}
    <2>1. PICK x \in T : TRUE
      BY <1>5
    <2>2. PICK U \in SUBSET S : U = T \ {x}
      BY <1>3
    <2>3. IsFiniteSet(U) /\ SumFunctionOnSet(f, U) = SumFunctionOnSet(g, Img(U))
      BY <1>2, <1>3, <2>2, FS_Subset
    <2>4. SumFunctionOnSet(f, T) = f[x] + SumFunctionOnSet(f, U)
      BY <1>3, <2>2, SumRemove
    <2>5. Img(T) = Img(U) \cup {h[x]} /\ h[x] \notin Img(U)
      <3>1. \A y \in U : y \in S /\ y # x
        BY <2>2
      <3> QED BY <1>3, <2>1, <2>2, <3>1
    <2>6. IsFiniteSet(Img(U))
      <3>1. Img(U) \in SUBSET D
        OBVIOUS
      <3> QED BY <3>1, FS_Subset
    <2>7. g[h[x]] \in Int /\ g[h[x]] = f[x] /\ \A z \in Img(U) : g[z] \in Int
      BY <1>3
    <2> HIDE DEF Img
    <2>8. SumFunctionOnSet(g, Img(U) \cup {h[x]}) = g[h[x]] + SumFunctionOnSet(g, Img(U))
      BY <2>5, <2>6, <2>7, SumInsert
    <2>9. SumFunctionOnSet(f, T) = SumFunctionOnSet(g, Img(T))
      BY <2>3, <2>4, <2>5, <2>7, <2>8
    <2> QED BY <1>2, <2>9 DEF Img
  <1> QED BY <1>4, <1>5

\* The first of some numbered rows.
LEMMA FirstExists ==
  ASSUME NEW S \in SUBSET Cancellations, S # {}
  PROVE  \E c \in S : \A d \in S : c <= d
  <1>1. IsWellFoundedOn(OpToRel(<, Nat), Nat)
    BY NatLessThanWellFounded
  <1>2. S \subseteq Nat
    BY CancellationAssumption
  <1>3. PICK c \in S : \A d \in S : <<d, c>> \notin OpToRel(<, Nat)
    BY <1>1, <1>2, WFMin
  <1>4. \A d \in S : ~(d < c)
    BY <1>2, <1>3 DEF OpToRel
  <1> QED BY <1>2, <1>4

\* The cancellations of order o in some states.
Counted(o, states) == {c \in Cancellations : pg[c].order = o /\ pg[c].state \in states}

Cancelled == [c \in Cancellations |-> pg[c].amount]

LEMMA Totals ==
  SagaTypeOK =>
    /\ \A c \in Cancellations : Cancelled[c] \in Nat /\ Cancelled[c] = pg[c].amount
    /\ \A S \in SUBSET Cancellations : IsFiniteSet(S)
    /\ \A o, states : PgTotal(o, states) = SumFunctionOnSet(Cancelled, Counted(o, states))
  <1> SUFFICES ASSUME SagaTypeOK
               PROVE  /\ \A c \in Cancellations : Cancelled[c] \in Nat /\ Cancelled[c] = pg[c].amount
                      /\ \A S \in SUBSET Cancellations : IsFiniteSet(S)
                      /\ \A o, states : PgTotal(o, states) = SumFunctionOnSet(Cancelled, Counted(o, states))
    OBVIOUS
  <1>1. \A S \in SUBSET Cancellations : IsFiniteSet(S)
    BY FiniteAssumption, FS_Subset
  <1>2. \A c \in Cancellations : Cancelled[c] \in Nat /\ Cancelled[c] = pg[c].amount
    BY DEF Cancelled, SagaTypeOK
  <1> QED BY <1>1, <1>2 DEF PgTotal, Counted, Cancelled

LEMMA TotalIsNat ==
  ASSUME pg \in [Cancellations -> [state : PgStates, order : Orders \cup {None},
                                   amount : Nat, marker : Attempts \cup {None}]],
         NEW o, NEW states
  PROVE  PgTotal(o, states) \in Nat
  <1> DEFINE f == [c \in Cancellations |-> pg[c].amount]
             S == {c \in Cancellations : pg[c].order = o /\ pg[c].state \in states}
  <1>1. IsFiniteSet(S) /\ \A c \in S : f[c] \in Nat
    BY FiniteAssumption, FS_Subset
  <1>2. SumFunctionOnSet(f, S) \in Nat
    BY <1>1, SumIsNat
  <1> QED BY <1>2 DEF PgTotal

LEMMA TotalIsNatNext ==
  ASSUME pg' \in [Cancellations -> [state : PgStates, order : Orders \cup {None},
                                    amount : Nat, marker : Attempts \cup {None}]],
         NEW o, NEW states
  PROVE  PgTotal(o, states)' \in Nat
  <1> DEFINE f == [c \in Cancellations |-> pg'[c].amount]
             S == {c \in Cancellations : pg'[c].order = o /\ pg'[c].state \in states}
  <1>1. IsFiniteSet(S) /\ \A c \in S : f[c] \in Nat
    BY FiniteAssumption, FS_Subset
  <1>2. SumFunctionOnSet(f, S) \in Nat
    BY <1>1, SumIsNat
  <1> QED BY <1>2 DEF PgTotal

\* A cancellation that was not there is made.
LEMMA TotalOfCreated ==
  ASSUME SagaTypeOK, NEW c \in Cancellations, pg[c] = NoCancellation,
         NEW row \in [state : PgStates, order : Orders \cup {None},
                      amount : Nat, marker : Attempts \cup {None}],
         row.order \in Orders, pg' = [pg EXCEPT ![c] = row], NEW o \in Orders
  PROVE  PgTotal(o, {"requested", "succeeded"})' =
           PgTotal(o, {"requested", "succeeded"})
             + (IF row.order = o /\ row.state \in {"requested", "succeeded"} THEN row.amount ELSE 0)
  <1> DEFINE states == {"requested", "succeeded"}
             S == Counted(o, states)
             g == [d \in Cancellations |-> pg'[d].amount]
  <1>1. /\ S \in SUBSET Cancellations /\ c \notin S /\ IsFiniteSet(S)
        /\ PgTotal(o, states) = SumFunctionOnSet(Cancelled, S)
        /\ \A d \in S : Cancelled[d] \in Nat /\ Cancelled[d] = pg[d].amount
    BY Totals DEF Counted, NoCancellation
  <1>2. pg'[c] = row /\ \A d \in Cancellations : d # c => pg'[d] = pg[d]
    BY DEF SagaTypeOK
  <1>3. SumFunctionOnSet(g, S) = SumFunctionOnSet(Cancelled, S) /\ SumFunctionOnSet(g, S) \in Int
    <2>1. \A d \in S : g[d] = Cancelled[d] /\ Cancelled[d] \in Int
      BY <1>1, <1>2
    <2> QED BY <1>1, <2>1, SumSame, SumIsInt
  <1>4. PgTotal(o, states)' = SumFunctionOnSet(g, {d \in Cancellations : pg'[d].order = o /\ pg'[d].state \in states})
    BY DEF PgTotal
  <1>5. CASE row.order = o /\ row.state \in states
    <2>1. {d \in Cancellations : pg'[d].order = o /\ pg'[d].state \in states} = S \cup {c}
      BY <1>1, <1>2, <1>5 DEF Counted
    <2>2. g[c] = row.amount /\ row.amount \in Int /\ \A d \in S : g[d] \in Int
      BY <1>1, <1>2
    <2>3. SumFunctionOnSet(g, S \cup {c}) = g[c] + SumFunctionOnSet(g, S)
      BY <1>1, <2>2, SumInsert
    <2>4. PgTotal(o, states)' = SumFunctionOnSet(g, S \cup {c})
      BY <1>4, <2>1
    <2>5. PgTotal(o, states)' = PgTotal(o, states) + row.amount
      <3>1. PgTotal(o, states) = SumFunctionOnSet(g, S) /\ PgTotal(o, states) \in Int
        BY <1>1, <1>3
      <3> HIDE DEF g, S
      <3> QED BY <2>2, <2>3, <2>4, <3>1
    <2> QED BY <1>5, <2>5
  <1>6. CASE ~(row.order = o /\ row.state \in states)
    <2>1. {d \in Cancellations : pg'[d].order = o /\ pg'[d].state \in states} = S
      BY <1>1, <1>2, <1>6 DEF Counted
    <2>2. PgTotal(o, states)' = SumFunctionOnSet(g, S)
      BY <1>4, <2>1
    <2>3. PgTotal(o, states) = SumFunctionOnSet(g, S) /\ PgTotal(o, states) \in Int
      BY <1>1, <1>3
    <2>4. PgTotal(o, states)' = PgTotal(o, states)
      BY <2>2, <2>3
    <2> QED BY <1>6, <2>3, <2>4
  <1> QED BY <1>5, <1>6

\* A cancellation under way ends.
LEMMA TotalOfFinished ==
  ASSUME SagaTypeOK, NEW c \in Cancellations, pg[c].state = "requested",
         NEW state \in {"succeeded", "failed"}, pg' = [pg EXCEPT ![c].state = state], NEW o \in Orders
  PROVE  PgTotal(o, {"requested", "succeeded"})' <= PgTotal(o, {"requested", "succeeded"})
  <1> DEFINE states == {"requested", "succeeded"}
             S == Counted(o, states)
             T == {d \in Cancellations : pg'[d].order = o /\ pg'[d].state \in states}
  <1>1. /\ pg'[c].state = state /\ pg'[c].order = pg[c].order /\ pg'[c].amount = pg[c].amount
        /\ \A d \in Cancellations : d # c => pg'[d] = pg[d]
    BY DEF SagaTypeOK
  <1>2. T \in SUBSET S /\ S \in SUBSET Cancellations
    BY <1>1 DEF Counted
  <1>3. PgTotal(o, states)' = SumFunctionOnSet(Cancelled, T)
    <2>1. [d \in Cancellations |-> pg'[d].amount] = Cancelled
      BY <1>1 DEF Cancelled
    <2> QED BY <2>1 DEF PgTotal
  <1>4. /\ PgTotal(o, states) = SumFunctionOnSet(Cancelled, S) /\ IsFiniteSet(S)
        /\ \A d \in S : Cancelled[d] \in Nat
    BY <1>2, Totals
  <1>5. SumFunctionOnSet(Cancelled, T) <= SumFunctionOnSet(Cancelled, S)
    BY <1>2, <1>4, SumOfFewer
  <1> QED BY <1>3, <1>4, <1>5

---------------------------------------------------------------------------
(* Steps of PortOne.                                                       *)

LEMMA SagaTyped == SagaInv => SagaTypeOK
  BY DEF SagaInv

LEMMA MarkerIsAttempt == \A a \in Attempts : a # None
  BY NoneAssumption

\* An attempt without an answer has no cancellation.
LEMMA FreshHasNone ==
  ASSUME SagaInv, NEW a \in Attempts, answers[a] = "none", NEW c \in Cancellations
  PROVE  pg[c].marker # a
  <1> SUFFICES ASSUME pg[c].marker = a PROVE FALSE
    OBVIOUS
  <1>1. CancellationSound(pg[c], answers, attempts) /\ a # None
    BY MarkerIsAttempt DEF SagaInv, SagaLinks
  <1>2. pg[c] # NoCancellation
    BY <1>1 DEF NoCancellation
  <1> QED BY <1>1, <1>2 DEF CancellationSound, AnswerSound

\* A cancellation with a marker was made.
LEMMA MarkedIsMade ==
  ASSUME SagaInv, NEW a \in Attempts, NEW c \in Cancellations, pg[c].marker = a
  PROVE  /\ pg[c].state # "none" /\ attempts[a].pgAsked /\ attempts[a].state # "unused"
         /\ pg[c].order = attempts[a].order /\ pg[c].amount = attempts[a].amount
         /\ AnswerSound(answers[a], pg[c].state)
  <1>1. CancellationSound(pg[c], answers, attempts) /\ a # None
    BY MarkerIsAttempt DEF SagaInv, SagaLinks
  <1>2. pg[c] # NoCancellation
    BY <1>1 DEF NoCancellation
  <1> QED BY <1>1, <1>2, AttemptRows DEF CancellationSound, AttemptSound

LEMMA PgUnmoved == SagaInv => PgGoes(pg, answers, pg, answers)
  BY MarkedIsMade, PgStays

\* What PortOne does keeps the invariant if it keeps PortOne's part.
LEMMA PgMoves ==
  ASSUME SagaInv, UNCHANGED <<vars, preflight, late, workers>>,
         PgGoes(pg, answers, pg', answers'),
         pg' \in [Cancellations -> [state : PgStates, order : Orders \cup {None},
                                    amount : Nat, marker : Attempts \cup {None}]],
         answers' \in [Attempts -> Answers],
         \A c \in Cancellations : CancellationSound(pg'[c], answers', attempts),
         OneMarker(pg'), NotOverCancelled', posts' \subseteq posts, faults' \in 0..MaxFaults
  PROVE  SagaInv' /\ [Next]_vars
  <1>1. Core' /\ [Next]_vars
    BY CoreNext DEF SagaInv
  <1>2. UNCHANGED <<deleted, cache, orders, lots, attempts, requests, events, openIssues, gens>>
    BY DEF vars
  <1>3. SagaTypeOK'
    BY <1>1 DEF SagaInv, SagaTypeOK, Core
  <1>4. \A w \in Workers : RowSound(workers[w], pg', answers', attempts)
    <2> SUFFICES ASSUME NEW w \in Workers PROVE RowSound(workers[w], pg', answers', attempts)
      OBVIOUS
    <2>1. /\ workers[w].seen \in Snapshots /\ workers[w].attempt \in Attempts \cup {None}
          /\ RowSound(workers[w], pg, answers, attempts)
      BY DEF SagaInv, SagaTypeOK, SagaLinks, WorkerRow
    <2>2. AttemptsGo(attempts, attempts)
      BY DEF AttemptsGo
    <2> QED BY <2>1, <2>2, RowStays
  <1>5. \A c \in Cancellations : EventSound(events[c], pg'[c])
    BY EventStays DEF SagaInv, SagaLinks
  <1>6. \A a \in Attempts : AttemptSound(attempts[a])
    BY DEF SagaInv, SagaLinks
  <1>7. AskedWithRoom'
    BY <1>2 DEF SagaInv, SagaLinks, AskedWithRoom
  <1>8. SagaLinks'
    BY <1>2, <1>4, <1>5, <1>6, <1>7 DEF SagaLinks
  <1> QED BY <1>1, <1>3, <1>8 DEF SagaInv

\* PortOne makes a cancellation that was not there, asked for with a key that is
\* new (marker, not None) or at the console.
LEMMA CreateMoves ==
  ASSUME SagaInv, NEW o \in Orders, NEW amount \in Nat, NEW marker \in Attempts \cup {None},
         NEW state \in {"requested", "succeeded", "failed"},
         Create(o, amount, marker, state), state # "failed" => amount <= Cancellable(o),
         UNCHANGED <<vars, preflight, late, workers, faults>>, posts' \subseteq posts,
         marker = None => answers' = answers /\ amount \in ExternalAmounts,
         marker # None =>
           /\ answers[marker] = "none"
           /\ answers' = [answers EXCEPT ![marker] = IF state = "failed" THEN "hard_reject" ELSE "accepted"]
           /\ attempts[marker].pgAsked
           /\ attempts[marker].order = o /\ attempts[marker].amount = amount
  PROVE  SagaInv' /\ [Next]_vars
  <1> DEFINE row == [state |-> state, order |-> o, amount |-> amount, marker |-> marker]
  <1>1. PICK c \in Cancellations : pg[c].state = "none" /\ pg' = [pg EXCEPT ![c] = row]
    <2>1. Unused \in SUBSET Cancellations /\ Unused # {}
      BY DEF Unused, Create
    <2>2. NextId \in Unused
      BY <2>1, FirstExists DEF NextId
    <2> QED BY <2>2 DEF Unused, Create
  <1>2. pg[c] = NoCancellation
    BY <1>1 DEF SagaInv, SagaLinks, CancellationSound
  <1>3. pg[c].marker = None
    BY <1>2 DEF NoCancellation
  <1>4. /\ row \in [state : PgStates, order : Orders \cup {None}, amount : Nat, marker : Attempts \cup {None}]
        /\ row.state = state /\ row.order = o /\ row.amount = amount /\ row.marker = marker
    BY DEF PgStates
  <1> HIDE DEF row
  <1>5. pg'[c] = row /\ \A d \in Cancellations : d # c => pg'[d] = pg[d]
    BY <1>1 DEF SagaInv, SagaTypeOK
  <1>6. pg' \in [Cancellations -> [state : PgStates, order : Orders \cup {None},
                                   amount : Nat, marker : Attempts \cup {None}]]
    BY <1>1, <1>4 DEF SagaInv, SagaTypeOK
  <1>7. \A a \in Attempts :
          /\ a # marker => answers'[a] = answers[a]
          /\ a = marker => answers'[a] = IF state = "failed" THEN "hard_reject" ELSE "accepted"
    BY MarkerIsAttempt DEF SagaInv, SagaTypeOK
  <1>8. answers' \in [Attempts -> Answers]
    BY DEF SagaInv, SagaTypeOK, Answers
  <1>9. marker # None => \A d \in Cancellations : pg[d].marker # marker
    BY FreshHasNone
  <1>10. PgGoes(pg, answers, pg', answers')
    <2>1. \A d \in Cancellations : pg[d].state # "none" => d # c /\ pg'[d] = pg[d]
      BY <1>1, <1>5
    <2>2. ASSUME NEW a \in Attempts, answers[a] # "none"
          PROVE  /\ a # marker /\ answers'[a] = answers[a]
                 /\ \A d \in Cancellations : pg'[d].marker = a => pg[d].state # "none"
      <3>1. a # marker
        BY <2>2, MarkerIsAttempt
      <3>2. \A d \in Cancellations : pg'[d].marker = a => pg[d].marker = a
        BY <1>4, <1>5, <3>1
      <3> QED BY <1>7, <3>1, <3>2, MarkedIsMade
    <2> QED BY <2>1, <2>2 DEF PgGoes
  <1>11. \A d \in Cancellations : CancellationSound(pg'[d], answers', attempts)
    <2> SUFFICES ASSUME NEW d \in Cancellations PROVE CancellationSound(pg'[d], answers', attempts)
      OBVIOUS
    <2>1. CASE d = c
      <3>1. marker # None => AnswerSound(answers'[marker], state)
        BY <1>7 DEF AnswerSound
      <3>2. state # "none"
        OBVIOUS
      <3> QED BY <1>4, <1>5, <2>1, <3>1, <3>2 DEF CancellationSound
    <2>2. CASE d # c
      <3>1. pg'[d] = pg[d] /\ CancellationSound(pg[d], answers, attempts)
        BY <1>5, <2>2 DEF SagaInv, SagaLinks
      <3>2. pg[d].marker # None => answers'[pg[d].marker] = answers[pg[d].marker]
        <4>1. pg[d].marker \in Attempts \cup {None}
          BY DEF SagaInv, SagaTypeOK
        <4> QED BY <1>7, <1>9, <4>1
      <3> QED BY <3>1, <3>2 DEF CancellationSound
    <2> QED BY <2>1, <2>2
  <1>12. OneMarker(pg')
    BY <1>4, <1>5, <1>9 DEF SagaInv, SagaLinks, OneMarker
  <1>13. NotOverCancelled'
    <2> SUFFICES ASSUME NEW p \in Orders PROVE PgTotal(p, {"requested", "succeeded"})' <= Price[p]
      BY DEF NotOverCancelled
    <2>1. PgTotal(p, {"requested", "succeeded"})' =
            PgTotal(p, {"requested", "succeeded"})
              + (IF row.order = p /\ row.state \in {"requested", "succeeded"} THEN row.amount ELSE 0)
      BY <1>1, <1>2, <1>4, SagaTyped, TotalOfCreated
    <2>2. PgTotal(p, {"requested", "succeeded"}) <= Price[p] /\ Price[p] \in Nat
      BY CatalogAssumption DEF SagaInv, SagaLinks, NotOverCancelled
    <2>3. PgTotal(p, {"requested", "succeeded"}) \in Nat
      <3>1. Counted(p, {"requested", "succeeded"}) \in SUBSET Cancellations
        BY DEF Counted
      <3> QED BY <3>1, Totals, SumIsNat DEF SagaInv
    <2>4. row.order = p /\ row.state \in {"requested", "succeeded"} =>
            row.amount <= Price[p] - PgTotal(p, {"requested", "succeeded"})
      BY <1>4 DEF Cancellable
    <2>5. row.amount \in Nat
      BY <1>4
    <2> QED BY <2>1, <2>2, <2>3, <2>4, <2>5
  <1>14. faults' \in 0..MaxFaults
    BY DEF SagaInv, SagaTypeOK
  <1> QED BY <1>6, <1>8, <1>10, <1>11, <1>12, <1>13, <1>14, PgMoves

\* The answer to attempt a is remembered, and no cancellation is made.
LEMMA AnswerMoves ==
  ASSUME SagaInv, NEW a \in Attempts, NEW n \in Answers \ {"none"},
         answers' = [answers EXCEPT ![a] = n], UNCHANGED <<vars, pg, preflight, late, workers, faults>>,
         posts' \subseteq posts,
         \/ answers[a] = "none"
         \/ /\ n = "already_cancelled" /\ answers[a] # "none"
            /\ \A c \in Cancellations : pg[c].marker = a => pg[c].state = "succeeded"
  PROVE  SagaInv' /\ [Next]_vars
  <1>1. /\ answers' \in [Attempts -> Answers] /\ answers'[a] = n /\ n # "none"
        /\ \A b \in Attempts : b # a => answers'[b] = answers[b]
    BY DEF SagaInv, SagaTypeOK
  <1>2. answers[a] = "none" => \A c \in Cancellations : pg[c].marker # a
    BY FreshHasNone
  <1>3. PgGoes(pg, answers, pg', answers')
    <2>1. \A b \in Attempts : answers[b] # "none" =>
            /\ answers'[b] # "none"
            /\ answers[b] = "already_cancelled" => answers'[b] = "already_cancelled"
      BY <1>1
    <2>2. \A b \in Attempts, c \in Cancellations : pg[c].marker = b => pg[c].state # "none"
      BY MarkedIsMade
    <2> QED BY <2>1, <2>2 DEF PgGoes
  <1>4. \A c \in Cancellations : CancellationSound(pg'[c], answers', attempts)
    <2> SUFFICES ASSUME NEW c \in Cancellations PROVE CancellationSound(pg[c], answers', attempts)
      OBVIOUS
    <2>1. CancellationSound(pg[c], answers, attempts) /\ pg[c].marker \in Attempts \cup {None}
      BY DEF SagaInv, SagaLinks, SagaTypeOK
    <2>2. CASE pg[c].marker = a
      <3>1. AnswerSound(answers'[a], pg[c].state)
        BY <1>1, <1>2, <2>2 DEF AnswerSound
      <3> QED BY <2>1, <2>2, <3>1 DEF CancellationSound
    <2>3. CASE pg[c].marker # a
      <3>1. pg[c].marker # None => answers'[pg[c].marker] = answers[pg[c].marker]
        BY <1>1, <2>1, <2>3
      <3> QED BY <2>1, <3>1 DEF CancellationSound
    <2> QED BY <2>2, <2>3
  <1>5. /\ pg' \in [Cancellations -> [state : PgStates, order : Orders \cup {None},
                                      amount : Nat, marker : Attempts \cup {None}]]
        /\ OneMarker(pg') /\ faults' \in 0..MaxFaults
    BY DEF SagaInv, SagaTypeOK, SagaLinks
  <1>6. NotOverCancelled'
    BY DEF SagaInv, SagaLinks, NotOverCancelled, PgTotal
  <1> QED BY <1>1, <1>3, <1>4, <1>5, <1>6, PgMoves

\* An attempt's own cancellation in what PortOne shows of its order now.
LEMMA OwnShown ==
  ASSUME SagaInv, NEW a \in Attempts, NEW o, attempts[a].order = o, NEW state \in PgStates \ {"none"}
  PROVE  OwnIs(a, Snapshot(o), state) <=>
           \E c \in Cancellations : pg[c].marker = a /\ pg[c].state = state
  <1>1. \A c \in Cancellations : pg[c].marker = a => pg[c].order = o
    BY MarkedIsMade
  <1>2. state # "none"
    OBVIOUS
  <1>3. \A c \in Cancellations : pg[c].marker = a => Snapshot(o)[c] = pg[c].state
    BY <1>1 DEF Snapshot
  <1> QED BY <1>2, <1>3 DEF OwnIs, Own

\* A posted attempt is of an order of the member.
LEMMA PostedKnown ==
  ASSUME SagaInv, NEW p \in posts
  PROVE  /\ p.attempt \in Attempts /\ attempts[p.attempt].pgAsked
         /\ attempts[p.attempt].order \in Orders /\ attempts[p.attempt].amount \in Nat
         /\ preflight[p.attempt].cancellable >= attempts[p.attempt].amount
  <1>1. p.attempt \in Attempts
    BY DEF SagaInv, SagaTypeOK
  <1>2. attempts[p.attempt].pgAsked /\ preflight[p.attempt].cancellable >= attempts[p.attempt].amount
    BY <1>1 DEF SagaInv, SagaLinks, AskedWithRoom
  <1>3. attempts[p.attempt].state # "unused" /\ attempts[p.attempt].amount \in Nat
    BY <1>1, <1>2, AttemptRows DEF AttemptSound, AttemptRow
  <1> QED BY <1>1, <1>2, <1>3 DEF SagaInv, Core, Linked

\* No step of PortOne leaves the invariant.
LEMMA PgSteps ==
  ASSUME SagaInv,
         \/ \E p \in posts : PgHandle(p) \/ PgLose(p)
         \/ \E c \in Cancellations : PgFinish(c)
         \/ \E o \in Orders, amount \in ExternalAmounts : PgExternal(o, amount)
  PROVE  SagaInv' /\ [Next]_vars
  <1> DEFINE Goal == SagaInv' /\ [Next]_vars
             PgType == [Cancellations -> [state : PgStates, order : Orders \cup {None},
                                          amount : Nat, marker : Attempts \cup {None}]]
  <1>0. /\ pg \in PgType /\ OneMarker(pg) /\ faults \in 0..MaxFaults /\ NotOverCancelled
        /\ \A c \in Cancellations : CancellationSound(pg[c], answers, attempts)
        /\ answers \in [Attempts -> Answers]
    BY DEF SagaInv, SagaTypeOK, SagaLinks
  <1>1. ASSUME UNCHANGED <<vars, pg, answers, preflight, late, workers>>, posts' \subseteq posts,
               faults' \in 0..MaxFaults
        PROVE  Goal
    <2>1. PgGoes(pg, answers, pg', answers')
      BY <1>1, PgUnmoved
    <2>2. NotOverCancelled'
      BY <1>0, <1>1 DEF NotOverCancelled, PgTotal
    <2>3. \A c \in Cancellations : CancellationSound(pg'[c], answers', attempts)
      BY <1>0, <1>1
    <2>4. pg' \in PgType /\ OneMarker(pg') /\ answers' \in [Attempts -> Answers]
      BY <1>0, <1>1
    <2> QED BY <1>1, <2>1, <2>2, <2>3, <2>4, PgMoves
  <1>2. ASSUME NEW p \in posts, PgLose(p) PROVE Goal
    <2>1. faults' \in 0..MaxFaults
      BY <1>0, <1>2, SagaAssumption DEF PgLose
    <2> QED BY <1>1, <1>2, <2>1 DEF PgLose
  <1>3. ASSUME NEW p \in posts, PgHandle(p) PROVE Goal
    <2>1. PICK a \in Attempts, o \in Orders :
            /\ a = p.attempt /\ o = attempts[a].order /\ attempts[a].pgAsked
            /\ attempts[a].amount \in Nat /\ preflight[a].cancellable >= attempts[a].amount
      BY PostedKnown
    <2>2. /\ posts' \subseteq posts
          /\ UNCHANGED <<vars, preflight, late, workers, faults>>
      BY <1>3 DEF PgHandle
    <2>3. \/ UNCHANGED <<pg, answers>>
          \/ /\ answers[a] = "accepted" /\ OwnIs(a, Snapshot(o), "succeeded")
             /\ answers' = [answers EXCEPT ![a] = "already_cancelled"] /\ UNCHANGED pg
          \/ /\ answers[a] = "none"
             /\ answers' = [answers EXCEPT ![a] = "already_cancelled"] /\ UNCHANGED pg
          \/ /\ answers[a] = "none"
             /\ answers' = [answers EXCEPT ![a] = "stale_cancellable"] /\ UNCHANGED pg
          \/ /\ answers[a] = "none"
             /\ answers' = [answers EXCEPT ![a] = "hard_reject"]
             /\ UNCHANGED pg \/ Create(o, attempts[a].amount, a, "failed")
          \/ /\ answers[a] = "none" /\ Cancellable(o) = preflight[a].cancellable
             /\ answers' = [answers EXCEPT ![a] = "accepted"]
             /\ \E state \in {"requested", "succeeded"} : Create(o, attempts[a].amount, a, state)
      BY <1>3, <2>1 DEF PgHandle, Fresh
    <2>4. CASE UNCHANGED <<pg, answers>>
      BY <1>0, <1>1, <2>2, <2>4
    <2>5. CASE /\ answers[a] = "accepted" /\ OwnIs(a, Snapshot(o), "succeeded")
               /\ answers' = [answers EXCEPT ![a] = "already_cancelled"] /\ UNCHANGED pg
      <3>1. PICK c \in Cancellations : pg[c].marker = a /\ pg[c].state = "succeeded"
        BY <2>1, <2>5, OwnShown DEF PgStates
      <3>2. \A d \in Cancellations : pg[d].marker = a => pg[d].state = "succeeded"
        BY <1>0, <3>1, MarkerIsAttempt DEF OneMarker
      <3>3. "already_cancelled" \in Answers \ {"none"}
        BY DEF Answers
      <3> QED BY <2>2, <2>5, <3>2, <3>3, AnswerMoves
    <2>6. ASSUME NEW n \in {"already_cancelled", "stale_cancellable", "hard_reject"},
                 answers[a] = "none", answers' = [answers EXCEPT ![a] = n], UNCHANGED pg
          PROVE  Goal
      <3>1. n \in Answers \ {"none"}
        BY DEF Answers
      <3> QED BY <2>2, <2>6, <3>1, AnswerMoves
    <2>7. ASSUME NEW state \in {"requested", "succeeded", "failed"}, answers[a] = "none",
                 Create(o, attempts[a].amount, a, state),
                 state # "failed" => Cancellable(o) = preflight[a].cancellable,
                 answers' = [answers EXCEPT ![a] = IF state = "failed" THEN "hard_reject" ELSE "accepted"]
          PROVE  Goal
      <3>1. a # None /\ a \in Attempts \cup {None}
        BY MarkerIsAttempt
      <3>2. state # "failed" => attempts[a].amount <= Cancellable(o)
        BY <2>1, <2>7
      <3>3. attempts[a].order = o
        BY <2>1
      <3> QED BY <2>1, <2>2, <2>7, <3>1, <3>2, <3>3, CreateMoves
    <2> QED BY <2>3, <2>4, <2>5, <2>6, <2>7
  <1>4. ASSUME NEW c \in Cancellations, PgFinish(c) PROVE Goal
    <2>1. PICK state \in {"succeeded", "failed"} : pg' = [pg EXCEPT ![c].state = state]
      BY <1>4 DEF PgFinish
    <2>2. /\ pg[c].state = "requested" /\ UNCHANGED <<vars, answers, posts, preflight, late, workers, faults>>
      BY <1>4 DEF PgFinish
    <2>3. /\ pg' \in PgType
          /\ pg'[c].state = state /\ pg'[c].order = pg[c].order /\ pg'[c].amount = pg[c].amount
          /\ pg'[c].marker = pg[c].marker
          /\ \A d \in Cancellations : d # c => pg'[d] = pg[d]
      BY <1>0, <2>1 DEF PgStates
    <2>4. PgGoes(pg, answers, pg', answers')
      <3>1. \A d \in Cancellations : pg[d].state # "none" =>
              /\ pg'[d].state # "none"
              /\ pg'[d].order = pg[d].order /\ pg'[d].amount = pg[d].amount /\ pg'[d].marker = pg[d].marker
              /\ pg[d].state \in {"succeeded", "failed"} => pg'[d].state = pg[d].state
        BY <2>2, <2>3
      <3>2. \A a \in Attempts, d \in Cancellations : pg'[d].marker = a => pg[d].state # "none"
        BY <2>3, MarkedIsMade
      <3> QED BY <2>2, <3>1, <3>2 DEF PgGoes
    <2>5. ASSUME NEW d \in Cancellations PROVE CancellationSound(pg'[d], answers', attempts)
      <3>1. CancellationSound(pg[d], answers, attempts) /\ answers' = answers
        BY <1>0, <2>2
      <3>2. CASE d # c
        BY <2>3, <3>1, <3>2
      <3>3. CASE d = c
        <4>1. pg[c] # NoCancellation
          BY <2>2 DEF NoCancellation
        <4>2. ASSUME pg[c].marker # None
              PROVE  AnswerSound(answers[pg[c].marker], state)
          <5>1. AnswerSound(answers[pg[c].marker], "requested")
            BY <2>2, <3>1, <3>3, <4>1, <4>2 DEF CancellationSound
          <5> QED BY <5>1 DEF AnswerSound
        <4> QED BY <2>3, <3>1, <3>3, <4>1, <4>2 DEF CancellationSound
      <3> QED BY <3>2, <3>3
    <2>6. OneMarker(pg')
      <3>1. \A d \in Cancellations : pg'[d].marker = pg[d].marker
        BY <2>3
      <3> QED BY <1>0, <3>1 DEF OneMarker
    <2>7. NotOverCancelled'
      <3> SUFFICES ASSUME NEW o \in Orders PROVE PgTotal(o, {"requested", "succeeded"})' <= Price[o]
        BY DEF NotOverCancelled
      <3>1. PgTotal(o, {"requested", "succeeded"})' <= PgTotal(o, {"requested", "succeeded"})
        BY <2>1, <2>2, SagaTyped, TotalOfFinished
      <3>2. PgTotal(o, {"requested", "succeeded"}) <= Price[o] /\ Price[o] \in Nat
        BY <1>0, CatalogAssumption DEF NotOverCancelled
      <3>3. /\ PgTotal(o, {"requested", "succeeded"}) \in Nat
            /\ PgTotal(o, {"requested", "succeeded"})' \in Nat
        BY <1>0, <2>3, TotalIsNat, TotalIsNatNext
      <3> QED BY <3>1, <3>2, <3>3
    <2> QED BY <1>0, <2>2, <2>3, <2>4, <2>5, <2>6, <2>7, PgMoves
  <1>5. ASSUME NEW o \in Orders, NEW amount \in ExternalAmounts, PgExternal(o, amount) PROVE Goal
    <2>1. amount \in Nat /\ None \in Attempts \cup {None}
      BY CancellationAssumption
    <2>2. /\ amount <= Cancellable(o) /\ Create(o, amount, None, "succeeded")
          /\ UNCHANGED <<vars, answers, posts, preflight, late, workers, faults>>
      BY <1>5 DEF PgExternal
    <2> QED BY <2>1, <2>2, CreateMoves
  <1> QED BY <1>2, <1>3, <1>4, <1>5

---------------------------------------------------------------------------
(* Steps of workers and of people.                                         *)

\* A step that leaves PortOne alone keeps the invariant if it is one of the
\* ledger's, and the workers' rows are sound after it.
LEMMA LedgerMoves ==
  ASSUME SagaInv, LedgerGoes, UNCHANGED <<pg, answers>>,
         posts' \subseteq [attempt : Attempts, first : BOOLEAN],
         preflight' \in [Attempts -> [ids : SUBSET Cancellations, cancellable : Nat]],
         late' \subseteq Attempts, faults' \in 0..MaxFaults, AskedWithRoom',
         workers' \in [Workers -> WorkerRow],
         \A w \in Workers : RowSound(workers'[w], pg, answers, attempts')
  PROVE  SagaInv' /\ [Next]_vars
  <1>1. Core' /\ [Next]_vars
    BY CoreNext DEF SagaInv, LedgerGoes
  <1>2. SagaTypeOK'
    BY <1>1 DEF SagaInv, SagaTypeOK, Core
  <1>3. \A c \in Cancellations : CancellationSound(pg[c], answers, attempts')
    BY CancellationStays DEF SagaInv, SagaTypeOK, SagaLinks, LedgerGoes
  <1>4. NotOverCancelled'
    BY DEF SagaInv, SagaLinks, NotOverCancelled, PgTotal
  <1>5. SagaLinks'
    BY <1>3, <1>4 DEF SagaInv, SagaLinks, LedgerGoes
  <1> QED BY <1>1, <1>2, <1>5 DEF SagaInv

LEMMA RoomStays ==
  ASSUME SagaInv, LedgerGoes, NoneAsked, UNCHANGED <<posts, preflight>>
  PROVE  AskedWithRoom'
  <1>1. ASSUME NEW a \in Attempts, attempts'[a].pgAsked
        PROVE  preflight[a].cancellable >= attempts'[a].amount
    <2>1. attempts[a].pgAsked /\ attempts[a].state # "unused"
      BY <1>1, AttemptRows DEF NoneAsked, AttemptSound
    <2>2. attempts'[a].amount = attempts[a].amount
      BY <2>1 DEF LedgerGoes, AttemptsGo
    <2> QED BY <2>1, <2>2 DEF SagaInv, SagaLinks, AskedWithRoom
  <1>2. ASSUME NEW p \in posts PROVE attempts'[p.attempt].pgAsked
    BY PostedKnown DEF LedgerGoes, AttemptsGo
  <1> QED BY <1>1, <1>2 DEF AskedWithRoom

\* One worker moves on, to a row that is sound.
LEMMA RowsMove ==
  ASSUME SagaInv, LedgerGoes, NEW w \in Workers, NEW r \in WorkerRow,
         workers' = [workers EXCEPT ![w] = r], RowSound(r, pg, answers, attempts')
  PROVE  /\ workers' \in [Workers -> WorkerRow]
         /\ \A v \in Workers : RowSound(workers'[v], pg, answers, attempts')
  <1>1. /\ workers' \in [Workers -> WorkerRow] /\ workers'[w] = r
        /\ \A v \in Workers : v # w => workers'[v] = workers[v]
    BY DEF SagaInv, SagaTypeOK
  <1>2. ASSUME NEW v \in Workers, v # w PROVE RowSound(workers[v], pg, answers, attempts')
    <2>1. /\ workers[v].seen \in Snapshots /\ workers[v].attempt \in Attempts \cup {None}
          /\ RowSound(workers[v], pg, answers, attempts)
      BY DEF SagaInv, SagaTypeOK, SagaLinks, WorkerRow
    <2>2. AttemptsGo(attempts, attempts') /\ PgGoes(pg, answers, pg, answers)
      BY PgUnmoved DEF LedgerGoes
    <2> QED BY <2>1, <2>2, RowStays
  <1> QED BY <1>1, <1>2

\* The usual step of a worker: nothing is asked of PortOne.
LEMMA WorkerMoves ==
  ASSUME SagaInv, LedgerGoes, NoneAsked, UNCHANGED <<pgVars, preflight, late>>,
         faults' \in 0..MaxFaults, NEW w \in Workers, NEW r \in WorkerRow,
         workers' = [workers EXCEPT ![w] = r], RowSound(r, pg, answers, attempts)
  PROVE  SagaInv' /\ [Next]_vars
  <1>1. RowSound(r, pg, answers, attempts')
    <2>1. r.seen \in Snapshots /\ r.attempt \in Attempts \cup {None}
      BY DEF WorkerRow
    <2>2. AttemptsGo(attempts, attempts') /\ PgGoes(pg, answers, pg, answers)
      BY PgUnmoved DEF LedgerGoes
    <2> QED BY <2>1, <2>2, RowStays
  <1>2. AskedWithRoom'
    BY RoomStays DEF pgVars
  <1> QED BY <1>1, <1>2, RowsMove, LedgerMoves DEF pgVars, SagaInv, SagaTypeOK

\* A request ends.
LEMMA EndMoves ==
  ASSUME SagaInv, LedgerGoes, NoneAsked, UNCHANGED <<pgVars, preflight, late>>,
         faults' \in 0..MaxFaults, NEW w \in Workers, End(w)
  PROVE  SagaInv' /\ [Next]_vars
  BY IdleSound, WorkerMoves DEF End, Become

\* A worker's row, as the invariant has it.
LEMMA WorkerRows ==
  ASSUME SagaInv, NEW w \in Workers
  PROVE  /\ workers[w] \in WorkerRow /\ RowSound(workers[w], pg, answers, attempts)
         /\ workers[w].pc \notin {"act", "react"} => workers[w].todo = {}
         /\ workers[w].pc \notin {"idle", "get", "act"} \/ workers[w].row # "none" =>
              workers[w].job = "refund"
         /\ workers[w].job = "refund" /\ workers[w].pc # "idle" =>
              /\ workers[w].attempt \in Attempts /\ workers[w].order \in Orders
              /\ attempts[workers[w].attempt].order = workers[w].order
         /\ workers[w].pc \notin {"idle", "get", "act"} \/ workers[w].row \in AskedStates =>
              attempts[workers[w].attempt].pgAsked
  BY DEF SagaInv, SagaTypeOK, SagaLinks, RowSound

\* The row of a worker that goes on with its refund.
Onward(w, pc) == [workers[w] EXCEPT !.pc = pc, !.seen = NothingSeen,
                    !.row = IF pc \in {"post", "wait"} THEN @ ELSE "none"]

LEMMA OnwardSound ==
  ASSUME SagaInv, NEW w \in Workers, workers[w].job = "refund", workers[w].pc # "idle",
         workers[w].todo = {}, NEW pc \in {"post", "wait", "pending", "settle", "commit", "reget"},
         NEW u, AttemptsGo(attempts, u), u[workers[w].attempt].pgAsked,
         pc = "settle" => OwnSucceeded(workers[w].attempt, pg),
         pc = "reget" => RejectionFinal(workers[w].attempt, pg, answers)
  PROVE  Onward(w, pc) \in WorkerRow /\ RowSound(Onward(w, pc), pg, answers, u)
  <1> DEFINE r == Onward(w, pc)
             y == workers[w]
  <1>1. NothingSeen \in Snapshots /\ \A c \in Cancellations : NothingSeen[c] = "none"
    BY DEF NothingSeen, Snapshots, PgStates
  <1>2. y \in WorkerRow /\ y.attempt \in Attempts /\ y.order \in Orders
    BY WorkerRows
  <1>3. /\ r \in WorkerRow
        /\ r.pc = pc /\ r.job = "refund" /\ r.attempt = y.attempt /\ r.order = y.order
        /\ r.todo = {} /\ r.seen = NothingSeen
    BY <1>1, <1>2 DEF Onward, WorkerRow
  <1>4. attempts[y.attempt].state # "unused" /\ attempts[y.attempt].order = y.order
    BY WorkerRows DEF RowSound
  <1>5. u[y.attempt].state # "unused" /\ u[y.attempt].order = y.order
    BY <1>2, <1>4 DEF AttemptsGo
  <1>6. SeenSound(r.seen, r.order, pg)
    BY <1>1, <1>3 DEF SeenSound
  <1> HIDE DEF r, y
  <1>7. y = workers[w] /\ r = Onward(w, pc)
    BY DEF r, y
  <1>8. RowSound(r, pg, answers, u)
    BY <1>2, <1>3, <1>5, <1>6, <1>7 DEF RowSound
  <1> QED BY <1>3, <1>7, <1>8

LEMMA GoToIsOnward ==
  \A w, pc : GoTo(w, pc) => workers' = [workers EXCEPT ![w] = Onward(w, pc)]
  BY DEF GoTo, Become, Onward

\* A worker goes on with its refund, and nothing is asked of PortOne.
LEMMA OnwardMoves ==
  ASSUME SagaInv, LedgerGoes, NoneAsked, UNCHANGED <<pgVars, preflight, late, faults>>,
         NEW w \in Workers, workers[w].job = "refund", workers[w].pc # "idle",
         workers[w].todo = {}, NEW pc \in {"post", "wait", "pending", "settle", "commit", "reget"},
         attempts[workers[w].attempt].pgAsked,
         pc = "settle" => OwnSucceeded(workers[w].attempt, pg),
         pc = "reget" => RejectionFinal(workers[w].attempt, pg, answers),
         GoTo(w, pc)
  PROVE  SagaInv' /\ [Next]_vars
  <1>1. AttemptsGo(attempts, attempts)
    BY DEF AttemptsGo
  <1>2. Onward(w, pc) \in WorkerRow /\ RowSound(Onward(w, pc), pg, answers, attempts)
    BY <1>1, OnwardSound
  <1>3. faults' \in 0..MaxFaults
    BY DEF SagaInv, SagaTypeOK
  <1> QED BY <1>2, <1>3, GoToIsOnward, WorkerMoves

LEMMA FaultsTyped == SagaInv => faults \in 0..MaxFaults
  BY DEF SagaInv, SagaTypeOK

\* Requests begin.
LEMMA LoadMoves ==
  ASSUME SagaInv, NEW w \in Workers,
         \/ \E a \in Attempts : \/ LoadAttempt(w, a)
                                \/ \E job \in {"switch", "replan"} : LoadForAdmin(w, a, job)
         \/ \E o \in Orders : LoadOrder(w, o)
  PROVE  SagaInv' /\ [Next]_vars
  <1> DEFINE Goal == SagaInv' /\ [Next]_vars
  <1>0. /\ Idle.pc = "idle" /\ Idle.job = "none" /\ Idle.row = "none" /\ Idle.todo = {}
        /\ Idle.seen = NothingSeen /\ Idle.attempt = None /\ Idle.order = None /\ Idle.paid = FALSE
        /\ Idle \in WorkerRow /\ \A o : SeenSound(NothingSeen, o, pg)
    BY IdleSound DEF Idle, SeenSound, NothingSeen
  <1>1. ASSUME NEW r \in WorkerRow, RowSound(r, pg, answers, attempts), Become(w, r),
               UNCHANGED <<vars, pgVars, preflight, late, faults>>
        PROVE  Goal
    <2>1. LedgerGoes /\ NoneAsked
      BY <1>1, LedgerStays
    <2> QED BY <1>1, <2>1, FaultsTyped, WorkerMoves DEF Become
  <1>2. \A a \in Attempts : attempts[a].state \in OpenStates =>
          attempts[a].state # "unused" /\ attempts[a].order \in Orders
    BY DEF OpenStates, SagaInv, Core, Linked
  <1>3. ASSUME NEW a \in Attempts, LoadAttempt(w, a) PROVE Goal
    <2> DEFINE r == [Idle EXCEPT !.pc = "get", !.job = "refund", !.attempt = a,
                                 !.order = attempts[a].order, !.row = attempts[a].state]
    <2>1. attempts[a].state \in OpenStates
      BY <1>3 DEF LoadAttempt
    <2>2. /\ r \in WorkerRow
          /\ r.pc = "get" /\ r.job = "refund" /\ r.attempt = a /\ r.order = attempts[a].order
          /\ r.row = attempts[a].state /\ r.todo = {} /\ r.seen = NothingSeen
      BY <1>0, <1>2, <2>1 DEF Idle, WorkerRow
    <2> HIDE DEF r
    <2>3. RowSound(r, pg, answers, attempts)
      BY <1>0, <1>2, <2>1, <2>2, AttemptRows DEF RowSound, AttemptSound
    <2>4. Become(w, r) /\ UNCHANGED <<vars, pgVars, preflight, late, faults>>
      BY <1>3 DEF LoadAttempt, r
    <2> QED BY <1>1, <2>2, <2>3, <2>4
  <1>4. ASSUME NEW a \in Attempts, NEW job \in {"switch", "replan"}, LoadForAdmin(w, a, job) PROVE Goal
    <2> DEFINE r == [Idle EXCEPT !.pc = "get", !.job = job, !.attempt = a, !.order = attempts[a].order]
    <2>1. attempts[a].state \in OpenStates
      BY <1>4 DEF LoadForAdmin
    <2>2. /\ r \in WorkerRow
          /\ r.pc = "get" /\ r.job = job /\ r.attempt = a /\ r.order = attempts[a].order
          /\ r.row = "none" /\ r.todo = {} /\ r.seen = NothingSeen
      BY <1>0, <1>2, <2>1 DEF Idle, WorkerRow
    <2> HIDE DEF r
    <2>3. RowSound(r, pg, answers, attempts)
      BY <1>0, <1>2, <2>1, <2>2 DEF RowSound, AskedStates
    <2>4. Become(w, r) /\ UNCHANGED <<vars, pgVars, preflight, late, faults>>
      BY <1>4 DEF LoadForAdmin, r
    <2> QED BY <1>1, <2>2, <2>3, <2>4
  <1>5. ASSUME NEW o \in Orders, LoadOrder(w, o) PROVE Goal
    <2> DEFINE r == [Idle EXCEPT !.pc = "get", !.job = "watch", !.order = o, !.paid = orders[o].paid]
    <2>1. orders[o].paid \in BOOLEAN
      BY DEF SagaInv, Core, TypeOK, OrderRow
    <2>2. /\ r \in WorkerRow
          /\ r.pc = "get" /\ r.job = "watch" /\ r.order = o
          /\ r.row = "none" /\ r.todo = {} /\ r.seen = NothingSeen
      BY <1>0, <2>1 DEF Idle, WorkerRow
    <2> HIDE DEF r
    <2>3. RowSound(r, pg, answers, attempts)
      BY <1>0, <2>2 DEF RowSound, AskedStates
    <2>4. Become(w, r) /\ UNCHANGED <<vars, pgVars, preflight, late, faults>>
      BY <1>5 DEF LoadOrder, r
    <2> QED BY <1>1, <2>2, <2>3, <2>4
  <1> QED BY <1>3, <1>4, <1>5

\* What PortOne shows of an order now.
LEMMA SnapshotSound ==
  ASSUME SagaInv, NEW o \in Orders
  PROVE  Snapshot(o) \in Snapshots /\ SeenSound(Snapshot(o), o, pg)
  BY DEF Snapshot, Snapshots, SeenSound, SagaInv, SagaTypeOK, PgStates

\* A worker reads the payment, afresh or not.
LEMMA GetMoves ==
  ASSUME SagaInv, NEW w \in Workers, Get(w) \/ GetAgainFails(w)
  PROVE  SagaInv' /\ [Next]_vars
  <1> DEFINE Goal == SagaInv' /\ [Next]_vars
             y == workers[w]
  <1>0. LedgerGoes /\ NoneAsked /\ UNCHANGED <<pgVars, preflight, late>> /\ faults' \in 0..MaxFaults
    BY LedgerStays, FaultsTyped DEF Get, GetAgainFails
  <1>1. /\ y \in WorkerRow /\ RowSound(y, pg, answers, attempts) /\ y.pc \in {"get", "reget"}
        /\ y.order \in Orders /\ y.todo = {}
    BY WorkerRows DEF Get, GetAgainFails, RowSound
  <1>2. y.pc = "reget" => /\ y.attempt \in Attempts /\ attempts[y.attempt].order = y.order
                          /\ RejectionFinal(y.attempt, pg, answers) /\ y.seen = NothingSeen
    BY <1>1 DEF RowSound
  <1>3. CASE Get(w)
    <2>1. PICK todo, pc : /\ todo = {} \/ todo = Unrecorded(Snapshot(y.order))
                          /\ pc = IF y.pc = "get" THEN "act" ELSE "react"
                          /\ workers' = [workers EXCEPT ![w] =
                               [y EXCEPT !.pc = pc, !.seen = Snapshot(y.order), !.todo = todo]]
      BY <1>3 DEF Get, Become
    <2> DEFINE r == [y EXCEPT !.pc = pc, !.seen = Snapshot(y.order), !.todo = todo]
    <2>2. todo \in SUBSET Cancellations /\ \A c \in todo : Snapshot(y.order)[c] \in {"succeeded", "failed"}
      BY <2>1 DEF Unrecorded
    <2>3. Snapshot(y.order) \in Snapshots /\ SeenSound(Snapshot(y.order), y.order, pg)
      BY <1>1, SnapshotSound
    <2>4. /\ r \in WorkerRow
          /\ r.pc = pc /\ r.seen = Snapshot(y.order) /\ r.todo = todo
          /\ r.job = y.job /\ r.attempt = y.attempt /\ r.order = y.order /\ r.row = y.row
      BY <1>1, <2>1, <2>2, <2>3 DEF WorkerRow
    <2>5. y.pc = "reget" => \A c \in Cancellations :
            pg[c].marker = y.attempt => Snapshot(y.order)[c] = pg[c].state
      BY <1>2, MarkedIsMade DEF Snapshot
    <2> HIDE DEF r, y
    <2>6. RowSound(r, pg, answers, attempts)
      BY <1>1, <1>2, <2>1, <2>2, <2>3, <2>4, <2>5 DEF RowSound
    <2>7. workers' = [workers EXCEPT ![w] = r]
      BY <2>1 DEF r
    <2> QED BY <1>0, <2>4, <2>6, <2>7, WorkerMoves
  <1>4. CASE GetAgainFails(w)
    <2> DEFINE r == [y EXCEPT !.pc = "react"]
    <2>1. /\ workers' = [workers EXCEPT ![w] = r] /\ y.pc = "reget"
      BY <1>4 DEF GetAgainFails, Become
    <2>2. /\ r \in WorkerRow
          /\ r.pc = "react" /\ r.seen = y.seen /\ r.todo = y.todo
          /\ r.job = y.job /\ r.attempt = y.attempt /\ r.order = y.order /\ r.row = y.row
      BY <1>1 DEF WorkerRow
    <2> HIDE DEF r, y
    <2>3. RowSound(r, pg, answers, attempts)
      BY <1>1, <1>2, <2>1, <2>2 DEF RowSound
    <2> QED BY <1>0, <2>1, <2>2, <2>3, WorkerMoves
  <1> QED BY <1>3, <1>4

\* A worker records one cancellation of its snapshot.
LEMMA IngestMoves ==
  ASSUME SagaInv, NEW w \in Workers, Ingest(w)
  PROVE  SagaInv' /\ [Next]_vars
  <1> DEFINE y == workers[w]
             c == CHOOSE d \in y.todo : \A e \in y.todo : d <= e
             rest == (y.todo \cap Unrecorded(y.seen)) \ {c}
             r == [y EXCEPT !.todo = rest]
  <1>1. /\ y \in WorkerRow /\ RowSound(y, pg, answers, attempts) /\ y.todo # {}
    BY WorkerRows DEF Ingest
  <1>2. y.todo \in SUBSET Cancellations /\ c \in y.todo
    <2>1. y.todo \in SUBSET Cancellations
      BY <1>1 DEF WorkerRow
    <2>2. \E d \in y.todo : \A e \in y.todo : d <= e
      BY <1>1, <2>1, FirstExists
    <2> QED BY <2>1, <2>2
  <1>3. y.order \in Orders /\ y.pc \in {"act", "react"}
    BY <1>1 DEF RowSound
  <1>4. UNCHANGED <<pgVars, preflight, late>> /\ faults' \in 0..MaxFaults
        /\ workers' = [workers EXCEPT ![w] = r]
    BY FaultsTyped DEF Ingest, Become
  <1>5. /\ r \in WorkerRow
        /\ r.todo = rest /\ rest \subseteq y.todo
        /\ r.pc = y.pc /\ r.seen = y.seen
        /\ r.job = y.job /\ r.attempt = y.attempt /\ r.order = y.order /\ r.row = y.row
    BY <1>1, <1>2 DEF WorkerRow
  <1> HIDE DEF rest, r
  <1>6. RowSound(r, pg, answers, attempts)
    <2>1. r.pc = "idle" => r = Idle
      BY <1>3, <1>5
    <2> HIDE DEF y, c
    <2> QED BY <1>1, <1>3, <1>5, <2>1 DEF RowSound
  <1>7. LedgerGoes /\ NoneAsked
    <2> DEFINE status == IF y.seen[c] = "succeeded" THEN "SUCCEEDED" ELSE "FAILED"
    <2>1. UNCHANGED vars \/ RecordCancellation(c, y.order, status, pg[c].amount, pg[c].marker)
      BY DEF Ingest
    <2>2. CASE UNCHANGED vars
      BY <2>2, LedgerStays
    <2>3. CASE RecordCancellation(c, y.order, status, pg[c].amount, pg[c].marker)
      <3>1. y.seen[c] \in {"succeeded", "failed"} /\ c \in Cancellations
        BY <1>1, <1>2 DEF RowSound
      <3>2. pg[c].order = y.order /\ pg[c].state = y.seen[c]
        BY <1>1, <3>1 DEF RowSound, SeenSound
      <3>3. /\ status \in {"SUCCEEDED", "FAILED"}
            /\ pg[c].state = (IF status = "SUCCEEDED" THEN "succeeded" ELSE "failed")
        BY <3>1, <3>2
      <3> HIDE DEF status, c, y
      <3> QED BY <1>3, <2>3, <3>1, <3>2, <3>3, ReportGoes
    <2> QED BY <2>1, <2>2, <2>3
  <1> QED BY <1>4, <1>5, <1>6, <1>7, WorkerMoves

\* mark_pg_requested and the first POST, or the end of the request.
LEMMA MarkMoves ==
  ASSUME SagaInv, NEW w \in Workers, Mark(w)
  PROVE  SagaInv' /\ [Next]_vars
  <1> DEFINE Goal == SagaInv' /\ [Next]_vars
             a == workers[w].attempt
             o == workers[w].order
             seen == workers[w].seen
             before == PreflightOf(o, seen)
  <1>1. /\ workers[w].job = "refund" /\ workers[w].pc = "act" /\ workers[w].todo = {}
        /\ a \in Attempts /\ o \in Orders /\ attempts[a].order = o
        /\ workers[w] \in WorkerRow
    BY WorkerRows DEF Mark, Ready
  <1>2. UNCHANGED <<pgVars, late, faults>> /\ faults' \in 0..MaxFaults
    BY FaultsTyped DEF Mark
  <1>3. \/ /\ Payable(a, seen) /\ MarkPgRequested(a)
           /\ preflight' = [preflight EXCEPT ![a] = before] /\ GoTo(w, "post")
        \/ /\ attempts[a].state = "pg_requested" /\ GoTo(w, "post") /\ UNCHANGED <<vars, preflight>>
        \/ End(w) /\ UNCHANGED <<vars, preflight>>
    BY DEF Mark
  <1> HIDE DEF seen, before
  <1>4. CASE /\ Payable(a, seen) /\ MarkPgRequested(a)
             /\ preflight' = [preflight EXCEPT ![a] = before] /\ GoTo(w, "post")
    <2>1. /\ LedgerGoes
          /\ attempts'[a].pgAsked /\ attempts'[a].amount = attempts[a].amount
          /\ \A b \in Attempts : b # a => attempts'[b] = attempts[b]
      BY <1>1, <1>4, MarkGoes
    <2>2. /\ before.cancellable \in Nat /\ before.cancellable >= attempts[a].amount
          /\ before.ids \in SUBSET Cancellations
          /\ before = [ids |-> before.ids, cancellable |-> before.cancellable]
      <3>1. before.cancellable = SeenCancellable(o, seen) /\ SeenCancellable(o, seen) >= attempts[a].amount
        BY <1>1, <1>4 DEF before, PreflightOf, Payable
      <3>2. SeenTotal(seen) \in Nat
        <4>1. {c \in Cancellations : seen[c] = "succeeded"} \in SUBSET Cancellations
          OBVIOUS
        <4>2. SumFunctionOnSet(Cancelled, {c \in Cancellations : seen[c] = "succeeded"}) \in Nat
          BY <4>1, SagaTyped, Totals, SumIsNat
        <4> QED BY <4>2 DEF SeenTotal, Cancelled
      <3>3. Price[o] \in Nat /\ attempts[a].amount \in Nat
        BY <1>1, CatalogAssumption, AttemptRows DEF AttemptRow
      <3> QED BY <3>1, <3>2, <3>3 DEF before, PreflightOf, SeenCancellable
    <2>3. /\ preflight' \in [Attempts -> [ids : SUBSET Cancellations, cancellable : Nat]]
          /\ preflight'[a] = before /\ \A b \in Attempts : b # a => preflight'[b] = preflight[b]
      <3>1. before \in [ids : SUBSET Cancellations, cancellable : Nat]
        BY <2>2
      <3>2. preflight \in [Attempts -> [ids : SUBSET Cancellations, cancellable : Nat]]
        BY DEF SagaInv, SagaTypeOK
      <3> QED BY <1>1, <1>4, <3>1, <3>2, RowUpdate
    <2>4. AskedWithRoom'
      <3>1. \A b \in Attempts : attempts'[b].pgAsked => preflight'[b].cancellable >= attempts'[b].amount
        BY <2>1, <2>2, <2>3 DEF SagaInv, SagaLinks, AskedWithRoom
      <3>2. \A p \in posts : attempts'[p.attempt].pgAsked
        BY <2>1, PostedKnown DEF LedgerGoes, AttemptsGo
      <3> QED BY <1>2, <3>1, <3>2 DEF AskedWithRoom, pgVars
    <2>5. Onward(w, "post") \in WorkerRow /\ RowSound(Onward(w, "post"), pg, answers, attempts')
      BY <1>1, <2>1, OnwardSound DEF LedgerGoes
    <2>6. /\ workers' \in [Workers -> WorkerRow]
          /\ \A v \in Workers : RowSound(workers'[v], pg, answers, attempts')
      BY <1>4, <2>1, <2>5, GoToIsOnward, RowsMove
    <2> QED BY <1>2, <2>1, <2>3, <2>4, <2>6, LedgerMoves DEF pgVars, SagaInv, SagaTypeOK
  <1>5. CASE attempts[a].state = "pg_requested" /\ GoTo(w, "post") /\ UNCHANGED <<vars, preflight>>
    <2>1. attempts[a].pgAsked
      BY <1>1, <1>5, AttemptRows DEF AttemptSound, AskedStates
    <2> QED BY <1>1, <1>2, <1>5, <2>1, LedgerStays, OnwardMoves
  <1>6. CASE End(w) /\ UNCHANGED <<vars, preflight>>
    BY <1>2, <1>6, LedgerStays, EndMoves
  <1> QED BY <1>3, <1>4, <1>5, <1>6

\* The POST goes out.
LEMMA PostMoves ==
  ASSUME SagaInv, NEW w \in Workers, Post(w)
  PROVE  SagaInv' /\ [Next]_vars
  <1> DEFINE a == workers[w].attempt
             new == [attempt |-> a, first |-> workers[w].pc = "post"]
  <1>1. /\ workers[w].job = "refund" /\ workers[w].pc # "idle" /\ workers[w].todo = {}
        /\ a \in Attempts /\ attempts[a].pgAsked
    BY WorkerRows DEF Post, Reposts, Ready, AskedStates
  <1>2. /\ posts' = posts \cup {new} /\ GoTo(w, "wait")
        /\ UNCHANGED <<vars, pg, answers, preflight, late, faults>>
    BY DEF Post
  <1>3. new \in [attempt : Attempts, first : BOOLEAN] /\ new.attempt = a
    BY <1>1
  <1> HIDE DEF new
  <1>4. LedgerGoes /\ AttemptsGo(attempts, attempts')
    BY <1>2, LedgerStays DEF LedgerGoes
  <1>5. attempts' = attempts
    BY <1>2 DEF vars
  <1>6. Onward(w, "wait") \in WorkerRow /\ RowSound(Onward(w, "wait"), pg, answers, attempts')
    BY <1>1, <1>4, <1>5, OnwardSound
  <1>7. /\ workers' \in [Workers -> WorkerRow]
        /\ \A v \in Workers : RowSound(workers'[v], pg, answers, attempts')
    BY <1>2, <1>4, <1>6, GoToIsOnward, RowsMove
  <1>8. AskedWithRoom'
    BY <1>1, <1>2, <1>3, <1>5 DEF SagaInv, SagaLinks, AskedWithRoom
  <1>9. posts' \subseteq [attempt : Attempts, first : BOOLEAN]
    BY <1>2, <1>3 DEF SagaInv, SagaTypeOK
  <1> QED BY <1>2, <1>4, <1>7, <1>8, <1>9, LedgerMoves DEF SagaInv, SagaTypeOK

\* The answer to the POST.
LEMMA ReceiveMoves ==
  ASSUME SagaInv, NEW w \in Workers, Receive(w)
  PROVE  SagaInv' /\ [Next]_vars
  <1> DEFINE a == workers[w].attempt
             o == workers[w].order
             accepted(state) == answers[a] = "accepted" /\ OwnIs(a, Snapshot(o), state)
  <1>1. /\ workers[w].job = "refund" /\ workers[w].pc = "wait" /\ workers[w].todo = {}
        /\ a \in Attempts /\ attempts[a].order = o /\ attempts[a].pgAsked
    BY WorkerRows DEF Receive
  <1>2. \A state \in PgStates \ {"none"} :
          OwnIs(a, Snapshot(o), state) <=> \E c \in Cancellations : pg[c].marker = a /\ pg[c].state = state
    BY <1>1, OwnShown
  <1>3. accepted("succeeded") => OwnSucceeded(a, pg)
    BY <1>2 DEF OwnSucceeded, PgStates
  <1>4. answers[a] # "none" /\ ~accepted("succeeded") /\ ~accepted("requested") =>
          RejectionFinal(a, pg, answers)
    <2> SUFFICES ASSUME answers[a] # "none", ~accepted("succeeded"), ~accepted("requested"),
                        NEW c \in Cancellations, pg[c].marker = a
                 PROVE  pg[c].state = "failed"
                        \/ (pg[c].state = "succeeded" /\ answers[a] = "already_cancelled")
      BY DEF RejectionFinal
    <2>1. AnswerSound(answers[a], pg[c].state) /\ pg[c].state # "none"
      BY <1>1, MarkedIsMade
    <2>2. answers[a] \in Answers /\ pg[c].state \in PgStates
      BY <1>1 DEF SagaInv, SagaTypeOK
    <2>3. CASE answers[a] = "accepted"
      <3>1. pg[c].state # "succeeded" /\ pg[c].state # "requested"
        BY <1>2, <2>3 DEF PgStates
      <3> QED BY <2>1, <2>2, <3>1 DEF PgStates
    <2>4. CASE answers[a] # "accepted"
      BY <2>1, <2>2, <2>4 DEF AnswerSound, Answers
    <2> QED BY <2>3, <2>4
  <1>5. PICK pc \in {"settle", "pending", "reget"} :
          /\ GoTo(w, pc)
          /\ pc = "settle" => accepted("succeeded")
          /\ pc = "reget" => ~accepted("succeeded") /\ ~accepted("requested")
    BY DEF Receive
  <1>6. answers[a] # "none" /\ UNCHANGED <<vars, pgVars, preflight, late, faults>>
    BY DEF Receive
  <1> HIDE DEF accepted
  <1> QED BY <1>1, <1>3, <1>4, <1>5, <1>6, LedgerStays, OnwardMoves

\* The driver knows of a success only if PortOne made the refund.
LEMMA KnownIsMade ==
  ASSUME SagaInv, NEW w \in Workers, KnowsSucceeded(w)
  PROVE  /\ workers[w].job = "refund" /\ workers[w].pc # "idle" /\ workers[w].todo = {}
         /\ workers[w].attempt \in Attempts /\ attempts[workers[w].attempt].pgAsked
         /\ attempts[workers[w].attempt].order = workers[w].order /\ workers[w].order \in Orders
         /\ OwnSucceeded(workers[w].attempt, pg)
  <1> DEFINE a == workers[w].attempt
             seen == workers[w].seen
  <1>1. /\ workers[w].job = "refund" /\ workers[w].pc # "idle" /\ workers[w].todo = {}
        /\ a \in Attempts /\ attempts[a].pgAsked /\ attempts[a].order = workers[w].order
        /\ workers[w].order \in Orders
    BY WorkerRows DEF KnowsSucceeded, Ready, AskedStates
  <1>2. CASE workers[w].pc = "settle"
    BY <1>1, <1>2, WorkerRows DEF RowSound
  <1>3. CASE OwnIs(a, seen, "succeeded")
    <2>1. PICK c \in Cancellations : pg[c].marker = a /\ seen[c] = "succeeded"
      BY <1>3 DEF OwnIs, Own
    <2>2. SeenSound(seen, workers[w].order, pg)
      BY WorkerRows DEF RowSound
    <2>3. pg[c].state = "succeeded"
      BY <2>1, <2>2 DEF SeenSound
    <2> QED BY <1>1, <2>1, <2>3 DEF OwnSucceeded
  <1> QED BY <1>1, <1>2, <1>3 DEF KnowsSucceeded

\* The attempt's own cancellation is the one with its marker.
LEMMA OwnChosen ==
  ASSUME SagaInv, NEW a \in Attempts, OwnSucceeded(a, pg)
  PROVE  LET c == CHOOSE d \in Cancellations : pg[d].marker = a
         IN  c \in Cancellations /\ pg[c].marker = a /\ pg[c].state = "succeeded"
  <1> DEFINE c == CHOOSE d \in Cancellations : pg[d].marker = a
  <1>1. PICK d \in Cancellations : pg[d].marker = a /\ pg[d].state = "succeeded"
    BY DEF OwnSucceeded
  <1>2. c \in Cancellations /\ pg[c].marker = a
    BY <1>1
  <1>3. c = d
    BY <1>1, <1>2, MarkerIsAttempt DEF SagaInv, SagaLinks, OneMarker
  <1> QED BY <1>1, <1>2, <1>3

\* recordSucceededAndCommit.
LEMMA RecordSucceededMoves ==
  ASSUME SagaInv, NEW w \in Workers, RecordSucceeded(w)
  PROVE  SagaInv' /\ [Next]_vars
  <1> DEFINE a == workers[w].attempt
             c == CHOOSE d \in Cancellations : pg[d].marker = a
  <1>1. /\ workers[w].job = "refund" /\ workers[w].pc # "idle" /\ workers[w].todo = {}
        /\ a \in Attempts /\ attempts[a].pgAsked /\ OwnSucceeded(a, pg)
    BY KnownIsMade DEF RecordSucceeded
  <1>2. c \in Cancellations /\ pg[c].marker = a /\ pg[c].state = "succeeded"
    BY <1>1, OwnChosen
  <1>3. \/ RecordPgSucceeded(a, c) /\ GoTo(w, "commit")
        \/ GoTo(w, "commit") /\ UNCHANGED vars
        \/ End(w) /\ UNCHANGED vars
    BY DEF RecordSucceeded
  <1>4. UNCHANGED <<pgVars, preflight, late, faults>> /\ faults' \in 0..MaxFaults
    BY FaultsTyped DEF RecordSucceeded
  <1> HIDE DEF c
  <1>5. RecordPgSucceeded(a, c) => LedgerGoes /\ NoneAsked
    BY <1>1, <1>2, SettleGoes
  <1>6. UNCHANGED vars => LedgerGoes /\ NoneAsked
    BY LedgerStays
  <1>7. CASE GoTo(w, "commit") /\ (RecordPgSucceeded(a, c) \/ UNCHANGED vars)
    BY <1>1, <1>4, <1>5, <1>6, <1>7, OnwardMoves
  <1>8. CASE End(w) /\ UNCHANGED vars
    BY <1>4, <1>6, <1>8, EndMoves
  <1> QED BY <1>3, <1>7, <1>8

\* The steps that end a request.
LEMMA EndingMoves ==
  ASSUME SagaInv, NEW w \in Workers,
         \/ TimeOut(w) \/ RecordPending(w) \/ RecordFailed(w) \/ Commit(w)
         \/ NothingToDo(w) \/ Observe(w) \/ AdminDecide(w) \/ Die(w)
  PROVE  SagaInv' /\ [Next]_vars
  <1> DEFINE a == workers[w].attempt
  <1>1. End(w) /\ UNCHANGED <<pgVars, preflight, late>>
    BY DEF TimeOut, RecordPending, RecordFailed, Commit, NothingToDo, Observe, AdminDecide, Die
  <1>2. faults' \in 0..MaxFaults
    <2>1. CASE Die(w)
      BY <2>1, FaultsTyped, SagaAssumption DEF Die
    <2>2. CASE UNCHANGED faults
      BY <2>2, FaultsTyped
    <2> QED BY <2>1, <2>2 DEF TimeOut, RecordPending, RecordFailed, Commit, NothingToDo, Observe, AdminDecide
  <1>3. SUFFICES LedgerGoes /\ NoneAsked
    BY <1>1, <1>2, EndMoves
  <1>4. UNCHANGED vars => LedgerGoes /\ NoneAsked
    BY LedgerStays
  <1>5. CASE TimeOut(w) \/ NothingToDo(w) \/ Die(w)
    BY <1>4, <1>5 DEF TimeOut, NothingToDo, Die
  <1>6. CASE RecordPending(w)
    <2>1. a \in Attempts
      BY <1>6, WorkerRows DEF RecordPending
    <2> QED BY <1>4, <1>6, <2>1, DriverGoes DEF RecordPending
  <1>7. CASE RecordFailed(w)
    <2>1. a \in Attempts
      BY <1>7, WorkerRows DEF RecordFailed, KnowsFailed, Ready
    <2> QED BY <1>4, <1>7, <2>1, DriverGoes DEF RecordFailed
  <1>8. CASE Commit(w)
    <2>1. a \in Attempts
      BY <1>8, WorkerRows DEF Commit, Ready
    <2> QED BY <1>4, <1>8, <2>1, CommitGoes DEF Commit
  <1>9. CASE Observe(w)
    <2>1. workers[w].order \in Orders
      BY <1>9, WorkerRows DEF Observe, Ready, RowSound
    <2> QED BY <1>4, <1>9, <2>1, OrderGoes, ResolveGoes DEF Observe
  <1>10. CASE AdminDecide(w)
    <2>1. a \in Attempts
      BY <1>10, WorkerRows DEF AdminDecide, Ready, RowSound
    <2> QED BY <1>4, <1>10, <2>1, ReleaseGoes DEF AdminDecide
  <1> QED BY <1>5, <1>6, <1>7, <1>8, <1>9, <1>10

\* People's requests that do not look at PortOne, and the passing of three hours.
LEMMA DirectMoves ==
  ASSUME SagaInv, Direct \/ \E a \in Attempts : Cutoff(a)
  PROVE  SagaInv' /\ [Next]_vars
  <1>1. LedgerGoes /\ NoneAsked
    <2>1. ASSUME NEW a \in Attempts, NEW o \in Orders, NEW qty \in 1..Credits[o],
                 \/ \E rate \in SagaRates : AdminRefundBegin(a, o, qty, rate, "portone_cancel")
                 \/ CancelIntentResolve(a, o, qty)
          PROVE  LedgerGoes /\ NoneAsked
      BY <2>1, BeginGoes
    <2>2. ASSUME NEW o \in Orders, NEW rate \in SagaRates, CancelIntentBegin(o, rate)
          PROVE  LedgerGoes /\ NoneAsked
      BY <2>2, OrderGoes
    <2>3. ASSUME NEW a \in Attempts,
                 AdminRefundRelease(a) \/ ReplanPrePg(a, FALSE) \/ AdminRefundCommitManual(a)
          PROVE  LedgerGoes /\ NoneAsked
      BY <2>3, ReleaseGoes, CommitGoes
    <2>4. ASSUME NEW c \in Cancellations, events[c].order # None,
                 \E econ \in 0..Credits[events[c].order] : ResolveExternalCancellation(c, econ)
          PROVE  LedgerGoes /\ NoneAsked
      BY <2>4, ResolveGoes
    <2>5. CASE \E a \in Attempts : Cutoff(a)
      BY <2>5, LedgerStays DEF Cutoff
    <2> QED BY <2>1, <2>2, <2>3, <2>4, <2>5 DEF Direct
  <1>2. UNCHANGED <<pgVars, preflight, workers, faults>> /\ late' \subseteq Attempts
    BY DEF Direct, Cutoff, SagaInv, SagaTypeOK
  <1>3. AskedWithRoom'
    BY <1>1, <1>2, RoomStays DEF pgVars
  <1>4. ASSUME NEW w \in Workers PROVE RowSound(workers'[w], pg, answers, attempts')
    <2>1. /\ workers[w].seen \in Snapshots /\ workers[w].attempt \in Attempts \cup {None}
          /\ RowSound(workers[w], pg, answers, attempts)
      BY DEF SagaInv, SagaTypeOK, SagaLinks, WorkerRow
    <2>2. AttemptsGo(attempts, attempts') /\ PgGoes(pg, answers, pg, answers)
      BY <1>1, PgUnmoved DEF LedgerGoes
    <2>3. RowSound(workers[w], pg, answers, attempts')
      BY <2>1, <2>2, RowStays
    <2> QED BY <1>2, <2>3
  <1> QED BY <1>1, <1>2, <1>3, <1>4, FaultsTyped, LedgerMoves DEF pgVars, SagaInv, SagaTypeOK

---------------------------------------------------------------------------
(* The inductive invariant.                                                *)

\* Before the first payment nothing was asked and nobody works.
LEMMA SagaInvInit == SagaInit => SagaInv
  <1> SUFFICES ASSUME SagaInit PROVE SagaInv
    OBVIOUS
  <1>1. Core
    BY CoreInit DEF SagaInit
  <1>2. SagaTypeOK
    <2>1. NoCancellation \in [state : PgStates, order : Orders \cup {None},
                              amount : Nat, marker : Attempts \cup {None}]
      BY DEF NoCancellation, PgStates
    <2>2. "none" \in Answers /\ Idle \in WorkerRow
      BY IdleSound DEF Answers
    <2>3. 0 \in 0..MaxFaults
      BY SagaAssumption
    <2> QED BY <1>1, <2>1, <2>2, <2>3 DEF SagaInit, SagaTypeOK, Core
  <1>3. \A a \in Attempts : AttemptSound(attempts[a]) /\ ~attempts[a].pgAsked
    BY DEF SagaInit, Init, UnusedAttempt, AttemptSound, AskedStates
  <1>4. \A c \in Cancellations : /\ pg[c] = NoCancellation /\ pg[c].marker = None /\ pg[c].order = None
                                 /\ events[c] = AbsentEvent
    BY DEF SagaInit, Init, NoCancellation
  <1>5. \A w \in Workers : RowSound(workers[w], pg, answers, attempts)
    BY IdleSound DEF SagaInit
  <1>6. AskedWithRoom
    BY <1>3 DEF AskedWithRoom, SagaInit
  <1>7. NotOverCancelled
    <2> SUFFICES ASSUME NEW o \in Orders PROVE PgTotal(o, {"requested", "succeeded"}) <= Price[o]
      BY DEF NotOverCancelled
    <2>1. {c \in Cancellations : pg[c].order = o /\ pg[c].state \in {"requested", "succeeded"}} = {}
      BY <1>4, NoneAssumption
    <2>2. PgTotal(o, {"requested", "succeeded"}) = 0
      BY <2>1, SumUnfolds, FS_EmptySet DEF PgTotal
    <2> QED BY <2>2, CatalogAssumption
  <1>8. SagaLinks
    BY <1>3, <1>4, <1>5, <1>6, <1>7 DEF SagaLinks, CancellationSound, OneMarker, EventSound
  <1> QED BY <1>1, <1>2, <1>8 DEF SagaInv

\* No step leaves the invariant, and each is one of the ledger's or leaves it alone.
LEMMA SagaInvNext == SagaInv /\ [SagaNext]_sagaVars => SagaInv' /\ [Next]_vars
  <1> SUFFICES ASSUME SagaInv, [SagaNext]_sagaVars PROVE SagaInv' /\ [Next]_vars
    OBVIOUS
  <1>1. ASSUME NEW w \in Workers, WorkerStep(w) \/ Die(w) PROVE SagaInv' /\ [Next]_vars
    BY <1>1, GetMoves, IngestMoves, MarkMoves, PostMoves, ReceiveMoves, RecordSucceededMoves, EndingMoves
       DEF WorkerStep
  <1>2. CASE UNCHANGED sagaVars
    <2>1. /\ UNCHANGED <<vars, pg, answers, posts, preflight, late, workers, faults>>
      BY <1>2 DEF sagaVars, pgVars
    <2>2. LedgerGoes /\ NoneAsked
      BY <2>1, LedgerStays
    <2>3. AskedWithRoom'
      BY <2>1, <2>2, RoomStays
    <2>4. \A w \in Workers : RowSound(workers'[w], pg, answers, attempts')
      BY <2>1 DEF vars, SagaInv, SagaLinks
    <2> QED BY <2>1, <2>2, <2>3, <2>4, LedgerMoves DEF SagaInv, SagaTypeOK
  <1> QED BY <1>1, <1>2, PgSteps, LoadMoves, DirectMoves DEF SagaNext

\* The invariant holds in every state of driver, PortOne and ledger together.
THEOREM SagaInvariant == SagaSpec => []SagaInv
  BY SagaInvInit, SagaInvNext, PTL DEF SagaSpec

\* Every row of the driver, of PortOne and of the ledger keeps its values.
THEOREM SagaTypeCorrect == SagaSpec => []SagaTypeOK
  BY SagaInvariant, SagaTyped, PTL

\* The driver with PortOne implements RefundLedger: it calls the ledger's RPCs,
\* and reports to it only what RefundLedger takes for possible.  So everything
\* proved of the ledger holds of the whole.
THEOREM SagaImplementsLedger == SagaSpec => Spec
  <1>1. SagaInit => Init
    BY DEF SagaInit
  <1> QED BY <1>1, SagaInvariant, SagaInvNext, PTL DEF SagaSpec, Spec

---------------------------------------------------------------------------
(* What the ledger is told.                                                *)

\* What PortOne did to a cancellation that ended may be reported: it is within
\* what was paid, was asked for if it has a marker, and was not reported before.
LEMMA EndedIsReportable ==
  ASSUME SagaInv, NEW c \in Cancellations, events[c].state = "absent",
         pg[c].state \in {"succeeded", "failed"}, NEW status,
         status = (IF pg[c].state = "succeeded" THEN "SUCCEEDED" ELSE "FAILED")
  PROVE  Reportable(c, pg[c].order, status, pg[c].amount, pg[c].marker)
  <1> DEFINE o == pg[c].order
  <1>1. /\ CancellationSound(pg[c], answers, attempts) /\ pg[c] # NoCancellation
        /\ pg[c].marker \in Attempts \cup {None}
    BY DEF SagaInv, SagaLinks, SagaTypeOK, NoCancellation
  <1>2. o \in Orders /\ o # None
    BY <1>1, NoneAssumption DEF CancellationSound
  <1>3. \A d \in Cancellations : EventSound(events[d], pg[d])
    BY DEF SagaInv, SagaLinks
  <1>4. pg[c].marker # None => \A d \in Cancellations : events[d].marker # pg[c].marker
    <2> SUFFICES ASSUME pg[c].marker # None, NEW d \in Cancellations, events[d].marker = pg[c].marker
                 PROVE  FALSE
      OBVIOUS
    <2>1. events[d] # AbsentEvent
      BY DEF AbsentEvent
    <2>2. pg[d].marker = pg[c].marker /\ events[d].state # "absent"
      BY <1>3, <2>1 DEF EventSound
    <2>3. d = c
      BY <2>2 DEF SagaInv, SagaLinks, OneMarker
    <2> QED BY <2>2, <2>3
  <1>5. ASSUME status = "SUCCEEDED" PROVE SeenCancelled(o) + pg[c].amount <= Price[o]
    <2> DEFINE f == [d \in Cancellations |-> events[d].amount]
               S == {d \in EventsOf(o) : events[d].status = "SUCCEEDED"}
               T == Counted(o, {"requested", "succeeded"})
    <2>1. pg[c].state = "succeeded"
      BY <1>5
    <2>2. \A d \in S : /\ d \in Cancellations /\ d # c /\ events[d].amount = pg[d].amount
                       /\ pg[d].order = o /\ pg[d].state = "succeeded"
      <3> SUFFICES ASSUME NEW d \in S
                   PROVE  /\ d \in Cancellations /\ d # c /\ events[d].amount = pg[d].amount
                          /\ pg[d].order = o /\ pg[d].state = "succeeded"
        OBVIOUS
      <3>1. d \in Cancellations /\ events[d].order = o /\ events[d].status = "SUCCEEDED"
        BY DEF EventsOf
      <3>2. events[d] # AbsentEvent
        BY <1>2, <3>1 DEF AbsentEvent
      <3> QED BY <1>3, <3>1, <3>2 DEF EventSound
    <2>3. S \cup {c} \in SUBSET T /\ T \in SUBSET Cancellations /\ c \notin S
      BY <2>1, <2>2 DEF Counted
    <2>4. /\ IsFiniteSet(S) /\ IsFiniteSet(T)
          /\ \A d \in T : Cancelled[d] \in Nat /\ Cancelled[d] = pg[d].amount
          /\ PgTotal(o, {"requested", "succeeded"}) = SumFunctionOnSet(Cancelled, T)
      BY <2>2, <2>3, SagaTyped, Totals
    <2>5. SumFunctionOnSet(f, S) = SumFunctionOnSet(Cancelled, S)
      <3>1. \A d \in S : f[d] = Cancelled[d]
        BY <2>2, <2>3, <2>4
      <3> HIDE DEF f, S
      <3> QED BY <2>4, <3>1, SumSame
    <2>6. SeenCancelled(o) = SumFunctionOnSet(f, S)
      BY DEF SeenCancelled
    <2> HIDE DEF f, S, T
    <2>7. SumFunctionOnSet(Cancelled, S \cup {c}) = Cancelled[c] + SumFunctionOnSet(Cancelled, S)
      BY <2>3, <2>4, SumInsert
    <2>8. SumFunctionOnSet(Cancelled, S \cup {c}) <= SumFunctionOnSet(Cancelled, T)
      BY <2>3, <2>4, SumOfFewer
    <2>9. SumFunctionOnSet(Cancelled, T) <= Price[o]
      BY <1>2, <2>4 DEF SagaInv, SagaLinks, NotOverCancelled
    <2>10. /\ SumFunctionOnSet(Cancelled, S) \in Nat /\ SumFunctionOnSet(Cancelled, T) \in Nat
           /\ Cancelled[c] = pg[c].amount /\ pg[c].amount \in Nat /\ Price[o] \in Nat
      BY <1>2, <2>3, <2>4, SumIsNat, CatalogAssumption
    <2> QED BY <2>5, <2>6, <2>7, <2>8, <2>9, <2>10
  <1> QED BY <1>1, <1>4, <1>5 DEF Reportable, CancellationSound

\* The driver tells the ledger what it assumes: no cancellation twice for one
\* attempt, for another amount, before it was asked for, or beyond the payment.
THEOREM ReportsHold == SagaSpec => []ReportsAsAssumed
  <1>1. SagaInv => ReportsAsAssumed
    <2> SUFFICES ASSUME SagaInv, NEW w \in Workers
                 PROVE  /\ \A c \in workers[w].todo \cap Unrecorded(workers[w].seen) :
                             Reportable(c, workers[w].order,
                               IF workers[w].seen[c] = "succeeded" THEN "SUCCEEDED" ELSE "FAILED",
                               pg[c].amount, pg[c].marker)
                        /\ KnowsSucceeded(w) =>
                             \A c \in Cancellations :
                               pg[c].marker = workers[w].attempt /\ events[c].state = "absent" =>
                                 Reportable(c, workers[w].order, "SUCCEEDED", pg[c].amount, pg[c].marker)
      BY DEF ReportsAsAssumed
    <2>1. ASSUME NEW c \in workers[w].todo \cap Unrecorded(workers[w].seen)
          PROVE  Reportable(c, workers[w].order,
                   IF workers[w].seen[c] = "succeeded" THEN "SUCCEEDED" ELSE "FAILED",
                   pg[c].amount, pg[c].marker)
      <3>1. /\ c \in Cancellations /\ events[c].state = "absent"
            /\ workers[w].seen[c] \in {"succeeded", "failed"}
        BY DEF Unrecorded
      <3>2. pg[c].order = workers[w].order /\ pg[c].state = workers[w].seen[c]
        BY <3>1, WorkerRows DEF RowSound, SeenSound
      <3> QED BY <3>1, <3>2, EndedIsReportable
    <2>2. ASSUME KnowsSucceeded(w), NEW c \in Cancellations,
                 pg[c].marker = workers[w].attempt, events[c].state = "absent"
          PROVE  Reportable(c, workers[w].order, "SUCCEEDED", pg[c].amount, pg[c].marker)
      <3>1. /\ workers[w].attempt \in Attempts /\ OwnSucceeded(workers[w].attempt, pg)
            /\ attempts[workers[w].attempt].order = workers[w].order
        BY <2>2, KnownIsMade
      <3>2. pg[c].state = "succeeded"
        BY <2>2, <3>1, MarkerIsAttempt DEF OwnSucceeded, SagaInv, SagaLinks, OneMarker
      <3>3. pg[c].order = workers[w].order
        BY <2>2, <3>1, MarkedIsMade
      <3> QED BY <2>2, <3>2, <3>3, EndedIsReportable
    <2> QED BY <2>1, <2>2
  <1> QED BY <1>1, SagaInvariant, PTL

---------------------------------------------------------------------------
(* The ledger and the money.                                               *)

\* The ledger's own invariants hold here.
LEMMA LedgerHolds == SagaSpec => [](SettlementOneToOne /\ RefundsDecompose)
  BY SagaImplementsLedger, SettledOnce, RefundsAddUp, PTL

\* A settled attempt has a cancellation of its own at PortOne.
LEMMA SettledWasPaid ==
  ASSUME SagaInv, SettlementOneToOne, NEW a \in Attempts,
         attempts[a].state = "pg_succeeded"
         \/ (attempts[a].state = "committed" /\ attempts[a].rail = "portone_cancel")
  PROVE  /\ attempts[a].cancel \in Cancellations
         /\ events[attempts[a].cancel].state = "matched" /\ events[attempts[a].cancel].matched = a
         /\ pg[attempts[a].cancel] =
              [state |-> "succeeded", order |-> attempts[a].order,
               amount |-> attempts[a].amount, marker |-> a]
  <1> DEFINE c == attempts[a].cancel
  <1>1. c \in Cancellations /\ events[c].state = "matched" /\ events[c].matched = a
    BY DEF SettlementOneToOne
  <1>2. attempts[a].order = events[c].order /\ attempts[a].amount = events[c].amount
    BY <1>1 DEF SettlementOneToOne
  <1>3. EventSound(events[c], pg[c]) /\ events[c] # AbsentEvent
    BY <1>1 DEF SagaInv, SagaLinks, AbsentEvent
  <1>4. /\ pg[c].order = attempts[a].order /\ pg[c].amount = attempts[a].amount
        /\ pg[c].marker = a /\ pg[c].state = "succeeded"
    BY <1>1, <1>2, <1>3 DEF EventSound
  <1>5. pg[c] \in [state : PgStates, order : Orders \cup {None},
                   amount : Nat, marker : Attempts \cup {None}]
    BY <1>1 DEF SagaInv, SagaTypeOK
  <1> HIDE DEF c
  <1>6. pg[c] = [state |-> "succeeded", order |-> attempts[a].order,
                 amount |-> attempts[a].amount, marker |-> a]
    BY <1>4, <1>5
  <1> QED BY <1>1, <1>6 DEF c

\* An attempt is settled or committed through PortOne only if PortOne cancelled
\* its amount, of its order and under its marker.
THEOREM CommittedIsPaid == SagaSpec => []CommittedWasPaid
  <1>1. SagaInv /\ SettlementOneToOne => CommittedWasPaid
    BY SettledWasPaid DEF CommittedWasPaid
  <1> QED BY <1>1, SagaInvariant, LedgerHolds, PTL

\* The money an order shows as refunded has left: its attempts committed through
\* PortOne and its resolved cancellations are different cancellations PortOne
\* made, and the others were paid by hand.
LEMMA MoneyFollows ==
  ASSUME SagaInv, SettlementOneToOne, RefundsDecompose, NEW o \in Orders
  PROVE  orders[o].ra <= PgTotal(o, {"succeeded"})
                         + SumFunctionOnSet([a \in Attempts |-> attempts[a].amount], PaidByHand(o))
  <1> DEFINE paid == [a \in Attempts |-> attempts[a].amount]
             H == [a \in Attempts |-> attempts[a].cancel]
             All == {a \in Attempts : attempts[a].order = o /\ attempts[a].state = "committed"}
             Hand == PaidByHand(o)
             Pg == All \ Hand
             Paid == {H[a] : a \in Pg}
             f == [c \in Cancellations |-> events[c].amount]
             R == {c \in EventsOf(o) : events[c].state = "resolved"}
             T == Counted(o, {"succeeded"})
  <1>1. orders[o].ra = SumFunctionOnSet(paid, All) + SumFunctionOnSet(f, R)
    BY DEF RefundsDecompose
  <1>2. /\ IsFiniteSet(All) /\ IsFiniteSet(Pg) /\ Hand \in SUBSET All
        /\ \A a \in All : paid[a] \in Nat
    <2>1. \A a \in Attempts : attempts[a].amount \in Nat
      BY AttemptRows DEF AttemptRow
    <2>2. All \in SUBSET Attempts /\ Pg \in SUBSET Attempts /\ Hand \in SUBSET All
      BY DEF PaidByHand
    <2> QED BY <2>1, <2>2, FiniteAssumption, FS_Subset
  <1>3. /\ SumFunctionOnSet(paid, Hand) \in Nat /\ SumFunctionOnSet(paid, Pg) \in Nat
        /\ SumFunctionOnSet(paid, All) = SumFunctionOnSet(paid, Hand) + SumFunctionOnSet(paid, Pg)
    <2>1. All = Hand \cup Pg /\ Hand \cap Pg = {}
      BY <1>2
    <2> HIDE DEF All, Hand, Pg, paid
    <2>2. SumFunctionOnSet(paid, Hand) \in Nat
      BY <1>2, <2>1, SumSplit
    <2>3. SumFunctionOnSet(paid, Pg) \in Nat
      BY <1>2, <2>1, SumSplit
    <2>4. SumFunctionOnSet(paid, All) = SumFunctionOnSet(paid, Hand) + SumFunctionOnSet(paid, Pg)
      BY <1>2, <2>1, SumSplit
    <2> QED BY <2>2, <2>3, <2>4
  <1>4. \A a \in Pg : /\ H[a] \in Cancellations /\ events[H[a]].state = "matched"
                      /\ events[H[a]].matched = a
                      /\ pg[H[a]].state = "succeeded" /\ pg[H[a]].order = o
                      /\ paid[a] = Cancelled[H[a]] /\ paid[a] \in Int
    <2> SUFFICES ASSUME NEW a \in Pg
                 PROVE  /\ H[a] \in Cancellations /\ events[H[a]].state = "matched"
                        /\ events[H[a]].matched = a
                        /\ pg[H[a]].state = "succeeded" /\ pg[H[a]].order = o
                        /\ paid[a] = Cancelled[H[a]] /\ paid[a] \in Int
      OBVIOUS
    <2>1. /\ a \in Attempts /\ attempts[a].order = o /\ attempts[a].state = "committed"
          /\ attempts[a].rail = "portone_cancel"
      BY AttemptRows DEF PaidByHand, AttemptRow
    <2>2. /\ attempts[a].cancel \in Cancellations
          /\ events[attempts[a].cancel].state = "matched" /\ events[attempts[a].cancel].matched = a
          /\ pg[attempts[a].cancel] =
               [state |-> "succeeded", order |-> attempts[a].order,
                amount |-> attempts[a].amount, marker |-> a]
      BY <2>1, SettledWasPaid
    <2>3. Cancelled[attempts[a].cancel] = attempts[a].amount
      BY <2>2 DEF Cancelled
    <2> QED BY <1>2, <2>1, <2>2, <2>3
  <1>5. SumFunctionOnSet(paid, Pg) = SumFunctionOnSet(Cancelled, Paid)
    <2>1. \A a, b \in Pg : H[a] = H[b] => a = b
      BY <1>4
    <2> HIDE DEF paid, H, Pg
    <2> QED BY <1>2, <1>4, <2>1, FiniteAssumption, SumRenamed
  <1>6. \A c \in R : /\ c \in Cancellations /\ f[c] = Cancelled[c]
                     /\ pg[c].order = o /\ pg[c].state = "succeeded"
    <2> SUFFICES ASSUME NEW c \in R
                 PROVE  /\ c \in Cancellations /\ f[c] = Cancelled[c]
                        /\ pg[c].order = o /\ pg[c].state = "succeeded"
      OBVIOUS
    <2>1. c \in Cancellations /\ events[c].order = o /\ events[c].state = "resolved"
      BY DEF EventsOf
    <2>2. EventSound(events[c], pg[c]) /\ events[c] # AbsentEvent
      BY <2>1 DEF SagaInv, SagaLinks, AbsentEvent
    <2> QED BY <2>1, <2>2 DEF EventSound, Cancelled
  <1>7. /\ Paid \cup R \in SUBSET T /\ T \in SUBSET Cancellations /\ (Paid \cup R) \ R = Paid
    <2>1. \A c \in Paid : c \in Cancellations /\ c \notin R /\ pg[c].order = o /\ pg[c].state = "succeeded"
      BY <1>4
    <2> HIDE DEF Paid, R
    <2> QED BY <1>6, <2>1 DEF Counted
  <1>8. /\ IsFiniteSet(T) /\ IsFiniteSet(R) /\ IsFiniteSet(Paid \cup R)
        /\ \A c \in T : Cancelled[c] \in Nat
        /\ PgTotal(o, {"succeeded"}) = SumFunctionOnSet(Cancelled, T)
    <2>1. Paid \cup R \in SUBSET Cancellations /\ R \in SUBSET Cancellations
      BY <1>7
    <2> HIDE DEF Paid, R
    <2> QED BY <1>7, <2>1, SagaTyped, Totals
  <1>9. SumFunctionOnSet(f, R) = SumFunctionOnSet(Cancelled, R)
    <2> HIDE DEF f, R
    <2> QED BY <1>6, <1>8, SumSame
  <1> HIDE DEF paid, H, All, Hand, Pg, Paid, f, R, T
  <1>10. /\ SumFunctionOnSet(Cancelled, R) \in Nat /\ SumFunctionOnSet(Cancelled, Paid) \in Nat
         /\ SumFunctionOnSet(Cancelled, Paid \cup R) =
              SumFunctionOnSet(Cancelled, R) + SumFunctionOnSet(Cancelled, Paid)
    <2>1. R \cap Paid = {} /\ \A c \in Paid \cup R : Cancelled[c] \in Nat
      BY <1>7, <1>8
    <2> DEFINE S == Paid \cup R
    <2>2. S = R \cup Paid /\ IsFiniteSet(S) /\ \A c \in S : Cancelled[c] \in Nat
      BY <1>8, <2>1
    <2> HIDE DEF S
    <2>3. SumFunctionOnSet(Cancelled, R) \in Nat
      BY <2>1, <2>2, SumSplit
    <2>4. SumFunctionOnSet(Cancelled, Paid) \in Nat
      BY <2>1, <2>2, SumSplit
    <2>5. SumFunctionOnSet(Cancelled, S) = SumFunctionOnSet(Cancelled, R) + SumFunctionOnSet(Cancelled, Paid)
      BY <2>1, <2>2, SumSplit
    <2> QED BY <2>3, <2>4, <2>5 DEF S
  <1>11. /\ SumFunctionOnSet(Cancelled, Paid \cup R) <= SumFunctionOnSet(Cancelled, T)
         /\ SumFunctionOnSet(Cancelled, T) \in Nat
    BY <1>7, <1>8, SumOfFewer
  <1>12. orders[o].ra <= PgTotal(o, {"succeeded"}) + SumFunctionOnSet(paid, Hand)
    BY <1>1, <1>3, <1>5, <1>8, <1>9, <1>10, <1>11
  <1> QED BY <1>12 DEF paid, Hand

\* No order shows more money refunded than PortOne cancelled and people paid.
THEOREM LedgerWithinMoney == SagaSpec => []LedgerNotAheadOfMoney
  <1>1. SagaInv /\ SettlementOneToOne /\ RefundsDecompose => LedgerNotAheadOfMoney
    BY MoneyFollows DEF LedgerNotAheadOfMoney
  <1> QED BY <1>1, SagaInvariant, LedgerHolds, PTL

---------------------------------------------------------------------------
(* Who sends a refund to manual review.                                    *)

\* A step that sends no attempt to manual review.
NoneReviewed ==
  \A b \in Attempts : attempts'[b].state = "manual_review" => attempts[b].state = "manual_review"

LEMMA RowNotReviewed ==
  ASSUME SagaInv, NEW a \in Attempts, NEW row,
         attempts' = [attempts EXCEPT ![a] = row], row.state # "manual_review"
  PROVE  NoneReviewed
  BY DEF NoneReviewed, SagaInv, Core, TypeOK

LEMMA UnchangedNotReviewed == attempts' = attempts => NoneReviewed
  BY DEF NoneReviewed

\* Only record_pg_result with a failure sends an attempt to manual review.
LEMMA AttemptNotReviewed ==
  ASSUME SagaInv, NEW a \in Attempts,
         \/ MarkPgRequested(a) \/ RecordPgPending(a) \/ \E c : RecordPgSucceeded(a, c)
         \/ SwitchToManual(a) \/ AdminRefundCommit(a) \/ AdminRefundCommitManual(a)
         \/ AdminRefundRelease(a) \/ ReplanPrePg(a, FALSE) \/ ReplanAfterPg(a)
         \/ \E o, qty, rate : AdminRefundBegin(a, o, qty, rate, "portone_cancel")
         \/ \E o, qty : CancelIntentResolve(a, o, qty)
  PROVE  NoneReviewed
  <1> SUFFICES \E row : attempts' = [attempts EXCEPT ![a] = row] /\ row.state # "manual_review"
    BY RowNotReviewed
  <1> DEFINE Writes(row) == attempts' = [attempts EXCEPT ![a] = row] /\ row.state # "manual_review"
  <1>0. attempts[a] \in AttemptRow
    BY AttemptRows
  <1>1. CASE MarkPgRequested(a)
    <2>1. Writes([attempts[a] EXCEPT !.state = "pg_requested", !.pgAsked = TRUE])
      BY <1>0, <1>1 DEF MarkPgRequested, AttemptRow
    <2> QED BY <2>1
  <1>2. CASE RecordPgPending(a)
    <2>1. Writes([attempts[a] EXCEPT !.state = "pg_pending"])
      BY <1>0, <1>2 DEF RecordPgPending, AttemptRow
    <2> QED BY <2>1
  <1>3. CASE \E c : RecordPgSucceeded(a, c)
    <2>1. PICK c : RecordPgSucceeded(a, c)
      BY <1>3
    <2>2. Writes([attempts[a] EXCEPT !.state = "pg_succeeded", !.cancel = c])
      BY <1>0, <2>1 DEF RecordPgSucceeded, AttemptRow
    <2> QED BY <2>2
  <1>4. CASE SwitchToManual(a)
    <2>1. Writes([attempts[a] EXCEPT !.state = "manual_pending", !.rail = "manual_transfer"])
      BY <1>0, <1>4 DEF SwitchToManual, AttemptRow
    <2> QED BY <2>1
  <1>5. CASE AdminRefundCommit(a) \/ AdminRefundCommitManual(a)
    <2>1. Writes([attempts[a] EXCEPT !.state = "committed", !.closure = Closure(a)])
      BY <1>0, <1>5 DEF AdminRefundCommit, AdminRefundCommitManual, ApplyCommit, AttemptRow
    <2> QED BY <2>1
  <1>6. CASE AdminRefundRelease(a) \/ ReplanPrePg(a, FALSE) \/ ReplanAfterPg(a)
    <2>1. PICK reason : ApplyRelease(a, reason)
      BY <1>6 DEF AdminRefundRelease, ReplanPrePg, ReplanAfterPg
    <2>2. Writes([attempts[a] EXCEPT !.state = "released", !.release = reason])
      BY <1>0, <2>1 DEF ApplyRelease, AttemptRow
    <2> QED BY <2>2
  <1>7. CASE \/ \E o, qty, rate : AdminRefundBegin(a, o, qty, rate, "portone_cancel")
             \/ \E o, qty : CancelIntentResolve(a, o, qty)
    <2>1. PICK o, qty, rate, origin : Reserve(a, o, qty, rate, "portone_cancel", origin)
      BY <1>7 DEF AdminRefundBegin, CancelIntentResolve
    <2>2. PICK amount : attempts' = [attempts EXCEPT ![a] =
            [UnusedAttempt EXCEPT !.state = "prepared", !.order = o, !.qty = qty,
               !.amount = amount, !.rail = "portone_cancel", !.origin = origin]]
      BY <2>1 DEF Reserve
    <2>3. Writes([UnusedAttempt EXCEPT !.state = "prepared", !.order = o, !.qty = qty,
                    !.amount = amount, !.rail = "portone_cancel", !.origin = origin])
      BY <2>2 DEF UnusedAttempt
    <2> QED BY <2>3
  <1> QED BY <1>1, <1>2, <1>3, <1>4, <1>5, <1>6, <1>7

\* The driver's steps other than that one, PortOne's, and people's.
LEMMA OthersNotReviewed ==
  ASSUME SagaInv, [SagaNext]_sagaVars, \A w \in Workers : ~RecordFailed(w)
  PROVE  NoneReviewed
  <1>1. UNCHANGED vars => NoneReviewed
    BY UnchangedNotReviewed DEF vars
  <1>2. ASSUME NEW w \in Workers, WorkerStep(w) \/ Die(w) PROVE NoneReviewed
    <2> DEFINE a == workers[w].attempt
    <2>1. CASE Get(w) \/ GetAgainFails(w) \/ Post(w) \/ Receive(w) \/ TimeOut(w) \/ NothingToDo(w) \/ Die(w)
      BY <1>1, <2>1 DEF Get, GetAgainFails, Post, Receive, TimeOut, NothingToDo, Die
    <2>2. CASE Ingest(w) \/ Observe(w)
      <3>1. attempts' = attempts
        BY <2>2 DEF Ingest, Observe, RecordCancellation, MarkPaidAndGrant, ResolveAutoFull,
                    ResolveFromLot, MarkOrderCanceledUnpaid, vars
      <3> QED BY <3>1, UnchangedNotReviewed
    <2>3. CASE Mark(w)
      <3>1. a \in Attempts
        BY <2>3, WorkerRows DEF Mark, Ready
      <3> QED BY <1>1, <2>3, <3>1, AttemptNotReviewed DEF Mark
    <2>4. CASE RecordPending(w)
      <3>1. a \in Attempts
        BY <2>4, WorkerRows DEF RecordPending
      <3> QED BY <1>1, <2>4, <3>1, AttemptNotReviewed DEF RecordPending
    <2>5. CASE RecordSucceeded(w)
      <3>1. a \in Attempts
        BY <2>5, KnownIsMade DEF RecordSucceeded
      <3>2. UNCHANGED vars \/ \E c : RecordPgSucceeded(a, c)
        BY <2>5 DEF RecordSucceeded
      <3> QED BY <1>1, <3>1, <3>2, AttemptNotReviewed
    <2>6. CASE Commit(w)
      <3>1. a \in Attempts
        BY <2>6, WorkerRows DEF Commit, Ready
      <3> QED BY <1>1, <2>6, <3>1, AttemptNotReviewed DEF Commit
    <2>7. CASE AdminDecide(w)
      <3>1. a \in Attempts
        BY <2>7, WorkerRows DEF AdminDecide, Ready, RowSound
      <3> QED BY <1>1, <2>7, <3>1, AttemptNotReviewed DEF AdminDecide
    <2> QED BY <1>2, <2>1, <2>2, <2>3, <2>4, <2>5, <2>6, <2>7 DEF WorkerStep
  <1>3. CASE \E p \in posts : PgHandle(p) \/ PgLose(p)
    BY <1>1, <1>3 DEF PgHandle, PgLose
  <1>4. CASE \/ \E c \in Cancellations : PgFinish(c)
             \/ \E o \in Orders, amount \in ExternalAmounts : PgExternal(o, amount)
    BY <1>1, <1>4 DEF PgFinish, PgExternal
  <1>5. ASSUME NEW w \in Workers,
               \/ \E a \in Attempts : \/ LoadAttempt(w, a)
                                      \/ \E job \in {"switch", "replan"} : LoadForAdmin(w, a, job)
               \/ \E o \in Orders : LoadOrder(w, o)
        PROVE  NoneReviewed
    BY <1>1, <1>5 DEF LoadAttempt, LoadForAdmin, LoadOrder
  <1>6. CASE Direct
    <2>1. CASE \E a \in Attempts, o \in Orders : \E qty \in 1..Credits[o] :
                 \/ \E rate \in SagaRates : AdminRefundBegin(a, o, qty, rate, "portone_cancel")
                 \/ CancelIntentResolve(a, o, qty)
      BY <2>1, AttemptNotReviewed
    <2>2. CASE \E a \in Attempts :
                 AdminRefundRelease(a) \/ ReplanPrePg(a, FALSE) \/ AdminRefundCommitManual(a)
      BY <2>2, AttemptNotReviewed
    <2>3. CASE \/ \E o \in Orders, rate \in SagaRates : CancelIntentBegin(o, rate)
               \/ \E c \in Cancellations : events[c].order # None /\
                    \E econ \in 0..Credits[events[c].order] : ResolveExternalCancellation(c, econ)
      <3>1. attempts' = attempts
        BY <2>3 DEF CancelIntentBegin, ResolveExternalCancellation, ResolveFromLot
      <3> QED BY <3>1, UnchangedNotReviewed
    <2> QED BY <1>6, <2>1, <2>2, <2>3 DEF Direct
  <1>7. CASE (\E a \in Attempts : Cutoff(a)) \/ UNCHANGED sagaVars
    BY <1>1, <1>7 DEF Cutoff, sagaVars
  <1> QED BY <1>2, <1>3, <1>4, <1>5, <1>6, <1>7 DEF SagaNext

\* A driver that records a failure of a refund PortOne made has waited three
\* hours, or could not read the payment again.
LEMMA FailureExcused ==
  ASSUME SagaInv, NEW w \in Workers, KnowsFailed(w),
         OwnSucceeded(workers[w].attempt, pg)
  PROVE  workers[w].attempt \in late \/ Blind(workers[w].attempt)
  <1> DEFINE a == workers[w].attempt
             seen == workers[w].seen
  <1>1. /\ a \in Attempts /\ RowSound(workers[w], pg, answers, attempts)
        /\ workers[w].pc \in {"act", "react"}
    BY WorkerRows DEF KnowsFailed, Ready
  <1>2. PICK c \in Cancellations : pg[c].marker = a /\ pg[c].state = "succeeded"
    BY DEF OwnSucceeded
  <1>3. CASE workers[w].pc = "act"
    <2>1. ~OwnIs(a, seen, "failed")
      <3> SUFFICES ASSUME NEW d \in Cancellations, pg[d].marker = a, seen[d] = "failed" PROVE FALSE
        BY DEF OwnIs, Own
      <3>1. pg[d].state = "failed"
        BY <1>1 DEF RowSound, SeenSound
      <3>2. c = d
        BY <1>1, <1>2, MarkerIsAttempt DEF SagaInv, SagaLinks, OneMarker
      <3> QED BY <1>2, <3>1, <3>2
    <2> QED BY <1>3, <2>1 DEF KnowsFailed, Ready
  <1>4. CASE workers[w].pc = "react"
    <2>1. answers[a] = "already_cancelled"
      BY <1>1, <1>2, <1>4 DEF RowSound, RejectionFinal
    <2>2. CASE seen = NothingSeen
      BY <1>4, <2>2 DEF Blind
    <2>3. CASE seen # NothingSeen
      <3>1. seen[c] = "succeeded"
        BY <1>1, <1>2, <1>4, <2>3 DEF RowSound
      <3>2. OwnIs(a, seen, "succeeded")
        BY <1>2, <3>1 DEF OwnIs, Own
      <3> QED BY <1>4, <2>1, <3>2 DEF KnowsFailed, Ready
    <2> QED BY <2>2, <2>3
  <1> QED BY <1>1, <1>3, <1>4

\* A refund that PortOne has made goes to manual review as failed only after
\* three hours, or when the payment could not be read again after a rejection.
THEOREM PaidFailsLateOrBlind == SagaSpec => PaidNotFailedEarly
  <1> DEFINE Excused == \A a \in Attempts : FailsPaid(a) => a \in late \/ Blind(a)
  <1>1. ASSUME SagaInv, [SagaNext]_sagaVars, NEW a \in Attempts, FailsPaid(a)
        PROVE  a \in late \/ Blind(a)
    <2>1. ~NoneReviewed
      BY <1>1 DEF NoneReviewed, FailsPaid
    <2>2. PICK w \in Workers : RecordFailed(w)
      BY <1>1, <2>1, OthersNotReviewed
    <2>3. KnowsFailed(w) /\ workers[w].attempt \in Attempts
      BY <1>1, <2>2, WorkerRows DEF RecordFailed, KnowsFailed, Ready
    <2>4. workers[w].attempt = a
      <3>1. RecordPgFailed(workers[w].attempt)
        BY <2>1, <2>2, UnchangedNotReviewed DEF RecordFailed, vars
      <3> QED BY <1>1, <2>3, <3>1 DEF RecordPgFailed, FailsPaid, SagaInv, Core, TypeOK
    <2>5. OwnSucceeded(a, pg)
      <3>1. "succeeded" \in PgStates \ {"none"}
        BY DEF PgStates
      <3> QED BY <1>1, <3>1, OwnShown DEF FailsPaid, OwnSucceeded
    <2> QED BY <1>1, <2>3, <2>4, <2>5, FailureExcused
  <1>2. SagaInv /\ [SagaNext]_sagaVars => [Excused]_sagaVars
    BY <1>1
  <1>3. SagaSpec => [][Excused]_sagaVars
    BY <1>2, SagaInvariant, PTL DEF SagaSpec
  <1> QED BY <1>3 DEF PaidNotFailedEarly

===========================================================================
