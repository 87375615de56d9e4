---------------------------- MODULE RefundSaga ----------------------------
(***************************************************************************)
(* The refund driver of lib/refund-saga.ts beside the ledger and PortOne.  *)
(*                                                                         *)
(* A worker is one HTTP request or one cron tick.  It reads a row, reads   *)
(* the payment at PortOne, records the cancellations it saw one RPC at a   *)
(* time and then acts on the row it read first, however old that is by     *)
(* now.  Each step is one call: a read, an RPC (an action of RefundLedger),*)
(* a GET or a POST.  A worker may die, or lose an answer, before any step. *)
(***************************************************************************)
EXTENDS RefundLedger

CONSTANTS
  Workers,     \* concurrent requests of browsers, administrators, PortOne
  Sweeper,     \* the worker that is the reconcile cron
  SagaRates,   \* bound: the refund rates considered
  MaxFaults    \* bound: workers that die or lose an answer

ASSUME SagaAssumption ==
  /\ Sweeper \in Workers
  /\ MaxFaults \in Nat
  /\ SagaRates \subseteq Rates

VARIABLES
  pg,         \* what PortOne did: one record per cancellation id
  answers,    \* PortOne's memory of idempotency keys: the answer to each attempt
  posts,      \* cancel POSTs under way to PortOne
  preflight,  \* the pg_*_before columns written by mark_pg_requested
  late,       \* attempts first posted more than PG_RETRY_CUTOFF_MS ago
  workers,
  faults

pgVars == <<pg, answers, posts>>
sagaVars == <<vars, pgVars, preflight, late, workers, faults>>

---------------------------------------------------------------------------
(* PortOne, as the driver uses it.                                         *)

PgStates == {"none", "requested", "succeeded", "failed"}

NoCancellation == [state |-> "none", order |-> None, amount |-> 0, marker |-> None]

\* A rejected key is remembered as well: "accepted" stands for whatever became
\* of the cancellation it created.
Answers == {"none", "accepted", "stale_cancellable", "already_cancelled", "hard_reject"}

PgTotal(o, states) ==
  SumFunctionOnSet([c \in Cancellations |-> pg[c].amount],
                   {c \in Cancellations : pg[c].order = o /\ pg[c].state \in states})

Cancellable(o) == Price[o] - PgTotal(o, {"requested", "succeeded"})

Unused == {c \in Cancellations : pg[c].state = "none"}

\* Cancellation ids are handed out in time order.
NextId == CHOOSE c \in Unused : \A d \in Unused : c <= d

Create(o, amount, marker, state) ==
  /\ Unused # {}
  /\ pg' = [pg EXCEPT ![NextId] =
       [state |-> state, order |-> o, amount |-> amount, marker |-> marker]]

Snapshots == [Cancellations -> PgStates]

NothingSeen == [c \in Cancellations |-> "none"]

Snapshot(o) == [c \in Cancellations |-> IF pg[c].order = o THEN pg[c].state ELSE "none"]

SeenTotal(seen) ==
  SumFunctionOnSet([c \in Cancellations |-> pg[c].amount],
                   {c \in Cancellations : seen[c] = "succeeded"})

\* The status of the payment in a snapshot.
Status(o, seen) ==
  LET cancelled == SeenTotal(seen)
  IN  IF cancelled = 0 THEN "PAID"
      ELSE IF cancelled = Price[o] THEN "CANCELLED" ELSE "PARTIAL_CANCELLED"

\* findMarkerCancellation: the attempt's own cancellation in a snapshot.
Own(a, seen) == {c \in Cancellations : seen[c] # "none" /\ pg[c].marker = a}

\* Defect: any cancellation of the attempt counts as made.
OwnIsThere(a, seen, state) == Own(a, seen) # {}

OwnIs(a, seen, state) == \E c \in Own(a, seen) : seen[c] = state

\* Defect: every POST goes out under a key of its own.
FreshAlways(a) == TRUE

\* The idempotency key is the attempt's id.
Fresh(a) == answers[a] = "none"

\* A cancel POST: a key seen before is answered as the first time.  Only a
\* cancellable amount equal to currentCancellableAmount lets it through.
PgHandle(p) ==
  LET a == p.attempt
      o == attempts[a].order
      fresh == Fresh(a)
  IN  /\ p \in posts
      /\ posts' = posts \ {p}
      /\ \/ /\ ~fresh
            /\ UNCHANGED <<pg, answers>>
         \/ /\ answers[a] = "accepted" /\ Cancellable(o) = 0
            /\ OwnIs(a, Snapshot(o), "succeeded")
            /\ answers' = [answers EXCEPT ![a] = "already_cancelled"]
            /\ UNCHANGED pg
         \/ /\ fresh /\ Cancellable(o) = 0
            /\ answers' = [answers EXCEPT ![a] = "already_cancelled"]
            /\ UNCHANGED pg
         \/ /\ fresh /\ Cancellable(o) # 0 /\ Cancellable(o) # preflight[a].cancellable
            /\ answers' = [answers EXCEPT ![a] = "stale_cancellable"]
            /\ UNCHANGED pg
         \/ /\ fresh /\ Cancellable(o) = preflight[a].cancellable
            /\ answers' = [answers EXCEPT ![a] = "hard_reject"]
            /\ \/ UNCHANGED pg
               \/ Create(o, attempts[a].amount, a, "failed")
         \/ /\ fresh /\ Cancellable(o) = preflight[a].cancellable
            /\ answers' = [answers EXCEPT ![a] = "accepted"]
            /\ \E state \in {"requested", "succeeded"} :
                 Create(o, attempts[a].amount, a, state)
      /\ UNCHANGED <<vars, preflight, late, workers, faults>>

\* A POST that never reaches PortOne.
PgLose(p) ==
  /\ p \in posts /\ faults < MaxFaults
  /\ posts' = posts \ {p}
  /\ faults' = faults + 1
  /\ UNCHANGED <<vars, pg, answers, preflight, late, workers>>

PgFinish(c) ==
  /\ pg[c].state = "requested"
  /\ \E state \in {"succeeded", "failed"} : pg' = [pg EXCEPT ![c].state = state]
  /\ UNCHANGED <<vars, answers, posts, preflight, late, workers, faults>>

\* Somebody cancels at the PortOne console.
PgExternal(o, amount) ==
  /\ amount <= Cancellable(o)
  /\ Create(o, amount, None, "succeeded")
  /\ UNCHANGED <<vars, answers, posts, preflight, late, workers, faults>>

---------------------------------------------------------------------------
(* Workers.                                                                *)

\* job: what the request is for.  row: the attempt's state when it was read,
\* paid: whether the order had paid_at then.  todo: cancellations of the
\* snapshot still to be recorded.
WorkerRow ==
  [pc : {"idle", "get", "act", "post", "wait", "reget", "react",
         "pending", "settle", "commit"},
   job : {"none", "refund", "watch", "switch", "replan"},
   attempt : Attempts \cup {None}, order : Orders \cup {None},
   row : OpenStates \cup {"none"}, paid : BOOLEAN,
   seen : Snapshots, todo : SUBSET Cancellations]

Idle == [pc |-> "idle", job |-> "none", attempt |-> None, order |-> None,
         row |-> "none", paid |-> FALSE, seen |-> NothingSeen, todo |-> {}]

Become(w, row) == workers' = [workers EXCEPT ![w] = row]

\* Going on to a call that needs the snapshot no more; the row read first
\* still tells a first POST from a repetition.
GoTo(w, pc) ==
  Become(w, [workers[w] EXCEPT !.pc = pc, !.seen = NothingSeen,
               !.row = IF pc \in {"post", "wait"} THEN @ ELSE "none"])

\* A call that is refused, or needs nothing done, ends the request.
End(w) == Become(w, Idle)

\* What a snapshot adds to the recorded cancellations.  Recording a known one
\* is a no_op.
Unrecorded(seen) ==
  {c \in Cancellations : seen[c] \in {"succeeded", "failed"} /\ events[c].state = "absent"}

SagaInit ==
  /\ Init
  /\ pg = [c \in Cancellations |-> NoCancellation]
  /\ answers = [a \in Attempts |-> "none"]
  /\ posts = {}
  /\ preflight = [a \in Attempts |-> [ids |-> {}, cancellable |-> 0]]
  /\ late = {}
  /\ workers = [w \in Workers |-> Idle]
  /\ faults = 0

---------------------------------------------------------------------------
(* Starting: read the row.                                                 *)

\* Defect: a pending attempt is left to the webhook.
SweptWithoutPending == {"pg_requested", "pg_succeeded"}

\* Defect: a recorded success is left to the request that recorded it.
SweptWithoutSucceeded == {"pg_requested", "pg_pending"}

SweptStates == {"pg_requested", "pg_pending", "pg_succeeded"}

\* Defect: without the early return for attempts that have ended.
LoadAttemptOfAnyState(w, a) ==
  /\ workers[w].pc = "idle"
  /\ attempts[a].rail = "portone_cancel"
  /\ w = Sweeper => attempts[a].state \in SweptStates
  /\ Become(w, [Idle EXCEPT !.pc = "get", !.job = "refund", !.attempt = a,
                            !.order = attempts[a].order, !.row = attempts[a].state])
  /\ UNCHANGED <<vars, pgVars, preflight, late, faults>>

\* processAttemptAuto.  The cron looks at the swept states only.
LoadAttempt(w, a) ==
  /\ workers[w].pc = "idle"
  /\ attempts[a].state \in OpenStates /\ attempts[a].rail = "portone_cancel"
  /\ w = Sweeper => attempts[a].state \in SweptStates
  /\ Become(w, [Idle EXCEPT !.pc = "get", !.job = "refund", !.attempt = a,
                            !.order = attempts[a].order, !.row = attempts[a].state])
  /\ UNCHANGED <<vars, pgVars, preflight, late, faults>>

\* The webhook, the poll of an order's page, and the cron's payment part.
LoadOrder(w, o) ==
  /\ workers[w].pc = "idle" /\ w # Sweeper
  /\ Become(w, [Idle EXCEPT !.pc = "get", !.job = "watch", !.order = o,
                            !.paid = orders[o].paid])
  /\ UNCHANGED <<vars, pgVars, preflight, late, faults>>

\* An administrator asks for switch_to_manual or, once posted, for a replan.
LoadForAdmin(w, a, job) ==
  /\ workers[w].pc = "idle" /\ w # Sweeper
  /\ attempts[a].state \in OpenStates
  /\ job = "replan" => attempts[a].pgAsked
  /\ Become(w, [Idle EXCEPT !.pc = "get", !.job = job, !.attempt = a,
                            !.order = attempts[a].order])
  /\ UNCHANGED <<vars, pgVars, preflight, late, faults>>

\* GET the payment.  A PAID payment has nothing to record, and administrators'
\* requests record nothing.
Get(w) ==
  LET job == workers[w].job
      seen == Snapshot(workers[w].order)
      records == job = "refund" \/ (job = "watch" /\ Status(workers[w].order, seen) # "PAID")
  IN  /\ workers[w].pc \in {"get", "reget"}
      /\ Become(w, [workers[w] EXCEPT
           !.pc = IF workers[w].pc = "get" THEN "act" ELSE "react",
           !.seen = seen, !.todo = IF records THEN Unrecorded(seen) ELSE {}])
      /\ UNCHANGED <<vars, pgVars, preflight, late, faults>>

\* After a rejection a GET that fails leaves the driver with the snapshot from
\* before the POST: everything in it is recorded, and it shows no success.
GetAgainFails(w) ==
  /\ workers[w].pc = "reget"
  /\ Become(w, [workers[w] EXCEPT !.pc = "react"])
  /\ UNCHANGED <<vars, pgVars, preflight, late, faults>>

\* ingestObservedCancellations, one RPC per terminal cancellation.
Ingest(w) ==
  LET todo == workers[w].todo
      c == CHOOSE c \in todo : \A d \in todo : c <= d
  IN  /\ todo # {}
      /\ Become(w, [workers[w] EXCEPT !.todo = (todo \cap Unrecorded(workers[w].seen)) \ {c}])
      /\ \/ /\ events[c].state # "absent"
            /\ UNCHANGED vars
         \/ RecordCancellation(c, workers[w].order,
              IF workers[w].seen[c] = "succeeded" THEN "SUCCEEDED" ELSE "FAILED",
              pg[c].amount, pg[c].marker)
      /\ UNCHANGED <<pgVars, preflight, late, faults>>

---------------------------------------------------------------------------
(* The driver acts on the row it read and the payment it saw.              *)

Ready(w, job, pc) ==
  workers[w].job = job /\ workers[w].pc = pc /\ workers[w].todo = {}

SeenCancellable(o, seen) == Price[o] - SeenTotal(seen)

PreflightOf(o, seen) ==
  [ids |-> {c \in Cancellations : seen[c] # "none"}, cancellable |-> SeenCancellable(o, seen)]

\* A new POST needs a payment that still has the amount.
Payable(a, seen) ==
  /\ Status(attempts[a].order, seen) # "CANCELLED"
  /\ SeenCancellable(attempts[a].order, seen) >= attempts[a].amount

\* mark_pg_requested with the snapshot as preflight.  A repetition with the
\* very same preflight is a no_op, after which this worker posts as well.
Mark(w) ==
  LET a == workers[w].attempt
      seen == workers[w].seen
      before == PreflightOf(workers[w].order, seen)
      again == attempts[a].state = "pg_requested" /\ preflight[a] = before
  IN  /\ Ready(w, "refund", "act") /\ workers[w].row = "prepared"
      /\ UNCHANGED <<pgVars, late, faults>>
      /\ \/ /\ Payable(a, seen)
            /\ MarkPgRequested(a)
            /\ preflight' = [preflight EXCEPT ![a] = before]
            /\ GoTo(w, "post")
         \/ /\ Payable(a, seen) /\ again
            /\ GoTo(w, "post")
            /\ UNCHANGED <<vars, preflight>>
         \/ /\ Payable(a, seen) => attempts[a].state # "prepared" /\ ~again
            /\ End(w)
            /\ UNCHANGED <<vars, preflight>>

\* Within three hours of the request a worker that saw no outcome posts again,
\* under the same key and with the same body.
Reposts(w) ==
  LET a == workers[w].attempt
      seen == workers[w].seen
  IN  /\ Ready(w, "refund", "act") /\ workers[w].row = "pg_requested"
      /\ ~OwnIs(a, seen, "succeeded") /\ ~OwnIs(a, seen, "failed")
      /\ a \notin late

Post(w) ==
  /\ workers[w].pc = "post" \/ Reposts(w)
  /\ posts' = posts \cup {[attempt |-> workers[w].attempt, first |-> workers[w].pc = "post"]}
  /\ GoTo(w, "wait")
  /\ UNCHANGED <<vars, pg, answers, preflight, late, faults>>

\* The answer to the POST; after a rejection the payment is read afresh.
Receive(w) ==
  LET a == workers[w].attempt
      accepted(state) == answers[a] = "accepted" /\ OwnIs(a, Snapshot(workers[w].order), state)
  IN  /\ workers[w].pc = "wait" /\ answers[a] # "none"
      /\ GoTo(w, IF accepted("succeeded") THEN "settle"
                 ELSE IF accepted("requested") THEN "pending" ELSE "reget")
      /\ UNCHANGED <<vars, pgVars, preflight, late, faults>>

\* No answer will come: the request ends and leaves the attempt pg_requested.
TimeOut(w) ==
  /\ workers[w].pc = "wait" /\ answers[workers[w].attempt] = "none"
  /\ \A p \in posts : p.attempt # workers[w].attempt
  /\ End(w)
  /\ UNCHANGED <<vars, pgVars, preflight, late, faults>>

RecordPending(w) ==
  LET a == workers[w].attempt
  IN  /\ workers[w].pc = "pending"
      /\ RecordPgPending(a) \/ (attempts[a].state # "pg_requested" /\ UNCHANGED vars)
      /\ End(w)
      /\ UNCHANGED <<pgVars, preflight, late, faults>>

\* The driver knows the attempt's own cancellation succeeded: from the answer
\* to its POST, from the first snapshot, or from the one after a rejection.
KnowsSucceeded(w) ==
  LET a == workers[w].attempt
      seen == workers[w].seen
  IN  \/ workers[w].pc = "settle"
      \/ /\ Ready(w, "refund", "act") /\ workers[w].row \in {"pg_requested", "pg_pending"}
         /\ OwnIs(a, seen, "succeeded")
      \/ /\ Ready(w, "refund", "react")
         /\ answers[a] = "already_cancelled" /\ OwnIs(a, seen, "succeeded")

\* recordSucceededAndCommit: a refused record ends the request, a recorded one
\* (or a repetition of it) goes on to commit.
RecordSucceeded(w) ==
  LET a == workers[w].attempt
      c == CHOOSE c \in Cancellations : pg[c].marker = a
      known == attempts[a].cancel = c /\ attempts[a].state = "pg_succeeded"
  IN  /\ KnowsSucceeded(w)
      /\ UNCHANGED <<pgVars, preflight, late, faults>>
      /\ \/ /\ RecordPgSucceeded(a, c)
            /\ GoTo(w, "commit")
         \/ /\ known
            /\ GoTo(w, "commit")
            /\ UNCHANGED vars
         \/ /\ ~known
            /\ \/ attempts[a].state \notin {"pg_requested", "pg_pending"}
               \/ events[c].state \notin {"absent", "unmatched"}
            /\ End(w)
            /\ UNCHANGED vars

\* Defect: a rejected POST is a failed refund, whatever the payment shows.
KnowsFailedByRejection(w) ==
  LET a == workers[w].attempt
      seen == workers[w].seen
  IN  \/ /\ Ready(w, "refund", "act") /\ workers[w].row \in {"pg_requested", "pg_pending"}
         /\ ~OwnIs(a, seen, "succeeded")
         /\ OwnIs(a, seen, "failed") \/ (workers[w].row = "pg_requested" /\ a \in late)
      \/ Ready(w, "refund", "react")

\* recordFailedToReview: the attempt's cancellation failed, three hours went by
\* without one, or PortOne rejected the POST.
KnowsFailed(w) ==
  LET a == workers[w].attempt
      seen == workers[w].seen
  IN  \/ /\ Ready(w, "refund", "act") /\ workers[w].row \in {"pg_requested", "pg_pending"}
         /\ ~OwnIs(a, seen, "succeeded")
         /\ OwnIs(a, seen, "failed") \/ (workers[w].row = "pg_requested" /\ a \in late)
      \/ /\ Ready(w, "refund", "react")
         /\ ~(answers[a] = "already_cancelled" /\ OwnIs(a, seen, "succeeded"))

RecordFailed(w) ==
  LET a == workers[w].attempt
  IN  /\ KnowsFailed(w)
      /\ \/ RecordPgFailed(a)
         \/ attempts[a].state \notin {"pg_requested", "pg_pending"} /\ UNCHANGED vars
      /\ End(w)
      /\ UNCHANGED <<pgVars, preflight, late, faults>>

Commit(w) ==
  LET a == workers[w].attempt
  IN  /\ workers[w].pc = "commit"
         \/ (Ready(w, "refund", "act") /\ workers[w].row = "pg_succeeded")
      /\ \/ AdminRefundCommit(a)
         \/ /\ ~(attempts[a].state = "pg_succeeded" /\ CommitAdmissible(a))
            /\ UNCHANGED vars
      /\ End(w)
      /\ UNCHANGED <<pgVars, preflight, late, faults>>

\* A pending attempt without an outcome, and the states a person must settle.
NothingToDo(w) ==
  /\ Ready(w, "refund", "act")
  /\ \/ /\ workers[w].row = "pg_pending"
        /\ ~OwnIs(workers[w].attempt, workers[w].seen, "succeeded")
        /\ ~OwnIs(workers[w].attempt, workers[w].seen, "failed")
     \/ workers[w].row \in {"manual_review", "manual_pending"}
  /\ End(w)
  /\ UNCHANGED <<vars, pgVars, preflight, late, faults>>

---------------------------------------------------------------------------
(* Observers and administrators.                                           *)

\* handleObservedCancellation, and the grant of a payment seen PAID.
Observe(w) ==
  LET o == workers[w].order
      status == Status(o, workers[w].seen)
  IN  /\ Ready(w, "watch", "act")
      /\ \/ status = "PAID" /\ MarkPaidAndGrant(o)
         \/ status = "CANCELLED" /\ workers[w].paid /\ ResolveAutoFull(o)
         \/ status = "CANCELLED" /\ ~workers[w].paid /\ MarkOrderCanceledUnpaid(o)
         \/ /\ \/ status = "PARTIAL_CANCELLED"
               \/ status = "PAID" /\ orders[o].paid
               \/ status = "CANCELLED" /\ workers[w].paid /\ ~AutoFullEligible(o)
               \/ status = "CANCELLED" /\ ~workers[w].paid
                  /\ (orders[o].paid \/ orders[o].status = "canceled")
            /\ UNCHANGED vars
      /\ End(w)
      /\ UNCHANGED <<pgVars, preflight, late, faults>>

\* The evidence read from PortOne is stored; nothing is made to depend on it.
AdminDecide(w) ==
  LET a == workers[w].attempt
  IN  /\ \/ /\ Ready(w, "switch", "act")
            /\ \/ SwitchToManual(a)
               \/ attempts[a].state \notin Switchable /\ UNCHANGED vars
         \/ /\ Ready(w, "replan", "act")
            /\ \/ ReplanAfterPg(a)
               \/ attempts[a].state # "manual_review" /\ UNCHANGED vars
      /\ End(w)
      /\ UNCHANGED <<pgVars, preflight, late, faults>>

\* Requests that do not look at PortOne.
Direct ==
  /\ \/ \E a \in Attempts, o \in Orders : \E qty \in 1..Credits[o] :
          \/ \E rate \in SagaRates : AdminRefundBegin(a, o, qty, rate, "portone_cancel")
          \/ CancelIntentResolve(a, o, qty)
     \/ \E o \in Orders, rate \in SagaRates : CancelIntentBegin(o, rate)
     \/ \E a \in Attempts :
          \/ AdminRefundRelease(a)
          \/ ReplanPrePg(a, FALSE)
          \/ AdminRefundCommitManual(a)
     \/ \E c \in Cancellations : events[c].order # None /\
          \E econ \in 0..Credits[events[c].order] : ResolveExternalCancellation(c, econ)
  /\ UNCHANGED <<pgVars, preflight, late, workers, faults>>

---------------------------------------------------------------------------
(* Time and faults.                                                        *)

\* Three hours after the request.  A POST lasts 65 seconds at most, so the first
\* one is over; one that was started just before the cutoff may not be.
Cutoff(a) ==
  /\ attempts[a].state = "pg_requested" /\ a \notin late
  /\ [attempt |-> a, first |-> TRUE] \notin posts
  /\ \A w \in Workers : workers[w].attempt = a => workers[w].row # "prepared"
  /\ late' = late \cup {a}
  /\ UNCHANGED <<vars, pgVars, preflight, workers, faults>>

\* A worker dies, a read or an RPC fails, or the answer to its POST is lost.
Die(w) ==
  /\ workers[w].pc # "idle" /\ faults < MaxFaults
  /\ End(w)
  /\ faults' = faults + 1
  /\ UNCHANGED <<vars, pgVars, preflight, late>>

WorkerStep(w) ==
  \/ Get(w) \/ GetAgainFails(w) \/ Ingest(w) \/ Mark(w) \/ Post(w) \/ Receive(w) \/ TimeOut(w)
  \/ RecordPending(w) \/ RecordSucceeded(w) \/ RecordFailed(w) \/ Commit(w)
  \/ NothingToDo(w) \/ Observe(w) \/ AdminDecide(w)

SagaNext ==
  \/ \E p \in posts : PgHandle(p) \/ PgLose(p)
  \/ \E c \in Cancellations : PgFinish(c)
  \/ \E o \in Orders, amount \in ExternalAmounts : PgExternal(o, amount)
  \/ \E w \in Workers :
       \/ WorkerStep(w)
       \/ Die(w)
       \/ \E a \in Attempts :
            \/ LoadAttempt(w, a)
            \/ \E job \in {"switch", "replan"} : LoadForAdmin(w, a, job)
       \/ \E o \in Orders : LoadOrder(w, o)
  \/ Direct
  \/ \E a \in Attempts : Cutoff(a)

\* The cron runs every five minutes, a request under way goes on unless it
\* dies, and PortOne answers and finishes what it accepted.
SagaFairness ==
  /\ \A w \in Workers : WF_sagaVars(WorkerStep(w))
  /\ \A a \in Attempts : WF_sagaVars(LoadAttempt(Sweeper, a)) /\ WF_sagaVars(Cutoff(a))
  /\ WF_sagaVars(\E p \in posts : PgHandle(p))
  /\ \A c \in Cancellations : WF_sagaVars(PgFinish(c))

SagaSpec == SagaInit /\ [][SagaNext]_sagaVars

SagaFairSpec == SagaSpec /\ SagaFairness

---------------------------------------------------------------------------
(* Properties.                                                             *)

\* Every row has the values it may have.
SagaTypeOK ==
  /\ TypeOK
  /\ pg \in [Cancellations -> [state : PgStates, order : Orders \cup {None},
                               amount : Nat, marker : Attempts \cup {None}]]
  /\ answers \in [Attempts -> Answers]
  /\ posts \subseteq [attempt : Attempts, first : BOOLEAN]
  /\ preflight \in [Attempts -> [ids : SUBSET Cancellations, cancellable : Nat]]
  /\ late \subseteq Attempts
  /\ workers \in [Workers -> WorkerRow]
  /\ faults \in 0..MaxFaults

\* What RefundLedger assumes of the cancellations reported to it, the driver and
\* PortOne provide: none is reported twice for one attempt, for another amount,
\* before it was asked for, or beyond what was paid.  (So this module implements
\* RefundLedger: RefundSaga_proofs.)
ReportsAsAssumed ==
  \A w \in Workers :
    LET row == workers[w]
        report(c, status) == Reportable(c, row.order, status, pg[c].amount, pg[c].marker)
    IN  /\ \A c \in row.todo \cap Unrecorded(row.seen) :
             report(c, IF row.seen[c] = "succeeded" THEN "SUCCEEDED" ELSE "FAILED")
        /\ KnowsSucceeded(w) =>
             \A c \in Cancellations :
               pg[c].marker = row.attempt /\ events[c].state = "absent" => report(c, "SUCCEEDED")

\* An attempt is committed through PortOne only if PortOne cancelled its amount
\* under its marker.
CommittedWasPaid ==
  \A a \in Attempts :
    attempts[a].state = "pg_succeeded"
    \/ (attempts[a].state = "committed" /\ attempts[a].rail = "portone_cancel") =>
      /\ attempts[a].cancel \in Cancellations
      /\ pg[attempts[a].cancel] =
           [state |-> "succeeded", order |-> attempts[a].order,
            amount |-> attempts[a].amount, marker |-> a]

PaidByHand(o) ==
  {a \in Attempts : /\ attempts[a].order = o /\ attempts[a].state = "committed"
                    /\ attempts[a].rail = "manual_transfer"}

\* The money an order shows as refunded has left: at PortOne or by hand.
LedgerNotAheadOfMoney ==
  \A o \in Orders :
    orders[o].ra <= PgTotal(o, {"succeeded"})
                    + SumFunctionOnSet([a \in Attempts |-> attempts[a].amount], PaidByHand(o))

\* The driver acts on a rejected POST without having read the payment again.
Blind(a) ==
  \E w \in Workers : workers[w].attempt = a /\ workers[w].pc = "react"
                      /\ workers[w].seen = NothingSeen

FailsPaid(a) ==
  /\ attempts[a].state \in {"pg_requested", "pg_pending"}
  /\ attempts'[a].state = "manual_review"
  /\ OwnIs(a, Snapshot(attempts[a].order), "succeeded")

\* A refund PortOne has made is sent to manual review as failed only after the
\* three hours, or when the payment could not be read after a rejection.
PaidNotFailedEarly ==
  [][\A a \in Attempts : FailsPaid(a) => a \in late \/ Blind(a)]_sagaVars

\* A refund asked of PortOne ends: the driver settles it or hands it to people,
\* unless its own cancellation was resolved as an external one.
RequestedAttemptEnds ==
  \A a \in Attempts :
    attempts[a].state \in {"pg_requested", "pg_pending"} ~>
      \/ attempts[a].state \notin {"pg_requested", "pg_pending"}
      \/ \E c \in Cancellations : pg[c].marker = a /\ events[c].state = "resolved"

\* A refund PortOne has made is committed, unless other refunds of its order
\* left it no room.
SucceededAttemptCommits ==
  \A a \in Attempts :
    attempts[a].state = "pg_succeeded" ~>
      \/ attempts[a].state = "committed"
      \/ attempts[a].state = "pg_succeeded" /\ ~CommitAdmissible(a)

===========================================================================
