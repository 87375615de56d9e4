# boss-paegi in TLA+

boss-paegi is a browser game whose members buy *generation credits* through PortOne, spend them on
AI-drawn characters, and get money back for what they did not spend. It runs as Next.js route
handlers (`src/app/api`), library code (`src/lib`) and, above all, PL/pgSQL functions
(`src/supabase/migrations`), where the state changes are made. This directory holds a formal model
of the parts where something can be lost, repeated or left half done: money and credits, paid
generations and their images, the scores of games, the sign-in of withdrawn and restored accounts,
and what becomes of an anonymous player's records when the player signs in; with its model-checking
runs, and machine-checked proofs.

A later migration replaces the functions of an earlier one; the models follow the last definition
of each function. `0084` renamed many of them to `bp_0084_*_impl` and wrapped them in advisory locks
(object, then user), so each RPC is one atomic step here. What interleaves is everything *between*
RPCs: requests, cron ticks, webhooks, administrators and the provider.

## 1. Inventory

Migrations are named by their number. "Correct" is what a model of the component should establish.

| component | state | operations | talks to | what is hard | correct means |
|---|---|---|---|---|---|
| **Credit lots, balance, refund ledger** (0062, 0067, 0068, 0077, 008899, 008902) | `orders`, `credit_lots` (qty, consumed, refunded, reserved, shortfall), `member_accounts.gen_credits`, `refund_requests`, `order_refund_attempts`, `payment_cancellation_events`, `reconciliation_issues` | payment, refund begin / mark / record / commit / release / replan, cancellation observation and resolution, expiry | generations, deletion, driver | ten functions move one cached balance; refunds, console cancellations and expiry in any order; rounding | the balance is the live remainder; a reservation is one open attempt; nothing is paid back twice |
| **Orders and settlement** (0062; `api/pay/*`) | `orders.status`, `paid_at`, cancel intent | checkout, grant, fail, cancel unpaid | PortOne, ledger | payment reported after the member cancelled or left; repeated webhooks | a late payment is kept, not granted, and refunded |
| **Refund driver and PortOne adapter** (`lib/refund-saga.ts`, `lib/portone.ts`, `api/admin/refund-credits`) | none of its own: rows read before a GET, snapshots, preflight columns | `processAttemptAuto`, cron sweep, webhook, `switch_to_manual`, replan | PortOne, ledger | stale rows, POSTs without an answer, retries under one key, the three-hour cutoff, crashes | committed means paid; paid is never "failed"; every request ends |
| **Generation terminal state machine** (0073, 008901; `lib/generation*.ts`) | `ai_generations.status` queued / done / failed / picked / expired, artifact write leases, cleanup marks | create, webhook result, fail and refund, expire, artifact claim and cleanup | ledger, fal, storage | a late result against the sweep; cleanup against a write | one terminal outcome; a credit is given back at most once and never for a result the member keeps |
| **fal submit acknowledgement** (0086; `generation-submit-saga.ts`, `fal-submit-once.ts`) | submit intents: planned / submitting / uncertain / acknowledged / rejected / conflict / late | claim, record outcome, webhook | fal, generation | an acknowledgement lost after the provider took the job | at most one paid submission per candidate |
| **Generation preflight and quotas** (008901, 0096, 0100, 0118) | preflight rows, face checks, quota windows | claim, record, commit, release stale | generation, fal | continuation after a lost worker | a preflight is charged once and released |
| **Storage upload and cleanup intents** (0079, 008903, 0102; `fenced-storage-cleanup.ts`) | upload intents issued / confirmed / attached / pending / leased / cleaned with lease version, cleanup jobs | issue, confirm, attach, claim, finish | storage, content tables | a cleaner whose lease ended against a new attachment | no referenced object is removed; every unreferenced one is, eventually |
| **Account deletion** (0072, 008903, 0101, 0102; `account-delete-cleanup*.ts`) | deletion flag, job, target manifest, lease | begin, claim, remove, scrub auth, finish | ledger, storage, auth | crash between removal and acknowledgement; uploads still allowed by signed URLs | no money is stranded; everything named is removed |
| **Account reactivation** (0085, 0107; `account-reactivation-job.ts`) | job, generation number, auth fence | begin, claim, arm, finish | auth, deletion | a crash between changing the auth user and recording it | one lifecycle at a time |
| **Reviewer accounts** (0083) | job pending / leased / completed / failed | provision, sync, claim, finish | auth | as above | one auth user per reviewer |
| **Moderation purge** (0078, 008903) | purge job and manifest | begin, claim, finish, restore | storage, dolls | restore against a running purge | a restored doll keeps its image |
| **Content reports** (0080) | report rows | submit | – | uniqueness | one report per reporter |
| **Legal documents** (0081) | drafts, published versions, operation log | save, publish, unpublish | – | replayed operations | one published version |
| **OAuth flow intents** (0093, 0094; `oauth-flow-*.ts`) | intents with lease, bound target session, evidence | begin, claim, bind, finalize, release, cancel, expire, recover | auth, anonymous data | two tabs; a callback after the lease ended | anonymous data moves once, to the account that signed in |
| **Score submission** (0074, 008900, 0097; `score-outbox.ts`) | browser outbox, scores, quotas | persist, send, clear; submit RPC | – | lost answers, reload, several tabs | a game counts once and is not lost |
| **Administrator mutation idempotency** (0085) | operation ids, stored answers | lock, replay, store | all admin RPCs | the same operation id twice | the answer is repeated, the change is not |
| **Telemetry rollups** (0110, 0111), **privacy retention** (008904), **configuration, events, news** (0025, 0043, 0099) | rows by day, cursors, versioned content | aggregate, delete in batches, save | – | little | – |
| **Client authentication and mutations**, **game engine**, **user interface**, **migration scripts** | browser state, PixiJS scenes, pages | – | API | out of scope: visual, or run by hand | – |

How they interact: the browser calls route handlers; handlers call RPCs under the service role;
PortOne and fal call webhooks; a cron calls `ops/reconcile` every five minutes (payments and open
attempts) and the credit-expiry job once a day. There are no messages between components other than
these calls: the shared state is the database, and the provider's state is read by GET.
A generation debits and returns a credit in the transactions of the ledger; a deletion forfeits
credits there and starts the cleanup job; a sign-in merges an anonymous player's scores into the
member's; the Auth user of an account lives in GoTrue and is changed by HTTP under triggers of the
database.

`PROJECT.json` lists every component with its status and every hazard at its line.

## 2. Modules

| module | models | state | actions |
|---|---|---|---|
| `RefundPolicy` | `bp_refund_rate_bps`, `bp_refund_amount`, the largest-remainder allocation of 008902 | none (operators) | – |
| `RefundLedger` | the SQL of the first two rows above, the credit of generations, and what deletion and reactivation do to them | the seven tables as functions from orders, attempts, cancellations and generations to records | one per RPC, named after it (`AdminRefundBegin`, `RecordPgSucceeded`, `ResolveAutoFull`, ...) |
| `RefundSaga` | the driver beside PortOne | the ledger's variables (it `EXTENDS RefundLedger`; its own `Init`, `Next`, `Spec` are `SagaInit`, `SagaNext`, `SagaSpec`), PortOne (`pg`, `answers`, `posts`), the preflight columns, the clock's one bit `late`, and the workers | one per call a worker makes: read, GET, RPC, POST, answer |
| `Generation` | a generation from its accepted face check: the continuations that submit it to fal, fal and its webhooks, polls and sweeps, the pick, the removal of its objects | the reservation and its lease, the row's status, provenance, request ids and candidates, the submit intents, the write lease, storage, fal's requests, and what each worker remembers | one per RPC, update, GET round or POST |
| `ScoreSubmission` | the browser's outbox, result screen and replay at page load, `POST /api/score`, merge, consent, ban, deletion and restoration of a doll, withdrawal and reactivation | tabs, the cookie's session, the profiles, the outbox, requests, score attempts, scores and reports | one per step of a tab or a request |
| `AccountAuth` | withdrawal, its cleanup job, reactivation, its cancellation, and the repair of older reactivations | the deletion flag, three jobs with lease and fence, the Auth user and its fence, storage, signed URLs, the workers | one per RPC or call to GoTrue |
| `AccountAccess` | what `AccountAuth` promises about one account: five phases, the address, the files | three variables | one per change of phase or address |
| `OAuthFlow` | the intents of 0093 from begin to release, consent with the transfer of an anonymous player's records, the prune, the job that deletes the anonymous Auth user | flows and their jobs, member sessions, the anonymous users and their records, members and withdrawals, consent requests, the workers | one per RPC, step of a consent request, or call to GoTrue |
| `MC...` | – | constants of the small instances, symmetries | – |
| `RefundPolicy_proofs` | – | – | theorems about sums and the arithmetic of refunds |
| `RefundLedger_proofs` | – | – | theorems about the counters of lots and orders |
| `Settlement_proofs` | – | – | theorems that tie the ledger's tables to each other |
| `RefundSaga_proofs` | – | – | theorems about the driver beside PortOne, and that it implements the ledger |
| `Generation_proofs`, `ScoreSubmission_proofs`, `AccountAuth_proofs`, `OAuthFlow_proofs` | – | – | theorems about the module of that name |

**RefundLedger.** An order, its lot, its attempts and its request are records whose fields are the
columns the functions read. `lots[o].live` is the lot before `expired_at`; `owed` is the sum of
`remaining_shortfall`; `cache` is `gen_credits` of the one member. `events` are the rows of
`payment_cancellation_events`, keyed by the provider's cancellation id. Guards are the `raise` and
early-return conditions of the functions, in their order; a repetition that returns a `no_op` is a
stuttering step and has no action. What is assumed of a caller is named apart from what the RPC checks:
`OwnCancellation` (the driver records the cancellation that bears its attempt's marker, while the RPC
compares order, amount and status only) and `Reportable`, the only assumption about PortOne here.
CHECK constraints and deferred triggers that may abort a transaction are guards
(`CommitAdmissible`) or invariants (`RequestStateDerived`).

**RefundSaga.** A worker is one HTTP request or one cron tick. `LoadAttempt` reads the attempt's row;
`Get` takes a snapshot of the payment; `Ingest` records the snapshot's cancellations, one RPC at a
time; then the worker branches on the row *as it was read*, as the code does. Every RPC is the action
of `RefundLedger` with that name, or the refusal the RPC would answer with. `Die` stands for a crash,
a failed RPC and a lost answer; `PgLose` for a POST that never arrives; `GetAgainFails` for the read
after a rejected POST. PortOne (external) is modelled from how the code uses it: it answers a
repeated idempotency key as the first time, lets a cancellation through only when
`currentCancellableAmount` is right, and may finish it later. That the whole implements `RefundLedger`
is the theorem `SagaImplementsLedger`; what could fail it is the ledger's assumption `Reportable`, which
the runs check as `ReportsAsAssumed`.

**Generation.** A worker is a request that runs `runGenerationContinuation` (the client's, the face
webhook's or the sweep's); a recoverer is a poll of `/api/generations` or a pass of the sweep.
`ai_generations.version` is not counted: a recoverer remembers whether the row is still as it was
listed (`known`) or read (`fresh`), and `TouchRow` is the trigger that changes the version. `Look` is
`recoverQueuedGeneration` from its own read of the row to the last answer of fal, since nothing is
written between; of each request it learns that it is open, has an image, is complete but unreadable,
or is barren (an error, or an image that may not be shown). `Fault` stands for a request that dies, a
failed RPC, a lost answer of fal and a failed removal. Leases end only when their holder is gone: a
function lives 30 seconds at most, the leases two and ten minutes. The age of a generation has the
steps the code distinguishes: 30 minutes, 200 minutes, 24 hours. An acceptance expires between the first
two, which is `Committable`; what is committed may be taken up again at any time, also after the row has
ended. One cleaner stands for all of them.

**ScoreSubmission.** A tab is bootstrapped for a user and keeps acting for that user; its requests
carry the cookie of the moment. A sign-in exchanges the cookie first and tells the tabs later, as
`session-reconciliation.ts` does; `Reload` is the abort and reload that follows. `stale` marks a game
that was submitted under a session other than its page's. A request goes through the gate, the
reservation of its attempt, the store and the report as four RPCs, and may be answered, lost, or
outlive its page at each. The store fails an attempt for good by name (`Refused`: the source has moved,
the session changed, the doll or the profile was deleted) or without one (`internal_error`, the
handler for every other exception but a lock that could not be had); the second is kept apart, because
the route answers 500 and the browser tries again, in vain while the attempt's row is there. A profile is
deleted when an anonymous source is left behind or hidden, or its member withdraws; a withdrawn member
may come back (`Reactivate`) without the dolls.

**AccountAuth.** A worker claims one of three jobs, arms the fence of its lease, changes the Auth user
over HTTP (`Update`, which the triggers accept or refuse; a call that was given up may commit later:
`LateCommit`) and reports. Files arrive under URLs signed before the withdrawal (`Issue`, `Upload`,
`TokenExpires`). `email = Marker` stands for the scrubbed address with its metadata. Tokens and
versions are numbers nobody remembers for longer than a worker's step, so a freed one stands for a
fresh one. The module implements `AccountAccess` under the mapping `Phase`, which is checked as
`ImplementsAccess`: jobs, leases and paused workers never show through as a change of the address or
of the files that the phase does not allow.

**OAuthFlow.** A flow is a row of `oauth_flow_intents` with its row of
`oauth_anon_auth_cleanup_jobs`; the session its exchange makes has the flow's name, an anonymous user
stands for its only session, and flows are numbered in the order of their rows. `ended` gathers the
states nothing leaves; `released`, `moved` and `skipped` are a completed flow whose session the browser
holds, before and after its migration was consumed. A consent request (`FindFlow` or `FindNone`, then
`Consume` or `Replay`, `Remove`, `Join`) may stop or lose its answer at each step, and its session may
end or its member withdraw between them. `shown` says whether a source's profile and highlights are
open, hidden by a quarantine or erased by a scrub. Of a flow's age only the steps the code compares are
kept: ten minutes, a day after the release, `recover_until`. `Earlier` users were deleted before the
model begins; their receipts are the only trace they left, and decide who counts as claimed. A prune
reads candidates and reads each again under its locks; the two are one step, and a flow that completes
in between, which the prune's call then revokes as the member's own `Revoke` may, adds no outcome.
`Delete` ignores GoTrue's answer, as the worker does. A forced sign-out is GoTrue's logout (`EndSession`)
and then the RPC that confirms it (`ConfirmSignout`), with a crash possible between them.

## 3. Runs

Times are on two workers. `CHECK_DEADLOCK FALSE` in all of them: when every order is settled, every
game counted and the member does nothing more, the system really stops.

| run | instance | states, time | properties |
|---|---|---|---|
| `ledger_one_order` | 1 order of 2 credits and price 20, 2 attempts (symmetric), 1 cancellation of 10 or 20, 1 generation | about 1 min | `TypeOK`; `ReservedIsOpenAttempt`; `RefundsDecompose` (gates G-3, G-4); `LotBacksRefunds`; `ShortfallBreaksOnlyUnderReservation`; `CommitBlockedOnlyByResolution` |
| `ledger_cancellations` | 1 order, 1 attempt, 2 cancellations of 7 or 13, contradictions reported | 1.2 M, 30 s | `RequestStateDerived`; `SettlementOneToOne`; `CancellationAlwaysAccounted`; `ClosableUnlessAutoFull` |
| `ledger_two_orders` | 2 orders of 1 credit, 1 attempt, 1 cancellation, 1 generation | 20 s | `CacheIsLiveRemaining` (gate G-1) |
| `saga_safe` | 1 order of 1 credit and price 10 at 90 % (refund 9, console cancellation 1), 2 workers | 1.5 M, 60 s | `SagaTypeOK`; `ReportsAsAssumed`; `CommittedWasPaid`; `LedgerNotAheadOfMoney`; `PaidNotFailedEarly` |
| `saga_live` | the same with one fault and no console cancellation, `SagaFairSpec` | 0.23 M, 60 s | `RequestedAttemptEnds`; `SucceededAttemptCommits` |
| `gen_safe` | 1 candidate, 2 continuations, 2 recoverers, 1 fault (symmetric) | 2.4 M, 85 s | `TypeOK`; `SubmittedOnce`; `OfferedImagesExist`; `CleanedStaysEmpty`; `RefundWaitsUnlessOverlapping` |
| `gen_live` | 2 candidates, 1 continuation, 1 recoverer, 1 fault, `FairSpec` | 0.44 M, 65 s | `EndedIsCleaned` |
| `score_safe` | 2 tabs, 2 requests, 1 game of a player who has or has not signed in yet and may leave an anonymous profile behind (symmetric) | 3.7 M, 150 s | `TypeOK`; `ClearedWasReported`; `NoVisibleScoreOfBanned`; `GameCountsOnceUnlessStale` |
| `score_live` | 1 tab, 1 request, a member who may withdraw and come back, 2 attempts, errors without a name, `FairSpec` | 0.17 M, 80 s | `RefusalHasCause`; `MemberGameIsCounted` |
| `account_jobs` | 2 workers, 2 files, 2 withdrawals, 2 requests of administrators, 1 fault, with and without an older reactivation, `FairSpec` | 0.97 M, 135 s | `TypeOK`; `ActiveHasRealEmail`; `WithdrawnIsReleased`; `ImplementsAccess`; `JobsEnd` |
| `oauth` | 2 flows, 1 provider account, 1 anonymous user and 1 deleted before, 2 workers, 1 fault, `FairSpec` | 0.37 M, 60 s | `TypeOK`; `OneSignIn`; `DeletedLeavesNothing`; `RecordsWait`; `SignInSettles` |
| `account_repair` | 1 worker, an older reactivation, 1 fault, `FairSpec` | under 1 s | `RepairEnds`, violated |

Why the bounds are enough. *Ledger and saga*: an order has at most one open attempt, so a second
attempt meets only the remains of the first; two cancellations are the least that can split the price
and be matched and resolved differently; the shares of two orders in one balance are the least that
can be mixed up; two workers with different stale rows are the least that race, and a third could only
repeat what one of them did, since the ledger's guards are on the row and PortOne's on the key.
*Generation*: candidates are submitted and acknowledged one by one and share only the row, so one of
them shows every race of workers over it; the second, in `gen_live`, is needed for what depends on
their number: incomplete sets, partial copies, one refused and one taken. Two recoverers are the least
of which one can publish what the other removes. *Score*: two tabs and two requests are the least that
replay one entry at once; a second game meets the first only in the outbox's order. *Account*: one
paused worker and one later lease are the least that can overtake each other; two withdrawals let the
first one's leftovers meet the second; two files exceed the batch of one (`TargetLimit`).
*OAuth*: two flows are two tabs, or a sign-in and the one after it; the second begins from the anonymous
session, from the first one's session, or after the first has ended, and both bring the same account;
the earlier user is the least that can have claimed the account already. One fault is a crash, a lease
that ends before its worker, or a lost deletion.
The bounds that are not in the code are named constants: `ExternalAmounts` (amounts cancelled at the
console), `Restated` (contradicted cancellations), `SagaRates`, `MaxFaults`, `MaxWithdrawals`, `MaxRequests`,
`Closable` (whose profile may be deleted) and `Unforeseen` (whether the store may fail without a name). In
`ScoreSubmission` a member withdraws once.
`MaxAttempts`, `MaxEntries` and `TargetLimit` are limits of the code, here 1 or 2. A run without
faults still has crashes: a worker that never takes its next step is a crashed one.

Fairness (only in `FairSpec`, `SagaFairSpec`). *Saga*: a request that is under way goes on unless it dies; the cron
reads every open attempt again and again (`ops/reconcile`, every five minutes); three hours pass;
PortOne answers and finishes what it accepted. What `RequestedAttemptEnds` excepts is the first
divergence below. *Generation*: requests run to their end, the sweep lists a row that is overdue or
expired whenever that stays or becomes true again (strong, since a row may be busy when it looks), the
cleanup job runs, leases end, time passes; nothing is assumed of fal, whose webhooks may all be lost.
*Score*: a page that opens bootstraps and replays its outbox, a member keeps coming back (`Reload`,
`DrainSubmit`, strong: each visit may be cut short), and a request that is retried for ever is let
through each RPC in the end; nothing is assumed of administrators. *Account*: the cron drains each
queue, a living worker goes on, leases and signed URLs end by the clock, the intents of expired URLs
are drained. *OAuth*: time passes, every maintenance run prunes each flow it finds due, and the cleanup
workers go on; a browser, its consent and its sessions owe nothing, so a flow completed but never
released stays fenced (the code counts these as a backlog and nothing more), which `Unsettled` leaves
out. Faults are finitely many, so an outage ends. None of it is assumed of members,
administrators or webhooks.

### What the documents promise and the code does not keep

`account_repair` checks one sentence against the code: the repair of an older reactivation is said to
converge under its lease's fence. A worker that finds the address already written returns without
arming a fence, and the report of a lease without a fence is refused: when the first worker's report
was lost, the row is retried for ever.

The models show these as well. Each was found by TLC on the instances above with the quoted sentence
as one more property; what does hold is stated by the property or theorem named with it.

- An external resolution while credits are reserved records a shortfall larger than what was consumed
  (gate G-5). `ShortfallNeedsReservation` proves this is the only way.
- The automatic full resolution ignores an open attempt; releasing that attempt afterwards makes
  credits of a canceled order usable (gate G-6). If the attempt is the application's own full refund,
  whose webhook came in before the driver's record, the order is resolved as cancelled from outside,
  the driver's record is refused for good and the attempt keeps its reservation. `CommitStaysPossible`
  proves that only a resolution can do this.
- After the automatic full resolution of a late payment its `late_paid` issue can never be closed,
  because closing needs `status = 'paid'`. `LatePaidClosable` proves this is the only way in which the issue
  of an order whose credits and money went back cannot be closed.
- `switch_to_manual` stores the evidence it was given as `no_movement` without looking at it: when the
  page is read before a worker's POST and submitted after, an attempt PortOne has refunded can be paid
  by hand as well.
- Two workers post one refund; the second is told the payment is already cancelled, cannot read it,
  and records the paid refund as failed on the snapshot from before. `PaidNotFailedEarly` shows that
  this and the three hours are the only ways.
- Between a sign-in and the reload of the other tabs, a page that was loaded for the anonymous player
  submits under the member's cookie; after a lost answer the same game can count twice.
  `GameCountsOnceUnlessStale` shows it cannot otherwise.
- Two continuations that both read `accepted` are both told `committed`, the second without a lease.
  Its provenance, written without a compare-and-set, sets a submission under way back to `planned`;
  the generation is then refunded after 30 minutes although `generation-state.ts:127` says no such
  refund is safe while an acknowledgement is unresolved. The submission itself is not repeated
  (`SubmittedOnce`); `RefundWaitsUnlessOverlapping` shows the refund waits otherwise.

## 4. Proofs

Every theorem is about `Spec` (`SagaSpec` in `RefundSaga_proofs`), or a formula of the constants, and holds for every value of them that
the named assumptions allow. Each inductive invariant was an invariant of a run before it was proved.
The proof that a step preserves it has one lemma per action, or per group of actions that touch the
same rows, and under it one step per conjunct they can disturb.

### The ledger

For any finite numbers of orders, attempts and cancellations, any generations, and any prices, credits
and expiries, assuming that credits and prices are positive, that no two lots expire at the same time
(the order in which lots are spent is then their order), that cancellations are numbered, and that
amounts cancelled at the console are positive. The sums are `SumFunctionOnSet` of the community modules.

- `CoreInvariant`: `TypeOK`, links between rows, `ReservedIsOpenAttempt` and the bounds of lots and
  orders are inductive *together*. None is alone: that a release does not make `reserved` negative
  needs the reservation to be exactly the open attempt's quantity; that needs at most one open
  attempt per order; that a commit stays within the order needs the lot's bounds, and those need that
  a closure recovers, covers or owes each credit. From it follow `TypeCorrect`, `ReservationExact`
  and `LotsBackRefunds`. The arithmetic of a commit is in one lemma on the meaning of
  `CommitAdmissible`.
- `ShortfallNeedsReservation` and `CommitStaysPossible` are action properties from the core: a
  shortfall above consumption, or a refund under way that can no longer be committed, comes only from
  an external resolution.
- `LinksInvariant` adds that requests follow attempts and that matched cancellations pair with settled
  attempts. From it follow `RequestsFollowAttempts` (the deferred trigger never aborts a transaction
  that records moved money) and `SettledOnce`.
- `LatePaidClosable`: an order with an open `late_paid` issue stays paid, so that it can be closed once all
  is refunded, unless a cancellation of the whole price was resolved automatically. Inductive with the
  core and `Unreported` (a cancellation that nobody reported has not been seen to succeed): it
  depends on every step that moves `orders.status`, and on what each leaves of the issue.
- *Sums* (`RefundPolicy_proofs`). The sum over a set is a recursive function inside a `CHOOSE`.
  `SumUnfolds` shows that it exists for a finite set and what its next term is; everything else
  (`SumRemove`, `SumChange`, `SumPlus`, `SumScaled`, ...) is proved from the *least* subset that
  violates it, strict inclusion of finite sets being well-founded. That replaces induction over data,
  which the provers cannot instantiate.
- `AllocationExact`: the largest-remainder shares of a full cancellation add up to exactly the
  order's credits. Base shares fall short by less than the number of events (the remainders are
  below the price), and the order of service is strict, so exactly that many events get one more.
- `BalanceIsLiveRemaining`: the cached balance is the sum of what the live lots have left. Inductive
  with the core and `Granted` (a lot is live or used only once it is paid for): ten functions move the
  balance by deltas, and each delta is the change of one lot's term.
- `RefundsAddUp`: an order's refunded credits and money are the sums over its committed attempts and
  resolved cancellations. A full cancellation resolves many events at once; that their shares add up
  is `AllocationExact`.
- `CancellationsAccounted`, an action property: a successful cancellation stops waiting only when it
  settles the attempt it names, or with its whole amount added to the order's refunds.

### The driver beside PortOne

For any workers, attempts, cancellations and faults, under the assumptions of the ledger. `SagaInvariant`
is `SagaTypeOK`, the ledger's `Core`, and `SagaLinks`, which ties the three together:

- PortOne: its answer to an attempt's key bounds what became of the cancellation (none without an
  answer, failed after a refusal, succeeded after `already_cancelled`); at most one cancellation bears an
  attempt's marker, of its order and amount and after it was asked for; no payment is cancelled beyond
  its price, because PortOne is asked with a cancellable amount that had room for the refund.
- Ledger: an event is what PortOne did to that cancellation and is final there; an attempt that is to be
  settled has `pg_requested_at`.
- Workers: what a snapshot shows as ended is so for good, however old it is; a rejection is final, so a
  worker that reads again sees what will remain; an answer of success has its cancellation.

None of these is inductive alone: that two POSTs of a retried attempt make one cancellation needs the
answers; that a report is within the payment needs `NotOverCancelled`, and that needs `AskedWithRoom`.
From it follow `ReportsHold` and `SagaImplementsLedger`: each step is a step of `RefundLedger` or leaves
its tables alone, so what is proved of the ledger holds whatever driver, webhooks, cron and administrators
do. With the ledger's `SettledOnce` it gives `CommittedIsPaid`, and with `RefundsAddUp` also
`LedgerWithinMoney`: the committed attempts and resolved cancellations of an order are different
cancellations at PortOne, so their sum is within what PortOne cancelled. The action property
`PaidFailsLateOrBlind` goes through every other step and shows that none but `RecordFailed` sends an
attempt to manual review, and that a worker that knows a failure of a paid refund waited three hours or
could not read the payment.

### Generation

For any candidates, continuations and recoverers. `GenerationInvariant` has three parts. *Submissions*:
a permit to post a candidate, or an answer not yet recorded, is held by one continuation, which got it
when the intent was begun; a candidate counted as refused is over; nothing is prepared before the
reservation is committed. *Images*: whoever writes objects has the write lease; a removal meets no
writer and only ended rows; what a recoverer would publish is stored. *Alone*: while no two
continuations have overlapped, `gen_params` shows every awaited submission. From the first follows
`NeverSubmittedTwice`, from the second `OffersWhatIsStored` and `CleanedForGood`, from the third the
action property `RefundWaitsForFal`.

### Accounts

For any workers, leases, files, withdrawals and faults. `AccountInvariant` says which jobs may
be open together, that a fence names a cancellation only while the account is withdrawn, that an active
account without a repair to come has its address, that nothing is stored or can arrive after the
cleanup, and that a call given up (which may commit later) was a fault of its own. From it follow
`ActiveCanSignIn` and `WithdrawnReleased`, and `AccessImplemented`: under the mapping of the module the
initial state of `AccountAuth` is one of `AccountAccess`, and every step is a step of it or invisible.

### Sign-ins

For any flows, sessions, anonymous users, members and workers. `OAuthInvariant`: a flow's row and its
job's row agree; an anonymous user is the source of one flow for good; it exists until its records have
moved, and a moved one has a receipt and leaves nothing; and what a consent request or a worker goes by
is still so when it acts, however long ago it was read. From it follow `SessionsNamedOnce`,
`DeletedWasMoved` and the action property `RecordsWaitForMember`.

### Scores

For any tabs, requests, games and limits. `ScoreInvariant` says what a page and a replay remember, what
a request knows until its row is stored (`Known`), of whom a row is until a merge moves it, and that
whatever left the outbox was counted; and that each failed attempt still has its cause, though dolls and
profiles come back. "Unless stale" runs through it: an entry and its row have the
page's owner unless the page submitted under another session. From it follow `ClearedReported`,
`BannedHidden`, `RefusedForGood` and `OneRow`.

### Only model-checked

Liveness: `RequestedAttemptEnds`, `SucceededAttemptCommits` and the leads-to and fairness-based
properties of the other modules. `ENABLED` and weak or strong fairness are outside TLAPS here.

## 5. What is not modelled

*Ledger and saga*: lots from before 0062, gifted lots and credit adjustments by administrators; the
credit and audit ledger rows; idempotency of administrators' operations (0085); checks of the shape and
origin of PortOne's answers, which end a request and so are one with `Die`; the cron's limit of 20
attempts per tick; amounts other than those of one price.

*Generation*: the face checks before acceptance, quotas and cost limits; a deleted owner; the face
image in temporary storage; the matting of a picked doll (the pick is its commit); the quarantine of
unsafe URLs and the repeated refund of failed rows from before 0073. Request-id conflicts need a
second POST of one candidate, which `SubmittedOnce` excludes.

*Score*: the anti-abuse rules, and with them the review status `pending`, which keeps a row from view and
from its report as `voided` does, and `cleared`, which gives it back; the quota windows, the seven days an
entry is kept, a corrupt or full local storage, payload that does not validate. An attempt is kept for as long as the
model runs (in the code three Korean days, after which an entry of the outbox may be tried afresh). A
withdrawn member's page keeps its session, so that its requests are refused and not only unsent; an
anonymous session answers `account_not_found` once its user is gone, with the merge as its cause.
`MemberGameIsCounted` is about games of members: an anonymous player who gives consent
between the gate and the store is refused for good.

*Account*: reconciliation scrubs and generation rows of a deleted account, user metadata, a missing
Auth user, a third real address, the restored profile, backoff times, the end of counters.

*OAuth*: digests of tokens and their rotation; a source that was changed behind the flow (promoted,
replaced, with purchases of its own), and with it the `blocked` and `protected` endings of a job; the
single highlights of a score; the deletion of rows when their retention is over; the session of an
exchange whose bind never happened, which no row names.

*Other components*, with reasons in `PROJECT.json`. Storage cleanup, moderation purge and
the reviewer saga are protocols of the same kind (fenced leases over an outside system) and would be
modelled in the way of `AccountAuth`; telemetry, retention, configuration and content are single
transactions; the game engine and the interface are visual; migration scripts are run by hand.

## 6. Plan

1. On the composition of driver and ledger: an unmatched successful cancellation whose attempt has ended
   is listed.
2. `StorageCleanup`: upload intents and fenced leases shared by doll deletion and moderation purge; a
   referenced object is never removed.
