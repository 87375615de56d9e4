------------------------ MODULE AccountAuth_proofs ------------------------
(***************************************************************************)
(* Whatever the workers, the retries and the late answers of GoTrue do, an *)
(* active member can sign in, a withdrawn account is released, and the     *)
(* jobs, leases and fences implement AccountAccess.                        *)
(***************************************************************************)
EXTENDS AccountAuth, TLAPS

\* An update that may still commit was given up by a fault of its own.
LateWithinFaults == \A a \in Emails : late[a] <= faults

\* Only while the account is withdrawn does a fence name a cancellation.
CancelFenceIsOfWithdrawn == ~gone => fence.action # "cancel"

\* An active account whose repair is not to come has its address.
AddressBeforeRepair ==
  ~gone /\ (~Open("repair") \/ jobs["repair"].generation # generation) => email = Real

\* A cleanup or a reactivation is of a withdrawn account, and there is one
\* of the two at a time.
JobsOfWithdrawn ==
  /\ Open("cleanup") \/ Open("reactivate") => gone
  /\ ~(Open("cleanup") /\ Open("reactivate"))

\* Once the cleanup has ended nothing is stored and nothing can arrive.
NothingStoredAfterCleanup ==
  gone /\ ~Open("cleanup") => objects = {} /\ upload = {} /\ open = {}

\* Between a cleanup and a reactivation the address is given up.
GoneIsScrubbed == gone /\ ~Open("cleanup") /\ ~Open("reactivate") => email = Marker

IInv ==
  /\ TypeOK /\ LateWithinFaults
  /\ CancelFenceIsOfWithdrawn /\ AddressBeforeRepair
  /\ JobsOfWithdrawn /\ NothingStoredAfterCleanup /\ GoneIsScrubbed

JobStatus == {"none", "pending", "leased", "completed", "cancelled", "superseded"}

JobRow == [status : JobStatus, token : Tokens \cup {None}, live : BOOLEAN, cancel : BOOLEAN,
           generation : 0..MaxWithdrawals, batch : SUBSET Paths]

WorkerRow == [at : Steps, action : Actions, token : Tokens \cup {None},
              batch : SUBSET Paths, scrub : BOOLEAN]

FenceRow == [action : Actions, token : Tokens \cup {None}]

---------------------------------------------------------------------------
(* Types.                                                                  *)

\* A job that is written keeps every other job.
LEMMA SetJob ==
  ASSUME jobs \in [Kinds -> JobRow], NEW k \in Kinds, NEW row \in JobRow, Set(k, row)
  PROVE  /\ jobs' \in [Kinds -> JobRow] /\ jobs'[k] = row
         /\ \A j \in Kinds \ {k} : jobs'[j] = jobs[j]
  BY DEF Set

\* A released job is no longer leased, and still the same request.
LEMMA ReleaseJob ==
  ASSUME jobs \in [Kinds -> JobRow], NEW k \in Kinds, NEW status \in JobStatus,
         Release(k, status)
  PROVE  /\ jobs' \in [Kinds -> JobRow]
         /\ \A j \in Kinds \ {k} : jobs'[j] = jobs[j]
         /\ jobs'[k].status = status /\ jobs'[k].cancel = jobs[k].cancel
         /\ jobs'[k].generation = jobs[k].generation
  <1> DEFINE row == [jobs[k] EXCEPT !.status = status, !.token = None, !.live = FALSE, !.batch = {}]
  <1>1. row \in JobRow /\ row.status = status /\ row.cancel = jobs[k].cancel
        /\ row.generation = jobs[k].generation
    BY DEF JobRow
  <1>2. Set(k, row)
    BY DEF Release
  <1> HIDE DEF row
  <1> QED BY <1>1, <1>2, SetJob

\* A worker that is written keeps every other worker.
LEMMA PutWorker ==
  ASSUME worker \in [Workers -> WorkerRow], NEW w \in Workers, NEW row \in WorkerRow, Put(w, row)
  PROVE  worker' \in [Workers -> WorkerRow] /\ worker'[w] = row
  BY DEF Put

LEMMA GoWorker ==
  ASSUME worker \in [Workers -> WorkerRow], NEW w \in Workers, NEW at \in Steps, Go(w, at)
  PROVE  worker' \in [Workers -> WorkerRow]
  BY DEF Go, Put, WorkerRow

\* A leased job has a worker, and is still the same request.
LEMMA LeaseJob ==
  ASSUME TypeOK, NEW w \in Workers, NEW k \in Kinds, NEW action \in Actions, NEW at \in Steps,
         NEW batch \in SUBSET Paths, NEW scrub \in BOOLEAN, Due(k),
         Lease(w, k, action, at, batch, scrub)
  PROVE  /\ jobs' \in [Kinds -> JobRow] /\ worker' \in [Workers -> WorkerRow]
         /\ \A j \in Kinds \ {k} : jobs'[j] = jobs[j]
         /\ Open(k) /\ Open(k)' /\ jobs'[k].cancel = jobs[k].cancel
         /\ jobs'[k].generation = jobs[k].generation
  <1>1. jobs \in [Kinds -> JobRow] /\ worker \in [Workers -> WorkerRow]
    BY DEF TypeOK, JobRow, JobStatus, WorkerRow
  <1>2. PICK t \in Tokens :
          /\ Set(k, [jobs[k] EXCEPT !.status = "leased", !.token = t, !.live = TRUE, !.batch = batch])
          /\ Put(w, [at |-> at, action |-> action, token |-> t, batch |-> batch, scrub |-> scrub])
    BY DEF Lease
  <1> DEFINE row == [jobs[k] EXCEPT !.status = "leased", !.token = t, !.live = TRUE, !.batch = batch]
             mine == [at |-> at, action |-> action, token |-> t, batch |-> batch, scrub |-> scrub]
  <1>3. row \in JobRow /\ row.status = "leased" /\ row.cancel = jobs[k].cancel
        /\ row.generation = jobs[k].generation
    BY <1>1 DEF JobRow, JobStatus
  <1>4. mine \in WorkerRow
    BY DEF WorkerRow
  <1> HIDE DEF row, mine
  <1>5. Set(k, row) /\ Put(w, mine)
    BY <1>2 DEF row, mine
  <1> QED BY <1>1, <1>3, <1>4, <1>5, SetJob, PutWorker DEF Open, Due

\* TypeOK with its rows named.
Types ==
  /\ gone \in BOOLEAN /\ taken \in BOOLEAN /\ generation \in 0..MaxWithdrawals
  /\ email \in Emails /\ fence \in FenceRow /\ scrubFence \in FenceRow
  /\ jobs \in [Kinds -> JobRow] /\ worker \in [Workers -> WorkerRow]
  /\ late \in [Emails -> 0..MaxFaults]
  /\ objects \in SUBSET Paths /\ upload \in SUBSET Paths /\ open \in SUBSET Paths
  /\ requests \in 0..MaxRequests /\ faults \in 0..MaxFaults

LEMMA TypesNamed == TypeOK <=> Types
  BY DEF TypeOK, Types, FenceRow, JobRow, JobStatus, WorkerRow

LEMMA TypesNamedNext == TypeOK' <=> Types'
  BY TypesNamed, PTL

LEMMA TypeStep ==
  ASSUME TypeOK, LateWithinFaults, [Next]_vars
  PROVE  TypeOK' /\ LateWithinFaults'
  <1> SUFFICES Types' /\ LateWithinFaults'
    BY TypesNamedNext
  <1>0. Types /\ jobs \in [Kinds -> JobRow] /\ worker \in [Workers -> WorkerRow]
    BY TypesNamed DEF Types
  <1>late. ASSUME Fault \/ UNCHANGED bounds
           PROVE  /\ faults' \in 0..MaxFaults /\ requests' \in 0..MaxRequests
                  /\ faults' >= faults
    BY <1>0, <1>late, AccountAssumption DEF Types, Fault, bounds
  <1>kept. ASSUME faults' >= faults, faults' \in Nat, UNCHANGED late PROVE LateWithinFaults'
    BY <1>0, <1>kept, AccountAssumption DEF LateWithinFaults, Types
  <1>row. NewJob \in JobRow /\ Idle \in WorkerRow /\ NoFence \in FenceRow
    BY <1>0, AccountAssumption DEF NewJob, NoJob, Idle, NoFence, JobRow, JobStatus, WorkerRow, FenceRow, Types, Steps, Actions
  <1>1. CASE Withdraw
    <2>1. Set("cleanup", NewJob) /\ "cleanup" \in Kinds
      BY <1>1 DEF Withdraw, Kinds
    <2>2. jobs' \in [Kinds -> JobRow]
      BY <1>0, <1>row, <2>1, SetJob
    <2> QED BY <1>0, <1>1, <2>2, <1>late, <1>kept, AccountAssumption
            DEF Withdraw, Types, auth, storage, bounds
  <1>2. CASE Begin
    <2>1. Set("reactivate", NewJob) /\ "reactivate" \in Kinds
      BY <1>2 DEF Begin, Kinds
    <2>2. jobs' \in [Kinds -> JobRow]
      BY <1>0, <1>row, <2>1, SetJob
    <2>3. requests' \in 0..MaxRequests
      BY <1>0, <1>2, AccountAssumption DEF Begin, Types
    <2>4. LateWithinFaults'
      BY <1>2 DEF Begin, LateWithinFaults
    <2> QED BY <1>0, <1>2, <2>2, <2>3, <2>4 DEF Begin, Types, profile, auth, storage
  <1>3. CASE RequestCancel
    <2> DEFINE row == [jobs["reactivate"] EXCEPT !.status = "pending", !.token = None,
                                                 !.live = FALSE, !.cancel = TRUE]
    <2>1. row \in JobRow /\ Set("reactivate", row) /\ "reactivate" \in Kinds
      BY <1>0, <1>3 DEF RequestCancel, Kinds, JobRow, JobStatus
    <2> HIDE DEF row
    <2>2. jobs' \in [Kinds -> JobRow]
      BY <1>0, <2>1, SetJob
    <2> QED BY <1>0, <1>3, <2>2, <1>late, <1>kept
            DEF RequestCancel, Types, profile, auth, storage, bounds, LateWithinFaults
  <1>4. CASE TakeEmail
    BY <1>0, <1>4 DEF TakeEmail, Types, auth, storage, bounds, LateWithinFaults
  <1>5. ASSUME NEW p \in Paths, Issue(p) \/ Upload(p) \/ Attach(p) \/ TokenExpires(p) \/ DrainIntent(p)
        PROVE  Types' /\ LateWithinFaults'
    BY <1>0, <1>5 DEF Issue, Upload, Attach, TokenExpires, DrainIntent, Types, profile, auth,
                      bounds, LateWithinFaults
  <1>6. ASSUME NEW w \in Workers, Claim(w) PROVE Types' /\ LateWithinFaults'
    <2>1. UNCHANGED <<profile, email, scrubFence, late, storage, bounds>>
      BY <1>6 DEF Claim, ClaimCleanup, ClaimReactivation, ClaimRepair, auth
    <2>2. fence' \in FenceRow
      BY <1>0, <1>6, <1>row DEF Claim, ClaimCleanup, ClaimReactivation, ClaimRepair, auth, Types
    <2>3. jobs' \in [Kinds -> JobRow] /\ worker' \in [Workers -> WorkerRow]
      <3>1. CASE ClaimCleanup(w)
        <4>1. PICK batch \in SUBSET objects :
                Lease(w, "cleanup", "scrub", "remove", batch, StorageDone /\ email # Marker)
          BY <3>1 DEF ClaimCleanup
        <4>2. batch \in SUBSET Paths
          BY <1>0 DEF Types
        <4> DEFINE scrub == StorageDone /\ email # Marker
        <4>3. scrub \in BOOLEAN /\ Lease(w, "cleanup", "scrub", "remove", batch, scrub)
              /\ "cleanup" \in Kinds /\ "scrub" \in Actions /\ "remove" \in Steps /\ Due("cleanup")
          BY <3>1, <4>1 DEF Kinds, Actions, Steps, ClaimCleanup
        <4> HIDE DEF scrub
        <4> QED BY <4>2, <4>3, LeaseJob
      <3>2. CASE ClaimReactivation(w)
        <4>1. PICK action \in {"cancel", "activate"}, at \in {"retry", "read"} :
                Lease(w, "reactivate", action, at, {}, FALSE)
          BY <3>2 DEF ClaimReactivation
        <4>2. /\ "reactivate" \in Kinds /\ action \in Actions /\ at \in Steps /\ Due("reactivate")
              /\ {} \in SUBSET Paths /\ FALSE \in BOOLEAN
          BY <3>2 DEF Kinds, Actions, Steps, ClaimReactivation
        <4> QED BY <4>1, <4>2, LeaseJob
      <3>3. CASE ClaimRepair(w) /\ Overtaken
        <4>1. Release("repair", "superseded") /\ "repair" \in Kinds /\ "superseded" \in JobStatus
              /\ worker' = worker
          BY <3>3 DEF ClaimRepair, Kinds, JobStatus
        <4> QED BY <1>0, <4>1, ReleaseJob
      <3>4. CASE ClaimRepair(w) /\ ~Overtaken
        <4>1. Lease(w, "repair", "repair", "read", {}, FALSE) /\ Due("repair")
          BY <3>4 DEF ClaimRepair
        <4>2. "repair" \in Kinds /\ "repair" \in Actions /\ "read" \in Steps
              /\ {} \in SUBSET Paths /\ FALSE \in BOOLEAN
          BY DEF Kinds, Actions, Steps
        <4> QED BY <4>1, <4>2, LeaseJob
      <3> QED BY <1>6, <3>1, <3>2, <3>3, <3>4 DEF Claim
    <2> QED BY <1>0, <2>1, <2>2, <2>3 DEF Types, profile, storage, bounds, LateWithinFaults
  <1>7. ASSUME NEW w \in Workers, RemoveTargets(w) PROVE Types' /\ LateWithinFaults'
    <2>1. worker' \in [Workers -> WorkerRow]
      <3>1. \E at \in {"arm", "finish", "retry"} : Go(w, at)
        BY <1>7 DEF RemoveTargets
      <3> QED BY <1>0, <3>1, GoWorker DEF Steps
    <2>2. objects' \in SUBSET Paths /\ (Fault \/ UNCHANGED bounds)
      BY <1>0, <1>7 DEF RemoveTargets, Types
    <2> QED BY <1>0, <1>7, <2>1, <2>2, <1>late, <1>kept, AccountAssumption
            DEF RemoveTargets, Types, profile, auth
  <1>8. ASSUME NEW w \in Workers, Arm(w) PROVE Types' /\ LateWithinFaults'
    <2>1. worker' \in [Workers -> WorkerRow]
      BY <1>0, <1>8, GoWorker DEF Arm, Steps
    <2>2. Stamp(w) \in FenceRow
      BY <1>0 DEF Stamp, FenceRow, WorkerRow
    <2>3. fence' \in FenceRow /\ scrubFence' \in FenceRow /\ (Fault \/ UNCHANGED bounds)
      BY <1>0, <1>8, <2>2 DEF Arm, Types
    <2> QED BY <1>0, <1>8, <2>1, <2>3, <1>late, <1>kept, AccountAssumption
            DEF Arm, Types, profile, storage
  <1>9. ASSUME NEW w \in Workers, Update(w) PROVE Types' /\ LateWithinFaults'
    <2> DEFINE to == Target(worker[w].action)
    <2>1. worker' \in [Workers -> WorkerRow]
      BY <1>0, <1>9, GoWorker DEF Update, Steps
    <2>2. to \in Emails
      BY DEF Target, Emails
    <2>3. CASE email' = (IF Accepts(to) THEN to ELSE email) /\ UNCHANGED <<late, bounds>>
      <3>1. email' \in Emails
        BY <1>0, <2>2, <2>3 DEF Types
      <3> QED BY <1>0, <1>9, <2>1, <2>3, <3>1
              DEF Update, Types, profile, storage, bounds, LateWithinFaults
    <2>4. CASE Fault /\ late' = [late EXCEPT ![to] = @ + 1] /\ UNCHANGED email
      <3> HIDE DEF to
      <3>1. \A a \in Emails : late[a] \in 0..MaxFaults /\ late[a] <= faults
        BY <1>0 DEF Types, LateWithinFaults
      <3>2. faults < MaxFaults /\ faults' = faults + 1 /\ faults \in Nat /\ MaxFaults \in Nat
        BY <1>0, <2>4, AccountAssumption DEF Fault, Types
      <3>3. late[to] + 1 \in 0..MaxFaults /\ late[to] + 1 <= faults'
        BY <2>2, <3>1, <3>2
      <3>4. late' \in [Emails -> 0..MaxFaults]
        BY <1>0, <2>2, <2>4, <3>3 DEF Types
      <3>5. LateWithinFaults'
        <4> SUFFICES ASSUME NEW a \in Emails PROVE late'[a] <= faults'
          BY DEF LateWithinFaults
        <4>1. late'[a] = IF a = to THEN late[to] + 1 ELSE late[a]
          BY <1>0, <2>4 DEF Types
        <4> QED BY <3>1, <3>2, <3>3, <4>1
      <3> QED BY <1>0, <1>9, <2>1, <2>4, <3>4, <3>5, <1>late DEF Update, Types, profile, storage
    <2> QED BY <1>9, <2>3, <2>4 DEF Update
  <1>10. ASSUME NEW w \in Workers,
                \/ EnsureReceiptBoundAuthEmail(w) \/ EnsureCancelledAuthEmail(w)
                \/ EnsureLegacyRepairAuthEmail(w) \/ ScrubDeletedAccountAuth(w)
         PROVE  Types' /\ LateWithinFaults'
    <2>1. UNCHANGED Others /\ \E at \in {"finish", "update", "arm", "retry"} : Go(w, at)
      BY <1>10 DEF EnsureReceiptBoundAuthEmail, EnsureCancelledAuthEmail,
                   EnsureLegacyRepairAuthEmail, ScrubDeletedAccountAuth
    <2>2. worker' \in [Workers -> WorkerRow]
      BY <1>0, <2>1, GoWorker DEF Steps
    <2> QED BY <1>0, <2>1, <2>2 DEF Others, Types, profile, auth, storage, bounds, LateWithinFaults
  <1>11. ASSUME NEW w \in Workers, Finish(w) PROVE Types' /\ LateWithinFaults'
    <2>1. worker' \in [Workers -> WorkerRow]
      BY <1>0, <1>11, <1>row, PutWorker, GoWorker DEF Finish, Steps
    <2>2. Fault \/ UNCHANGED bounds
      BY <1>11 DEF Finish
    <2>3. jobs' \in [Kinds -> JobRow]
      <3>1. \/ jobs' = jobs
            \/ \E k \in Kinds, status \in JobStatus : Release(k, status)
        BY <1>11 DEF Finish, FinishCleanup, Complete, FinishCancel, FinishRepair, Kinds, JobStatus
      <3> QED BY <1>0, <3>1, ReleaseJob
    <2>4. gone' \in BOOLEAN /\ fence' \in FenceRow /\ scrubFence' \in FenceRow
      BY <1>0, <1>11, <1>row DEF Finish, FinishCleanup, Complete, FinishCancel, FinishRepair, Types
    <2> QED BY <1>0, <1>11, <2>1, <2>2, <2>3, <2>4, <1>late, <1>kept, AccountAssumption
            DEF Finish, Types, storage
  <1>12. ASSUME NEW w \in Workers, RecordRetry(w) PROVE Types' /\ LateWithinFaults'
    <2>1. worker' \in [Workers -> WorkerRow]
      BY <1>0, <1>12, <1>row, PutWorker DEF RecordRetry
    <2>2. jobs' \in [Kinds -> JobRow]
      BY <1>0, <1>12, ReleaseJob DEF RecordRetry, JobOf, Kinds, JobStatus
    <2> QED BY <1>0, <1>12, <2>1, <2>2
            DEF RecordRetry, Types, profile, auth, storage, bounds, LateWithinFaults
  <1>13. ASSUME NEW w \in Workers, Crash(w) PROVE Types' /\ LateWithinFaults'
    <2>1. worker' \in [Workers -> WorkerRow]
      BY <1>0, <1>13, <1>row, PutWorker DEF Crash
    <2> QED BY <1>0, <1>13, <2>1, <1>late, <1>kept, AccountAssumption
            DEF Crash, Types, profile, auth, storage
  <1>14. ASSUME NEW a \in Emails, LateCommit(a) PROVE Types' /\ LateWithinFaults'
    <2>1. late' \in [Emails -> 0..MaxFaults]
      BY <1>0, <1>14, AccountAssumption DEF LateCommit, Types
    <2>2. LateWithinFaults'
      BY <1>0, <1>14, AccountAssumption DEF LateCommit, Types, LateWithinFaults, bounds
    <2>3. email' \in Emails
      BY <1>0, <1>14 DEF LateCommit, Types
    <2> QED BY <1>0, <1>14, <2>1, <2>2, <2>3 DEF LateCommit, Types, profile, storage, bounds
  <1>15. ASSUME NEW k \in Kinds, Expire(k) PROVE Types' /\ LateWithinFaults'
    <2> DEFINE row == [jobs[k] EXCEPT !.live = FALSE]
    <2>1. row \in JobRow /\ Set(k, row)
      BY <1>0, <1>15 DEF Expire, JobRow
    <2> HIDE DEF row
    <2>2. jobs' \in [Kinds -> JobRow]
      BY <1>0, <2>1, SetJob
    <2>3. Fault \/ UNCHANGED bounds
      BY <1>15 DEF Expire
    <2> QED BY <1>0, <1>15, <2>2, <2>3, <1>late, <1>kept, AccountAssumption
            DEF Expire, Types, profile, auth, storage
  <1>16. CASE UNCHANGED vars
    BY <1>0, <1>16 DEF vars, profile, auth, storage, bounds, Types, LateWithinFaults
  <1> QED BY <1>1, <1>2, <1>3, <1>4, <1>5, <1>6, <1>7, <1>8, <1>9, <1>10, <1>11, <1>12, <1>13,
             <1>14, <1>15, <1>16 DEF Next, Work

---------------------------------------------------------------------------
(* What a step does to the account, whatever it does to the workers.       *)

\* A job stays open or ended, and the same request.
Keeps(k) ==
  /\ Open(k)' <=> Open(k)
  /\ jobs'[k].cancel = jobs[k].cancel /\ jobs'[k].generation = jobs[k].generation

KeepsOthers(k) == \A j \in Kinds \ {k} : Keeps(j)
KeepsAll == \A j \in Kinds : Keeps(j)

\* The fence stays, ends or is written by a lease that may write it.
Fenced ==
  \/ fence' = fence \/ fence' = NoFence
  \/ fence'.action = "repair"
  \/ gone

\* A worker or a lease moves and nothing else.
WorkOnly == KeepsAll /\ Fenced /\ UNCHANGED <<gone, generation, email, objects, upload, open>>

\* Auth writes an address, if the triggers let it.
Addressed ==
  /\ \E to \in Emails : email' = IF Accepts(to) THEN to ELSE email
  /\ UNCHANGED <<gone, generation, fence, jobs, objects, upload, open>>

\* Stored objects, tokens and intents come while the account is active and
\* later only from one another.
Stored ==
  /\ objects' \in SUBSET Paths /\ upload' \in SUBSET Paths /\ open' \in SUBSET Paths
  /\ gone => /\ objects' \subseteq objects \cup upload
             /\ upload' \subseteq upload /\ open' \subseteq open
  /\ UNCHANGED <<gone, generation, email, fence, jobs>>

\* A job ends, and what its end takes and gives.
EndsCleanup ==
  /\ StorageDone /\ email = Marker
  /\ Open("cleanup") /\ ~Open("cleanup")' /\ KeepsOthers("cleanup")
  /\ UNCHANGED <<gone, generation, email, fence, objects, upload, open>>

EndsReactivation ==
  /\ gone /\ Open("reactivate") /\ ~Open("reactivate")' /\ KeepsOthers("reactivate")
  /\ \/ ~jobs["reactivate"].cancel /\ email = Real /\ gone' = FALSE
     \/ jobs["reactivate"].cancel /\ email = Marker /\ gone' = gone
  /\ fence' = NoFence
  /\ UNCHANGED <<generation, email, objects, upload, open>>

EndsRepair ==
  /\ Open("repair") /\ ~Open("repair")' /\ KeepsOthers("repair")
  /\ gone \/ jobs["repair"].generation # generation \/ email = Real
  /\ fence' \in {fence, NoFence}
  /\ UNCHANGED <<gone, generation, email, objects, upload, open>>

\* An administrator opens a job or changes its mind.
Withdraws ==
  /\ ~gone /\ gone' = TRUE /\ generation' = generation + 1
  /\ ~Open("cleanup") /\ ~Open("reactivate") /\ Open("cleanup")' /\ KeepsOthers("cleanup")
  /\ UNCHANGED <<email, fence, objects, upload, open>>

Begins ==
  /\ gone /\ ~Open("cleanup") /\ ~Open("reactivate")
  /\ Open("reactivate")' /\ ~jobs'["reactivate"].cancel /\ KeepsOthers("reactivate")
  /\ UNCHANGED <<gone, generation, email, fence, objects, upload, open>>

Cancels ==
  /\ gone /\ Open("reactivate") /\ ~jobs["reactivate"].cancel
  /\ Open("reactivate")' /\ jobs'["reactivate"].cancel /\ KeepsOthers("reactivate")
  /\ UNCHANGED <<gone, generation, email, fence, objects, upload, open>>

Effect ==
  \/ WorkOnly \/ Addressed \/ Stored
  \/ EndsCleanup \/ EndsReactivation \/ EndsRepair
  \/ Withdraws \/ Begins \/ Cancels

LEMMA KeepsWhenUnchanged == jobs' = jobs => KeepsAll
  BY DEF KeepsAll, Keeps, Open

\* Every step has one of these effects.
LEMMA StepEffect ==
  ASSUME TypeOK, [Next]_vars
  PROVE  Effect
  <1>0. Types /\ jobs \in [Kinds -> JobRow]
    BY TypesNamed DEF Types
  <1>kinds. "cleanup" \in Kinds /\ "reactivate" \in Kinds /\ "repair" \in Kinds
    BY DEF Kinds
  <1>new. NewJob \in JobRow /\ NewJob.status = "pending" /\ ~NewJob.cancel
    BY <1>0, AccountAssumption DEF NewJob, NoJob, JobRow, JobStatus, Types
  <1>same. ASSUME NEW k \in Kinds, \A j \in Kinds \ {k} : jobs'[j] = jobs[j]
           PROVE  KeepsOthers(k)
    BY <1>same DEF KeepsOthers, Keeps, Open
  <1>all. ASSUME NEW k \in Kinds, KeepsOthers(k), Keeps(k) PROVE KeepsAll
    BY <1>all DEF KeepsOthers, KeepsAll
  <1>1. CASE Withdraw
    <2>1. Set("cleanup", NewJob)
      BY <1>1 DEF Withdraw
    <2>2. jobs'["cleanup"] = NewJob /\ KeepsOthers("cleanup")
      BY <1>0, <1>kinds, <1>new, <1>same, <2>1, SetJob
    <2>3. Withdraws
      BY <1>1, <1>new, <2>2 DEF Withdraw, Withdraws, Open, auth, storage
    <2> QED BY <2>3 DEF Effect
  <1>2. CASE Begin
    <2>1. Set("reactivate", NewJob)
      BY <1>2 DEF Begin
    <2>2. jobs'["reactivate"] = NewJob /\ KeepsOthers("reactivate")
      BY <1>0, <1>kinds, <1>new, <1>same, <2>1, SetJob
    <2>3. Begins
      BY <1>2, <1>new, <2>2 DEF Begin, Begins, Open, profile, auth, storage
    <2> QED BY <2>3 DEF Effect
  <1>3. CASE RequestCancel
    <2> DEFINE row == [jobs["reactivate"] EXCEPT !.status = "pending", !.token = None,
                                                 !.live = FALSE, !.cancel = TRUE]
    <2>1. row \in JobRow /\ row.status = "pending" /\ row.cancel /\ Set("reactivate", row)
      BY <1>0, <1>3, <1>kinds DEF RequestCancel, JobRow, JobStatus
    <2> HIDE DEF row
    <2>2. jobs'["reactivate"] = row /\ KeepsOthers("reactivate")
      BY <1>0, <1>kinds, <1>same, <2>1, SetJob
    <2>3. Cancels
      BY <1>3, <2>1, <2>2 DEF RequestCancel, Cancels, Open, profile, auth, storage
    <2> QED BY <2>3 DEF Effect
  <1>4. CASE TakeEmail
    <2>1. WorkOnly
      BY <1>4, KeepsWhenUnchanged DEF TakeEmail, WorkOnly, Fenced, auth, storage
    <2> QED BY <2>1 DEF Effect
  <1>5. ASSUME NEW p \in Paths, Issue(p) \/ Upload(p) \/ Attach(p) \/ TokenExpires(p) \/ DrainIntent(p)
        PROVE  Effect
    <2>1. Stored
      BY <1>0, <1>5 DEF Issue, Upload, Attach, TokenExpires, DrainIntent, Types, Stored, profile, auth
    <2> QED BY <2>1 DEF Effect
  <1>6. ASSUME NEW w \in Workers, Claim(w) PROVE Effect
    <2>0. /\ UNCHANGED <<gone, generation, email, objects, upload, open>>
          /\ {} \in SUBSET Paths /\ FALSE \in BOOLEAN
      BY <1>6 DEF Claim, ClaimCleanup, ClaimReactivation, ClaimRepair, profile, auth, storage
    <2>lease. ASSUME NEW k \in Kinds, NEW action \in Actions, NEW at \in Steps, NEW batch \in SUBSET Paths,
                     NEW scrub \in BOOLEAN, Due(k), Lease(w, k, action, at, batch, scrub)
              PROVE  KeepsAll
      BY <2>lease, <1>same, <1>all, LeaseJob DEF Keeps
    <2>1. CASE ClaimCleanup(w)
      <3>1. PICK batch \in SUBSET objects :
              Lease(w, "cleanup", "scrub", "remove", batch, StorageDone /\ email # Marker)
        BY <2>1 DEF ClaimCleanup
      <3>2. batch \in SUBSET Paths
        BY <1>0 DEF Types
      <3> DEFINE scrub == StorageDone /\ email # Marker
      <3>3. scrub \in BOOLEAN /\ Lease(w, "cleanup", "scrub", "remove", batch, scrub)
            /\ "scrub" \in Actions /\ "remove" \in Steps /\ Due("cleanup") /\ fence' = fence
        BY <2>1, <3>1 DEF Actions, Steps, ClaimCleanup, auth
      <3> HIDE DEF scrub
      <3>4. KeepsAll
        BY <1>kinds, <2>lease, <3>2, <3>3
      <3> QED BY <2>0, <3>3, <3>4 DEF WorkOnly, Fenced, Effect
    <2>2. CASE ClaimReactivation(w)
      <3>1. PICK action \in {"cancel", "activate"}, at \in {"retry", "read"} :
              Lease(w, "reactivate", action, at, {}, FALSE)
        BY <2>2 DEF ClaimReactivation
      <3>2. action \in Actions /\ at \in Steps /\ Due("reactivate") /\ fence' = fence
        BY <2>2 DEF Actions, Steps, ClaimReactivation, auth
      <3>3. KeepsAll
        BY <1>kinds, <2>0, <2>lease, <3>1, <3>2
      <3> QED BY <2>0, <3>2, <3>3 DEF WorkOnly, Fenced, Effect
    <2>3. CASE ClaimRepair(w) /\ Overtaken
      <3>1. Release("repair", "superseded") /\ "superseded" \in JobStatus /\ Due("repair")
        BY <2>3 DEF ClaimRepair, JobStatus
      <3>2. jobs'["repair"].status = "superseded" /\ KeepsOthers("repair")
        BY <1>0, <1>kinds, <1>same, <3>1, ReleaseJob
      <3>3. EndsRepair
        BY <2>0, <2>3, <3>1, <3>2 DEF ClaimRepair, EndsRepair, Open, Due, Overtaken
      <3> QED BY <3>3 DEF Effect
    <2>4. CASE ClaimRepair(w) /\ ~Overtaken
      <3>1. Lease(w, "repair", "repair", "read", {}, FALSE) /\ Due("repair") /\ fence' = fence
        BY <2>4 DEF ClaimRepair
      <3>2. "repair" \in Actions /\ "read" \in Steps
        BY DEF Actions, Steps
      <3>3. KeepsAll
        BY <1>kinds, <2>0, <2>lease, <3>1, <3>2
      <3> QED BY <2>0, <3>1, <3>3 DEF WorkOnly, Fenced, Effect
    <2> QED BY <1>6, <2>1, <2>2, <2>3, <2>4 DEF Claim
  <1>7. ASSUME NEW w \in Workers, RemoveTargets(w) PROVE Effect
    <2>1. Stored
      BY <1>0, <1>7 DEF RemoveTargets, Types, Stored, profile, auth
    <2> QED BY <2>1 DEF Effect
  <1>8. ASSUME NEW w \in Workers, Arm(w) PROVE Effect
    <2>1. Fenced
      <3>1. CASE fence' = Stamp(w) /\ MayArmReactivation
        BY <3>1 DEF Fenced, MayArmReactivation
      <3>2. CASE fence' = Stamp(w) /\ worker[w].action = "repair"
        BY <3>2 DEF Fenced, Stamp
      <3> QED BY <1>8, <3>1, <3>2 DEF Arm, Fenced
    <2>2. WorkOnly
      BY <1>8, <2>1, KeepsWhenUnchanged DEF Arm, WorkOnly, profile, storage
    <2> QED BY <2>2 DEF Effect
  <1>9. ASSUME NEW w \in Workers, Update(w) PROVE Effect
    <2> DEFINE to == Target(worker[w].action)
    <2>1. to \in Emails
      BY DEF Target, Emails
    <2> HIDE DEF to
    <2>2. /\ email' = (IF Accepts(to) THEN to ELSE email) \/ email' = email
          /\ UNCHANGED <<gone, generation, fence, jobs, objects, upload, open>>
      BY <1>9 DEF Update, profile, storage, to
    <2>3. CASE email' = IF Accepts(to) THEN to ELSE email
      BY <2>1, <2>2, <2>3 DEF Addressed, Effect
    <2>4. CASE email' = email
      BY <2>2, <2>4, KeepsWhenUnchanged DEF WorkOnly, Fenced, Effect
    <2> QED BY <2>2, <2>3, <2>4
  <1>10. ASSUME NEW w \in Workers,
                \/ EnsureReceiptBoundAuthEmail(w) \/ EnsureCancelledAuthEmail(w)
                \/ EnsureLegacyRepairAuthEmail(w) \/ ScrubDeletedAccountAuth(w) \/ Crash(w)
         PROVE  Effect
    <2>1. UNCHANGED <<profile, auth, jobs, storage>>
      BY <1>10 DEF EnsureReceiptBoundAuthEmail, EnsureCancelledAuthEmail,
                   EnsureLegacyRepairAuthEmail, ScrubDeletedAccountAuth, Crash, Others
    <2> QED BY <2>1, KeepsWhenUnchanged DEF WorkOnly, Fenced, Effect, profile, auth, storage
  <1>11. ASSUME NEW w \in Workers, Finish(w) PROVE Effect
    <2> DEFINE action == worker[w].action
    <2>0. UNCHANGED <<generation, email, objects, upload, open>>
      BY <1>11 DEF Finish, storage
    <2>held. ASSUME Holds(w) PROVE Open(JobOf(action)) /\ JobOf(action) \in Kinds
      BY <2>held DEF Holds, Held, Open, JobOf, Kinds
    <2>1. CASE Holds(w) /\ action = "scrub" /\ FinishCleanup(w)
      <3>1. PICK status \in JobStatus :
              /\ Release("cleanup", status)
              /\ status = IF StorageDone /\ email = Marker THEN "completed" ELSE "pending"
        BY <2>1 DEF FinishCleanup, JobStatus
      <3>2. jobs'["cleanup"].status = status /\ KeepsOthers("cleanup")
            /\ jobs'["cleanup"].cancel = jobs["cleanup"].cancel
            /\ jobs'["cleanup"].generation = jobs["cleanup"].generation
        BY <1>0, <1>kinds, <1>same, <3>1, ReleaseJob
      <3>3. gone' = gone /\ fence' = fence /\ Open("cleanup")
        BY <2>1, <2>held DEF FinishCleanup, JobOf
      <3>4. CASE StorageDone /\ email = Marker
        <4>1. EndsCleanup
          BY <2>0, <3>1, <3>2, <3>3, <3>4 DEF EndsCleanup, Open
        <4> QED BY <4>1 DEF Effect
      <3>5. CASE ~(StorageDone /\ email = Marker)
        <4>1. Keeps("cleanup")
          BY <3>1, <3>2, <3>3, <3>5 DEF Keeps, Open
        <4>2. KeepsAll
          BY <1>kinds, <1>all, <3>2, <4>1
        <4> QED BY <2>0, <3>3, <4>2 DEF WorkOnly, Fenced, Effect
      <3> QED BY <3>4, <3>5
    <2>2. CASE Holds(w) /\ action = "activate" /\ MayComplete(w) /\ Complete
      <3>1. Release("reactivate", "completed") /\ "completed" \in JobStatus
            /\ gone' = FALSE /\ fence' = NoFence
        BY <2>2 DEF Complete, JobStatus
      <3>2. jobs'["reactivate"].status = "completed" /\ KeepsOthers("reactivate")
        BY <1>0, <1>kinds, <1>same, <3>1, ReleaseJob
      <3>3. Open("reactivate")
        BY <2>2, <2>held DEF JobOf
      <3>4. EndsReactivation
        BY <2>0, <2>2, <3>1, <3>2, <3>3 DEF EndsReactivation, MayComplete, Open
      <3> QED BY <3>4 DEF Effect
    <2>3. CASE Holds(w) /\ action = "cancel" /\ MayFinishCancel /\ FinishCancel
      <3>1. Release("reactivate", "cancelled") /\ "cancelled" \in JobStatus
            /\ gone' = gone /\ fence' = NoFence
        BY <2>3 DEF FinishCancel, JobStatus
      <3>2. jobs'["reactivate"].status = "cancelled" /\ KeepsOthers("reactivate")
        BY <1>0, <1>kinds, <1>same, <3>1, ReleaseJob
      <3>3. Open("reactivate")
        BY <2>3, <2>held DEF JobOf
      <3>4. EndsReactivation
        BY <2>0, <2>3, <3>1, <3>2, <3>3 DEF EndsReactivation, MayFinishCancel, Open
      <3> QED BY <3>4 DEF Effect
    <2>4. CASE Holds(w) /\ action = "repair" /\ MayFinishRepair(w) /\ FinishRepair(w)
      <3>1. PICK status \in {"superseded", "completed"} : Release("repair", status)
        BY <2>4 DEF FinishRepair
      <3>2. jobs'["repair"].status = status /\ KeepsOthers("repair")
        BY <1>0, <1>kinds, <1>same, <3>1, ReleaseJob DEF JobStatus
      <3>3. Open("repair") /\ gone' = gone /\ fence' \in {fence, NoFence}
        BY <2>4, <2>held DEF JobOf, FinishRepair
      <3>4. EndsRepair
        BY <2>0, <2>4, <3>2, <3>3 DEF EndsRepair, MayFinishRepair, Overtaken, Open
      <3> QED BY <3>4 DEF Effect
    <2>5. CASE UNCHANGED <<gone, fence, scrubFence, jobs>>
      BY <2>0, <2>5, KeepsWhenUnchanged DEF WorkOnly, Fenced, Effect
    <2> QED BY <1>11, <2>1, <2>2, <2>3, <2>4, <2>5 DEF Finish
  <1>12. ASSUME NEW w \in Workers, RecordRetry(w) PROVE Effect
    <2>0. UNCHANGED <<gone, generation, email, fence, objects, upload, open>>
      BY <1>12 DEF RecordRetry, profile, auth, storage
    <2>1. KeepsAll
      <3>1. CASE Holds(w)
        <4>1. PICK k \in Kinds : Open(k) /\ Release(k, "pending") /\ "pending" \in JobStatus
          BY <1>12, <3>1 DEF RecordRetry, Holds, Held, Open, JobOf, Kinds, JobStatus
        <4>2. Keeps(k) /\ KeepsOthers(k)
          BY <1>0, <1>same, <4>1, ReleaseJob DEF Keeps, Open
        <4> QED BY <1>all, <4>1, <4>2
      <3>2. CASE ~Holds(w)
        BY <1>12, <3>2, KeepsWhenUnchanged DEF RecordRetry
      <3> QED BY <3>1, <3>2
    <2> QED BY <2>0, <2>1 DEF WorkOnly, Fenced, Effect
  <1>13. ASSUME NEW a \in Emails, LateCommit(a) PROVE Effect
    <2>1. Addressed
      BY <1>13 DEF LateCommit, Addressed, profile, storage
    <2> QED BY <2>1 DEF Effect
  <1>14. ASSUME NEW k \in Kinds, Expire(k) PROVE Effect
    <2> DEFINE row == [jobs[k] EXCEPT !.live = FALSE]
    <2>1. /\ row \in JobRow /\ Set(k, row) /\ row.status = jobs[k].status
          /\ row.cancel = jobs[k].cancel /\ row.generation = jobs[k].generation
      BY <1>0, <1>14 DEF Expire, JobRow
    <2> HIDE DEF row
    <2>2. Keeps(k) /\ KeepsOthers(k)
      BY <1>0, <1>same, <2>1, SetJob DEF Keeps, Open
    <2>3. KeepsAll
      BY <1>all, <2>2
    <2> QED BY <1>14, <2>3 DEF Expire, WorkOnly, Fenced, Effect, profile, auth, storage
  <1>15. CASE UNCHANGED vars
    BY <1>15, KeepsWhenUnchanged DEF vars, profile, auth, storage, WorkOnly, Fenced, Effect
  <1> QED BY <1>1, <1>2, <1>3, <1>4, <1>5, <1>6, <1>7, <1>8, <1>9, <1>10, <1>11, <1>12, <1>13,
             <1>14, <1>15 DEF Next, Work

---------------------------------------------------------------------------
(* The account.                                                            *)

\* Auth's triggers let an address through only where the invariant wants it:
\* an active account gets its own back, one between two jobs gives its own up.
LEMMA AddressAllowed ==
  ASSUME IInv, NEW to \in Emails, Accepts(to), to # email
  PROVE  /\ ~gone => to = Real
         /\ gone /\ Open("cleanup") => to = Marker
         /\ gone /\ ~Open("cleanup") => Open("reactivate")
         /\ gone /\ Open("reactivate") /\ ~jobs["reactivate"].cancel => to = Real
         /\ gone /\ Open("reactivate") /\ jobs["reactivate"].cancel => to = Marker
  <1>1. ReactivationAllows(to) /\ DeletionAllows(to)
    BY DEF Accepts
  <1>2. email \in Emails
    BY DEF IInv, TypeOK
  <1>3. ~gone => to = Real
    BY <1>1 DEF DeletionAllows, IInv, CancelFenceIsOfWithdrawn, Emails
  <1>4. gone /\ ~Open("reactivate") => email = Real
    BY <1>1 DEF ReactivationAllows
  <1>5. gone /\ Open("reactivate") => to = IF jobs["reactivate"].cancel THEN Marker ELSE Real
    BY <1>1 DEF ReactivationAllows
  <1>6. to = IF email = Real THEN Marker ELSE Real
    BY <1>2, AccountAssumption DEF Emails
  <1>7. /\ ~(Open("cleanup") /\ Open("reactivate"))
        /\ gone /\ ~Open("cleanup") /\ ~Open("reactivate") => email = Marker
    BY DEF IInv, JobsOfWithdrawn, GoneIsScrubbed
  <1>8. gone /\ Open("cleanup") => to = Marker
    BY <1>4, <1>6, <1>7
  <1>9. gone /\ ~Open("cleanup") => Open("reactivate")
    BY <1>4, <1>7, AccountAssumption
  <1> QED BY <1>3, <1>5, <1>8, <1>9

\* The account's part of the invariant is kept by every effect.
LEMMA AccountStep ==
  ASSUME IInv, [Next]_vars
  PROVE  /\ CancelFenceIsOfWithdrawn' /\ AddressBeforeRepair' /\ JobsOfWithdrawn'
         /\ NothingStoredAfterCleanup' /\ GoneIsScrubbed'
  <1> DEFINE Goal == /\ CancelFenceIsOfWithdrawn' /\ AddressBeforeRepair' /\ JobsOfWithdrawn'
                     /\ NothingStoredAfterCleanup' /\ GoneIsScrubbed'
  <1> USE DEF CancelFenceIsOfWithdrawn, AddressBeforeRepair, JobsOfWithdrawn,
              NothingStoredAfterCleanup, GoneIsScrubbed
  <1>0. /\ CancelFenceIsOfWithdrawn /\ AddressBeforeRepair /\ JobsOfWithdrawn
        /\ NothingStoredAfterCleanup /\ GoneIsScrubbed
        /\ gone \in BOOLEAN /\ email \in Emails /\ generation \in Nat
    BY AccountAssumption DEF IInv, TypeOK
  <1>kinds. Kinds = {"cleanup", "reactivate", "repair"}
    BY DEF Kinds
  <1>fence. NoFence.action # "cancel"
    BY DEF NoFence
  <1>1. CASE WorkOnly
    BY <1>0, <1>1, <1>kinds, <1>fence DEF WorkOnly, KeepsAll, Keeps, Fenced
  <1>2. CASE Addressed
    <2>1. PICK to \in Emails : email' = IF Accepts(to) THEN to ELSE email
      BY <1>2 DEF Addressed
    <2>2. UNCHANGED <<gone, generation, fence, jobs, objects, upload, open>>
      BY <1>2 DEF Addressed
    <2>3. CASE email' = email
      BY <1>0, <2>2, <2>3 DEF Open
    <2>4. CASE email' # email
      <3>1. email' = to /\ Accepts(to) /\ to # email
        BY <2>1, <2>4
      <3>2. (~gone => to = Real) /\ (gone /\ ~Open("cleanup") => Open("reactivate"))
        BY <3>1, AddressAllowed
      <3> QED BY <1>0, <2>2, <3>1, <3>2 DEF Open
    <2> QED BY <2>3, <2>4
  <1>3. CASE Stored
    BY <1>0, <1>3 DEF Stored, Open
  <1>4. CASE EndsCleanup
    BY <1>0, <1>4, <1>kinds DEF EndsCleanup, StorageDone, KeepsOthers, Keeps
  <1>5. CASE EndsReactivation
    BY <1>0, <1>5, <1>kinds, <1>fence DEF EndsReactivation, KeepsOthers, Keeps
  <1>6. CASE EndsRepair
    BY <1>0, <1>6, <1>kinds, <1>fence DEF EndsRepair, KeepsOthers, Keeps
  <1>7. CASE Withdraws
    BY <1>0, <1>7, <1>kinds DEF Withdraws, KeepsOthers, Keeps
  <1>8. CASE Begins
    BY <1>0, <1>8, <1>kinds DEF Begins, KeepsOthers, Keeps
  <1>9. CASE Cancels
    BY <1>0, <1>9, <1>kinds DEF Cancels, KeepsOthers, Keeps
  <1>10. Effect
    BY StepEffect DEF IInv
  <1> QED BY <1>1, <1>2, <1>3, <1>4, <1>5, <1>6, <1>7, <1>8, <1>9, <1>10 DEF Effect

LEMMA InitInvariant == Init => IInv
  <1> SUFFICES ASSUME Init PROVE IInv
    OBVIOUS
  <1>1. PICK legacy \in Legacy :
          /\ email = IF legacy THEN Marker ELSE Real
          /\ jobs = [k \in Kinds |-> IF legacy /\ k = "repair"
                                     THEN [NoJob EXCEPT !.status = "pending"] ELSE NoJob]
    BY DEF Init
  <1> DEFINE due == [NoJob EXCEPT !.status = "pending"]
  <1>nat. 0 \in 0..MaxWithdrawals /\ 0 \in 0..MaxRequests /\ 0 \in 0..MaxFaults
    BY AccountAssumption
  <1>job. NoJob \in JobRow /\ NoJob.status = "none"
    BY <1>nat DEF NoJob, JobRow, JobStatus
  <1>due. due \in JobRow /\ due.status = "pending" /\ due.generation = 0
    BY <1>nat DEF NoJob, JobRow, JobStatus
  <1>2. /\ Idle \in WorkerRow /\ NoFence \in FenceRow /\ NoFence.action = "scrub"
    BY DEF Idle, NoFence, WorkerRow, FenceRow, Steps, Actions
  <1> HIDE DEF due
  <1>3. Types
    <2>1. jobs \in [Kinds -> JobRow]
      BY <1>1, <1>job, <1>due DEF due
    <2>2. worker \in [Workers -> WorkerRow] /\ late \in [Emails -> 0..MaxFaults]
      BY <1>2, <1>nat DEF Init
    <2>3. gone \in BOOLEAN /\ taken \in BOOLEAN /\ email \in Emails
      BY <1>1 DEF Init, Emails
    <2> QED BY <1>2, <1>nat, <2>1, <2>2, <2>3 DEF Init, Types
  <1>4. TypeOK
    BY <1>3, TypesNamed
  <1>5. LateWithinFaults
    BY DEF Init, LateWithinFaults
  <1>6. ~gone /\ fence = NoFence /\ generation = 0
    BY DEF Init
  <1>7. /\ ~Open("cleanup") /\ ~Open("reactivate")
        /\ ~Open("repair") => email = Real
        /\ jobs["repair"].generation = 0
    <2>1. jobs["cleanup"] = NoJob /\ jobs["reactivate"] = NoJob
          /\ jobs["repair"] = IF legacy THEN due ELSE NoJob
      BY <1>1 DEF Kinds, due
    <2>2. NoJob.generation = 0
      BY DEF NoJob
    <2> QED BY <1>1, <1>job, <1>due, <2>1, <2>2 DEF Open
  <1> QED BY <1>2, <1>4, <1>5, <1>6, <1>7
          DEF IInv, CancelFenceIsOfWithdrawn, AddressBeforeRepair, JobsOfWithdrawn,
              NothingStoredAfterCleanup, GoneIsScrubbed

LEMMA InvariantStep == IInv /\ [Next]_vars => IInv'
  BY TypeStep, AccountStep DEF IInv

THEOREM AccountInvariant == Spec => []IInv
  BY InitInvariant, InvariantStep, PTL DEF Spec

\* The account, its jobs, its workers and its Auth user keep their types.
THEOREM TypeCorrect == Spec => []TypeOK
  BY AccountInvariant, PTL DEF IInv

\* However long an update of the Auth user was under way, an active member
\* can sign in.
THEOREM ActiveCanSignIn == Spec => []ActiveHasRealEmail
  <1>1. IInv => ActiveHasRealEmail
    BY DEF IInv, AddressBeforeRepair, ActiveHasRealEmail
  <1> QED BY <1>1, AccountInvariant, PTL

\* A withdrawn account without an open job is released.
THEOREM WithdrawnReleased == Spec => []WithdrawnIsReleased
  <1>1. IInv => WithdrawnIsReleased
    BY DEF IInv, GoneIsScrubbed, NothingStoredAfterCleanup, WithdrawnIsReleased
  <1> QED BY <1>1, AccountInvariant, PTL

---------------------------------------------------------------------------
(* AccountAccess.                                                          *)

Assets == objects \cup upload \cup open

\* What AccountAccess sees of an account is a function of its jobs.
LEMMA PhaseMeans ==
  ASSUME IInv
  PROVE  /\ ~gone => Phase = "active"
         /\ Open("cleanup") => Phase = "cleaning"
         /\ Open("reactivate") => Phase = IF jobs["reactivate"].cancel THEN "cancelling" ELSE "restoring"
         /\ gone /\ ~Open("cleanup") /\ ~Open("reactivate") => Phase = "gone"
  BY DEF Phase, IInv, JobsOfWithdrawn

LEMMA PhaseMeansNext ==
  ASSUME IInv'
  PROVE  /\ ~gone' => Phase' = "active"
         /\ Open("cleanup")' => Phase' = "cleaning"
         /\ Open("reactivate")' =>
              Phase' = IF jobs'["reactivate"].cancel THEN "cancelling" ELSE "restoring"
         /\ gone' /\ ~Open("cleanup")' /\ ~Open("reactivate")' => Phase' = "gone"
  BY DEF Phase, IInv, JobsOfWithdrawn

\* A step that moves no job and no deleted_at is no step of the account.
LEMMA PhaseKept ==
  ASSUME gone' = gone, Keeps("cleanup"), Keeps("reactivate")
  PROVE  Phase' = Phase
  BY DEF Phase, Keeps

LEMMA InitRefines == Init => Access!Init
  <1> SUFFICES ASSUME Init PROVE Access!Init
    OBVIOUS
  <1>1. Phase = "active" /\ Assets = {}
    BY DEF Init, Phase, Assets
  <1>2. email \in {Real, Marker}
    BY DEF Init
  <1> QED BY <1>1, <1>2 DEF Access!Init, Assets

\* Every step is a step of AccountAccess, or one it does not see.
LEMMA StepRefines ==
  ASSUME IInv, IInv', [Next]_vars
  PROVE  [Access!Next]_<<Phase, email, Assets>>
  <1>kinds. Kinds = {"cleanup", "reactivate", "repair"}
    BY DEF Kinds
  <1>0. /\ gone \in BOOLEAN /\ email \in Emails /\ JobsOfWithdrawn /\ NothingStoredAfterCleanup
    BY DEF IInv, TypeOK
  <1>1. CASE WorkOnly
    <2>1. Phase' = Phase
      BY <1>1, <1>kinds, PhaseKept DEF WorkOnly, KeepsAll
    <2> QED BY <1>1, <2>1 DEF WorkOnly, Assets
  <1>2. CASE Addressed
    <2>1. PICK to \in Emails : email' = IF Accepts(to) THEN to ELSE email
      BY <1>2 DEF Addressed
    <2>2. Phase' = Phase /\ Assets' = Assets
      BY <1>2 DEF Addressed, Phase, Open, Assets
    <2>3. CASE email' = email
      BY <2>2, <2>3
    <2>4. CASE email' # email
      <3>1. email' = to /\ Accepts(to) /\ to # email
        BY <2>1, <2>4
      <3>2. /\ ~gone => to = Real
            /\ Open("cleanup") => to = Marker
            /\ gone /\ ~Open("cleanup") => Open("reactivate")
            /\ Open("reactivate") => to = IF jobs["reactivate"].cancel THEN Marker ELSE Real
        BY <1>0, <3>1, AddressAllowed DEF JobsOfWithdrawn
      <3>3. CASE ~gone
        <4>1. Access!Repair
          BY <2>2, <3>1, <3>2, <3>3, PhaseMeans DEF Access!Repair, Assets
        <4> QED BY <4>1 DEF Access!Next
      <3>4. CASE Open("cleanup")
        <4>1. Access!Scrub
          BY <2>2, <3>1, <3>2, <3>4, PhaseMeans DEF Access!Scrub, Assets
        <4> QED BY <4>1 DEF Access!Next
      <3>5. CASE Open("reactivate") /\ ~jobs["reactivate"].cancel
        <4>1. Access!Restore
          BY <2>2, <3>1, <3>2, <3>5, PhaseMeans DEF Access!Restore, Assets
        <4> QED BY <4>1 DEF Access!Next
      <3>6. CASE Open("reactivate") /\ jobs["reactivate"].cancel
        <4>1. Access!Undo
          BY <2>2, <3>1, <3>2, <3>6, PhaseMeans DEF Access!Undo, Assets
        <4> QED BY <4>1 DEF Access!Next
      <3> QED BY <3>2, <3>3, <3>4, <3>5, <3>6
    <2> QED BY <2>3, <2>4
  <1>3. CASE Stored
    <2>1. Phase' = Phase /\ email' = email
      BY <1>3 DEF Stored, Phase, Open
    <2>2. /\ Assets' \in SUBSET Paths
          /\ gone => Assets' \subseteq Assets
      BY <1>3 DEF Stored, Assets
    <2>3. CASE Phase \in {"active", "cleaning"}
      <3>1. Phase = "cleaning" => gone
        BY <1>0, PhaseMeans
      <3>2. Access!Store
        BY <2>1, <2>2, <2>3, <3>1 DEF Access!Store, Assets
      <3> QED BY <3>2 DEF Access!Next
    <2>4. CASE Phase \notin {"active", "cleaning"}
      <3>1. gone /\ ~Open("cleanup")
        BY <2>4, <1>0, PhaseMeans
      <3>2. Assets = {}
        BY <1>0, <3>1 DEF NothingStoredAfterCleanup, Assets
      <3>3. Assets' = Assets
        BY <2>2, <3>1, <3>2
      <3> QED BY <2>1, <3>3
    <2> QED BY <2>3, <2>4
  <1>4. CASE EndsCleanup
    <2>1. /\ Open("cleanup") /\ ~Open("cleanup")' /\ ~Open("reactivate")' /\ gone'
      BY <1>0, <1>4, <1>kinds DEF EndsCleanup, KeepsOthers, Keeps, JobsOfWithdrawn
    <2>2. Phase = "cleaning" /\ Phase' = "gone"
      BY <2>1, PhaseMeans, PhaseMeansNext
    <2>3. Access!Cleaned
      BY <1>4, <2>2 DEF EndsCleanup, StorageDone, Access!Cleaned, Access!Step
    <2> QED BY <2>3 DEF Access!Next
  <1>5. CASE EndsReactivation /\ gone' = FALSE
    <2>1. Phase = "restoring" /\ Phase' = "active"
      BY <1>5, PhaseMeans, PhaseMeansNext DEF EndsReactivation
    <2>2. Access!Restored
      BY <1>5, <2>1 DEF EndsReactivation, Access!Restored, Access!Step
    <2> QED BY <2>2 DEF Access!Next
  <1>6. CASE EndsReactivation /\ gone' # FALSE
    <2>1. /\ gone' /\ ~Open("cleanup")' /\ ~Open("reactivate")'
          /\ jobs["reactivate"].cancel /\ email = Marker
      BY <1>0, <1>6, <1>kinds DEF EndsReactivation, KeepsOthers, Keeps, JobsOfWithdrawn
    <2>2. Phase = "cancelling" /\ Phase' = "gone"
      BY <1>6, <2>1, PhaseMeans, PhaseMeansNext DEF EndsReactivation
    <2>3. Access!Cancelled
      BY <1>6, <2>1, <2>2 DEF EndsReactivation, Access!Cancelled, Access!Step
    <2> QED BY <2>3 DEF Access!Next
  <1>7. CASE EndsRepair
    <2>1. Phase' = Phase
      BY <1>7, <1>kinds, PhaseKept DEF EndsRepair, KeepsOthers
    <2> QED BY <1>7, <2>1 DEF EndsRepair, Assets
  <1>8. CASE Withdraws
    <2>1. Phase = "active" /\ Phase' = "cleaning"
      BY <1>8, PhaseMeans, PhaseMeansNext DEF Withdraws
    <2>2. Access!Withdraw
      BY <1>8, <2>1 DEF Withdraws, Access!Withdraw, Access!Step
    <2> QED BY <2>2 DEF Access!Next
  <1>9. CASE Begins
    <2>1. Phase = "gone" /\ Phase' = "restoring"
      BY <1>9, PhaseMeans, PhaseMeansNext DEF Begins
    <2>2. Access!Reopen
      BY <1>9, <2>1 DEF Begins, Access!Reopen, Access!Step
    <2> QED BY <2>2 DEF Access!Next
  <1>10. CASE Cancels
    <2>1. Phase = "restoring" /\ Phase' = "cancelling"
      BY <1>10, PhaseMeans, PhaseMeansNext DEF Cancels
    <2>2. Access!Cancel
      BY <1>10, <2>1 DEF Cancels, Access!Cancel, Access!Step
    <2> QED BY <2>2 DEF Access!Next
  <1>11. Effect
    BY StepEffect DEF IInv
  <1> QED BY <1>1, <1>2, <1>3, <1>4, <1>5, <1>6, <1>7, <1>8, <1>9, <1>10, <1>11 DEF Effect

\* The jobs, the leases and the fences implement AccountAccess.
THEOREM AccessImplemented == Spec => ImplementsAccess
  <1>1. IInv /\ IInv' /\ [Next]_vars => [Access!Next]_(Access!vars)
    BY StepRefines DEF Access!vars, Assets
  <1> QED BY <1>1, InitRefines, AccountInvariant, PTL DEF Spec, ImplementsAccess, Access!Spec
=============================================================================
