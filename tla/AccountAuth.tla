---------------------------- MODULE AccountAuth ----------------------------
(***************************************************************************)
(* One account's withdrawal and reactivation: the cleanup job that removes *)
(* its files and gives up its Auth address, the reactivation job that      *)
(* restores it or is cancelled, the repair job of the older reactivation,  *)
(* and the workers that run them over GoTrue, where no transaction reaches.*)
(* A lease token, and a path, that nobody remembers stands for a fresh one.*)
(***************************************************************************)
EXTENDS Naturals, FiniteSets, FiniteSetsExt

CONSTANTS
  Workers,
  Tokens, None,     \* lease tokens
  Real, Marker,     \* the member's address and deleted+<id>@deleted.invalid
  Paths,
  TargetLimit,      \* objects a cleanup lease takes at once
  Legacy,           \* whether the account may have been reactivated the older way
  MaxWithdrawals, MaxRequests,
  MaxFaults         \* crashes, early expiries and lost calls

ASSUME AccountAssumption ==
  /\ Real # Marker /\ None \notin Tokens
  /\ Legacy \subseteq BOOLEAN /\ Legacy # {}
  /\ TargetLimit \in Nat \ {0}
  /\ {MaxWithdrawals, MaxRequests, MaxFaults} \subseteq Nat

VARIABLES
  gone,        \* profiles.deleted_at is set
  generation,  \* profiles.withdrawal_generation
  taken,       \* another member has registered the address
  email,       \* auth.users.email
  fence,       \* app_metadata.bp_reactivation_fence
  scrubFence,  \* app_metadata.bp_account_cleanup_fence
  jobs,        \* the account's latest job of each kind
  worker,      \* what each worker remembers
  late,        \* updates of the Auth user that were given up and may still commit
  objects,     \* storage.objects of the account
  upload,      \* paths with a signed upload token that has not expired
  open,        \* paths with an open storage_upload_intents row
  requests, faults

profile == <<gone, generation, taken>>
auth == <<email, fence, scrubFence>>
storage == <<objects, upload, open>>
bounds == <<requests, faults>>
vars == <<profile, auth, jobs, worker, late, storage, bounds>>

Kinds == {"cleanup", "reactivate", "repair"}
Actions == {"scrub", "activate", "cancel", "repair"}
Emails == {Real, Marker}
Steps == {"idle", "remove", "read", "arm", "armed", "update", "sent", "finish", "retry"}

NoJob == [status |-> "none", token |-> None, live |-> FALSE, cancel |-> FALSE,
          generation |-> 0, batch |-> {}]
NewJob == [NoJob EXCEPT !.status = "pending", !.generation = generation]
Idle == [at |-> "idle", action |-> "scrub", token |-> None, batch |-> {}, scrub |-> FALSE]
NoFence == [action |-> "scrub", token |-> None]

JobOf(action) ==
  CASE action = "scrub" -> "cleanup" [] action = "repair" -> "repair" [] OTHER -> "reactivate"
Target(action) == IF action \in {"scrub", "cancel"} THEN Marker ELSE Real

TypeOK ==
  /\ gone \in BOOLEAN /\ taken \in BOOLEAN /\ generation \in 0..MaxWithdrawals
  /\ email \in Emails
  /\ {fence, scrubFence} \subseteq [action : Actions, token : Tokens \cup {None}]
  /\ jobs \in [Kinds -> [status : {"none", "pending", "leased", "completed", "cancelled",
                                   "superseded"},
                         token : Tokens \cup {None}, live : BOOLEAN, cancel : BOOLEAN,
                         generation : 0..MaxWithdrawals, batch : SUBSET Paths]]
  /\ worker \in [Workers -> [at : Steps, action : Actions, token : Tokens \cup {None},
                             batch : SUBSET Paths, scrub : BOOLEAN]]
  /\ late \in [Emails -> 0..MaxFaults]
  /\ {objects, upload, open} \subseteq SUBSET Paths
  /\ requests \in 0..MaxRequests /\ faults \in 0..MaxFaults

Init ==
  /\ gone = FALSE /\ generation = 0 /\ taken = FALSE
  /\ \E legacy \in Legacy :
       /\ email = IF legacy THEN Marker ELSE Real
       /\ jobs = [k \in Kinds |-> IF legacy /\ k = "repair"
                                  THEN [NoJob EXCEPT !.status = "pending"] ELSE NoJob]
  /\ fence = NoFence /\ scrubFence = NoFence
  /\ worker = [w \in Workers |-> Idle]
  /\ late = [a \in Emails |-> 0]
  /\ objects = {} /\ upload = {} /\ open = {}
  /\ requests = 0 /\ faults = 0

-----------------------------------------------------------------------------
(* Leases and fences.                                                      *)

Open(k) == jobs[k].status \in {"pending", "leased"}
Held(k, t) == jobs[k].status = "leased" /\ jobs[k].live /\ jobs[k].token = t
Holds(w) == Held(JobOf(worker[w].action), worker[w].token)

Remembered == {worker[w].token : w \in Workers} \cup {fence.token, scrubFence.token}
              \cup {jobs[k].token : k \in Kinds}
Stamp(w) == [action |-> worker[w].action, token |-> worker[w].token]

Set(k, job) == jobs' = [jobs EXCEPT ![k] = job]
Release(k, status) ==
  Set(k, [jobs[k] EXCEPT !.status = status, !.token = None, !.live = FALSE, !.batch = {}])
Put(w, r) == worker' = [worker EXCEPT ![w] = r]
Go(w, at) == Put(w, [worker[w] EXCEPT !.at = at])
At(w, at) == worker[w].at = at
Fault == faults < MaxFaults /\ faults' = faults + 1 /\ UNCHANGED requests

\* Defect: the signed URLs are not waited for.
StorageDoneNow == objects = {}

\* Everything of the account is gone and nothing can come back.
StorageDone == objects = {} /\ upload = {} /\ open = {}

\* bp_fence_account_reactivation_auth_email, before an update of the address.
ReactivationAllows(to) ==
  IF email = Marker /\ fence.action = "repair"
  THEN /\ Held("repair", fence.token) /\ ~gone
       /\ jobs["repair"].generation = generation
  ELSE IF ~Open("reactivate") THEN email = Real
  ELSE /\ Held("reactivate", fence.token)
       /\ gone /\ jobs["reactivate"].generation = generation
       /\ \/ fence.action = "activate" /\ ~jobs["reactivate"].cancel
             /\ to = Real /\ ~taken
          \/ fence.action = "cancel" /\ jobs["reactivate"].cancel /\ to = Marker

\* Defect: the scrub of an address is not fenced.
DeletionAllowsAny(to) == TRUE

\* bp_fence_account_deletion_auth_scrub, on the same update.
DeletionAllows(to) ==
  \/ to # Marker
  \/ fence.action = "cancel"
  \/ /\ scrubFence.token # None /\ Held("cleanup", scrubFence.token)
     /\ jobs["cleanup"].batch = {} /\ gone /\ StorageDone

Accepts(to) == to = email \/ (ReactivationAllows(to) /\ DeletionAllows(to))

-----------------------------------------------------------------------------
(* The member, the administrators and the uploads.                         *)

\* admin_soft_delete_account; the two triggers on profiles.deleted_at.
Withdraw ==
  /\ ~gone /\ ~Open("reactivate") /\ ~Open("cleanup")
  /\ generation < MaxWithdrawals
  /\ gone' = TRUE /\ generation' = generation + 1
  /\ Set("cleanup", NewJob)
  /\ UNCHANGED <<taken, auth, worker, late, storage, bounds>>

\* Defect: an open cleanup does not stand in the way.
BeginEarly ==
  /\ gone /\ ~Open("reactivate") /\ ~taken
  /\ requests < MaxRequests /\ requests' = requests + 1
  /\ Set("reactivate", NewJob)
  /\ UNCHANGED <<profile, auth, worker, late, storage, faults>>

\* admin_begin_account_reactivation
Begin ==
  /\ gone /\ ~Open("reactivate") /\ ~Open("cleanup") /\ ~taken
  /\ requests < MaxRequests /\ requests' = requests + 1
  /\ Set("reactivate", NewJob)
  /\ UNCHANGED <<profile, auth, worker, late, storage, faults>>

\* request_account_reactivation_cancellation takes the lease away for good.
RequestCancel ==
  /\ Open("reactivate") /\ ~jobs["reactivate"].cancel
  /\ gone /\ jobs["reactivate"].generation = generation
  /\ Set("reactivate", [jobs["reactivate"] EXCEPT !.status = "pending", !.token = None,
                                                  !.live = FALSE, !.cancel = TRUE])
  /\ UNCHANGED <<profile, auth, worker, late, storage, bounds>>

\* Somebody else registers the address: bp_prepare_account_reactivation_email
\* then raises email_conflict.
TakeEmail ==
  /\ gone /\ ~taken /\ email = Marker /\ taken' = TRUE
  /\ UNCHANGED <<gone, generation, auth, jobs, worker, late, storage, bounds>>

FreshPath(p) ==
  p \notin objects \cup upload \cup open \cup UNION {worker[w].batch : w \in Workers}

\* create_*_upload_intent, refused to a withdrawn account, and the signed URL.
Issue(p) ==
  /\ ~gone /\ (FreshPath(p) \/ p \in open)
  /\ upload' = upload \cup {p} /\ open' = open \cup {p}
  /\ UNCHANGED <<profile, auth, jobs, worker, late, objects, bounds>>

Upload(p) ==
  /\ p \in upload \ objects /\ objects' = objects \cup {p}
  /\ UNCHANGED <<profile, auth, jobs, worker, late, upload, open, bounds>>

\* The row that names the object attaches its intent.
Attach(p) ==
  /\ ~gone /\ p \in open \cap objects /\ open' = open \ {p}
  /\ UNCHANGED <<profile, auth, jobs, worker, late, objects, upload, bounds>>

TokenExpires(p) ==
  /\ p \in upload /\ upload' = upload \ {p}
  /\ UNCHANGED <<profile, auth, jobs, worker, late, objects, open, bounds>>

\* The fenced cleanup of an intent whose token has expired.
DrainIntent(p) ==
  /\ p \in open \ upload /\ open' = open \ {p} /\ objects' = objects \ {p}
  /\ UNCHANGED <<profile, auth, jobs, worker, late, upload, bounds>>

-----------------------------------------------------------------------------
(* Claims.                                                                 *)

Due(k) == jobs[k].status = "pending" \/ (jobs[k].status = "leased" /\ ~jobs[k].live)

\* The lease of a job under a token nobody remembers.
Lease(w, k, action, at, batch, scrub) ==
  \E t \in Tokens \ Remembered :
    /\ t = CHOOSE u \in Tokens : u \notin Remembered
    /\ Set(k, [jobs[k] EXCEPT !.status = "leased", !.token = t, !.live = TRUE, !.batch = batch])
    /\ Put(w, [at |-> at, action |-> action, token |-> t, batch |-> batch, scrub |-> scrub])

\* Idle workers remember nothing: which of them claims makes no difference.
MayClaim(w) == At(w, "idle") /\ w = CHOOSE v \in Workers : At(v, "idle")

\* claim_account_deletion_cleanup_v2
ClaimCleanup(w) ==
  /\ MayClaim(w) /\ Due("cleanup")
  /\ \E batch \in SUBSET objects :
       /\ Cardinality(batch) = Min({TargetLimit, Cardinality(objects)})
       /\ Lease(w, "cleanup", "scrub", "remove", batch, StorageDone /\ email # Marker)
  /\ UNCHANGED <<profile, auth, late, storage, bounds>>

\* claim_account_reactivation_job, with its preflight error
ClaimReactivation(w) ==
  LET job == jobs["reactivate"]
      conflict == \/ ~gone \/ job.generation # generation
                  \/ ~job.cancel /\ (taken \/ Open("cleanup"))
  IN /\ MayClaim(w) /\ Due("reactivate")
     /\ Lease(w, "reactivate", IF job.cancel THEN "cancel" ELSE "activate",
              IF conflict THEN "retry" ELSE "read", {}, FALSE)
     /\ UNCHANGED <<profile, auth, late, storage, bounds>>

\* A withdrawal has overtaken the repair.
Overtaken == gone \/ jobs["repair"].generation # generation

\* claim_account_reactivation_legacy_repair
ClaimRepair(w) ==
  /\ MayClaim(w) /\ Due("repair")
  /\ IF Overtaken
     THEN /\ Release("repair", "superseded")
          /\ fence' = IF fence.action = "repair" THEN NoFence ELSE fence
          /\ UNCHANGED worker
     ELSE Lease(w, "repair", "repair", "read", {}, FALSE) /\ UNCHANGED fence
  /\ UNCHANGED <<profile, email, scrubFence, late, storage, bounds>>
-----------------------------------------------------------------------------
(* What a worker does between its claim and its report.                    *)

Others == <<profile, auth, jobs, late, storage, bounds>>

\* removeAccountDeletionCleanupTargets: every object of the lease, or some
\* and an error.
RemoveTargets(w) ==
  /\ At(w, "remove")
  /\ \/ /\ objects' = objects \ worker[w].batch
        /\ Go(w, IF worker[w].scrub THEN "arm" ELSE "finish")
        /\ UNCHANGED bounds
     \/ /\ Fault /\ Go(w, "retry")
        /\ \E part \in SUBSET worker[w].batch : objects' = objects \ part
  /\ UNCHANGED <<profile, auth, jobs, late, upload, open>>

\* The three RPCs that write a lease's fence into the Auth user's metadata;
\* the worker reads the user again whatever they answered.
MayArmReactivation == gone /\ jobs["reactivate"].generation = generation
MayArmRepair == ~Overtaken
MayArmScrub == gone /\ jobs["cleanup"].batch = {} /\ StorageDone

Arm(w) ==
  LET action == worker[w].action
      granted == Holds(w) /\ CASE action = "scrub" -> MayArmScrub
                               [] action = "repair" -> MayArmRepair
                               [] OTHER -> MayArmReactivation
  IN /\ At(w, "arm") /\ Go(w, "armed")
     /\ \/ /\ granted /\ UNCHANGED bounds
           /\ fence' = IF action = "scrub" THEN fence ELSE Stamp(w)
           /\ scrubFence' = IF action = "scrub" THEN Stamp(w) ELSE scrubFence
        \/ granted /\ Fault /\ UNCHANGED <<fence, scrubFence>>
        \/ ~granted /\ UNCHANGED <<fence, scrubFence, bounds>>
     /\ UNCHANGED <<profile, email, jobs, late, storage>>

\* updateUserById: committed, refused by a trigger, or given up while the
\* update is still under way.
Update(w) ==
  LET to == Target(worker[w].action) IN
  /\ At(w, "update") /\ Go(w, "sent")
  /\ \/ email' = (IF Accepts(to) THEN to ELSE email) /\ UNCHANGED <<late, bounds>>
     \/ Fault /\ late' = [late EXCEPT ![to] = @ + 1] /\ UNCHANGED email
  /\ UNCHANGED <<profile, fence, scrubFence, jobs, storage>>

\* Defect: an update commits that nobody gave up.
LateCommitAgain(to) ==
  /\ late' = [late EXCEPT ![to] = @ - 1]
  /\ email' = IF Accepts(to) THEN to ELSE email
  /\ UNCHANGED <<profile, fence, scrubFence, jobs, worker, storage, bounds>>

LateCommit(to) ==
  /\ late[to] > 0 /\ late' = [late EXCEPT ![to] = @ - 1]
  /\ email' = IF Accepts(to) THEN to ELSE email
  /\ UNCHANGED <<profile, fence, scrubFence, jobs, worker, storage, bounds>>

\* Defect: an address already restored is not fenced again under this lease.
EnsureReceiptBoundEarly(w) ==
  LET own == fence = Stamp(w)
      next == IF email = Real THEN "finish" ELSE "update"
  IN /\ worker[w].action = "activate"
     /\ \/ At(w, "read") /\ Go(w, IF own \/ email = Real THEN next ELSE "arm")
        \/ At(w, "armed") /\ Go(w, IF own THEN next ELSE "retry")
        \/ At(w, "sent") /\ Go(w, IF own /\ email = Real THEN "finish" ELSE "retry")
     /\ UNCHANGED Others

\* What a fresh read of the Auth user lets the worker do next.
EnsureReceiptBoundAuthEmail(w) ==
  LET own == fence = Stamp(w)
      next == IF email = Real THEN "finish" ELSE "update"
  IN /\ worker[w].action = "activate"
     /\ \/ At(w, "read") /\ Go(w, IF own THEN next ELSE "arm")
        \/ At(w, "armed") /\ Go(w, IF own THEN next ELSE "retry")
        \/ At(w, "sent") /\ Go(w, IF own /\ email = Real THEN "finish" ELSE "retry")
     /\ UNCHANGED Others

EnsureCancelledAuthEmail(w) ==
  LET own == fence = Stamp(w)
      next == IF email = Marker THEN "finish" ELSE "update"
  IN /\ worker[w].action = "cancel"
     /\ \/ At(w, "read") /\ Go(w, IF own \/ email = Marker THEN next ELSE "arm")
        \/ At(w, "armed") /\ Go(w, IF own THEN next ELSE "retry")
        \/ At(w, "sent") /\ Go(w, IF own /\ email = Marker THEN "finish" ELSE "retry")
     /\ UNCHANGED Others

EnsureLegacyRepairAuthEmail(w) ==
  LET own == fence = Stamp(w)
      next == IF email = Real THEN "finish" ELSE "update"
  IN /\ worker[w].action = "repair"
     /\ \/ At(w, "read") /\ Go(w, IF own \/ email = Real THEN next ELSE "arm")
        \/ At(w, "armed") /\ Go(w, IF own THEN next ELSE "retry")
        \/ At(w, "sent") /\ Go(w, IF own /\ email = Real THEN "finish" ELSE "retry")
     /\ UNCHANGED Others

\* armAccountDeletionAuthFence and scrubDeletedAccountAuth, which updates the
\* user whatever its address is.
ScrubDeletedAccountAuth(w) ==
  /\ worker[w].action = "scrub"
  /\ \/ At(w, "armed") /\ Go(w, IF scrubFence = Stamp(w) THEN "update" ELSE "retry")
     \/ At(w, "sent") /\ Go(w, IF email = Marker THEN "finish" ELSE "retry")
  /\ UNCHANGED Others

-----------------------------------------------------------------------------
(* Reports.                                                                *)

\* finish_account_deletion_cleanup_v2, on success
FinishCleanup(w) ==
  LET done == StorageDone /\ email = Marker IN
  /\ Release("cleanup", IF done THEN "completed" ELSE "pending")
  /\ scrubFence' = IF done THEN NoFence ELSE scrubFence
  /\ UNCHANGED <<gone, fence>>

\* bp_complete_account_reactivation_job
MayComplete(w) ==
  /\ ~jobs["reactivate"].cancel
  /\ gone /\ jobs["reactivate"].generation = generation
  /\ ~taken /\ email = Real /\ fence = Stamp(w)

Complete ==
  /\ gone' = FALSE /\ fence' = NoFence
  /\ Release("reactivate", "completed")
  /\ UNCHANGED scrubFence

\* bp_cancel_account_reactivation_job
MayFinishCancel ==
  /\ jobs["reactivate"].cancel
  /\ gone /\ jobs["reactivate"].generation = generation
  /\ email = Marker

FinishCancel ==
  /\ fence' = NoFence
  /\ Release("reactivate", "cancelled")
  /\ UNCHANGED <<gone, scrubFence>>

\* finish_account_reactivation_legacy_repair, on success
MayFinishRepair(w) == Overtaken \/ (email = Real /\ fence = Stamp(w))

FinishRepair(w) ==
  /\ Release("repair", IF Overtaken THEN "superseded" ELSE "completed")
  /\ fence' = IF fence = Stamp(w) THEN NoFence ELSE fence
  /\ UNCHANGED <<gone, scrubFence>>

\* An RPC that raised, or never arrived, leaves the failure to be recorded.
Finish(w) ==
  LET action == worker[w].action
      accepted == Holds(w) /\ CASE action = "scrub" -> TRUE
                                [] action = "activate" -> MayComplete(w)
                                [] action = "cancel" -> MayFinishCancel
                                [] action = "repair" -> MayFinishRepair(w)
  IN /\ At(w, "finish")
     /\ \/ /\ accepted /\ Put(w, Idle) /\ UNCHANGED bounds
           /\ \/ action = "scrub" /\ FinishCleanup(w)
              \/ action = "activate" /\ Complete
              \/ action = "cancel" /\ FinishCancel
              \/ action = "repair" /\ FinishRepair(w)
        \/ accepted /\ Fault /\ Go(w, "retry") /\ UNCHANGED <<gone, fence, scrubFence, jobs>>
        \/ ~accepted /\ Go(w, "retry") /\ UNCHANGED <<gone, fence, scrubFence, jobs, bounds>>
     /\ UNCHANGED <<generation, taken, email, late, storage>>

\* The failure report, which only the holder of the lease can make.
RecordRetry(w) ==
  /\ At(w, "retry") /\ Put(w, Idle)
  /\ IF Holds(w) THEN Release(JobOf(worker[w].action), "pending") ELSE UNCHANGED jobs
  /\ UNCHANGED <<profile, auth, late, storage, bounds>>

\* A deployment, a deadline or a lost claim ends a worker anywhere.
Crash(w) ==
  /\ ~At(w, "idle") /\ Fault /\ Put(w, Idle)
  /\ UNCHANGED <<profile, auth, jobs, late, storage>>

\* leased_until passes: a fault only while the holder is still at work.
Expire(k) ==
  LET atWork == \E w \in Workers : ~At(w, "idle") /\ worker[w].token = jobs[k].token IN
  /\ jobs[k].status = "leased" /\ jobs[k].live
  /\ Set(k, [jobs[k] EXCEPT !.live = FALSE])
  /\ IF atWork THEN Fault ELSE UNCHANGED bounds
  /\ UNCHANGED <<profile, auth, worker, late, storage>>

Claim(w) == ClaimCleanup(w) \/ ClaimReactivation(w) \/ ClaimRepair(w)

Work(w) ==
  \/ RemoveTargets(w) \/ Arm(w) \/ Update(w)
  \/ EnsureReceiptBoundAuthEmail(w) \/ EnsureCancelledAuthEmail(w)
  \/ EnsureLegacyRepairAuthEmail(w) \/ ScrubDeletedAccountAuth(w)
  \/ Finish(w) \/ RecordRetry(w)

Next ==
  \/ Withdraw \/ Begin \/ RequestCancel \/ TakeEmail
  \/ \E p \in Paths : Issue(p) \/ Upload(p) \/ Attach(p) \/ TokenExpires(p) \/ DrainIntent(p)
  \/ \E w \in Workers : Claim(w) \/ Work(w) \/ Crash(w)
  \/ \E a \in Emails : LateCommit(a)
  \/ \E k \in Kinds : Expire(k)

Spec == Init /\ [][Next]_vars

(* A cron drains every queue; a worker that is not killed goes on; a lease *)
(* ends by the clock; a signed URL expires and its intent is drained.      *)
Fairness ==
  /\ WF_vars(\E w \in Workers : ClaimCleanup(w))
  /\ WF_vars(\E w \in Workers : ClaimReactivation(w))
  /\ WF_vars(\E w \in Workers : ClaimRepair(w))
  /\ \A w \in Workers : WF_vars(Work(w))
  /\ WF_vars(\E k \in Kinds : Expire(k))
  /\ \A p \in Paths : WF_vars(TokenExpires(p) \/ DrainIntent(p))

FairSpec == Spec /\ Fairness

-----------------------------------------------------------------------------
(* Properties.                                                             *)

(* A member whose account is active can sign in: the Auth user carries the *)
(* member's address unless the repair of an older reactivation is still    *)
(* to come.  The triggers on auth.users keep every paused worker from      *)
(* scrubbing it.                                                           *)
ActiveHasRealEmail == ~gone /\ ~Open("repair") => email = Real

(* A withdrawn account without an open job has given up its address, and   *)
(* nothing it stored is left or can still arrive: the cleanup job completes*)
(* after the last signed URL has expired, a cancelled reactivation after   *)
(* the address was given up again.                                         *)
WithdrawnIsReleased ==
  gone /\ ~Open("cleanup") /\ ~Open("reactivate")
    => email = Marker /\ objects \cup upload \cup open = {}

(* A withdrawn account is released for good unless an administrator        *)
(* reopens it: every cleanup job ends, whatever crashed on the way.  A     *)
(* reactivation ends, completed or cancelled, unless another member has    *)
(* taken the address; and then a cancellation still ends it.               *)
JobsEnd ==
  /\ []<>~Open("cleanup")
  /\ []<>(Open("reactivate") => taken /\ ~jobs["reactivate"].cancel)

(* 0085 says of account_reactivation_legacy_repairs that every repair      *)
(* converges under its exact lease fence.                                  *)
RepairEnds == Open("repair") ~> ~Open("repair")

(* The jobs, leases and fences implement the promise of AccountAccess.     *)
Phase ==
  IF ~gone THEN "active"
  ELSE IF Open("cleanup") THEN "cleaning"
  ELSE IF ~Open("reactivate") THEN "gone"
  ELSE IF jobs["reactivate"].cancel THEN "cancelling" ELSE "restoring"

Access == INSTANCE AccountAccess WITH phase <- Phase, assets <- objects \cup upload \cup open

ImplementsAccess == Access!Spec
=============================================================================
