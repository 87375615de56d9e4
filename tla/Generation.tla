----------------------------- MODULE Generation -----------------------------
(***************************************************************************)
(* One doll generation from the moment its face checks are accepted: the   *)
(* continuations that commit it and submit its candidates to fal, fal and  *)
(* its webhooks, the polls and sweeps that recover, fail or expire it, the *)
(* user's pick, and the removal of its candidate images from storage.  A   *)
(* credit is returned in the transaction that makes the row 'failed'.      *)
(***************************************************************************)
EXTENDS Naturals, FiniteSets

CONSTANTS
  Slots,        \* candidate indexes
  Workers,      \* requests that may run a continuation
  Recoverers,   \* polls and sweeps that may look at the row
  None, Old,    \* no one; a continuation that has ended
  MaxFaults     \* crashes, lost answers and failed calls

ASSUME GenerationAssumption ==
  /\ IsFiniteSet(Slots) /\ Slots # {}
  /\ {None, Old} \cap (Workers \cup Recoverers) = {} /\ None # Old
  /\ MaxFaults \in Nat

VARIABLES
  reservation,  \* "accepted", "expired", or committed: "running", "submitted"
  holder,       \* who has the two-minute continuation lease
  status,       \* ai_generations.status
  params,       \* per candidate, what gen_params says of its submission
  sent,         \* candidates with a request id in fal_request_ids
  urls,         \* candidate_urls
  cleaned,      \* artifacts_cleaned_at is set
  intent,       \* generation_submit_intents.state
  bind,         \* the continuation whose payload the intent is bound to
  output,       \* candidates whose provider_output is recorded
  sealed,       \* provider outputs are scrubbed and will not be taken again
  lease,        \* who has the artifact write lease
  job,          \* fal's request of each candidate
  posts,        \* submissions fal may have been paid for
  hook,         \* fal's webhook of each candidate
  store,        \* candidate objects in storage
  wk, rec,      \* what each continuation and each recoverer remembers
  sweeper,      \* the removal of a terminal generation's objects
  age,          \* 0; 1 after 30 minutes; 2 after 200 minutes; 3 after 24 hours
  overlap,      \* two continuations have been at work at once
  faults

row == <<status, params, sent, urls, cleaned>>
intents == <<intent, bind, output, sealed>>
fal == <<job, posts, hook>>
objects == <<lease, store, sweeper>>
lease2 == <<reservation, holder>>
clock == <<age, overlap, faults>>
vars == <<lease2, row, intents, fal, objects, wk, rec, clock>>

Terminal == {"failed", "picked", "expired"}
Planned == [st |-> "planned", id |-> FALSE]
Resting == [at |-> "idle", plan |-> {}, kept |-> {}, left |-> {}, mine |-> {},
            bad |-> FALSE, settled |-> {}, refused |-> {}, answer |-> [c \in Slots |-> "none"]]
Away == [at |-> "idle", known |-> FALSE, fresh |-> FALSE, force |-> FALSE,
         urls |-> {}, got |-> {}]

Init ==
  /\ reservation = "accepted" /\ holder = None
  /\ status = "queued" /\ params = [c \in Slots |-> Planned] /\ sent = {}
  /\ urls = {} /\ cleaned = FALSE
  /\ intent = [c \in Slots |-> "none"] /\ bind = [c \in Slots |-> None]
  /\ output = {} /\ sealed = FALSE
  /\ lease = None /\ store = {} /\ sweeper = "idle"
  /\ job = [c \in Slots |-> "none"] /\ posts = [c \in Slots |-> 0]
  /\ hook = [c \in Slots |-> "none"]
  /\ wk = [w \in Workers |-> Resting] /\ rec = [r \in Recoverers |-> Away]
  /\ age = 0 /\ overlap = FALSE /\ faults = 0

\* ai_generations.version: whoever read the row before this update holds a stale one.
Touched == [r \in Recoverers |-> [rec[r] EXCEPT !.known = FALSE, !.fresh = FALSE]]
TouchRow == rec' = Touched

Fault == faults < MaxFaults /\ faults' = faults + 1

\* candidateRequests: provenance first, the text[] column when it names none.
Requests ==
  LET named == {c \in Slots : params[c].id} IN IF named # {} THEN named ELSE sent

\* hasUnresolvedSubmitAcknowledgement
Unresolved == \E c \in Slots : params[c].st \in {"submitting", "uncertain"} /\ ~params[c].id

\* hasIncompleteCandidates
Incomplete == Cardinality(Requests) > Cardinality(urls) \/ Unresolved

Busy(w) == wk[w].at # "idle"
Go(w, s) == wk' = [wk EXCEPT ![w].at = s]

\* A continuation that returns, or dies: its payload is nobody's any more.
Leave(w) ==
  /\ wk' = [wk EXCEPT ![w] = Resting]
  /\ bind' = [c \in Slots |-> IF bind[c] = w THEN Old ELSE bind[c]]

(***************************************************************************)
(* The continuation                                                        *)
(***************************************************************************)
\* expires_at: an acceptance nobody committed is good for two hours and a quarter.
Committable == reservation = "accepted" /\ age < 2

\* claim_generation_preflight, read by the client's request, the face webhook
\* or the sweep; it goes on from 'accepted' until that expires and from 'committed' at any
\* time, whatever became of the row. What is past expires_at is left to ReleaseStale.
Begin(w) ==
  /\ ~Busy(w) /\ (Committable \/ reservation = "running")
  /\ Go(w, IF reservation = "accepted" THEN "accepted" ELSE "committed")
  /\ overlap' = (overlap \/ \E v \in Workers \ {w} : Busy(v))
  /\ UNCHANGED <<lease2, row, intents, fal, objects, rec, age, faults>>

\* commit_generation_preflight: a second caller with the same plan is told
\* 'committed' too, without a lease.
Commit(w) ==
  /\ wk[w].at = "accepted"
  /\ \/ /\ Committable
        /\ reservation' = "running" /\ holder' = w /\ TouchRow /\ Go(w, "prepare")
     \/ /\ reservation \in {"running", "submitted"} /\ Go(w, "prepare")
        /\ UNCHANGED <<lease2, rec>>
     \/ /\ ~Committable /\ reservation \in {"accepted", "expired"} /\ Go(w, "idle")
        /\ UNCHANGED <<lease2, rec>>
  /\ UNCHANGED <<row, intents, fal, objects, clock>>

\* claim_generation_preflight_continuation
ClaimContinuation(w) ==
  /\ wk[w].at = "committed"
  /\ \/ reservation = "running" /\ holder = None /\ holder' = w /\ Go(w, "prepare")
     \/ (reservation = "submitted" \/ holder # None) /\ Go(w, "idle") /\ UNCHANGED holder
  /\ UNCHANGED <<reservation, row, intents, fal, objects, rec, clock>>

\* get_generation_submit_preparation, after the face was put in place. A submission that is
\* planned gets a fresh payload; one that went further keeps the stored one.
Prepare(w) ==
  /\ wk[w].at = "prepare"
  /\ LET plan == {c \in Slots : intent[c] = "planned"}
         missing == \A c \in Slots : intent[c] = "none"
     IN  wk' = [wk EXCEPT ![w].left = Slots, ![w].plan = plan,
                  ![w].kept = IF missing THEN {} ELSE Slots \ plan,
                  ![w].at = IF missing THEN "presave" ELSE IF plan # {} THEN "rebind" ELSE "claim"]
  /\ UNCHANGED <<lease2, row, intents, fal, objects, rec, clock>>

\* The provenance is written over whatever gen_params holds by now.
Presave(w) ==
  /\ wk[w].at = "presave" /\ Go(w, "bind")
  /\ params' = [c \in Slots |-> Planned] /\ TouchRow
  /\ UNCHANGED <<lease2, status, sent, urls, cleaned, intents, fal, objects, clock>>

\* prepare_generation_submit_inputs: refused when another payload is bound.
Bind(w) ==
  /\ wk[w].at = "bind"
  /\ \/ /\ status = "queued" /\ \A c \in Slots : intent[c] = "none"
        /\ intent' = [c \in Slots |-> "planned"] /\ bind' = [c \in Slots |-> w]
        /\ Go(w, "claim") /\ TouchRow
     \/ /\ status # "queued" \/ \E c \in Slots : intent[c] # "none"
        /\ Leave(w) /\ UNCHANGED <<intent, rec>>
  /\ UNCHANGED <<lease2, row, output, sealed, fal, objects, clock>>

\* rebind_generation_submit_inputs: only while every planned intent still is.
Rebind(w) ==
  /\ wk[w].at = "rebind"
  /\ \/ /\ status = "queued" /\ wk[w].plan = {c \in Slots : intent[c] = "planned"}
        /\ bind' = [c \in Slots |-> IF c \in wk[w].plan THEN w ELSE bind[c]]
        /\ params' = [c \in Slots |-> IF c \in wk[w].plan
                                      THEN [params[c] EXCEPT !.st = "planned"] ELSE params[c]]
        /\ wk' = [wk EXCEPT ![w].at = "claim", ![w].plan = {}] /\ TouchRow
     \/ /\ status # "queued" \/ wk[w].plan # {c \in Slots : intent[c] = "planned"}
        /\ Leave(w) /\ UNCHANGED <<params, rec>>
  /\ UNCHANGED <<lease2, status, sent, urls, cleaned, intent, output, sealed, fal, objects,
                 clock>>

\* Defect: an uncertain submission may be claimed again.
ClaimableUncertain(c) == intent[c] \in {"planned", "uncertain"} /\ status = "queued"

Claimable(c) == intent[c] = "planned" /\ status = "queued"

\* The payload the continuation prepared is the one in the database.
Matches(w, c) == bind[c] = w \/ c \in wk[w].kept

\* claim_generation_submit_work, one candidate at a time: the permit for one POST.
Claim(w, c) ==
  /\ wk[w].at = "claim" /\ c \in wk[w].left
  /\ \A d \in Slots : intent[d] # "late_acknowledged"
  /\ \/ /\ Claimable(c)
        /\ intent' = [intent EXCEPT ![c] = "submitting"]
        /\ params' = [params EXCEPT ![c].st = "submitting"] /\ TouchRow
        /\ wk' = [wk EXCEPT ![w].left = @ \ {c},
                    ![w].mine = IF Matches(w, c) THEN @ \cup {c} ELSE @,
                    ![w].bad = @ \/ ~Matches(w, c)]
     \/ /\ ~Claimable(c)
        /\ wk' = [wk EXCEPT ![w].left = @ \ {c}, ![w].bad = @ \/ intent[c] = "planned",
                    ![w].settled = IF intent[c] = "planned" THEN @ ELSE @ \cup {c},
                    ![w].refused = IF intent[c] = "rejected" THEN @ \cup {c} ELSE @]
        /\ UNCHANGED <<intent, params, rec>>
  /\ UNCHANGED <<lease2, status, sent, urls, cleaned, bind, output, sealed, fal, objects, clock>>

\* An open reconciliation issue stops the continuation.
ManualReview(w) ==
  /\ wk[w].at = "claim" /\ wk[w].left # {}
  /\ \E d \in Slots : intent[d] = "late_acknowledged"
  /\ Leave(w)
  /\ UNCHANGED <<lease2, row, intent, output, sealed, fal, objects, rec, clock>>

\* submitPlan: every claimed candidate is posted once, in parallel. An answer that is
\* lost, or never came, is 'uncertain'; a definitive 4xx is 'rejected'.
Submit(w) ==
  /\ wk[w].at = "claim" /\ wk[w].left = {}
  /\ \E taken, refused, lost \in SUBSET wk[w].mine :
       /\ taken \cap refused = {} /\ lost \cap refused = {}
       /\ taken \cup refused \cup lost = wk[w].mine
       /\ IF lost = {} THEN UNCHANGED faults ELSE Fault
       /\ wk' = [wk EXCEPT ![w].at = "record", ![w].mine = {},
                   ![w].answer = [c \in Slots |-> IF c \in lost THEN "uncertain"
                                                  ELSE IF c \in refused THEN "rejected"
                                                  ELSE IF c \in taken THEN "acknowledged"
                                                  ELSE "none"]]
       /\ job' = [c \in Slots |-> IF c \in taken THEN "running" ELSE job[c]]
       /\ posts' = [c \in Slots |-> IF c \in taken THEN posts[c] + 1 ELSE posts[c]]
  /\ UNCHANGED <<lease2, row, intents, hook, objects, rec, age, overlap>>

\* Defect: a late acknowledgement is written into gen_params under its own name.
AcknowledgeLateToo(c) ==
  IF status # "queued" THEN
    /\ intent' = [intent EXCEPT ![c] = "late_acknowledged"]
    /\ params' = [params EXCEPT ![c].st = "late_acknowledged"] /\ UNCHANGED <<sent, rec>>
  ELSE
    /\ intent' = [intent EXCEPT ![c] = "acknowledged"]
    /\ params' = [params EXCEPT ![c] = [st |-> "acknowledged", id |-> TRUE]]
    /\ sent' = sent \cup {c} /\ TouchRow

\* record_generation_submit_outcome with a request id. An id of this candidate is
\* never another's, and a second id needs a second POST: no conflict arises.
Acknowledge(c) ==
  IF intent[c] \in {"acknowledged", "late_acknowledged"} THEN UNCHANGED <<intent, params, sent, rec>>
  ELSE IF status # "queued" THEN
    /\ intent' = [intent EXCEPT ![c] = "late_acknowledged"] /\ UNCHANGED <<params, sent, rec>>
  ELSE
    /\ intent' = [intent EXCEPT ![c] = "acknowledged"]
    /\ params' = [params EXCEPT ![c] = [st |-> "acknowledged", id |-> TRUE]]
    /\ sent' = sent \cup {c} /\ TouchRow

\* ... and without one.
Report(c, outcome) ==
  IF status # "queued" \/ intent[c] \in {"acknowledged", "late_acknowledged"}
  THEN UNCHANGED <<intent, params, sent, rec>>
  ELSE /\ intent' = [intent EXCEPT ![c] = outcome]
       /\ params' = [params EXCEPT ![c].st = outcome]
       /\ TouchRow /\ UNCHANGED sent

\* The continuation records what it was told; a call that fails leaves the candidate unsettled.
Record(w, c) ==
  /\ wk[w].at = "record" /\ wk[w].answer[c] # "none"
  /\ \/ /\ IF wk[w].answer[c] = "acknowledged" THEN Acknowledge(c)
           ELSE Report(c, wk[w].answer[c])
        /\ wk' = [wk EXCEPT ![w].answer[c] = "none",
                    ![w].settled = IF status = "queued" \/ wk[w].answer[c] = "acknowledged"
                                   THEN @ \cup {c} ELSE @,
                    ![w].refused = IF intent'[c] = "rejected" THEN @ \cup {c} ELSE @]
        /\ UNCHANGED faults
     \/ /\ Fault /\ wk' = [wk EXCEPT ![w].answer[c] = "none"]
        /\ UNCHANGED <<intent, params, sent, rec>>
  /\ UNCHANGED <<lease2, status, urls, cleaned, bind, output, sealed, fal, objects, age, overlap>>

Reported(w) == wk[w].at = "record" /\ \A c \in Slots : wk[w].answer[c] = "none"
Settled(w) == ~wk[w].bad /\ wk[w].settled = Slots

\* All refused: failed and refunded, whatever the row's version is. fal has no output to scrub.
AllRejected(w) ==
  /\ Reported(w) /\ Settled(w) /\ wk[w].refused = Slots
  /\ Leave(w)
  /\ IF status = "queued" THEN status' = "failed" /\ TouchRow ELSE UNCHANGED <<status, rec>>
  /\ UNCHANGED <<lease2, params, sent, urls, cleaned, intent, output, sealed, fal, objects, clock>>

\* complete_generation_preflight_continuation, or an end the sweep takes up again.
Finish(w) ==
  /\ Reported(w) /\ ~(Settled(w) /\ wk[w].refused = Slots)
  /\ Leave(w)
  /\ IF Settled(w) /\ reservation = "running" /\ holder = w
     THEN reservation' = "submitted" /\ holder' = None ELSE UNCHANGED lease2
  /\ UNCHANGED <<row, intent, output, sealed, fal, objects, rec, clock>>

Crash(w) ==
  /\ Busy(w) /\ Fault /\ Leave(w)
  /\ UNCHANGED <<lease2, row, intent, output, sealed, fal, objects, rec, age, overlap>>

\* A function lives 30 seconds at most, the lease two minutes.
LeaseEnds ==
  /\ holder # None /\ ~Busy(holder) /\ holder' = None
  /\ UNCHANGED <<reservation, row, intents, fal, objects, wk, rec, clock>>

\* release_stale_generation_preflights: an abandoned acceptance is refunded.
ReleaseStale ==
  /\ reservation = "accepted" /\ reservation' = "expired"
  /\ status' = "failed" /\ TouchRow
  /\ UNCHANGED <<holder, params, sent, urls, cleaned, intents, fal, objects, wk, clock>>

(***************************************************************************)
(* fal and its webhooks                                                    *)
(***************************************************************************)
\* A request ends with one image, or without any that may be shown.
Generate(c) ==
  /\ job[c] = "running" /\ hook' = [hook EXCEPT ![c] = "due"]
  /\ \E end \in {"image", "barren"} : job' = [job EXCEPT ![c] = end]
  /\ UNCHANGED <<lease2, row, intents, posts, objects, wk, rec, clock>>

\* POST /api/fal/webhook, first call: it acknowledges the submission.
Webhook(c) ==
  /\ hook[c] = "due" /\ Acknowledge(c)
  /\ hook' = [hook EXCEPT ![c] = IF job[c] = "image" /\ intent'[c] = "acknowledged"
                                 THEN "acked" ELSE "over"]
  /\ UNCHANGED <<lease2, status, urls, cleaned, bind, output, sealed, job, posts, objects, wk,
                 clock>>

\* Second call: record_generation_submit_provider_output.
WebhookOutput(c) ==
  /\ hook[c] = "acked" /\ hook' = [hook EXCEPT ![c] = "over"]
  /\ output' = IF sealed THEN output ELSE output \cup {c}
  /\ UNCHANGED <<lease2, row, intent, bind, sealed, job, posts, objects, wk, rec, clock>>

\* fal has retried for two hours.
WebhookLost(c) ==
  /\ hook[c] \in {"due", "acked"} /\ Fault /\ hook' = [hook EXCEPT ![c] = "over"]
  /\ UNCHANGED <<lease2, row, intents, job, posts, objects, wk, rec, age, overlap>>

(***************************************************************************)
(* Recovery, failure and expiry                                            *)
(***************************************************************************)
Listable(r) == rec[r].at = "idle" /\ reservation # "accepted"

Notes(r, at, force) ==
  rec' = [rec EXCEPT ![r] = [Away EXCEPT !.at = at, !.known = TRUE, !.force = force]]

\* A poll, or the sweep, lists a row worth recovering.
ListRecoverable(r) ==
  /\ Listable(r) /\ Requests # {} /\ age < 3
  /\ \/ status = "queued" /\ Notes(r, "look", ~Unresolved /\ age > 0)
     \/ status = "done" /\ Incomplete /\ Notes(r, "look", TRUE)
  /\ UNCHANGED <<lease2, row, intents, fal, objects, wk, clock>>

\* Defect: one deadline for every queued row.
DeadlineUniform == 1

\* Defect: a row that misses an acknowledgement is never overdue.
DeadlineNone == IF Unresolved THEN 4 ELSE 1

\* The deadline of a queued row: 200 minutes while an acknowledgement is missing, or 30.
Deadline == IF Unresolved THEN 2 ELSE 1

\* A poll past the deadline, or failStuckQueuedGenerations.
ListOverdue(r) ==
  /\ Listable(r) /\ status = "queued" /\ age >= Deadline /\ Notes(r, "failing", FALSE)
  /\ UNCHANGED <<lease2, row, intents, fal, objects, wk, clock>>

\* expireStaleDoneGenerations
ListExpired(r) ==
  /\ Listable(r) /\ status = "done" /\ age = 3 /\ Notes(r, "expiring", FALSE)
  /\ UNCHANGED <<lease2, row, intents, fal, objects, wk, clock>>

\* recoverQueuedGeneration up to its write lease: its own read of the row, the outputs
\* webhooks left, and fal's answers. Of the requests, "open" ones run or gave no answer,
\* "have" brought an image, "blank" are complete and their result could not be read.
Look(r) ==
  /\ rec[r].at = "look"
  /\ \E open, have, blank \in SUBSET Requests :
       /\ open \cap have = {} /\ open \cap blank = {} /\ have \cap blank = {}
       /\ output \cap Requests \subseteq have
       /\ \A c \in have : job[c] = "image"
       /\ \A c \in blank : job[c] # "running"
       /\ \A c \in Requests \ (open \cup have \cup blank) : job[c] = "barren"
       /\ LET force == rec[r].force
              wait == (open # {} \/ ~(blank \subseteq urls)) /\ ~force
              recoverable == status \in {"queued", "done"} /\ ~Unresolved
              nothing == have = {} /\ urls = {}
              next == IF ~recoverable \/ (wait /\ Requests # {}) THEN "idle"
                      ELSE IF Requests = {} \/ nothing \/ have \cup blank = {} THEN "failing"
                      ELSE IF have \subseteq urls THEN "publish" ELSE "lease"
          IN rec' = [rec EXCEPT ![r] =
               CASE next = "idle" -> Away
                 [] next = "failing" -> [Away EXCEPT !.at = next, !.known = rec[r].known]
                 [] OTHER -> [Away EXCEPT !.at = next, !.fresh = TRUE, !.urls = urls,
                                !.got = have \ urls, !.force = force /\ next = "lease"]]
  /\ UNCHANGED <<lease2, row, intents, fal, objects, wk, clock>>

Leasable(r) == rec[r].fresh /\ status \in {"queued", "done"}

\* claim_generation_artifact_write
TakeLease(r) ==
  /\ rec[r].at = "lease"
  /\ \/ /\ Leasable(r) /\ lease = None /\ lease' = r
        /\ rec' = [rec EXCEPT ![r].at = "copy"]
     \/ ~(Leasable(r) /\ lease = None) /\ rec' = [rec EXCEPT ![r] = Away] /\ UNCHANGED lease
  /\ UNCHANGED <<lease2, row, intents, fal, store, sweeper, wk, clock>>

\* copyCandidatesToStorage; some copies may fail.
Copy(r) ==
  /\ rec[r].at = "copy"
  /\ \E stored \in SUBSET rec[r].got :
       /\ store' = store \cup stored
       /\ LET short == (stored # rec[r].got /\ ~rec[r].force) \/ stored \cup rec[r].urls = {}
          IN  rec' = [rec EXCEPT ![r].got = stored, ![r].at = IF short THEN "drop" ELSE "release"]
  /\ UNCHANGED <<lease2, row, intents, fal, lease, sweeper, wk, clock>>

\* release_generation_artifact_write
Release(r) ==
  /\ rec[r].at \in {"drop", "release"}
  /\ lease' = IF lease = r THEN None ELSE lease
  /\ rec' = [rec EXCEPT ![r] = IF @.at = "drop" THEN Away ELSE [@ EXCEPT !.at = "publish", !.force = FALSE]]
  /\ UNCHANGED <<lease2, row, intents, fal, store, sweeper, wk, clock>>

\* The compare-and-set to 'done'.
Publish(r) ==
  /\ rec[r].at = "publish"
  /\ \/ /\ rec[r].fresh /\ status \in {"queued", "done"}
        /\ status' = "done" /\ urls' = rec[r].urls \cup rec[r].got
        /\ rec' = [Touched EXCEPT ![r] = [Away EXCEPT !.at = "seal"]]
     \/ /\ ~(rec[r].fresh /\ status \in {"queued", "done"})
        /\ rec' = [rec EXCEPT ![r] = [Away EXCEPT !.at = "lost"]] /\ UNCHANGED <<status, urls>>
  /\ UNCHANGED <<lease2, params, sent, cleaned, intents, fal, objects, wk, clock>>

\* Defect: every lost compare-and-set removes the objects.
AlwaysCompensates == TRUE

Compensates == status \in Terminal

\* The loser of the compare-and-set reads the row again; only when it is terminal are the
\* objects removed, and a removal that fails reopens the cleanup.
Lost(r) ==
  /\ rec[r].at = "lost"
  /\ \/ /\ Compensates /\ store' = {}
        /\ rec' = [rec EXCEPT ![r] = Away] /\ UNCHANGED <<cleaned, faults>>
     \/ /\ Compensates /\ Fault /\ cleaned' = FALSE
        /\ rec' = [Touched EXCEPT ![r] = Away] /\ UNCHANGED store
     \/ ~Compensates /\ rec' = [rec EXCEPT ![r] = Away] /\ UNCHANGED <<store, cleaned, faults>>
  /\ UNCHANGED <<lease2, status, params, sent, urls, intents, fal, lease, sweeper, wk, age,
                 overlap>>

\* mark_generation_failed_and_refund with the version of the listed row.
Fail(r) ==
  /\ rec[r].at = "failing"
  /\ \/ /\ rec[r].known /\ status = "queued" /\ status' = "failed"
        /\ rec' = [Touched EXCEPT ![r] = [Away EXCEPT !.at = "seal"]]
     \/ ~(rec[r].known /\ status = "queued") /\ rec' = [rec EXCEPT ![r] = Away] /\ UNCHANGED status
  /\ UNCHANGED <<lease2, params, sent, urls, cleaned, intents, fal, objects, wk, clock>>

\* expire_generation
Expire(r) ==
  /\ rec[r].at = "expiring"
  /\ \/ /\ rec[r].known /\ status = "done" /\ status' = "expired"
        /\ rec' = [Touched EXCEPT ![r] = Away]
     \/ ~(rec[r].known /\ status = "done") /\ rec' = [rec EXCEPT ![r] = Away] /\ UNCHANGED status
  /\ UNCHANGED <<lease2, params, sent, urls, cleaned, intents, fal, objects, wk, clock>>

\* scrub_generation_submit_provider_outputs
Seal(r) ==
  /\ rec[r].at = "seal" /\ rec' = [rec EXCEPT ![r] = Away]
  /\ output' = {} /\ sealed' = TRUE
  /\ UNCHANGED <<lease2, row, intent, bind, fal, objects, wk, clock>>

CrashRecoverer(r) ==
  /\ rec[r].at # "idle" /\ Fault /\ rec' = [rec EXCEPT ![r] = Away]
  /\ UNCHANGED <<lease2, row, intents, fal, objects, wk, age, overlap>>

\* A function lives 30 seconds at most, the write lease ten minutes.
WriteLeaseEnds ==
  /\ lease # None /\ rec[lease].at \notin {"copy", "drop", "release"} /\ lease' = None
  /\ UNCHANGED <<lease2, row, intents, fal, store, sweeper, wk, rec, clock>>

(***************************************************************************)
(* The pick, and the removal of what is left                               *)
(***************************************************************************)
\* commit_generation_pick: the doll has its own object by then.
Pick ==
  /\ status = "done" /\ urls # {} /\ status' = "picked" /\ TouchRow
  /\ UNCHANGED <<lease2, params, sent, urls, cleaned, intents, fal, objects, wk, clock>>

\* Defect: the removal does not wait for a writer.
NeverHeld == TRUE

Unheld == lease = None

\* begin_generation_artifact_cleanup
BeginCleanup ==
  /\ sweeper = "idle" /\ status \in Terminal /\ ~cleaned /\ Unheld
  /\ sweeper' = "remove"
  /\ UNCHANGED <<lease2, row, intents, fal, lease, store, wk, rec, clock>>

RemoveObjects ==
  /\ sweeper = "remove"
  /\ \/ store' = {} /\ sweeper' = "mark" /\ UNCHANGED faults
     \/ Fault /\ sweeper' = "idle" /\ UNCHANGED store
  /\ UNCHANGED <<lease2, row, intents, fal, lease, wk, rec, age, overlap>>

\* complete_generation_artifact_cleanup
MarkCleaned ==
  /\ sweeper = "mark" /\ sweeper' = "idle"
  /\ \/ Unheld /\ cleaned' = TRUE /\ urls' = {} /\ TouchRow
     \/ ~Unheld /\ UNCHANGED <<cleaned, urls, rec>>
  /\ UNCHANGED <<lease2, status, params, sent, intents, fal, lease, store, wk, clock>>

Tick ==
  /\ age < 3 /\ age' = age + 1
  /\ UNCHANGED <<lease2, row, intents, fal, objects, wk, rec, overlap, faults>>

Continuation(w) ==
  \/ Commit(w) \/ ClaimContinuation(w) \/ Prepare(w) \/ Presave(w) \/ Bind(w) \/ Rebind(w)
  \/ (\E c \in Slots : Claim(w, c) \/ Record(w, c))
  \/ ManualReview(w) \/ Submit(w) \/ AllRejected(w) \/ Finish(w)

Recovery(r) ==
  \/ Look(r) \/ TakeLease(r) \/ Copy(r) \/ Release(r) \/ Publish(r) \/ Lost(r)
  \/ Fail(r) \/ Expire(r) \/ Seal(r)

Fal(c) == Generate(c) \/ Webhook(c) \/ WebhookOutput(c)
Cleanup == BeginCleanup \/ RemoveObjects \/ MarkCleaned

Next ==
  \/ \E w \in Workers : Begin(w) \/ Continuation(w) \/ Crash(w)
  \/ \E r \in Recoverers :
       ListRecoverable(r) \/ ListOverdue(r) \/ ListExpired(r) \/ Recovery(r) \/ CrashRecoverer(r)
  \/ \E c \in Slots : Fal(c) \/ WebhookLost(c)
  \/ Cleanup \/ Pick \/ ReleaseStale \/ LeaseEnds \/ WriteLeaseEnds \/ Tick

Spec == Init /\ [][Next]_vars

\* Requests run to their end, the cron lists what is due, time passes.
FairSpec ==
  /\ Spec
  /\ \A w \in Workers : WF_vars(Continuation(w))
  /\ \A r \in Recoverers :
       /\ WF_vars(Recovery(r))
       /\ SF_vars(ListOverdue(r)) /\ SF_vars(ListExpired(r))
  /\ WF_vars(Cleanup) /\ WF_vars(ReleaseStale) /\ WF_vars(LeaseEnds)
  /\ WF_vars(WriteLeaseEnds) /\ WF_vars(Tick)

(***************************************************************************)
(* Properties                                                              *)
(***************************************************************************)
Submission == {"planned", "submitting", "uncertain", "acknowledged", "rejected"}

\* Every variable holds a value of its kind.
TypeOK ==
  /\ reservation \in {"accepted", "expired", "running", "submitted"}
  /\ holder \in Workers \cup {None} /\ lease \in Recoverers \cup {None}
  /\ status \in Terminal \cup {"queued", "done"}
  /\ params \in [Slots -> [st : Submission, id : BOOLEAN]]
  /\ {sent, urls, output, store} \subseteq SUBSET Slots /\ {cleaned, sealed} \subseteq BOOLEAN
  /\ intent \in [Slots -> Submission \cup {"none", "late_acknowledged"}]
  /\ bind \in [Slots -> Workers \cup {None, Old}]
  /\ job \in [Slots -> {"none", "running", "image", "barren"}]
  /\ posts \in [Slots -> Nat] /\ hook \in [Slots -> {"none", "due", "acked", "over"}]
  /\ sweeper \in {"idle", "remove", "mark"}
  /\ age \in 0 .. 3 /\ overlap \in BOOLEAN /\ faults \in 0 .. MaxFaults

\* However many continuations run at once, are resumed, or lose fal's answer, no candidate
\* is ever submitted to fal twice.
SubmittedOnce == \A c \in Slots : posts[c] <= 1

\* The images a finished generation offers are in storage until it is picked or expires,
\* whoever else was copying, lost the compare-and-set, or cleaned up.
OfferedImagesExist == status = "done" => urls \subseteq store

\* Once a generation is marked cleaned, no object of it is left and no writer that started
\* before can add one.
CleanedStaysEmpty == cleaned => store = {}

\* A submission fal may have taken and nobody has acknowledged.
Awaited(c) == intent[c] \in {"submitting", "uncertain"}

\* No credit is returned while a submission is unacknowledged, before the 200 minutes in
\* which fal may still call back - as far as one continuation runs at a time: a second one
\* that also saw 'accepted' writes its fresh provenance over a submission under way.
RefundWaitsUnlessOverlapping ==
  [][status = "queued" /\ status' = "failed" /\ age < 2 /\ ~overlap
       => \A c \in Slots : ~Awaited(c)]_vars

\* What an ended generation left in storage is removed for good.
EndedIsCleaned == <>[](cleaned /\ store = {})
=============================================================================
