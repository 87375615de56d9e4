----------------------------- MODULE OAuthFlow -----------------------------
(***************************************************************************)
(* Signing in with a provider and taking along what was played before: the *)
(* flow of one sign-in, the fence it puts on sessions, the transfer of an  *)
(* anonymous player's records at consent, and the job that keeps the       *)
(* anonymous Auth user until its records have a place.                     *)
(*                                                                         *)
(* An anonymous user stands for its one session.  The exchange of a        *)
(* provider's code makes a new session, named after its flow.              *)
(***************************************************************************)
EXTENDS Naturals, FiniteSets

CONSTANTS
  Anons,      \* anonymous Auth users
  Earlier,    \* those deleted before the model begins
  Flows,      \* sign-ins in the order of their rows, and the member sessions they make
  Targets,    \* users with a provider identity
  Workers, None,
  MaxFaults   \* crashes, early expiries and lost deletions of workers

ASSUME OAuthAssumption ==
  /\ Earlier \subseteq Anons /\ Flows \subseteq Nat
  /\ Anons \cap Flows = {} /\ None \notin Anons \cup Targets \cup Workers \cup Flows
  /\ MaxFaults \in Nat

VARIABLES
  flow,       \* oauth_flow_intents
  job,        \* oauth_anon_auth_cleanup_jobs, at most one of a flow
  live,       \* auth.sessions of members
  exists,     \* anonymous users that have not been deleted
  owns,       \* anonymous users with scores of their own
  receipt,    \* anon_data_reassignments
  shown,      \* what the public sees of an anonymous user's records
  member,     \* member_accounts
  withdrawn,  \* targets whose profile is deleted
  consent,    \* the consent request of each session
  worker,     \* what each cleanup worker remembers
  faults

records == <<exists, owns, receipt, shown>>
accounts == <<member, withdrawn>>
vars == <<flow, job, live, records, accounts, consent, worker, faults>>

\* ended: failed, cancelled, expired, abandoned, signed out, or revoked after completion.
\* released: the browser holds the session; moved, skipped: its migration was consumed.
States == {"none", "pending", "claimed", "signout_required", "signout_revoked",
           "completed", "released", "moved", "skipped", "ended"}

\* Since Begin: within ten minutes; later; a day after the release; after recover_until.
\* A flow of whose age nothing depends any more has forgotten it.
Ages == {"fresh", "lapsed", "day", "over"}
Statuses == {"none", "dormant", "quarantined", "pending", "leased", "completed", "scrubbed"}

Still == [at |-> "idle", flow |-> None]
NoJob == [status |-> "none", holder |-> None]
Blank == [state |-> "none", source |-> None, target |-> None, age |-> "fresh"]

TypeOK ==
  /\ flow \in [Flows -> [state : States, source : Anons \cup Flows \cup {None},
                         target : Targets \cup {None}, age : Ages]]
  /\ job \in [Flows -> [status : Statuses, holder : Workers \cup {None}]]
  /\ live \subseteq {f \in Flows : flow[f].target # None}
  /\ exists \subseteq Anons /\ owns \subseteq Anons
  /\ receipt \in [Anons -> Targets \cup {None}]
  /\ shown \in [Anons -> {"open", "hidden", "erased"}]
  /\ member \subseteq Targets /\ withdrawn \subseteq Targets
  /\ consent \in [Flows -> [at : {"idle", "found", "delete", "join"}, flow : Flows \cup {None}]]
  /\ worker \in [Workers -> [at : {"idle", "present", "missing", "delete", "giveback", "finish"},
                             flow : Flows \cup {None}]]
  /\ faults \in 0..MaxFaults

Init ==
  /\ flow = [f \in Flows |-> Blank]
  /\ job = [f \in Flows |-> NoJob]
  /\ live = {}
  /\ exists = Anons \ Earlier /\ owns = {}
  /\ receipt \in {r \in [Anons -> Targets \cup {None}] : \A s \in exists : r[s] = None}
  /\ \A t \in Targets : \A s, u \in Earlier : receipt[s] = t /\ receipt[u] = t => s = u
  /\ shown = [s \in Anons |-> "open"]
  /\ member \in SUBSET Targets /\ withdrawn = {}
  /\ consent = [f \in Flows |-> Still] /\ worker = [w \in Workers |-> Still]
  /\ faults = 0

-----------------------------------------------------------------------------
(* What the generated columns and the conditions of the code say.          *)

Is(f, states) == flow[f].state \in states
Anonymous(f) == flow[f].source \in Anons
Bound(f) == flow[f].target # None
Due(f) == flow[f].age # "fresh"

Active(f) == Is(f, {"pending", "claimed", "signout_required", "signout_revoked"})
Fenced(f) == Active(f) \/ Is(f, {"completed"})

\* The sessions a flow names.
Ends(f) == {flow[f].source} \cup (IF Bound(f) THEN {f} ELSE {})

Kept(f) == job[f].status \in {"dormant", "quarantined"}
Promised(f) == Anonymous(f) /\ job[f].status \notin {"none", "completed"}
Become(f, state) == flow' = [flow EXCEPT ![f].state = state]
Put(f, status) == job' = [job EXCEPT ![f] = [status |-> status, holder |-> None]]

\* A flow that ends gives a dormant source free.
Free(f) == [job EXCEPT ![f] = IF job[f].status = "dormant" THEN [@ EXCEPT !.status = "completed"] ELSE @]
Ended(f) == [Blank EXCEPT !.state = "ended", !.target = flow[f].target]
End(f) == flow' = [flow EXCEPT ![f] = Ended(f)] /\ job' = Free(f)

Expirable(f) == Due(f) /\ (Is(f, {"pending"}) \/ (Is(f, {"claimed"}) /\ ~Bound(f)))
Revocable(f) == Bound(f) /\ Is(f, {"claimed", "signout_required", "signout_revoked", "completed"})

-----------------------------------------------------------------------------
(* The sign-in.                                                            *)

\* Defect: only sessions are looked at, and a release takes their fence away.
SourceFreeOnceReleased(s) == s \in exists

\* A source that another flow still keeps may not start over.
SourceFree(s) ==
  s \in exists /\ \A g \in Flows : flow[g].source = s => job[g].status = "completed"

\* A pending flow of the same session whose lease is over is expired on the way; that of
\* an anonymous session has refused already, by its job.
Begin(f, x) ==
  LET stale(g) == flow[g].source = x /\ Is(g, {"pending"}) /\ Due(g) IN
  /\ Is(f, {"none"}) /\ \A g \in Flows : g < f => ~Is(g, {"none"})
  /\ x # f
  /\ IF x \in Anons THEN SourceFree(x) ELSE x \in live
  /\ \A g \in Flows : ~stale(g) => ~(Fenced(g) /\ x \in Ends(g))
  /\ flow' = [g \in Flows |->
                IF g = f THEN [flow[f] EXCEPT !.state = "pending", !.source = x]
                ELSE IF stale(g) THEN Ended(g) ELSE flow[g]]
  /\ job' = [job EXCEPT ![f].status = IF x \in Anons THEN "dormant" ELSE "none"]
  /\ UNCHANGED <<live, records, accounts, consent, worker, faults>>

Quiet == UNCHANGED <<records, accounts, consent, worker, faults>>

Preflight(f) ==
  /\ Is(f, {"pending"}) /\ ~Due(f)
  /\ Become(f, "claimed")
  /\ UNCHANGED <<job, live>> /\ Quiet

Cancel(f) ==
  /\ Is(f, {"pending"})
  /\ End(f) /\ UNCHANGED live /\ Quiet

Expire(f) ==
  /\ Expirable(f)
  /\ End(f) /\ UNCHANGED live /\ Quiet

\* Defect: the session is made and the flow not told.
BindUnrecorded(f, t) ==
  /\ Is(f, {"claimed"}) /\ ~Bound(f) /\ ~Due(f)
  /\ live' = live \cup {f}
  /\ UNCHANGED <<flow, job>> /\ Quiet

\* The exchange makes a session no flow can know yet.
Bind(f, t) ==
  /\ Is(f, {"claimed"}) /\ ~Bound(f) /\ ~Due(f)
  /\ flow' = [flow EXCEPT ![f].target = t]
  /\ live' = live \cup {f}
  /\ UNCHANGED job /\ Quiet

\* The profile that decides between the two was read before the call.
Finalize(f, state) ==
  /\ Is(f, {"claimed"}) /\ f \in live
  /\ Become(f, state)
  /\ UNCHANGED <<job, live>> /\ Quiet

FinalizeFailed(f) ==
  /\ Is(f, {"claimed"}) /\ ~Bound(f)
  /\ End(f) /\ UNCHANGED live /\ Quiet

\* The route has GoTrue end the session before (EndSession), and calls only if that was done.
ConfirmSignout(f) ==
  /\ Is(f, {"signout_required"}) /\ f \notin live
  /\ Become(f, "signout_revoked")
  /\ UNCHANGED <<job, live>> /\ Quiet

CompleteSignout(f) ==
  /\ Is(f, {"signout_revoked"})
  /\ End(f) /\ UNCHANGED live /\ Quiet

EndBound(f) ==
  /\ \A g \in Flows \ {f} : ~(Fenced(g) /\ f \in Ends(g))
  /\ End(f) /\ live' = live \ {f}

Revoke(f) == Revocable(f) /\ EndBound(f) /\ Quiet

-----------------------------------------------------------------------------
(* The fate of the records.                                                *)

Skip(f) ==
  /\ Become(f, "skipped") /\ Put(f, "quarantined")
  /\ shown' = [shown EXCEPT ![flow[f].source] = "hidden"]
  /\ UNCHANGED <<exists, owns, receipt>>

Release(f) ==
  /\ Is(f, {"completed"}) /\ f \in live
  /\ IF Anonymous(f) /\ flow[f].target \in member
     THEN Skip(f)
     ELSE /\ flow' = [flow EXCEPT ![f].state = "released", ![f].age = IF Anonymous(f) THEN @ ELSE "fresh"]
          /\ UNCHANGED <<job, records>>
  /\ UNCHANGED <<live, accounts, consent, worker, faults>>

Step(x, at, f) == consent' = [consent EXCEPT ![x] = [at |-> at, flow |-> f]]

\* The session asks for the flow the page names, or for the one that is its own.
FindFlow(x, f) ==
  /\ consent[x].at = "idle" /\ x \in live /\ flow[x].target \notin withdrawn
  /\ Is(f, {"released", "moved", "skipped"}) /\ Anonymous(f)
  /\ flow[f].target = flow[x].target
  /\ x # f /\ Is(f, {"released"}) => flow[f].age # "over"
  /\ Step(x, "found", f)
  /\ UNCHANGED <<flow, job, live, records, accounts, worker, faults>>

\* A flow still to be consumed whose session this is, or that this session may recover.
Own(x, f) ==
  /\ x \in Ends(f)
  /\ Fenced(f) \/ (Is(f, {"released"}) /\ Anonymous(f))
Recoverable(x, f) ==
  Is(f, {"released"}) /\ Anonymous(f) /\ flow[f].age # "over"
  /\ flow[f].target = flow[x].target

FindNone(x) ==
  /\ consent[x].at = "idle" /\ x \in live /\ flow[x].target \notin withdrawn
  /\ \A f \in Flows : ~Own(x, f) /\ ~Recoverable(x, f)
  /\ Step(x, "join", None)
  /\ UNCHANGED <<flow, job, live, records, accounts, worker, faults>>

\* Reasons to leave the records where they are; those about the source never apply.
Taken(f) ==
  \/ flow[f].target \in member
  \/ \E s \in Anons \ {flow[f].source} : receipt[s] = flow[f].target

Transfer(f) ==
  LET s == flow[f].source IN
  /\ flow' = [flow EXCEPT ![f].state = "moved", ![f].age = "fresh"] /\ Put(f, "pending")
  /\ receipt' = [receipt EXCEPT ![s] = flow[f].target]
  /\ owns' = owns \ {s}
  /\ shown' = [shown EXCEPT ![s] = "open"]
  /\ UNCHANGED exists

\* What the answer to a consumed flow says: delete the source, or leave it.
After(f) == IF Is(f, {"moved"}) THEN "delete" ELSE "join"

Replay(x) ==
  LET f == consent[x].flow IN
  /\ consent[x].at = "found" /\ Is(f, {"moved", "skipped"})
  /\ Step(x, After(f), IF Is(f, {"moved"}) THEN f ELSE None)
  /\ UNCHANGED <<flow, job, live, records, accounts, worker, faults>>

Consume(x) ==
  LET f == consent[x].flow IN
  /\ consent[x].at = "found" /\ Is(f, {"released"})
  /\ x \in live /\ flow[f].target \notin withdrawn /\ flow[f].age # "over"
  /\ IF Taken(f) THEN Skip(f) /\ Step(x, "join", None) ELSE Transfer(f) /\ Step(x, "delete", f)
  /\ UNCHANGED <<live, accounts, worker, faults>>

\* trg_auth_users_fence_oauth_retained_anon_delete
Deletable(s) ==
  \A f \in Flows : flow[f].source = s => job[f].status \notin {"dormant", "quarantined", "scrubbed"}

\* The route deletes the source at once; its answer may get lost.
Remove(x) ==
  LET f == consent[x].flow IN
  /\ consent[x].at = "delete" /\ Deletable(flow[f].source)
  /\ exists' = exists \ {flow[f].source}
  /\ \/ Step(x, "join", None)
     \/ Step(x, "idle", None)
  /\ UNCHANGED <<flow, job, live, owns, receipt, shown, accounts, worker, faults>>

Join(x) ==
  /\ consent[x].at = "join" /\ flow[x].target \notin withdrawn
  /\ member' = member \cup {flow[x].target}
  /\ Step(x, "idle", None)
  /\ UNCHANGED <<flow, job, live, records, withdrawn, worker, faults>>

\* The request fails or its process dies.
Drop(x) ==
  /\ consent[x].at # "idle"
  /\ Step(x, "idle", None)
  /\ UNCHANGED <<flow, job, live, records, accounts, worker, faults>>

-----------------------------------------------------------------------------
(* Players, administrators and time.                                       *)

\* Defect: the receipt is not looked at.
MayPlayOn(s) == s \in exists /\ shown[s] = "open"

\* submit_score refuses a source whose records have moved or are hidden.
MayPlay(s) == s \in exists /\ shown[s] = "open" /\ receipt[s] = None

Play(s) ==
  /\ MayPlay(s) /\ s \notin owns
  /\ owns' = owns \cup {s}
  /\ UNCHANGED <<flow, job, live, exists, receipt, shown, accounts, consent, worker, faults>>

Withdraw(t) ==
  /\ t \notin withdrawn
  /\ withdrawn' = withdrawn \cup {t}
  /\ UNCHANGED <<flow, job, live, records, member, consent, worker, faults>>

Reactivate(t) ==
  /\ t \in withdrawn /\ t \in member
  /\ withdrawn' = withdrawn \ {t}
  /\ UNCHANGED <<flow, job, live, records, member, consent, worker, faults>>

EndSession(x) ==
  /\ x \in live
  /\ live' = live \ {x}
  /\ UNCHANGED <<flow, job, records, accounts, consent, worker, faults>>

Later(f) ==
  CASE flow[f].age = "fresh" -> {"lapsed"}
    [] flow[f].age = "lapsed" -> IF Is(f, {"released"}) THEN {"day", "over"} ELSE {"over"}
    [] OTHER -> {"over"}

Tick(f) ==
  /\ Active(f) \/ Kept(f)
  /\ flow[f].age # "over"
  /\ \E age \in Later(f) : flow' = [flow EXCEPT ![f].age = age]
  /\ UNCHANGED <<job, live, records, accounts, consent, worker, faults>>

-----------------------------------------------------------------------------
(* prune_oauth_flow_intents: what was read as a candidate is read again    *)
(* under its locks.                                                        *)

\* Defect: the session of the sign-in is not looked at.
DesertedByDate(f) ==
  job[f].status = "dormant" /\ Is(f, {"released"}) /\ flow[f].age \in {"day", "over"}

\* The day of grace is over and the session of the sign-in is gone.
Deserted(f) ==
  /\ job[f].status = "dormant" /\ Is(f, {"released"})
  /\ flow[f].age \in {"day", "over"} /\ f \notin live

Lost(f) == flow[f].target \in withdrawn \/ flow[f].age = "over"

Scrub(f) ==
  /\ flow' = [flow EXCEPT ![f].state = "skipped", ![f].age = "fresh"]
  /\ Put(f, "scrubbed")
  /\ shown' = [shown EXCEPT ![flow[f].source] = "erased"]
  /\ UNCHANGED <<exists, owns, receipt>>

Quarantine(f) ==
  /\ Put(f, "quarantined")
  /\ shown' = [shown EXCEPT ![flow[f].source] = "hidden"]
  /\ UNCHANGED <<flow, exists, owns, receipt>>

PrunePrivacy(f) ==
  /\ Kept(f) /\ Is(f, {"released", "skipped"})
  /\ IF Lost(f) THEN Scrub(f) ELSE Deserted(f) /\ Quarantine(f)
  /\ UNCHANGED <<live, accounts, consent, worker, faults>>

PruneRevoke(f) ==
  /\ Due(f) /\ Revocable(f) /\ ~Is(f, {"completed"})
  /\ EndBound(f) /\ Quiet

-----------------------------------------------------------------------------
(* The workers that delete the anonymous Auth users.                       *)

Set(w, at, f) == worker' = [worker EXCEPT ![w] = [at |-> at, flow |-> f]]
At(w, at) == worker[w].at = at
Source(w) == flow[worker[w].flow].source
Holds(w) ==
  At(w, "idle") \/ (job[worker[w].flow].status = "leased" /\ job[worker[w].flow].holder = w)
Fault == faults < MaxFaults /\ faults' = faults + 1
Working(v, f) == worker[v].at # "idle" /\ worker[v].flow = f

\* Defect: only pending jobs are claimed.
ClaimPending(w, f) ==
  /\ At(w, "idle") /\ job[f].status = "pending"
  /\ job' = [job EXCEPT ![f] = [status |-> "leased", holder |-> w]]
  /\ Set(w, IF flow[f].source \in exists THEN "present" ELSE "missing", f)
  /\ UNCHANGED <<flow, live, records, accounts, consent, faults>>

\* A lease ends by itself; that it ends before its worker does is a fault.
Claim(w, f) ==
  /\ At(w, "idle")
  /\ \/ job[f].status = "pending" /\ UNCHANGED faults
     \/ job[f].status = "leased" /\ ~Working(job[f].holder, f) /\ UNCHANGED faults
     \/ job[f].status = "leased" /\ Working(job[f].holder, f) /\ Fault
  /\ job' = [job EXCEPT ![f] = [status |-> "leased", holder |-> w]]
  /\ Set(w, IF flow[f].source \in exists THEN "present" ELSE "missing", f)
  /\ UNCHANGED <<flow, live, records, accounts, consent>>

\* GoTrue's answer, compared with the table under the lease.
Verdict(w) ==
  CASE Source(w) \in exists /\ At(w, "present") -> "delete"
    [] Source(w) \notin exists /\ At(w, "missing") -> "finish"
    [] OTHER -> "giveback"

Verify(w) ==
  /\ worker[w].at \in {"present", "missing"}
  /\ IF Holds(w) THEN Set(w, Verdict(w), worker[w].flow) ELSE Set(w, "idle", None)
  /\ UNCHANGED <<flow, job, live, records, accounts, consent, faults>>

\* The answer is ignored: the user may be gone or not.
Delete(w) ==
  /\ At(w, "delete")
  /\ \/ Deletable(Source(w)) /\ exists' = exists \ {Source(w)} /\ UNCHANGED faults
     \/ Fault /\ UNCHANGED exists
  /\ Set(w, "finish", worker[w].flow)
  /\ UNCHANGED <<flow, job, live, owns, receipt, shown, accounts, consent>>

Finish(w) ==
  /\ worker[w].at \in {"finish", "giveback"}
  /\ IF ~Holds(w) THEN UNCHANGED job
     ELSE IF At(w, "finish") /\ Source(w) \notin exists THEN Put(worker[w].flow, "completed")
     ELSE Put(worker[w].flow, "pending")
  /\ Set(w, "idle", None)
  /\ UNCHANGED <<flow, live, records, accounts, consent, faults>>

Crash(w) ==
  /\ ~At(w, "idle") /\ Fault
  /\ Set(w, "idle", None)
  /\ UNCHANGED <<flow, job, live, records, accounts, consent>>

Work(w) == (\E f \in Flows : Claim(w, f)) \/ Verify(w) \/ Delete(w) \/ Finish(w)

-----------------------------------------------------------------------------
Next ==
  \/ \E f \in Flows : \E x \in Anons \cup Flows : Begin(f, x)
  \/ \E f \in Flows : \E t \in Targets : Bind(f, t)
  \/ \E f \in Flows : Preflight(f) \/ Cancel(f) \/ Expire(f) \/ FinalizeFailed(f)
  \/ \E f \in Flows : \E state \in {"completed", "signout_required"} : Finalize(f, state)
  \/ \E f \in Flows : ConfirmSignout(f) \/ CompleteSignout(f) \/ Revoke(f) \/ Release(f)
  \/ \E x, f \in Flows : FindFlow(x, f)
  \/ \E x \in Flows : FindNone(x) \/ Replay(x) \/ Consume(x) \/ Remove(x) \/ Join(x) \/ Drop(x)
  \/ \E s \in Anons : Play(s)
  \/ \E t \in Targets : Withdraw(t) \/ Reactivate(t)
  \/ \E f \in Flows : EndSession(f) \/ Tick(f) \/ PrunePrivacy(f) \/ PruneRevoke(f)
  \/ \E w \in Workers : Work(w) \/ Crash(w)

Spec == Init /\ [][Next]_vars

\* Time, the prune of every maintenance run and the workers go on; nobody else has to.
Fairness ==
  /\ \A f \in Flows : WF_vars(Tick(f) \/ Expire(f) \/ PrunePrivacy(f) \/ PruneRevoke(f))
  /\ \A w \in Workers : WF_vars(Work(w))

FairSpec == Spec /\ Fairness

-----------------------------------------------------------------------------
(* Properties.                                                             *)

\* A session is named by at most one unfinished sign-in, and an anonymous user's
\* records are promised to at most one: neither two tabs nor a second sign-in after
\* the fence of the first is gone can make two of them wait for the same records.
OneSignIn ==
  /\ \A f, g \in Flows : f # g /\ Fenced(f) /\ Fenced(g) => Ends(f) \cap Ends(g) = {}
  /\ \A f, g \in Flows : f # g /\ Promised(f) /\ Promised(g) => flow[f].source # flow[g].source

\* An anonymous Auth user is deleted only when its records have moved, and none are
\* made in its name afterwards.
DeletedLeavesNothing ==
  \A s \in Anons \ exists : s \notin owns /\ shown[s] = "open" /\ (s \notin Earlier => receipt[s] # None)

\* Records wait for their member: they disappear from view only if the account had
\* records of its own or left, if the month is over, or if the session of the sign-in
\* is gone a day after it was handed over; and what has moved is never taken back.
RecordsWait ==
  [][\A f \in Flows : Promised(f) =>
       LET s == flow[f].source IN
         /\ shown[s] = "open" /\ shown'[s] # "open" =>
              \/ Taken(f) \/ Lost(f)
              \/ Is(f, {"released"}) /\ f \notin live /\ flow[f].age = "day"
         /\ receipt[s] # None => receipt'[s] = receipt[s] /\ shown'[s] = "open"]_vars

\* Every sign-in that is begun ends or completes, and the anonymous user left behind by
\* one that the browser has taken over is in the end deleted, erased or free again.
Unsettled(f) ==
  \/ Active(f)
  \/ Is(f, {"released", "moved", "skipped"}) /\ Anonymous(f) /\ job[f].status \notin {"completed", "scrubbed"}
SignInSettles == \A f \in Flows : []<>~Unsettled(f)
=============================================================================
