-------------------------- MODULE ScoreSubmission --------------------------
(***************************************************************************)
(* One browser's finished games on their way to the scores table: the      *)
(* durable outbox shared by its tabs, the result screen and the replay at  *)
(* page load, POST /api/score with its three RPCs, and the sign-in that    *)
(* moves an anonymous player's scores to a member.  A game is named by the *)
(* submission id its result screen minted.                                 *)
(***************************************************************************)
EXTENDS Naturals, FiniteSets

CONSTANTS
  Tabs,
  Requests,    \* POSTs that may be under way at once
  Games,
  Anon, Mem,   \* the anonymous user and the member this browser signs in as
  None,
  Memberships, \* whether Mem may already be a member when the browser comes
  Closable,    \* the users whose profile may be deleted: a bound of the runs
  Unforeseen,  \* whether the core may fail with an error it does not name: a bound
  MaxAttempts, \* SCORE_SUBMISSION_MAX_AUTO_ATTEMPTS
  MaxEntries   \* SCORE_OUTBOX_MAX_ENTRIES

ASSUME ScoreAssumption ==
  /\ Anon # Mem /\ None \notin {Anon, Mem}
  /\ Memberships \subseteq BOOLEAN /\ Closable \subseteq {Anon, Mem} /\ Unforeseen \in BOOLEAN
  /\ MaxAttempts \in Nat \ {0} /\ MaxEntries \in Nat \ {0}

Owners == {Anon, Mem}
Entries == Owners \X Games   \* an outbox key: owner and submission id

VARIABLES
  session,    \* the user of the browser's session cookie
  flow,       \* the OAuth flow: none, running, exchanged, signed
  member,     \* Mem has a member_accounts row
  receipt,    \* anon_data_reassignments has moved Anon to Mem
  banned,
  doll,       \* Mem's doll: none, alive, deleted, or restored since
  profile,    \* of each user: active, deleted, or restored since
  games,      \* and whether a page submitted one under another session than its own
  scores,     \* rows by submission_origin_owner_id and submission_id
  reported,   \* origins and games with a score_stats row
  attempts,   \* public_write_attempts by user, origin and game
  outbox,     \* localStorage, shared by the tabs
  persisted,  \* every key that was ever written to the outbox
  doc,        \* the user a tab's page was bootstrapped with, None while it loads
  hook,       \* useScoreSubmission of a tab's result screen
  drain,      \* drainScoreSubmissionOutbox of a tab
  reqs

account == <<session, flow, member, receipt, banned, doll, profile>>
table == <<scores, reported, attempts>>
store == <<outbox, persisted>>
page == <<doc, hook, drain>>
vars == <<account, games, table, store, page, reqs>>

NoGame == [by |-> None, linked |-> FALSE, asMember |-> FALSE, doll |-> FALSE, stale |-> FALSE]
NoScore == [owner |-> None, status |-> "none", linked |-> FALSE]
NoHook == [game |-> None, owner |-> None, tries |-> 0, at |-> "off"]
Idle == [tries |-> 0, at |-> "off"]
NoDrain == [e \in Entries |-> Idle]
NoRequest == [tab |-> None, owner |-> None, game |-> None, acting |-> None, user |-> None,
              linked |-> FALSE, doll |-> FALSE, live |-> FALSE, pc |-> "free"]

HookStates == {"off", "due", "resolved", "waiting", "failed"}
DrainStates == {"off", "due", "waiting", "failed"}
Answers == {"ok", "retryable", "rejected"}
\* A failed attempt keeps its error code: of what the core raised, or of anything else.
AttemptStates == {"none", "reserved", "succeeded", "failed", "internal_error"}
RequestSteps == {"free", "sent", "checked", "reserved", "stored"} \cup Answers

TypeOK ==
  /\ session \in Owners /\ flow \in {"none", "running", "exchanged", "signed"}
  /\ {member, receipt, banned} \subseteq BOOLEAN
  /\ doll \in {"none", "alive", "deleted", "restored"}
  /\ profile \in [Owners -> {"active", "deleted", "restored"}]
  /\ games \in [Games -> [by : Owners \cup {None}, linked : BOOLEAN, asMember : BOOLEAN,
                        doll : BOOLEAN, stale : BOOLEAN]]
  /\ scores \in [Owners -> [Games -> [owner : Owners \cup {None},
                                      status : {"none", "registered", "voided"}, linked : BOOLEAN]]]
  /\ reported \subseteq Entries
  /\ attempts \in [Owners -> [Owners -> [Games -> AttemptStates]]]
  /\ outbox \subseteq persisted /\ persisted \subseteq Entries
  /\ doc \in [Tabs -> Owners \cup {None}]
  /\ hook \in [Tabs -> [game : Games \cup {None}, owner : Owners \cup {None},
                        tries : 0..MaxAttempts, at : HookStates]]
  /\ drain \in [Tabs -> [Entries -> [tries : 0..MaxAttempts, at : DrainStates]]]
  /\ reqs \in [Requests -> [tab : Tabs \cup {None}, owner : Owners \cup {None},
                            game : Games \cup {None}, acting : Owners \cup {None},
                            user : Owners \cup {None}, linked : BOOLEAN, doll : BOOLEAN,
                            live : BOOLEAN, pc : RequestSteps]]

Init ==
  /\ session = Anon /\ flow = "none"
  /\ member \in Memberships
  /\ receipt = FALSE /\ banned = FALSE
  /\ doll = (IF member THEN "alive" ELSE "none")
  /\ profile = [u \in Owners |-> "active"]
  /\ games = [g \in Games |-> NoGame]
  /\ scores = [o \in Owners |-> [g \in Games |-> NoScore]]
  /\ reported = {}
  /\ attempts = [u \in Owners |-> [o \in Owners |-> [g \in Games |-> "none"]]]
  /\ outbox = {} /\ persisted = {}
  /\ doc = [t \in Tabs |-> None]
  /\ hook = [t \in Tabs |-> NoHook]
  /\ drain = [t \in Tabs |-> NoDrain]
  /\ reqs = [r \in Requests |-> NoRequest]

-----------------------------------------------------------------------------
\* While a flow's barrier is in localStorage no page reads its session.
Barrier == flow \in {"running", "exchanged"}

DollAlive == doll \in {"alive", "restored"}
Deleted(u) == profile[u] = "deleted"

(* The page: bootstrap, reconciliation of its session, the result screen.  *)

\* The abort of a page's mutations: its requests go on without it.
Orphan(t) ==
  reqs' = [r \in Requests |->
             IF reqs[r].tab # t THEN reqs[r]
             ELSE IF reqs[r].pc \in Answers THEN NoRequest
             ELSE [reqs[r] EXCEPT !.live = FALSE, !.tab = None]]

\* SessionBootstrap: a stable session, then the replay of the outbox.
Boot(t) ==
  /\ doc[t] = None /\ ~Barrier
  /\ doc' = [doc EXCEPT ![t] = session]
  /\ drain' = [drain EXCEPT ![t] =
                 [e \in Entries |-> [tries |-> 0, at |-> IF e \in outbox THEN "due" ELSE "off"]]]
  /\ UNCHANGED <<account, games, table, store, hook, reqs>>

\* Another user in the session, found by a check that a focus or a hint of
\* another tab started, aborts the page's mutations and reloads it; so may the
\* player.  Until then the page acts for the user it was bootstrapped with.
Reload(t) ==
  /\ doc[t] # None
  /\ doc' = [doc EXCEPT ![t] = None]
  /\ hook' = [hook EXCEPT ![t] = NoHook]
  /\ drain' = [drain EXCEPT ![t] = NoDrain]
  /\ Orphan(t)
  /\ UNCHANGED <<account, games, table, store>>

\* The result screen opens; its telemetry session, if one was stored, is
\* bound to the user who played.
Play(t, g) ==
  /\ doc[t] # None /\ games[g] = NoGame
  /\ hook[t].at # "resolved"
  /\ \E linked \in BOOLEAN, played \in BOOLEAN :
       /\ played => session = Mem /\ member /\ DollAlive
       /\ games' = [games EXCEPT ![g] = [by |-> session, linked |-> linked, doll |-> played, stale |-> FALSE,
                                         asMember |-> session = Mem /\ member]]
  /\ hook' = [hook EXCEPT ![t] = [game |-> g, owner |-> None, tries |-> 0, at |-> "due"]]
  /\ UNCHANGED <<account, table, store, doc, drain, reqs>>

\* Defect: the timer goes on after the last attempt.
ResolveOwnerUnbounded(t) ==
  /\ hook[t].at \in {"due", "failed"}
  /\ hook' = [hook EXCEPT ![t].tries = @ + 1, ![t].at = "resolved", ![t].owner = session]
  /\ UNCHANGED <<account, games, table, store, doc, drain, reqs>>

\* resolveOwnerId: the session as the cookie has it now, refused while an
\* OAuth flow holds its barrier.
ResolveOwner(t) ==
  /\ hook[t].at = "due" /\ hook[t].tries < MaxAttempts
  /\ hook' = [hook EXCEPT ![t].tries = @ + 1,
                          ![t].at = IF Barrier THEN "failed" ELSE "resolved",
                          ![t].owner = IF Barrier THEN @ ELSE session]
  /\ UNCHANGED <<account, games, table, store, doc, drain, reqs>>

\* The timer of scoreSubmissionRetryDelayMs, which the last attempt lacks.
RetryTimer(t) ==
  /\ hook[t].at = "failed" /\ hook[t].tries < MaxAttempts
  /\ hook' = [hook EXCEPT ![t].at = "due"]
  /\ UNCHANGED <<account, games, table, store, doc, drain, reqs>>

\* retrySubmission: the player's button starts the count again.
RetryByPlayer(t) ==
  /\ hook[t].at = "failed"
  /\ hook' = [hook EXCEPT ![t].at = "due", ![t].tries = 0]
  /\ UNCHANGED <<account, games, table, store, doc, drain, reqs>>

DrainTimer(t, e) ==
  /\ drain[t][e].at = "failed" /\ drain[t][e].tries < MaxAttempts
  /\ drain' = [drain EXCEPT ![t][e].at = "due"]
  /\ UNCHANGED <<account, games, table, store, doc, hook, reqs>>

-----------------------------------------------------------------------------
(* submitScoreWithOutbox: write before send, one request per key.          *)

Full == Cardinality(outbox) >= MaxEntries

InFlight(t, o, g, acting) ==
  \E r \in Requests : /\ reqs[r].live /\ reqs[r].tab = t
                      /\ <<reqs[r].owner, reqs[r].game, reqs[r].acting>> = <<o, g, acting>>

\* The POST carries the cookie of the moment; the entry's owner goes along as
\* a header when the acting user is another.
Send(t, o, g, acting) ==
  IF InFlight(t, o, g, acting) THEN UNCHANGED reqs
  ELSE \E r \in Requests :
         /\ reqs[r].pc = "free"
         /\ reqs' = [reqs EXCEPT ![r] = [tab |-> t, owner |-> o, game |-> g, acting |-> acting,
                                         user |-> session, linked |-> FALSE, doll |-> FALSE,
                                         live |-> TRUE, pc |-> "sent"]]

Persist(t, o, g) ==
  /\ outbox' = outbox \cup {<<o, g>>}
  /\ persisted' = persisted \cup {<<o, g>>}
  /\ games' = [games EXCEPT ![g].stale = @ \/ doc[t] # session]

HookSubmit(t) ==
  LET o == hook[t].owner
      g == hook[t].game IN
  /\ hook[t].at = "resolved"
  /\ \/ /\ <<o, g>> \notin outbox /\ Full
        /\ hook' = [hook EXCEPT ![t].at = "failed", ![t].owner = None]
        /\ UNCHANGED <<games, store, reqs>>
     \/ /\ <<o, g>> \in outbox \/ ~Full
        /\ Persist(t, o, g)
        /\ hook' = [hook EXCEPT ![t].at = "waiting"]
        /\ Send(t, o, g, o)
  /\ UNCHANGED <<account, table, doc, drain>>

\* The entry as it was read at page load: one that is gone is written again.
DrainSubmit(t, e) ==
  /\ drain[t][e].at = "due"
  /\ \/ /\ e \notin outbox /\ Full
        /\ drain' = [drain EXCEPT ![t][e] = [tries |-> @.tries + 1, at |-> "failed"]]
        /\ UNCHANGED <<games, store, reqs>>
     \/ /\ e \in outbox \/ ~Full
        /\ Persist(t, e[1], e[2])
        /\ drain' = [drain EXCEPT ![t][e] = [tries |-> @.tries + 1, at |-> "waiting"]]
        /\ Send(t, e[1], e[2], doc[t])
  /\ UNCHANGED <<account, table, doc, hook>>

-----------------------------------------------------------------------------
(* POST /api/score: the route and its three RPCs, each a transaction.      *)

\* Defect: a replay for the source becomes the submitter's own.
SourceIgnored(q) == None

Source(q) == IF q.acting = q.owner THEN None ELSE q.owner
Origin(q) == IF Source(q) = None THEN q.user ELSE Source(q)
Receipt(o, u) == o = Anon /\ u = Mem /\ receipt

\* What the gates read is used until the row is stored; nobody hears the answer to an orphan.
At(r, step) ==
  reqs' = [reqs EXCEPT ![r] =
            IF step = "reserved" THEN [@ EXCEPT !.pc = step]
            ELSE IF step \in Answers /\ ~@.live THEN NoRequest
            ELSE [@ EXCEPT !.pc = step, !.linked = FALSE, !.doll = FALSE]]

\* ownsTelemetrySession: the binding follows a merge, and the row's
\* anonymity must be that of the user who submits.
Owned(u, g) ==
  LET game == games[g]
      moved == game.by = Anon /\ receipt IN
  /\ game.linked
  /\ u = IF moved THEN Mem ELSE game.by
  /\ (game.asMember \/ moved) = (u = Mem /\ member)

\* The gates before any write, and the telemetry and doll rows as read now.
Gate(r) ==
  LET q == reqs[r] IN
  /\ q.pc = "sent"
  /\ \/ Source(q) = q.user /\ At(r, "rejected")
     \/ q.user = Anon /\ receipt /\ At(r, "rejected")   \* its Auth user is deleted
     \/ Deleted(q.user) /\ At(r, "rejected")
     \/ /\ Source(q) # q.user /\ ~Deleted(q.user)
        /\ reqs' = [reqs EXCEPT ![r] =
                      [q EXCEPT !.linked = Owned(q.user, q.game),
                                !.doll = games[q.game].doll /\ DollAlive /\ q.user = Mem,
                                !.pc = "checked"]]
  /\ UNCHANGED <<account, games, table, store, page>>

\* bp_probe_score_write_replay: the row this request has committed before.
Replayed(q) ==
  /\ Source(q) # None => Receipt(Source(q), q.user)
  /\ scores[Origin(q)][q.game].owner = q.user

Attempt(q) == attempts[q.user][Origin(q)][q.game]
Mark(q, state) == attempts' = [attempts EXCEPT ![q.user][Origin(q)][q.game] = state]
MarkReplayed(q) == IF Attempt(q) = "none" THEN UNCHANGED attempts ELSE Mark(q, "succeeded")

\* Defect: a reservation is taken once, and one that a crash left open refuses.
ReserveOnce(r) ==
  LET q == reqs[r] IN
  /\ q.pc = "checked"
  /\ \/ Replayed(q) /\ MarkReplayed(q) /\ At(r, "stored")
     \/ ~Replayed(q) /\ Attempt(q) = "none" /\ Mark(q, "reserved") /\ At(r, "reserved")
     \/ ~Replayed(q) /\ Attempt(q) # "none" /\ At(r, "rejected") /\ UNCHANGED attempts
  /\ UNCHANGED <<account, games, scores, reported, store, page>>

\* What the attempt already says: stored, refused, or failed with a code the
\* route does not know (internal_error, score_receipt_missing), which it
\* answers as if it might pass.
Settled(r) ==
  LET q == reqs[r] IN
  \/ Replayed(q) /\ MarkReplayed(q) /\ At(r, "stored")
  \/ ~Replayed(q) /\ Attempt(q) = "failed" /\ At(r, "rejected") /\ UNCHANGED attempts
  \/ /\ ~Replayed(q) /\ Attempt(q) \in {"succeeded", "internal_error"}
     /\ At(r, "retryable") /\ UNCHANGED attempts

\* reserve_score_write_attempt, in a transaction of its own; the quota may
\* refuse what holds no reservation yet.
Reserve(r) ==
  LET q == reqs[r] IN
  /\ q.pc = "checked"
  /\ \/ Settled(r)
     \/ ~Replayed(q) /\ Attempt(q) = "reserved" /\ At(r, "reserved") /\ UNCHANGED attempts
     \/ ~Replayed(q) /\ Attempt(q) = "none" /\ Mark(q, "reserved") /\ At(r, "reserved")
  /\ UNCHANGED <<account, games, scores, reported, store, page>>

\* Defect: a member's older telemetry row is refused as another's.
RefusedUnlinked(q) == q.doll \/ ~q.linked

\* What bp_submit_score_with_review_core raises of a well-formed submission.
Refused(q) ==
  LET row == scores[Origin(q)][q.game] IN
  \/ Deleted(q.user)
  \/ q.user = Anon /\ receipt   \* account_migrated, or account_not_found once it is gone
  \/ Source(q) # None /\ ~(Receipt(Source(q), q.user) /\ row.owner = q.user)
  \/ q.doll /\ ~DollAlive
  \/ q.linked /\ ~Owned(q.user, q.game)
  \/ row.owner \notin {None, q.user}
  \/ /\ row.owner = None /\ q.linked
     /\ \E o \in Owners : scores[o][q.game].linked

\* Defect: the ban as the route read it is trusted.
StoreUnlocked(r) ==
  LET q == reqs[r] IN
  /\ q.pc = "reserved" /\ ~Replayed(q) /\ Attempt(q) = "reserved" /\ ~Refused(q)
  /\ scores' = [scores EXCEPT ![Origin(q)][q.game] =
                 [owner |-> q.user, linked |-> q.linked, status |-> "registered"]]
  /\ Mark(q, "succeeded") /\ At(r, "stored")
  /\ UNCHANGED <<account, games, reported, store, page>>

\* submit_score_with_review: the reservation again, then the core; what the core
\* raises, a refusal or anything but pressure on a lock, fails the attempt.
Store(r) ==
  LET q == reqs[r]
      g == q.game
      void == banned /\ q.user = Mem IN
  /\ q.pc = "reserved"
  /\ \/ Settled(r) /\ UNCHANGED scores
     \/ /\ ~Replayed(q) /\ Attempt(q) = "reserved" /\ Refused(q)
        /\ Mark(q, "failed") /\ At(r, "rejected") /\ UNCHANGED scores
     \/ /\ ~Replayed(q) /\ Attempt(q) = "reserved" /\ Unforeseen
        /\ Mark(q, "internal_error") /\ At(r, "retryable") /\ UNCHANGED scores
     \/ /\ ~Replayed(q) /\ Attempt(q) = "reserved" /\ ~Refused(q)
        /\ scores' = [scores EXCEPT ![Origin(q)][g] =
                        [owner |-> q.user, linked |-> q.linked,
                         status |-> IF void THEN "voided" ELSE "registered"]]
        /\ Mark(q, "succeeded") /\ At(r, "stored")
  /\ UNCHANGED <<account, games, reported, store, page>>

\* Defect: a report that fails is best effort.
ReportBestEffort(r) ==
  /\ reqs[r].pc = "stored"
  /\ At(r, "ok")
  /\ UNCHANGED <<account, games, table, store, page>>

\* commit_score_report: a visible row gets its stats and badges; a row that a
\* merge has moved away, or a deleted profile, leaves the report pending.
Report(r) ==
  LET q == reqs[r]
      row == scores[Origin(q)][q.game] IN
  /\ q.pc = "stored"
  /\ \/ /\ row.owner # q.user \/ Deleted(q.user)
        /\ At(r, "retryable") /\ UNCHANGED reported
     \/ row.owner = q.user /\ row.status = "voided" /\ At(r, "ok") /\ UNCHANGED reported
     \/ /\ row.owner = q.user /\ row.status = "registered" /\ ~Deleted(q.user)
        /\ reported' = reported \cup {<<Origin(q), q.game>>} /\ At(r, "ok")
  /\ UNCHANGED <<account, games, scores, attempts, store, page>>

\* A failed lookup, lock pressure, a quota, a crash: what is committed stays.
ServerFails(r) ==
  /\ reqs[r].live /\ reqs[r].pc \notin Answers
  /\ At(r, "retryable")
  /\ UNCHANGED <<account, games, table, store, page>>

-----------------------------------------------------------------------------
(* The answer, its loss, and the page that hears of it.                    *)

\* What the result screen and the replay of r's tab make of its outcome.
\* The result screen retries every failure, the replay those that may pass.
Heard(r, outcome) ==
  LET q == reqs[r]
      e == <<q.owner, q.game>> IN
  /\ hook' = [hook EXCEPT ![q.tab] =
                 IF @.at = "waiting" /\ <<@.owner, @.game>> = e /\ q.acting = q.owner
                   THEN IF outcome = "ok" THEN NoHook ELSE [@ EXCEPT !.at = "failed", !.owner = None]
                   ELSE @]
  /\ drain' = [drain EXCEPT ![q.tab][e] =
                  IF @.at = "waiting" /\ q.acting = doc[q.tab]
                    THEN IF outcome = "retryable" /\ @.tries < MaxAttempts
                         THEN [@ EXCEPT !.at = "failed"] ELSE Idle
                    ELSE @]

Deliver(r) ==
  LET q == reqs[r] IN
  /\ q.live /\ q.pc \in Answers
  /\ Heard(r, q.pc)
  /\ outbox' = IF q.pc = "ok" THEN outbox \ {<<q.owner, q.game>>} ELSE outbox
  /\ reqs' = [reqs EXCEPT ![r] = NoRequest]
  /\ UNCHANGED <<account, games, table, persisted, doc>>

\* runBoundedClientJsonFetch gives up, or the answer is lost on its way; the
\* server may still go on.
GiveUp(r) ==
  /\ reqs[r].live
  /\ Heard(r, "retryable")
  /\ reqs' = [reqs EXCEPT ![r] = IF reqs[r].pc \in Answers THEN NoRequest ELSE [@ EXCEPT !.live = FALSE, !.tab = None]]
  /\ UNCHANGED <<account, games, table, store, doc>>

\* An orphaned request ends unheard, after any of its steps.
Vanish(r) ==
  /\ reqs[r].pc # "free" /\ ~reqs[r].live
  /\ reqs' = [reqs EXCEPT ![r] = NoRequest]
  /\ UNCHANGED <<account, games, table, store, page>>

-----------------------------------------------------------------------------
(* The account beside it: sign-in, merge, consent, ban, a deleted doll.    *)

BeginSignIn ==
  /\ session = Anon /\ flow = "none"
  /\ flow' = "running"
  /\ UNCHANGED <<session, member, receipt, banned, doll, profile, games, table, store, page, reqs>>

CancelSignIn ==
  /\ flow = "running"
  /\ flow' = "none"
  /\ UNCHANGED <<session, member, receipt, banned, doll, profile, games, table, store, page, reqs>>

\* The callback's exchange replaces the cookie of every tab at once, under the
\* barrier that is cleared when the flow has ended.
Exchange ==
  /\ flow = "running"
  /\ flow' = "exchanged" /\ session' = Mem
  /\ UNCHANGED <<member, receipt, banned, doll, profile, games, table, store, page, reqs>>

Close(u) == u \in Closable /\ profile' = [profile EXCEPT ![u] = "deleted"]

\* release_oauth_flow_intent: a member leaves the anonymous source behind.
Release ==
  /\ flow = "exchanged"
  /\ flow' = "signed"
  /\ IF member THEN Close(Anon) ELSE UNCHANGED profile
  /\ UNCHANGED <<session, member, receipt, banned, doll, games, table, store, page, reqs>>

\* A day after its release a flow that was not consumed hides its source.
HideSource ==
  /\ flow = "signed" /\ ~receipt /\ profile[Anon] = "active"
  /\ Close(Anon)
  /\ UNCHANGED <<session, flow, member, receipt, banned, doll, games, table, store, page, reqs>>

\* consume_oauth_flow_intent_migration: only a new member takes the rows over.
Migrate ==
  /\ flow = "signed" /\ ~member /\ ~receipt /\ ~Deleted(Mem)
  /\ receipt' = TRUE
  /\ scores' = [o \in Owners |-> [g \in Games |->
                  IF scores[o][g].owner = Anon THEN [scores[o][g] EXCEPT !.owner = Mem]
                  ELSE scores[o][g]]]
  /\ UNCHANGED <<session, flow, member, banned, doll, profile, games, reported, attempts, store, page, reqs>>

Consent ==
  /\ flow = "signed" /\ ~member /\ receipt /\ ~Deleted(Mem)
  /\ member' = TRUE
  /\ UNCHANGED <<session, flow, receipt, banned, doll, profile, games, table, store, page, reqs>>

\* admin_ban_member, under the lock the core takes.
Ban ==
  /\ member /\ ~banned
  /\ banned' = TRUE
  /\ scores' = [o \in Owners |-> [g \in Games |->
                  IF scores[o][g].owner = Mem THEN [scores[o][g] EXCEPT !.status = "voided"]
                  ELSE scores[o][g]]]
  /\ UNCHANGED <<session, flow, member, receipt, doll, profile, games, reported, attempts, store, page, reqs>>

DeleteDoll ==
  /\ DollAlive
  /\ doll' = "deleted"
  /\ UNCHANGED <<session, flow, member, receipt, banned, profile, games, table, store, page, reqs>>

RestoreDoll ==
  /\ doll = "deleted" /\ profile[Mem] = "active"
  /\ doll' = "restored"
  /\ UNCHANGED <<session, flow, member, receipt, banned, profile, games, table, store, page, reqs>>

\* admin_soft_delete_account, once: the scores stay, the dolls go for good.
Withdraw ==
  /\ member \/ flow = "signed"
  /\ profile[Mem] = "active" /\ Close(Mem)
  /\ doll' = IF doll = "none" THEN doll ELSE "deleted"
  /\ UNCHANGED <<session, flow, member, receipt, banned, games, table, store, page, reqs>>

Reactivate ==
  /\ Deleted(Mem) /\ member
  /\ profile' = [profile EXCEPT ![Mem] = "restored"]
  /\ UNCHANGED <<session, flow, member, receipt, banned, doll, games, table, store, page, reqs>>

-----------------------------------------------------------------------------
Page(t) ==
  \/ Boot(t) \/ Reload(t) \/ ResolveOwner(t) \/ RetryTimer(t)
  \/ RetryByPlayer(t) \/ HookSubmit(t)
  \/ \E g \in Games : Play(t, g)
  \/ \E e \in Entries : DrainTimer(t, e) \/ DrainSubmit(t, e)

Post(r) ==
  \/ Gate(r) \/ Reserve(r) \/ Store(r) \/ Report(r) \/ ServerFails(r)
  \/ Deliver(r) \/ GiveUp(r) \/ Vanish(r)

Account ==
  \/ BeginSignIn \/ CancelSignIn \/ Exchange \/ Release \/ HideSource \/ Migrate \/ Consent
  \/ Ban \/ DeleteDoll \/ RestoreDoll \/ Withdraw \/ Reactivate

Next == (\E t \in Tabs : Page(t)) \/ (\E r \in Requests : Post(r)) \/ Account

\* A page boots, replays its outbox and is reloaded or opened again now and
\* then; an orphaned request ends; and the server does not fail at the same
\* step every time.
Fairness ==
  /\ \A t \in Tabs :
       /\ WF_vars(Boot(t)) /\ SF_vars(Reload(t))
       /\ \A e \in Entries : SF_vars(DrainSubmit(t, e))
  /\ \A r \in Requests :
       WF_vars(Vanish(r)) /\ SF_vars(Gate(r)) /\ SF_vars(Reserve(r)) /\ SF_vars(Store(r))

Spec == Init /\ [][Next]_vars
FairSpec == Spec /\ Fairness

-----------------------------------------------------------------------------
Rows(g) == {o \in Owners : scores[o][g].owner # None}

\* An entry leaves the outbox only when a row for its game is in the scores
\* table (score-outbox.ts, submitScoreWithOutbox: "Only a valid 2xx score
\* acknowledgement removes the entry"), with its stats and badges, or voided: no
\* answer, and no race of two tabs over one entry, makes the browser forget a
\* game that was not counted (route.ts, score_report_pending).
ClearedWasReported ==
  \A e \in persisted \ outbox :
    \E o \in Rows(e[2]) : scores[o][e[2]].status = "voided" \/ <<o, e[2]>> \in reported

\* No visible score belongs to a banned member, however the ban and a
\* submission that read the member before it interleave.
NoVisibleScoreOfBanned ==
  banned => \A o \in Owners, g \in Games :
              scores[o][g].owner = Mem => scores[o][g].status = "voided"

\* A game is one row, through lost answers, retries of the result screen,
\* replays at page load, requests that outlive their page and a merge of the
\* player into a member, unless a page submitted it under a session other than
\* the one it was loaded with (session-reconciliation.ts keeps that out by
\* aborting and reloading the page, as soon as it hears of the new session).
GameCountsOnceUnlessStale ==
  \A g \in Games : ~games[g].stale => Cardinality(Rows(g)) <= 1

\* A refusal is remembered as long as its attempt, so it must never be spent on a
\* game that could still count: it takes a merge, a sign-in, a doll that was
\* deleted, or a profile that was, however long ago.  Lost answers, retries,
\* replays and bans never lead to one.  What fails with internal_error has no
\* such cause, and is kept apart.
RefusalHasCause ==
  \A u \in Owners, o \in Owners, g \in Games :
    attempts[u][o][g] = "failed" =>
      \/ receipt \/ profile[u] # "active"
      \/ u = Mem /\ (o = Anon \/ (games[g].doll /\ doll # "alive"))

\* A member's game that the database has turned down: by an error it does not
\* name, or between the gate and the store, when the doll or the profile went.
TurnedDown(g) ==
  \/ attempts[Mem][Mem][g] = "internal_error"
  \/ attempts[Mem][Mem][g] = "failed" /\ (games[g].doll \/ profile[Mem] = "restored")

\* Whatever else is lost, a member's game that reached the outbox is counted in
\* the end, also after a withdrawal that was taken back.
MemberGameIsCounted ==
  \A g \in Games :
    (<<Mem, g>> \in persisted /\ games[g].by = Mem /\ games[g].asMember)
      ~> (Rows(g) # {} \/ TurnedDown(g) \/ Deleted(Mem))

=============================================================================
