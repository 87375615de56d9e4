-------------------------- MODULE OAuthFlow_proofs --------------------------
(***************************************************************************)
(* However sign-ins, tabs, prunes and cleanup workers meet: a session is   *)
(* named by one unfinished sign-in, an anonymous user is the source of one *)
(* flow for good, and is deleted only after its records have moved.        *)
(***************************************************************************)
EXTENDS OAuthFlow, TLAPS

FlowRow == [state : States, source : Anons \cup Flows \cup {None},
            target : Targets \cup {None}, age : Ages]
JobRow == [status : Statuses, holder : Workers \cup {None}]

Bindable == {"pending", "claimed"}
Idle == {"none", "ended"}

---------------------------------------------------------------------------
(* The invariant.                                                          *)

\* The row of a flow and the row of its job say the same.
RowsAgree(f) ==
  /\ Is(f, {"none"}) => ~Bound(f)
  /\ Is(f, Idle) <=> flow[f].source = None
  /\ ~Is(f, Idle \cup Bindable) => Bound(f)
  /\ flow[f].source # f
  /\ Is(f, {"moved", "skipped"}) => Anonymous(f)
  /\ ~Anonymous(f) => job[f].status \in {"none", "completed"}
  /\ Anonymous(f) =>
       /\ Fenced(f) => job[f].status = "dormant"
       /\ Is(f, {"released"}) => Kept(f)
       /\ Is(f, {"moved"}) => job[f].status \in {"pending", "leased", "completed"}
       /\ Is(f, {"skipped"}) => job[f].status \in {"quarantined", "scrubbed"}

\* A session that a sign-in starts from was made by a sign-in of its own.
SourcesBound == \A f \in Flows : flow[f].source \in Flows => Bound(flow[f].source)

\* An anonymous user is the source of one flow for good.
SourceOnce == \A f, g \in Flows : Anonymous(f) /\ flow[f].source = flow[g].source => f = g

SignIns == (\A f \in Flows : RowsAgree(f)) /\ SourcesBound /\ SourceOnce /\ OneSignIn

\* Until its records have moved, the source of a flow exists.
UnmovedExist == \A f \in Flows : Anonymous(f) /\ ~Is(f, {"moved"}) => flow[f].source \in exists

\* A flow that moved has a receipt and left nothing behind; its job is done when the user is gone.
MovedIsDone ==
  \A f \in Flows : Is(f, {"moved"}) =>
    LET s == flow[f].source IN
      /\ receipt[s] # None /\ s \notin owns /\ shown[s] = "open"
      /\ job[f].status = "completed" => s \notin exists

\* A receipt of someone who still exists is that of a flow which moved.
ReceiptOfMoved ==
  \A s \in exists : receipt[s] # None => \E f \in Flows : Is(f, {"moved"}) /\ flow[f].source = s

Records == UnmovedExist /\ MovedIsDone /\ ReceiptOfMoved /\ DeletedLeavesNothing

\* What a consent request or a worker goes by is still so when it acts.
ConsentHolds ==
  \A x \in Flows :
    /\ consent[x].at # "idle" => Bound(x)
    /\ consent[x].at = "found" =>
         /\ consent[x].flow \in Flows
         /\ Is(consent[x].flow, {"released", "moved", "skipped"}) /\ Anonymous(consent[x].flow)
    /\ consent[x].at = "delete" => consent[x].flow \in Flows /\ Is(consent[x].flow, {"moved"})
WorkersHold ==
  \A w \in Workers : worker[w].at # "idle" => worker[w].flow \in Flows /\ Is(worker[w].flow, {"moved"})

Remembered == ConsentHolds /\ WorkersHold

IInv == TypeOK /\ SignIns /\ Records /\ Remembered

---------------------------------------------------------------------------
(* Types.                                                                  *)

Wanted == [at : {"idle", "found", "delete", "join"}, flow : Flows \cup {None}]
Tasks == [at : {"idle", "present", "missing", "delete", "giveback", "finish"},
          flow : Flows \cup {None}]

\* TypeOK, one part for each group of variables.
FlowTypes ==
  /\ flow \in [Flows -> FlowRow] /\ job \in [Flows -> JobRow]
  /\ live \subseteq {f \in Flows : Bound(f)}
RecordTypes ==
  /\ exists \subseteq Anons /\ owns \subseteq Anons
  /\ receipt \in [Anons -> Targets \cup {None}]
  /\ shown \in [Anons -> {"open", "hidden", "erased"}]
AccountTypes == member \subseteq Targets /\ withdrawn \subseteq Targets
MindTypes == consent \in [Flows -> Wanted] /\ worker \in [Workers -> Tasks]

LEMMA TypesByGroup ==
  TypeOK <=> FlowTypes /\ RecordTypes /\ AccountTypes /\ MindTypes /\ faults \in 0 .. MaxFaults
  BY DEF TypeOK, FlowTypes, RecordTypes, AccountTypes, MindTypes, FlowRow, JobRow, Wanted, Tasks, Bound

LEMMA TypesByGroupNext ==
  TypeOK' <=> FlowTypes' /\ RecordTypes' /\ AccountTypes' /\ MindTypes' /\ faults' \in 0 .. MaxFaults
  BY DEF TypeOK, FlowTypes, RecordTypes, AccountTypes, MindTypes, FlowRow, JobRow, Wanted, Tasks, Bound

LEMMA GroupsKept ==
  ASSUME TypeOK
  PROVE  /\ UNCHANGED <<flow, job, live>> => FlowTypes'
         /\ UNCHANGED records => RecordTypes'
         /\ UNCHANGED accounts => AccountTypes'
         /\ UNCHANGED <<consent, worker>> => MindTypes'
         /\ UNCHANGED faults \/ Fault => faults' \in 0 .. MaxFaults
  <1>1. UNCHANGED <<flow, job, live>> => FlowTypes'
    BY TypesByGroup DEF FlowTypes, Bound
  <1>2. UNCHANGED faults \/ Fault => faults' \in 0 .. MaxFaults
    <2>1. MaxFaults \in Nat /\ faults \in 0 .. MaxFaults
      BY OAuthAssumption, TypesByGroup
    <2> QED BY <2>1 DEF Fault
  <1>3. UNCHANGED <<consent, worker>> => MindTypes'
    BY TypesByGroup DEF MindTypes
  <1> QED BY <1>1, <1>2, <1>3, TypesByGroup DEF RecordTypes, AccountTypes, records, accounts

\* The fields of one flow and of its job.
LEMMA FlowFields ==
  ASSUME TypeOK, NEW f \in Flows
  PROVE  /\ flow[f] \in FlowRow /\ flow[f].state \in States
         /\ flow[f].source \in Anons \cup Flows \cup {None}
         /\ flow[f].target \in Targets \cup {None} /\ flow[f].age \in Ages
         /\ job[f] \in JobRow /\ job[f].status \in Statuses /\ job[f].holder \in Workers \cup {None}
  BY TypesByGroup DEF FlowTypes, FlowRow, JobRow

LEMMA NoneIsNobody == None \notin Anons /\ None \notin Targets /\ None \notin Workers /\ None \notin Flows
                      /\ Anons \cap Flows = {}
  BY OAuthAssumption

\* The row of one flow is written.
LEMMA WriteFlow ==
  ASSUME TypeOK, NEW f \in Flows, NEW next \in FlowRow, flow' = [flow EXCEPT ![f] = next]
  PROVE  /\ flow' \in [Flows -> FlowRow] /\ flow'[f] = next
         /\ \A g \in Flows : g # f => flow'[g] = flow[g]
  BY TypesByGroup DEF FlowTypes

LEMMA WriteJob ==
  ASSUME TypeOK, NEW f \in Flows, NEW next \in JobRow, job' = [job EXCEPT ![f] = next]
  PROVE  /\ job' \in [Flows -> JobRow] /\ job'[f] = next
         /\ \A g \in Flows : g # f => job'[g] = job[g]
  BY TypesByGroup DEF FlowTypes

LEMMA BecomeWrites ==
  ASSUME TypeOK, NEW f \in Flows, NEW state \in States, NEW age \in Ages,
         flow' = [flow EXCEPT ![f].state = state, ![f].age = age]
  PROVE  /\ flow' \in [Flows -> FlowRow] /\ flow'[f].state = state
         /\ flow'[f].source = flow[f].source /\ flow'[f].target = flow[f].target
         /\ \A g \in Flows : g # f => flow'[g] = flow[g]
  <1> DEFINE next == [flow[f] EXCEPT !.state = state, !.age = age]
  <1>1. /\ next \in FlowRow /\ next.state = state
        /\ next.source = flow[f].source /\ next.target = flow[f].target
    BY FlowFields DEF FlowRow
  <1>2. flow' = [flow EXCEPT ![f] = next]
    BY TypesByGroup DEF FlowTypes
  <1> HIDE DEF next
  <1> QED BY <1>1, <1>2, WriteFlow

LEMMA BecomeAtOnce ==
  ASSUME TypeOK, NEW f \in Flows, NEW state \in States, Become(f, state)
  PROVE  /\ flow' \in [Flows -> FlowRow] /\ flow'[f].state = state
         /\ flow'[f].source = flow[f].source /\ flow'[f].target = flow[f].target
         /\ \A g \in Flows : g # f => flow'[g] = flow[g]
  <1> DEFINE next == [flow[f] EXCEPT !.state = state]
  <1>1. /\ next \in FlowRow /\ next.state = state
        /\ next.source = flow[f].source /\ next.target = flow[f].target
    BY FlowFields DEF FlowRow
  <1>2. flow' = [flow EXCEPT ![f] = next]
    BY TypesByGroup DEF FlowTypes, Become
  <1> HIDE DEF next
  <1> QED BY <1>1, <1>2, WriteFlow

LEMMA PutWrites ==
  ASSUME TypeOK, NEW f \in Flows, NEW status \in Statuses, Put(f, status)
  PROVE  /\ job' \in [Flows -> JobRow] /\ job'[f].status = status
         /\ \A g \in Flows : g # f => job'[g] = job[g]
  <1> DEFINE next == [status |-> status, holder |-> None]
  <1>1. next \in JobRow /\ next.status = status
    BY DEF JobRow
  <1>2. job' = [job EXCEPT ![f] = next]
    BY DEF Put
  <1> HIDE DEF next
  <1> QED BY <1>1, <1>2, WriteJob

\* A flow that ends forgets its source and gives it free.
LEMMA EndWrites ==
  ASSUME TypeOK, NEW f \in Flows, End(f)
  PROVE  /\ flow' \in [Flows -> FlowRow] /\ job' \in [Flows -> JobRow]
         /\ flow'[f].state = "ended" /\ flow'[f].source = None /\ flow'[f].target = flow[f].target
         /\ job'[f].status = IF job[f].status = "dormant" THEN "completed" ELSE job[f].status
         /\ \A g \in Flows : g # f => flow'[g] = flow[g] /\ job'[g] = job[g]
  <1>1. /\ Ended(f) \in FlowRow /\ Ended(f).state = "ended" /\ Ended(f).source = None
        /\ Ended(f).target = flow[f].target
    BY FlowFields DEF Ended, Blank, FlowRow, States, Ages
  <1> DEFINE next == IF job[f].status = "dormant" THEN [job[f] EXCEPT !.status = "completed"] ELSE job[f]
  <1>2. /\ next \in JobRow
        /\ next.status = IF job[f].status = "dormant" THEN "completed" ELSE job[f].status
    BY FlowFields DEF JobRow, Statuses
  <1>3. job' = [job EXCEPT ![f] = next] /\ flow' = [flow EXCEPT ![f] = Ended(f)]
    BY TypesByGroup DEF End, Free, FlowTypes
  <1> HIDE DEF next
  <1>4. job' \in [Flows -> JobRow] /\ job'[f] = next /\ \A g \in Flows : g # f => job'[g] = job[g]
    BY <1>2, <1>3, WriteJob
  <1>5. /\ flow' \in [Flows -> FlowRow] /\ flow'[f] = Ended(f)
        /\ \A g \in Flows : g # f => flow'[g] = flow[g]
    BY <1>1, <1>3, WriteFlow
  <1> QED BY <1>1, <1>2, <1>4, <1>5

---------------------------------------------------------------------------
(* Sign-ins.                                                               *)

Handled == {"released", "moved", "skipped"}

\* What any step but Begin leaves of a flow: its source until it ends, the
\* session it made, and what was decided about the records.
Carries(g) ==
  /\ flow'[g].source = flow[g].source \/ flow'[g].state = "ended"
  /\ Bound(g) => flow'[g].target = flow[g].target
  /\ Fenced(g)' => Fenced(g)
  /\ Is(g, Handled) => flow'[g].state \in Handled
  /\ Is(g, {"moved"}) => flow'[g].state = "moved"
  /\ RowsAgree(g)'

LEMMA SameCarries ==
  ASSUME NEW g \in Flows, RowsAgree(g), flow'[g].state = flow[g].state,
         flow'[g].source = flow[g].source, flow'[g].target = flow[g].target,
         job'[g].status = job[g].status
  PROVE  Carries(g)
  BY DEF Carries, RowsAgree, Is, Bound, Anonymous, Kept, Fenced, Active, Idle, Bindable, Handled

\* Two unfinished sign-ins stay apart.
LEMMA PairCarried ==
  ASSUME TypeOK, SignIns, NEW f \in Flows, NEW g \in Flows, f # g, Carries(f), Carries(g),
         Fenced(f)', Fenced(g)'
  PROVE  Ends(f)' \cap Ends(g)' = {}
  <1>1. Fenced(f) /\ Fenced(g)
    BY DEF Carries
  <1>2. flow'[f].source = flow[f].source /\ flow'[g].source = flow[g].source
    BY DEF Carries, Fenced, Active, Is
  <1>3. flow[f].source # flow[g].source
    BY <1>1 DEF SignIns, OneSignIn, Ends
  <1>4. flow[f].source # g /\ flow[g].source # f
    BY <1>1 DEF SignIns, OneSignIn, SourcesBound, Ends
  <1> QED BY <1>2, <1>3, <1>4 DEF Ends

LEMMA SignInsCarried ==
  ASSUME TypeOK, SignIns, \A g \in Flows : Carries(g)
  PROVE  SignIns'
  <1>1. \A f \in Flows : RowsAgree(f)'
    BY DEF Carries
  <1>2. \A f \in Flows : flow'[f].source # None => flow'[f].source = flow[f].source
    BY <1>1 DEF Carries, RowsAgree, Is, Idle
  <1>3. \A f \in Flows : Bound(f) => Bound(f)'
    BY DEF Carries, Bound
  <1>4. SourcesBound'
    BY <1>2, <1>3, NoneIsNobody DEF SignIns, SourcesBound
  <1>5. SourceOnce'
    BY <1>2, NoneIsNobody DEF SignIns, SourceOnce, Anonymous
  <1>6. OneSignIn'
    <2>1. ASSUME NEW f \in Flows, NEW g \in Flows, f # g, Fenced(f)', Fenced(g)'
          PROVE  Ends(f)' \cap Ends(g)' = {}
      BY <2>1, PairCarried
    <2>2. ASSUME NEW f \in Flows, NEW g \in Flows, f # g, Promised(f)', Promised(g)'
          PROVE  flow'[f].source # flow'[g].source
      BY <1>5, <2>2 DEF SourceOnce, Promised
    <2> QED BY <2>1, <2>2 DEF OneSignIn
  <1> QED BY <1>1, <1>4, <1>5, <1>6 DEF SignIns

LEMMA RememberedCarried ==
  ASSUME Remembered, \A g \in Flows : Is(g, Handled) => Carries(g),
         \A g \in Flows : Bound(g) => Bound(g)'
  PROVE  /\ UNCHANGED consent => ConsentHolds'
         /\ UNCHANGED worker => WorkersHold'
         /\ \A x \in Flows :
              /\ \A y \in Flows : y # x => consent'[y] = consent[y]
              /\ consent'[x].at # "idle" => Bound(x)
              /\ consent'[x].at = "found" =>
                   /\ consent'[x].flow \in Flows
                   /\ Is(consent'[x].flow, Handled) /\ Anonymous(consent'[x].flow)
              /\ consent'[x].at = "delete" =>
                   consent'[x].flow \in Flows /\ flow'[consent'[x].flow].state = "moved"
              => ConsentHolds'
  <1>1. \A g \in Flows : Is(g, Handled) =>
                           flow'[g].state \in Handled /\ flow'[g].source = flow[g].source
    BY DEF Carries, Handled
  <1>2. \A g \in Flows : Is(g, {"moved"}) => flow'[g].state = "moved"
    BY DEF Carries, Is, Handled
  <1> DEFINE Good(x, wanted) ==
        /\ wanted.at # "idle" => flow'[x].target # None
        /\ wanted.at = "found" =>
             /\ wanted.flow \in Flows /\ flow'[wanted.flow].state \in Handled
             /\ flow'[wanted.flow].source \in Anons
        /\ wanted.at = "delete" => wanted.flow \in Flows /\ flow'[wanted.flow].state = "moved"
  <1>3. \A y \in Flows : consent'[y] = consent[y] => Good(y, consent'[y])
    BY <1>1, <1>2 DEF Remembered, ConsentHolds, Is, Handled, Anonymous, Bound
  <1>4. (\A y \in Flows : Good(y, consent'[y])) => ConsentHolds'
    BY DEF ConsentHolds, Is, Handled, Anonymous, Bound
  <1>5. UNCHANGED worker => WorkersHold'
    BY <1>2 DEF Remembered, WorkersHold, Is
  <1>6. ASSUME NEW x \in Flows, \A y \in Flows : y # x => consent'[y] = consent[y],
               consent'[x].at # "idle" => Bound(x),
               consent'[x].at = "found" =>
                 /\ consent'[x].flow \in Flows
                 /\ Is(consent'[x].flow, Handled) /\ Anonymous(consent'[x].flow),
               consent'[x].at = "delete" =>
                 consent'[x].flow \in Flows /\ flow'[consent'[x].flow].state = "moved"
        PROVE  ConsentHolds'
    <2>1. Good(x, consent'[x])
      BY <1>1, <1>6 DEF Anonymous, Bound
    <2> QED BY <1>3, <1>4, <1>6, <2>1
  <1> QED BY <1>3, <1>4, <1>5, <1>6

LEMMA RecordsCarried ==
  ASSUME TypeOK, SignIns, Records, \A g \in Flows : Carries(g), UNCHANGED records,
         \A g \in Flows : flow'[g].state = "moved" =>
                            /\ Is(g, {"moved"})
                            /\ job'[g].status = "completed" =>
                                 job[g].status = "completed" \/ flow[g].source \notin exists
  PROVE  Records'
  <1>1. \A g \in Flows : Is(g, {"moved"}) <=> Is(g, {"moved"})'
    BY DEF Carries, Is
  <1>2. \A g \in Flows : flow'[g].source # None => flow'[g].source = flow[g].source
    BY DEF Carries, RowsAgree, Is, Idle
  <1>3. \A g \in Flows : Is(g, {"moved"}) => flow'[g].source = flow[g].source
    BY DEF Carries, Is
  <1>4. UnmovedExist'
    BY <1>1, <1>2, NoneIsNobody DEF Records, UnmovedExist, Anonymous, records
  <1>5. MovedIsDone'
    BY <1>1, <1>3 DEF Records, MovedIsDone, Is, records
  <1>6. ReceiptOfMoved'
    BY <1>1, <1>3 DEF Records, ReceiptOfMoved, records
  <1>7. DeletedLeavesNothing'
    BY DEF Records, DeletedLeavesNothing, records
  <1> QED BY <1>4, <1>5, <1>6, <1>7 DEF Records

---------------------------------------------------------------------------
(* The steps of a sign-in.                                                 *)

Underway == {"claimed", "completed", "signout_required", "signout_revoked"}

\* A sign-in that goes on.
LEMMA ProceedWrites ==
  ASSUME TypeOK, SignIns, NEW f \in Flows,
         \/ Preflight(f) \/ (\E t \in Targets : Bind(f, t))
         \/ (\E state \in {"completed", "signout_required"} : Finalize(f, state)) \/ ConfirmSignout(f)
  PROVE  /\ flow' \in [Flows -> FlowRow] /\ job' = job /\ live' \subseteq {g \in Flows : Bound(g)'}
         /\ \A g \in Flows : g # f => flow'[g] = flow[g]
         /\ Fenced(f) /\ flow'[f].state \in Underway /\ flow'[f].source = flow[f].source
         /\ Bound(f) => flow'[f].target = flow[f].target
         /\ flow'[f].state # "claimed" => Bound(f)'
  <1>0. live \subseteq {g \in Flows : Bound(g)}
    BY TypesByGroup DEF FlowTypes
  <1>1. CASE \E t \in Targets : Bind(f, t)
    <2>1. PICK t \in Targets : Bind(f, t)
      BY <1>1
    <2> DEFINE next == [flow[f] EXCEPT !.target = t]
    <2>2. /\ next \in FlowRow /\ next.state = flow[f].state /\ next.source = flow[f].source
          /\ next.target = t
      BY FlowFields DEF FlowRow
    <2>3. flow' = [flow EXCEPT ![f] = next]
      BY <2>1, TypesByGroup DEF Bind, FlowTypes
    <2> HIDE DEF next
    <2>4. /\ flow' \in [Flows -> FlowRow] /\ flow'[f] = next
          /\ \A g \in Flows : g # f => flow'[g] = flow[g]
      BY <2>2, <2>3, WriteFlow
    <2>5. Is(f, {"claimed"}) /\ ~Bound(f) /\ live' = live \cup {f} /\ job' = job
      BY <2>1 DEF Bind
    <2>6. live' \subseteq {g \in Flows : Bound(g)'}
      BY <1>0, <2>2, <2>4, <2>5, NoneIsNobody DEF Bound
    <2> QED BY <2>2, <2>4, <2>5, <2>6 DEF Is, Fenced, Active, Underway
  <1>2. ASSUME NEW state \in Underway, Become(f, state), live' \subseteq live, job' = job, Fenced(f),
               state # "claimed" => Bound(f)
        PROVE  /\ flow' \in [Flows -> FlowRow] /\ job' = job /\ live' \subseteq {g \in Flows : Bound(g)'}
               /\ \A g \in Flows : g # f => flow'[g] = flow[g]
               /\ Fenced(f) /\ flow'[f].state \in Underway /\ flow'[f].source = flow[f].source
               /\ Bound(f) => flow'[f].target = flow[f].target
               /\ flow'[f].state # "claimed" => Bound(f)'
    <2>1. state \in States
      BY DEF Underway, States
    <2>2. /\ flow' \in [Flows -> FlowRow] /\ flow'[f].state = state
          /\ flow'[f].source = flow[f].source /\ flow'[f].target = flow[f].target
          /\ \A g \in Flows : g # f => flow'[g] = flow[g]
      BY <1>2, <2>1, BecomeAtOnce
    <2> QED BY <1>0, <1>2, <2>2 DEF Bound
  <1>3. CASE Preflight(f)
    <2>1. "claimed" \in Underway
      BY DEF Underway
    <2> QED BY <1>2, <1>3, <2>1 DEF Preflight, Is, Fenced, Active
  <1>4. ASSUME NEW state \in {"completed", "signout_required"}, Finalize(f, state)
        PROVE  state \in Underway /\ Become(f, state) /\ live' \subseteq live /\ job' = job /\ Fenced(f) /\ Bound(f)
    BY <1>0, <1>4 DEF Finalize, Is, Fenced, Active, Underway
  <1>5. CASE ConfirmSignout(f)
    <2>1. "signout_revoked" \in Underway /\ Bound(f)
      BY <1>5 DEF Underway, SignIns, RowsAgree, ConfirmSignout, Is, Idle, Bindable
    <2> QED BY <1>2, <1>5, <2>1 DEF ConfirmSignout, Is, Fenced, Active
  <1> QED BY <1>1, <1>2, <1>3, <1>4, <1>5

\* A sign-in that ends.
Ending(f) ==
  \/ Cancel(f) \/ Expire(f) \/ FinalizeFailed(f) \/ CompleteSignout(f) \/ Revoke(f) \/ PruneRevoke(f)

LEMMA EndingWrites ==
  ASSUME TypeOK, SignIns, NEW f \in Flows, Ending(f)
  PROVE  /\ End(f) /\ Fenced(f) /\ FlowTypes'
         /\ UNCHANGED <<records, accounts, consent, worker, faults>>
  <1>1. /\ End(f) /\ Fenced(f) /\ live' \subseteq live
        /\ UNCHANGED <<records, accounts, consent, worker, faults>>
    BY DEF Ending, Cancel, Expire, FinalizeFailed, CompleteSignout, Revoke, PruneRevoke, EndBound, Quiet,
           Expirable, Revocable, Is, Fenced, Active
  <1>2. \A g \in Flows : Bound(g) => Bound(g)'
    BY <1>1, EndWrites DEF Bound
  <1>3. FlowTypes'
    BY <1>1, <1>2, EndWrites, TypesByGroup DEF FlowTypes
  <1> QED BY <1>1, <1>3

\* A sign-in that goes on or ends, one that is handed over with nothing to decide yet,
\* and time, decide nothing about records.
Undecided(f) ==
  \/ Preflight(f) \/ (\E t \in Targets : Bind(f, t))
  \/ (\E state \in {"completed", "signout_required"} : Finalize(f, state)) \/ ConfirmSignout(f)
  \/ Ending(f) \/ Tick(f)
  \/ Release(f) /\ ~(Anonymous(f) /\ flow[f].target \in member)

LEMMA UndecidedCarries ==
  ASSUME TypeOK, SignIns, NEW f \in Flows, Undecided(f)
  PROVE  /\ FlowTypes' /\ UNCHANGED <<records, accounts, consent, worker, faults>>
         /\ \A g \in Flows : Carries(g)
         /\ \A g \in Flows : flow'[g].state = "moved" =>
                               Is(g, {"moved"}) /\ job'[g].status = job[g].status
  <1>0. /\ flow \in [Flows -> FlowRow] /\ job \in [Flows -> JobRow]
        /\ live \subseteq {g \in Flows : Bound(g)} /\ RowsAgree(f)
    BY TypesByGroup DEF FlowTypes, SignIns
  <1>1. ASSUME NEW g \in Flows, flow'[g] = flow[g], job'[g] = job[g] PROVE Carries(g)
    BY <1>1, SameCarries DEF SignIns
  <1>2. CASE \/ Preflight(f) \/ (\E t \in Targets : Bind(f, t))
             \/ (\E state \in {"completed", "signout_required"} : Finalize(f, state)) \/ ConfirmSignout(f)
    <2>1. /\ flow' \in [Flows -> FlowRow] /\ job' = job /\ live' \subseteq {g \in Flows : Bound(g)'}
          /\ \A g \in Flows : g # f => flow'[g] = flow[g]
          /\ Fenced(f) /\ flow'[f].state \in Underway /\ flow'[f].source = flow[f].source
          /\ Bound(f) => flow'[f].target = flow[f].target
          /\ flow'[f].state # "claimed" => Bound(f)'
      BY <1>2, ProceedWrites
    <2>2. UNCHANGED <<records, accounts, consent, worker, faults>>
      BY <1>2 DEF Preflight, Bind, Finalize, ConfirmSignout, Quiet
    <2>3. FlowTypes'
      BY <1>0, <2>1 DEF FlowTypes
    <2>4. Carries(f)
      BY <1>0, <2>1
         DEF Carries, RowsAgree, Is, Anonymous, Kept, Fenced, Active, Idle, Bindable, Handled, Underway, Bound
    <2>5. flow'[f].state # "moved"
      BY <2>1 DEF Underway
    <2> QED BY <1>1, <2>1, <2>2, <2>3, <2>4, <2>5 DEF Is
  <1>3. CASE Ending(f)
    <2>1. /\ Fenced(f) /\ FlowTypes' /\ UNCHANGED <<records, accounts, consent, worker, faults>>
          /\ flow'[f].state = "ended" /\ flow'[f].source = None /\ flow'[f].target = flow[f].target
          /\ job'[f].status = IF job[f].status = "dormant" THEN "completed" ELSE job[f].status
          /\ \A g \in Flows : g # f => flow'[g] = flow[g] /\ job'[g] = job[g]
      BY <1>3, EndingWrites, EndWrites
    <2>2. Carries(f)
      BY <1>0, <2>1, NoneIsNobody
         DEF Carries, RowsAgree, Is, Anonymous, Kept, Fenced, Active, Idle, Bindable, Handled, Bound
    <2> QED BY <1>1, <2>1, <2>2 DEF Is
  <1>4. CASE Tick(f)
    <2>1. PICK age \in Ages : flow' = [flow EXCEPT ![f].age = age]
      BY <1>4 DEF Tick, Later, Ages
    <2> DEFINE next == [flow[f] EXCEPT !.age = age]
    <2>2. /\ next \in FlowRow /\ next.state = flow[f].state /\ next.source = flow[f].source
          /\ next.target = flow[f].target
      BY FlowFields DEF FlowRow
    <2>3. flow' = [flow EXCEPT ![f] = next]
      BY <1>0, <2>1
    <2> HIDE DEF next
    <2>4. /\ flow' \in [Flows -> FlowRow] /\ flow'[f] = next
          /\ \A g \in Flows : g # f => flow'[g] = flow[g]
      BY <2>2, <2>3, WriteFlow
    <2>5. UNCHANGED <<job, live, records, accounts, consent, worker, faults>>
      BY <1>4 DEF Tick
    <2>6. FlowTypes'
      BY <1>0, <2>2, <2>4, <2>5 DEF FlowTypes, Bound
    <2>7. Carries(f)
      BY <1>0, <2>2, <2>4, <2>5, SameCarries
    <2> QED BY <1>1, <2>2, <2>4, <2>5, <2>6, <2>7 DEF Is
  <1>5. CASE Release(f) /\ ~(Anonymous(f) /\ flow[f].target \in member)
    <2>1. PICK age \in Ages : flow' = [flow EXCEPT ![f].state = "released", ![f].age = age]
      <3>1. flow' = [flow EXCEPT ![f].state = "released", ![f].age = IF Anonymous(f) THEN @ ELSE "fresh"]
        BY <1>5 DEF Release
      <3>2. "fresh" \in Ages /\ flow[f].age \in Ages
        BY FlowFields DEF Ages
      <3>3. CASE Anonymous(f)
        <4>1. flow' = [flow EXCEPT ![f].state = "released", ![f].age = flow[f].age]
          BY <1>0, <3>1, <3>3
        <4> QED BY <3>2, <4>1
      <3>4. CASE ~Anonymous(f)
        <4>1. flow' = [flow EXCEPT ![f].state = "released", ![f].age = "fresh"]
          BY <1>0, <3>1, <3>4
        <4> QED BY <3>2, <4>1
      <3> QED BY <3>3, <3>4
    <2>2. /\ flow' \in [Flows -> FlowRow] /\ flow'[f].state = "released"
          /\ flow'[f].source = flow[f].source /\ flow'[f].target = flow[f].target
          /\ \A g \in Flows : g # f => flow'[g] = flow[g]
      BY <2>1, BecomeWrites DEF States
    <2>3. /\ Is(f, {"completed"})
          /\ UNCHANGED <<job, live, records, accounts, consent, worker, faults>>
      BY <1>5 DEF Release
    <2>4. FlowTypes'
      BY <1>0, <2>2, <2>3 DEF FlowTypes, Bound
    <2>5. Carries(f)
      BY <1>0, <2>2, <2>3
         DEF Carries, RowsAgree, Is, Anonymous, Kept, Fenced, Active, Idle, Bindable, Handled, Bound
    <2> QED BY <1>1, <2>2, <2>3, <2>4, <2>5 DEF Is
  <1> QED BY <1>2, <1>3, <1>4, <1>5 DEF Undecided

LEMMA UndecidedKeeps ==
  ASSUME IInv, NEW f \in Flows, Undecided(f)
  PROVE  IInv'
  <1>1. TypeOK'
    BY UndecidedCarries, GroupsKept, TypesByGroupNext DEF IInv
  <1>2. SignIns' /\ Records' /\ Remembered'
    BY UndecidedCarries, SignInsCarried, RecordsCarried, RememberedCarried DEF IInv, Remembered, Carries, Bound
  <1> QED BY <1>1, <1>2 DEF IInv

\* A sign-in begins from a session no unfinished sign-in names, or from an
\* anonymous user no flow ever started from.
LEMMA BeginKeeps ==
  ASSUME IInv, NEW f \in Flows, NEW x \in Anons \cup Flows, Begin(f, x)
  PROVE  IInv'
  <1> USE DEF IInv
  <1> DEFINE stale(g) == flow[g].source = x /\ Is(g, {"pending"}) /\ Due(g)
             next == [flow[f] EXCEPT !.state = "pending", !.source = x]
             status == IF x \in Anons THEN "dormant" ELSE "none"
             task == [job[f] EXCEPT !.status = status]
  <1>0. /\ flow \in [Flows -> FlowRow] /\ job \in [Flows -> JobRow]
        /\ live \subseteq {g \in Flows : Bound(g)} /\ \A g \in Flows : RowsAgree(g)
    BY TypesByGroup DEF FlowTypes, SignIns
  <1>1. /\ Is(f, {"none"}) /\ x # f
        /\ IF x \in Anons THEN SourceFree(x) ELSE x \in live
        /\ \A g \in Flows : ~stale(g) => ~(Fenced(g) /\ x \in Ends(g))
        /\ flow' = [g \in Flows |-> IF g = f THEN next ELSE IF stale(g) THEN Ended(g) ELSE flow[g]]
        /\ job' = [job EXCEPT ![f] = task]
        /\ UNCHANGED <<live, records, accounts, consent, worker, faults>>
    BY <1>0 DEF Begin
  <1>2. ASSUME x \in Anons, NEW g \in Flows PROVE flow[g].source # x
    <2> SUFFICES ASSUME flow[g].source = x PROVE FALSE
      OBVIOUS
    <2>1. x \in exists /\ job[g].status = "completed" /\ Anonymous(g)
      BY <1>1, <1>2 DEF SourceFree, Anonymous
    <2>2. Is(g, {"moved"})
      BY <1>0, <2>1, FlowFields, NoneIsNobody
         DEF RowsAgree, Fenced, Active, Is, Idle, Bindable, Kept, States, Anonymous
    <2> QED BY <2>1, <2>2 DEF Records, MovedIsDone
  <1>3. ASSUME x \notin Anons PROVE x \in Flows /\ Bound(x) /\ ~Is(x, {"none"})
    BY <1>0, <1>1, <1>3 DEF RowsAgree
  <1>4. /\ next \in FlowRow /\ next.state = "pending" /\ next.source = x
        /\ next.target = flow[f].target /\ flow[f].target = None
        /\ task \in JobRow /\ task.status = status
    <2>1. flow[f].target = None
      BY <1>0, <1>1 DEF RowsAgree, Bound
    <2>2. status \in Statuses
      BY DEF Statuses
    <2> HIDE DEF status
    <2>3. next \in FlowRow /\ next.state = "pending" /\ next.source = x /\ next.target = flow[f].target
      BY FlowFields DEF FlowRow, States
    <2>4. task \in JobRow /\ task.status = status
      BY <2>2, FlowFields DEF JobRow
    <2> QED BY <2>1, <2>3, <2>4
  <1>5. \A g \in Flows : /\ Ended(g) \in FlowRow /\ Ended(g).state = "ended" /\ Ended(g).source = None
                         /\ Ended(g).target = flow[g].target
    BY FlowFields DEF Ended, Blank, FlowRow, States, Ages
  <1>6. /\ flow' \in [Flows -> FlowRow] /\ flow'[f] = next
        /\ \A g \in Flows : g # f => flow'[g] = IF stale(g) THEN Ended(g) ELSE flow[g]
    <2> HIDE DEF next, stale
    <2> QED BY <1>0, <1>1, <1>4, <1>5
  <1>7. job' \in [Flows -> JobRow] /\ job'[f] = task /\ \A g \in Flows : g # f => job'[g] = job[g]
    <2> HIDE DEF task
    <2> QED BY <1>1, <1>4, WriteJob
  <1>8. /\ flow'[f].state = "pending" /\ flow'[f].source = x /\ flow'[f].target = None
        /\ job'[f].status = status
    BY <1>4, <1>6, <1>7
  <1>9. ASSUME NEW g \in Flows, g # f
        PROVE  Carries(g) /\ (Fenced(g)' => x \notin Ends(g) /\ flow'[g] = flow[g])
    <2>1. CASE ~stale(g)
      BY <1>0, <1>1, <1>6, <1>7, <1>9, <2>1, SameCarries DEF Carries
    <2>2. CASE stale(g)
      <3>1. x \notin Anons
        BY <1>2, <2>2
      <3>2. ~Anonymous(g) /\ Fenced(g) /\ Is(g, {"pending"})
        BY <2>2, <3>1 DEF Anonymous, Fenced, Active, Is
      <3>3. /\ flow'[g].state = "ended" /\ flow'[g].source = None /\ flow'[g].target = flow[g].target
            /\ job'[g] = job[g]
        BY <1>5, <1>6, <1>7, <1>9, <2>2
      <3> HIDE DEF stale, next, status, task
      <3> QED BY <1>0, <3>2, <3>3, NoneIsNobody
              DEF Carries, RowsAgree, Is, Anonymous, Kept, Fenced, Active, Idle, Bindable, Handled, Bound
    <2> QED BY <2>1, <2>2
  <1> HIDE DEF stale, next, task
  <1>10. RowsAgree(f)'
    BY <1>1, <1>8, NoneIsNobody
       DEF RowsAgree, Is, Anonymous, Kept, Fenced, Active, Idle, Bindable, Bound
  <1>11. \A g \in Flows : Bound(g) => Bound(g)'
    BY <1>4, <1>9 DEF Carries, Bound
  <1>12. \A g \in Flows : g # f /\ flow'[g].source # None => flow'[g].source = flow[g].source
    BY <1>9 DEF Carries, RowsAgree, Is, Idle
  <1>13. SignIns'
    <2>1. \A g \in Flows : RowsAgree(g)'
      BY <1>9, <1>10 DEF Carries
    <2>2. SourcesBound'
      <3>1. ASSUME NEW g \in Flows, flow'[g].source \in Flows PROVE Bound(flow[g].source) \/ g = f
        BY <1>12, <3>1, NoneIsNobody DEF SignIns, SourcesBound
      <3>2. ASSUME NEW g \in Flows, flow'[g].source \in Flows PROVE flow'[flow'[g].source].target # None
        <4>1. CASE g = f
          BY <1>3, <1>8, <1>11, <3>2, <4>1, NoneIsNobody DEF Bound
        <4>2. CASE g # f
          BY <1>11, <1>12, <3>1, <3>2, <4>2, NoneIsNobody DEF Bound
        <4> QED BY <4>1, <4>2
      <3> QED BY <3>2 DEF SourcesBound, Bound
    <2>3. SourceOnce'
      BY <1>2, <1>8, <1>12, NoneIsNobody DEF SignIns, SourceOnce, Anonymous
    <2>4. OneSignIn'
      <3>1. ASSUME NEW g \in Flows, g # f, Fenced(g)' PROVE Ends(f)' \cap Ends(g)' = {}
        <4>1. Ends(f)' = {x} /\ Ends(g)' = Ends(g)
          BY <1>8, <1>9, <3>1 DEF Ends, Bound
        <4> QED BY <1>9, <3>1, <4>1
      <3>2. ASSUME NEW g \in Flows, NEW h \in Flows, g # h, Fenced(g)', Fenced(h)'
            PROVE  Ends(g)' \cap Ends(h)' = {}
        <4>1. CASE g # f /\ h # f
          BY <1>9, <3>2, <4>1, PairCarried
        <4> QED BY <3>1, <3>2, <4>1
      <3>3. ASSUME NEW g \in Flows, NEW h \in Flows, g # h, Promised(g)', Promised(h)'
            PROVE  flow'[g].source # flow'[h].source
        BY <2>3, <3>3 DEF SourceOnce, Promised
      <3> QED BY <3>2, <3>3 DEF OneSignIn
    <2> QED BY <2>1, <2>2, <2>3, <2>4 DEF SignIns
  <1>14. Records'
    <2>1. \A g \in Flows : Is(g, {"moved"}) <=> Is(g, {"moved"})'
      <3>1. ASSUME NEW g \in Flows, g # f PROVE flow'[g].state = flow[g].state \/
                                                (flow'[g].state = "ended" /\ flow[g].state = "pending")
        BY <1>5, <1>6, <3>1 DEF stale, Is
      <3> QED BY <1>1, <1>8, <3>1 DEF Is
    <2>2. \A g \in Flows : Is(g, {"moved"}) => flow'[g] = flow[g] /\ job'[g] = job[g]
      <3>1. ASSUME NEW g \in Flows, Is(g, {"moved"}) PROVE g # f /\ ~stale(g)
        BY <1>1, <3>1 DEF Is, stale
      <3> QED BY <1>6, <1>7, <3>1
    <2>3. UnmovedExist'
      <3>1. ASSUME x \in Anons PROVE x \in exists
        BY <1>1, <3>1 DEF SourceFree
      <3> QED BY <1>1, <1>8, <1>12, <2>1, <3>1, NoneIsNobody
              DEF Records, UnmovedExist, Anonymous, records
    <2>4. MovedIsDone'
      BY <1>1, <2>1, <2>2 DEF Records, MovedIsDone, records
    <2>5. ReceiptOfMoved'
      BY <1>1, <2>1, <2>2 DEF Records, ReceiptOfMoved, records
    <2>6. DeletedLeavesNothing'
      BY <1>1 DEF Records, DeletedLeavesNothing, records
    <2> QED BY <2>3, <2>4, <2>5, <2>6 DEF Records
  <1>15. Remembered'
    <2>1. \A g \in Flows : Is(g, Handled) => Carries(g)
      BY <1>1, <1>9 DEF Is, Handled
    <2> QED BY <1>1, <1>11, <2>1, RememberedCarried DEF Remembered
  <1>16. TypeOK'
    <2>1. FlowTypes'
      BY <1>0, <1>1, <1>6, <1>7, <1>11 DEF FlowTypes
    <2> QED BY <1>1, <2>1, GroupsKept, TypesByGroupNext
  <1> QED BY <1>13, <1>14, <1>15, <1>16

---------------------------------------------------------------------------
(* The fate of the records.                                                *)

\* Records are hidden or erased only in the name of a flow that did not move
\* them, and no other flow has the same source.
LEMMA HidingKeeps ==
  ASSUME TypeOK, SignIns, Records, NEW f \in Flows, Anonymous(f), ~Is(f, {"moved"}),
         \A g \in Flows : Carries(g), flow'[f].state # "moved",
         \A g \in Flows : g # f => flow'[g] = flow[g] /\ job'[g] = job[g],
         NEW view \in {"hidden", "erased"}, shown' = [shown EXCEPT ![flow[f].source] = view],
         UNCHANGED <<exists, owns, receipt>>
  PROVE  Records' /\ RecordTypes'
  <1>1. RecordTypes'
    BY TypesByGroup DEF RecordTypes, Anonymous
  <1>2. \A s \in Anons : s # flow[f].source => shown'[s] = shown[s]
    BY TypesByGroup DEF RecordTypes
  <1>3. \A g \in Flows : Is(g, {"moved"}) <=> Is(g, {"moved"})'
    BY DEF Is
  <1>4. \A g \in Flows : Is(g, {"moved"}) =>
          /\ g # f /\ Anonymous(g) /\ flow[g].source # flow[f].source
          /\ flow'[g] = flow[g] /\ job'[g] = job[g]
    BY DEF SignIns, RowsAgree, SourceOnce, Is
  <1>5. UnmovedExist'
    BY <1>3, NoneIsNobody DEF Carries, RowsAgree, Is, Idle, Records, UnmovedExist, Anonymous
  <1>6. MovedIsDone'
    BY <1>2, <1>3, <1>4 DEF Records, MovedIsDone, Anonymous
  <1>7. ReceiptOfMoved'
    BY <1>3, <1>4 DEF Records, ReceiptOfMoved
  <1>8. DeletedLeavesNothing'
    <2>1. flow[f].source \in exists
      BY DEF Records, UnmovedExist
    <2> QED BY <1>2, <2>1 DEF Records, DeletedLeavesNothing
  <1> QED BY <1>1, <1>5, <1>6, <1>7, <1>8 DEF Records

\* A flow whose migration is skipped, or undone by the prune.
LEMMA SkippingCarries ==
  ASSUME TypeOK, SignIns, Records, NEW f \in Flows, Anonymous(f), UNCHANGED live,
         \/ Skip(f) /\ Is(f, {"completed", "released"})
         \/ Scrub(f) /\ Is(f, {"released", "skipped"})
         \/ Quarantine(f) /\ Is(f, {"released"})
  PROVE  /\ FlowTypes' /\ Records' /\ RecordTypes'
         /\ \A g \in Flows : Carries(g)
  <1>0. RowsAgree(f) /\ live \subseteq {g \in Flows : Bound(g)}
    BY TypesByGroup DEF SignIns, FlowTypes
  <1>1. \/ Put(f, "quarantined") /\ UNCHANGED flow /\ Is(f, {"released"})
        \/ Put(f, "quarantined") /\ Become(f, "skipped")
        \/ Put(f, "scrubbed") /\ flow' = [flow EXCEPT ![f].state = "skipped", ![f].age = "fresh"]
    BY DEF Skip, Scrub, Quarantine
  <1>2. /\ flow' \in [Flows -> FlowRow] /\ flow'[f].source = flow[f].source
        /\ flow'[f].target = flow[f].target /\ \A g \in Flows : g # f => flow'[g] = flow[g]
        /\ \/ flow'[f].state = "skipped"
           \/ flow'[f].state = "released" /\ job'[f].status = "quarantined"
    <2>1. CASE Put(f, "quarantined") /\ UNCHANGED flow /\ Is(f, {"released"})
      BY <2>1, PutWrites, TypesByGroup DEF FlowTypes, Is, Statuses
    <2>2. CASE Become(f, "skipped")
      BY <2>2, BecomeAtOnce DEF States
    <2>3. CASE flow' = [flow EXCEPT ![f].state = "skipped", ![f].age = "fresh"]
      BY <2>3, BecomeWrites DEF States, Ages
    <2> QED BY <1>1, <2>1, <2>2, <2>3
  <1>3. /\ job' \in [Flows -> JobRow] /\ job'[f].status \in {"quarantined", "scrubbed"}
        /\ \A g \in Flows : g # f => job'[g] = job[g]
    BY <1>1, PutWrites DEF Statuses
  <1>4. Is(f, {"completed", "released", "skipped"}) /\ ~Is(f, {"moved"})
    BY DEF Is
  <1>5. \A g \in Flows : Carries(g)
    <2>1. Carries(f)
      BY <1>0, <1>2, <1>3, <1>4
         DEF Carries, RowsAgree, Is, Anonymous, Kept, Fenced, Active, Idle, Bindable, Handled, Bound
    <2> QED BY <1>2, <1>3, <2>1, SameCarries DEF SignIns
  <1>6. FlowTypes'
    BY <1>0, <1>2, <1>3, <1>5 DEF FlowTypes, Bound, Carries
  <1>7. Records' /\ RecordTypes'
    <2>1. PICK view \in {"hidden", "erased"} :
            shown' = [shown EXCEPT ![flow[f].source] = view] /\ UNCHANGED <<exists, owns, receipt>>
      BY DEF Skip, Scrub, Quarantine
    <2>2. flow'[f].state # "moved"
      BY <1>2
    <2> QED BY <1>2, <1>3, <1>4, <1>5, <2>1, <2>2, HidingKeeps
  <1> QED BY <1>5, <1>6, <1>7

\* The records move, with a receipt.
LEMMA TransferCarries ==
  ASSUME TypeOK, SignIns, Records, NEW f \in Flows, Anonymous(f), Is(f, {"released"}),
         UNCHANGED live, Transfer(f)
  PROVE  /\ FlowTypes' /\ Records' /\ RecordTypes'
         /\ \A g \in Flows : Carries(g)
         /\ flow'[f].state = "moved"
  <1> DEFINE s == flow[f].source
             t == flow[f].target
  <1>0. /\ RowsAgree(f) /\ live \subseteq {g \in Flows : Bound(g)}
        /\ s \in Anons /\ s \in exists /\ t \in Targets /\ t # None
    <2>1. RowsAgree(f) /\ Bound(f)
      BY DEF SignIns, RowsAgree, Is, Idle, Bindable
    <2>2. s \in exists
      BY DEF Records, UnmovedExist, Is
    <2> QED BY <2>1, <2>2, FlowFields, TypesByGroup DEF FlowTypes, Anonymous, Bound
  <1>1. /\ flow' \in [Flows -> FlowRow] /\ flow'[f].state = "moved"
        /\ flow'[f].source = s /\ flow'[f].target = t
        /\ \A g \in Flows : g # f => flow'[g] = flow[g]
    BY BecomeWrites DEF Transfer, States, Ages
  <1>2. /\ job' \in [Flows -> JobRow] /\ job'[f].status = "pending"
        /\ \A g \in Flows : g # f => job'[g] = job[g]
    BY PutWrites DEF Transfer, Statuses
  <1>3. /\ receipt' = [receipt EXCEPT ![s] = t] /\ owns' = owns \ {s}
        /\ shown' = [shown EXCEPT ![s] = "open"] /\ exists' = exists
    BY DEF Transfer
  <1> HIDE DEF s, t
  <1>4. /\ RecordTypes' /\ receipt'[s] = t /\ shown'[s] = "open"
        /\ \A u \in Anons : u # s => receipt'[u] = receipt[u] /\ shown'[u] = shown[u]
    BY <1>0, <1>3, TypesByGroup DEF RecordTypes
  <1>5. \A g \in Flows : Carries(g)
    <2>1. Carries(f)
      BY <1>0, <1>1, <1>2 DEF s, t,
          Carries, RowsAgree, Is, Anonymous, Kept, Fenced, Active, Idle, Bindable, Handled, Bound
    <2> QED BY <1>1, <1>2, <2>1, SameCarries DEF SignIns
  <1>6. FlowTypes'
    BY <1>0, <1>1, <1>2, <1>5 DEF FlowTypes, Bound, Carries
  <1>7. \A g \in Flows : g # f => (Is(g, {"moved"}) <=> Is(g, {"moved"})')
    BY <1>1 DEF Is
  <1>8. \A g \in Flows : g # f /\ Anonymous(g) => flow[g].source # s
    BY DEF SignIns, SourceOnce, Anonymous, s
  <1>9. \A g \in Flows : Is(g, {"moved"}) => Anonymous(g) /\ g # f
    BY DEF SignIns, RowsAgree, Is
  <1>10. UnmovedExist'
    BY <1>1, <1>3, <1>7 DEF Records, UnmovedExist, Anonymous, Is
  <1>11. MovedIsDone'
    <2>1. ASSUME NEW g \in Flows, g # f, Is(g, {"moved"})'
          PROVE  LET u == flow[g].source IN
                   /\ receipt'[u] # None /\ u \notin owns' /\ shown'[u] = "open"
                   /\ job'[g].status = "completed" => u \notin exists'
      BY <1>2, <1>3, <1>4, <1>7, <1>8, <1>9, <2>1 DEF Records, MovedIsDone, Anonymous
    <2> QED BY <1>0, <1>1, <1>2, <1>3, <1>4, <2>1 DEF MovedIsDone
  <1>12. ReceiptOfMoved'
    <2>1. ASSUME NEW u \in exists', receipt'[u] # None, u # s
          PROVE  \E g \in Flows : Is(g, {"moved"})' /\ flow'[g].source = u
      <3>1. u \in exists /\ receipt[u] # None
        BY <1>3, <1>4, <2>1, TypesByGroup DEF RecordTypes
      <3>2. PICK g \in Flows : Is(g, {"moved"}) /\ flow[g].source = u
        BY <3>1 DEF Records, ReceiptOfMoved
      <3> QED BY <1>1, <1>7, <1>9, <3>2
    <2>2. Is(f, {"moved"})' /\ flow'[f].source = s
      BY <1>1 DEF Is
    <2> QED BY <2>1, <2>2 DEF ReceiptOfMoved
  <1>13. DeletedLeavesNothing'
    BY <1>0, <1>3, <1>4 DEF Records, DeletedLeavesNothing
  <1> QED BY <1>1, <1>4, <1>5, <1>6, <1>10, <1>11, <1>12, <1>13 DEF Records

\* Deleting the source of a flow that moved leaves nothing behind.
LEMMA DeletingKeeps ==
  ASSUME TypeOK, SignIns, Records, NEW f \in Flows, Is(f, {"moved"}),
         exists' = exists \ {flow[f].source}, UNCHANGED <<flow, job, owns, receipt, shown>>
  PROVE  Records' /\ RecordTypes'
  <1>1. RecordTypes'
    BY TypesByGroup DEF RecordTypes
  <1>2. UnmovedExist'
    BY DEF Records, UnmovedExist, SignIns, SourceOnce, Anonymous, Is
  <1>3. MovedIsDone'
    BY DEF Records, MovedIsDone, Is
  <1>4. ReceiptOfMoved'
    BY DEF Records, ReceiptOfMoved, Is
  <1>5. DeletedLeavesNothing'
    BY DEF Records, DeletedLeavesNothing, MovedIsDone, Is
  <1> QED BY <1>1, <1>2, <1>3, <1>4, <1>5 DEF Records

---------------------------------------------------------------------------
(* Consent, the prune and the players.                                     *)

\* A step that touches no flow carries every flow.
LEMMA UntouchedCarries ==
  ASSUME SignIns, UNCHANGED flow, \A g \in Flows : job'[g].status = job[g].status
  PROVE  \A g \in Flows : Carries(g)
  BY SameCarries DEF SignIns

LEMMA StepWrites ==
  ASSUME TypeOK, NEW x \in Flows, NEW at \in {"idle", "found", "delete", "join"},
         NEW f \in Flows \cup {None}, Step(x, at, f)
  PROVE  /\ consent' \in [Flows -> Wanted] /\ consent'[x].at = at /\ consent'[x].flow = f
         /\ \A y \in Flows : y # x => consent'[y] = consent[y]
  <1> DEFINE next == [at |-> at, flow |-> f]
  <1>1. next \in Wanted /\ next.at = at /\ next.flow = f
    BY DEF Wanted
  <1>2. consent' = [consent EXCEPT ![x] = next] /\ consent \in [Flows -> Wanted]
    BY TypesByGroup DEF Step, MindTypes
  <1> HIDE DEF next
  <1> QED BY <1>1, <1>2

\* A consent request that remembers what holds.
LEMMA ConsentKeeps ==
  ASSUME IInv, NEW x \in Flows, NEW at \in {"idle", "found", "delete", "join"},
         NEW f \in Flows \cup {None}, Step(x, at, f),
         at # "idle" => Bound(x),
         at = "found" => f \in Flows /\ Is(f, Handled) /\ Anonymous(f),
         at = "delete" => f \in Flows /\ flow'[f].state = "moved",
         \A g \in Flows : Carries(g), UNCHANGED worker
  PROVE  Remembered' /\ MindTypes'
  <1>1. /\ consent' \in [Flows -> Wanted] /\ consent'[x].at = at /\ consent'[x].flow = f
        /\ \A y \in Flows : y # x => consent'[y] = consent[y]
    BY StepWrites DEF IInv
  <1>2. MindTypes'
    BY <1>1, TypesByGroup DEF MindTypes, IInv
  <1>3. ConsentHolds' /\ WorkersHold'
    BY <1>1, RememberedCarried DEF IInv, Carries, Bound
  <1> QED BY <1>2, <1>3 DEF Remembered

\* A step of a consent request that decides nothing.
LEMMA QuietConsentKeeps ==
  ASSUME IInv, NEW x \in Flows,
         \/ \E f \in Flows : FindFlow(x, f)
         \/ FindNone(x) \/ Replay(x) \/ Join(x) \/ Drop(x)
  PROVE  IInv'
  <1>1. /\ UNCHANGED <<flow, job, live, records, worker, faults>> /\ AccountTypes'
        /\ \A g \in Flows : Carries(g)
    <2>1. UNCHANGED <<flow, job, live, records, worker, faults>>
      BY DEF FindFlow, FindNone, Replay, Join, Drop
    <2>2. AccountTypes'
      <3>1. CASE Join(x)
        <4>1. flow[x].target \in Targets
          BY <3>1, TypesByGroup, FlowFields DEF Join, IInv, Remembered, ConsentHolds, FlowTypes, Bound
        <4> QED BY <3>1, <4>1, TypesByGroup DEF Join, AccountTypes, IInv
      <3>2. CASE ~Join(x)
        BY <3>2, GroupsKept DEF IInv, FindFlow, FindNone, Replay, Drop
      <3> QED BY <3>1, <3>2
    <2> QED BY <2>1, <2>2, UntouchedCarries DEF IInv
  <1>2. PICK at \in {"idle", "found", "delete", "join"}, f \in Flows \cup {None} :
          /\ Step(x, at, f)
          /\ at # "idle" => Bound(x)
          /\ at = "found" => f \in Flows /\ Is(f, Handled) /\ Anonymous(f)
          /\ at = "delete" => f \in Flows /\ flow'[f].state = "moved"
    <2>0. x \in live \/ consent[x].at # "idle" => Bound(x)
      BY TypesByGroup DEF IInv, FlowTypes, Remembered, ConsentHolds
    <2>1. ASSUME NEW f \in Flows, FindFlow(x, f)
          PROVE  x \in live /\ Step(x, "found", f) /\ Is(f, Handled) /\ Anonymous(f)
      BY <2>1 DEF FindFlow, Handled
    <2>2. CASE FindNone(x) \/ Join(x) \/ Drop(x)
      BY <2>0, <2>2 DEF FindNone, Join, Drop
    <2>3. CASE Replay(x)
      <3>1. consent[x].flow \in Flows
        BY <2>3 DEF Replay, IInv, Remembered, ConsentHolds
      <3>2. CASE Is(consent[x].flow, {"moved"})
        BY <1>1, <2>0, <2>3, <3>1, <3>2 DEF Replay, After, Is
      <3>3. CASE ~Is(consent[x].flow, {"moved"})
        BY <2>0, <2>3, <3>3 DEF Replay, After
      <3> QED BY <3>2, <3>3
    <2> QED BY <2>0, <2>1, <2>2, <2>3
  <1>3. Remembered' /\ MindTypes'
    BY <1>1, <1>2, ConsentKeeps
  <1>4. SignIns' /\ Records'
    BY <1>1, SignInsCarried, RecordsCarried DEF IInv, Is
  <1>5. TypeOK'
    BY <1>1, <1>3, GroupsKept, TypesByGroupNext DEF IInv
  <1> QED BY <1>3, <1>4, <1>5 DEF IInv

\* A consent request decides about the records its flow left behind.
LEMMA ConsumeKeeps ==
  ASSUME IInv, NEW x \in Flows, Consume(x)
  PROVE  IInv'
  <1> DEFINE f == consent[x].flow
  <1>1. f \in Flows /\ Anonymous(f) /\ Is(f, {"released"}) /\ Bound(x)
    BY DEF Consume, IInv, Remembered, ConsentHolds
  <1>2. UNCHANGED <<live, accounts, worker, faults>>
    BY DEF Consume
  <1>3. CASE Skip(f) /\ Step(x, "join", None)
    <2>1. FlowTypes' /\ Records' /\ RecordTypes' /\ \A g \in Flows : Carries(g)
      BY <1>1, <1>2, <1>3, SkippingCarries DEF IInv, Is
    <2>2. Remembered' /\ MindTypes'
      BY <1>1, <1>2, <1>3, <2>1, ConsentKeeps
    <2>3. SignIns'
      BY <2>1, SignInsCarried DEF IInv
    <2>4. TypeOK'
      BY <1>2, <2>1, <2>2, GroupsKept, TypesByGroupNext DEF IInv
    <2> QED BY <2>1, <2>2, <2>3, <2>4 DEF IInv
  <1>4. CASE Transfer(f) /\ Step(x, "delete", f)
    <2>1. /\ FlowTypes' /\ Records' /\ RecordTypes' /\ \A g \in Flows : Carries(g)
          /\ flow'[f].state = "moved"
      BY <1>1, <1>2, <1>4, TransferCarries DEF IInv
    <2> HIDE DEF f
    <2>2. Remembered' /\ MindTypes'
      BY <1>1, <1>2, <1>4, <2>1, ConsentKeeps
    <2>3. SignIns'
      BY <2>1, SignInsCarried DEF IInv
    <2>4. TypeOK'
      BY <1>2, <2>1, <2>2, GroupsKept, TypesByGroupNext DEF IInv
    <2> QED BY <2>1, <2>2, <2>3, <2>4 DEF IInv
  <1> QED BY <1>3, <1>4 DEF Consume

\* The route deletes the source once its records have moved.
LEMMA RemoveKeeps ==
  ASSUME IInv, NEW x \in Flows, Remove(x)
  PROVE  IInv'
  <1> DEFINE f == consent[x].flow
  <1>1. f \in Flows /\ Is(f, {"moved"}) /\ Bound(x)
    BY DEF Remove, IInv, Remembered, ConsentHolds
  <1>2. /\ exists' = exists \ {flow[f].source}
        /\ UNCHANGED <<flow, job, live, owns, receipt, shown, accounts, worker, faults>>
        /\ \E at \in {"join", "idle"} : Step(x, at, None)
    BY DEF Remove
  <1> HIDE DEF f
  <1>3. Records' /\ RecordTypes'
    BY <1>1, <1>2, DeletingKeeps DEF IInv
  <1>4. \A g \in Flows : Carries(g)
    BY <1>2, UntouchedCarries DEF IInv
  <1>5. Remembered' /\ MindTypes'
    BY <1>1, <1>2, <1>4, ConsentKeeps
  <1>6. SignIns'
    BY <1>4, SignInsCarried DEF IInv
  <1>7. TypeOK'
    BY <1>2, <1>3, <1>5, GroupsKept, TypesByGroupNext DEF IInv
  <1> QED BY <1>3, <1>5, <1>6, <1>7 DEF IInv

\* The release of a sign-in to an account that exists, and the prune.
LEMMA SkippingKeeps ==
  ASSUME IInv, NEW f \in Flows,
         \/ Release(f) /\ Anonymous(f) /\ flow[f].target \in member
         \/ PrunePrivacy(f)
  PROVE  IInv'
  <1>1. UNCHANGED <<live, accounts, consent, worker, faults>>
    BY DEF Release, PrunePrivacy
  <1>2. FlowTypes' /\ Records' /\ RecordTypes' /\ \A g \in Flows : Carries(g)
    <2>1. CASE Release(f) /\ Anonymous(f) /\ flow[f].target \in member
      BY <1>1, <2>1, SkippingCarries DEF IInv, Release, Is
    <2>2. CASE PrunePrivacy(f)
      <3>1. Anonymous(f)
        BY <2>2 DEF PrunePrivacy, IInv, SignIns, RowsAgree, Kept
      <3>2. \/ Scrub(f) /\ Is(f, {"released", "skipped"})
            \/ Quarantine(f) /\ Is(f, {"released"})
        BY <2>2 DEF PrunePrivacy, Deserted
      <3> QED BY <1>1, <3>1, <3>2, SkippingCarries DEF IInv
    <2> QED BY <2>1, <2>2
  <1>3. SignIns' /\ Remembered'
    BY <1>1, <1>2, SignInsCarried, RememberedCarried DEF IInv, Remembered, Carries, Bound
  <1>4. TypeOK'
    BY <1>1, <1>2, GroupsKept, TypesByGroupNext DEF IInv
  <1> QED BY <1>2, <1>3, <1>4 DEF IInv

\* Players play, leave, come back and sign out.
LEMMA PlayersKeep ==
  ASSUME IInv,
         \/ \E s \in Anons : Play(s)
         \/ \E t \in Targets : Withdraw(t) \/ Reactivate(t)
         \/ \E x \in Flows : EndSession(x)
  PROVE  IInv'
  <1>1. /\ UNCHANGED <<flow, job, consent, worker, faults>> /\ live' \subseteq live
        /\ AccountTypes'
    BY TypesByGroup DEF IInv, AccountTypes, Play, Withdraw, Reactivate, EndSession, accounts
  <1>2. FlowTypes'
    BY <1>1, TypesByGroup DEF IInv, FlowTypes, Bound
  <1>3. \A g \in Flows : Carries(g)
    BY <1>1, UntouchedCarries DEF IInv
  <1>4. SignIns' /\ Remembered'
    BY <1>1, <1>3, SignInsCarried, RememberedCarried DEF IInv, Remembered, Carries, Bound
  <1>5. Records' /\ RecordTypes'
    <2>1. CASE UNCHANGED records
      BY <1>1, <1>3, <2>1, RecordsCarried, GroupsKept DEF IInv, Is
    <2>2. ASSUME NEW s \in Anons, Play(s) PROVE Records' /\ RecordTypes'
      <3>1. /\ s \in exists /\ receipt[s] = None /\ owns' = owns \cup {s}
            /\ UNCHANGED <<flow, job, exists, receipt, shown>>
        BY <2>2 DEF Play, MayPlay
      <3>2. RecordTypes'
        BY <3>1, TypesByGroup DEF IInv, RecordTypes
      <3>3. UnmovedExist' /\ ReceiptOfMoved' /\ DeletedLeavesNothing'
        BY <3>1 DEF IInv, Records, UnmovedExist, ReceiptOfMoved, DeletedLeavesNothing, Anonymous, Is
      <3>4. MovedIsDone'
        BY <3>1 DEF IInv, Records, MovedIsDone, Is
      <3> QED BY <3>2, <3>3, <3>4 DEF Records
    <2> QED BY <2>1, <2>2 DEF Withdraw, Reactivate, EndSession
  <1>6. TypeOK'
    BY <1>1, <1>2, <1>5, GroupsKept, TypesByGroupNext DEF IInv
  <1> QED BY <1>4, <1>5, <1>6 DEF IInv

---------------------------------------------------------------------------
(* The workers.                                                            *)

\* A job that waits or is leased is that of a flow which moved.
LEMMA JobsOfMoved ==
  ASSUME TypeOK, SignIns, NEW f \in Flows, job[f].status \in {"pending", "leased"}
  PROVE  Is(f, {"moved"})
  BY FlowFields, NoneIsNobody DEF SignIns, RowsAgree, Anonymous, Is, Idle, Bindable, Fenced, Active, Kept, States

\* A worker writes only jobs of flows that moved, and calls one completed only
\* when its user is gone.
WritesAsWorker ==
  /\ job' \in [Flows -> JobRow]
  /\ \A g \in Flows : job'[g] # job[g] =>
       /\ Is(g, {"moved"})
       /\ job'[g].status \in {"pending", "leased", "completed"}
       /\ job'[g].status = "completed" => flow[g].source \notin exists

\* A worker that remembers what holds.
LEMMA WorkerKeeps ==
  ASSUME IInv, NEW w \in Workers,
         NEW at \in {"idle", "present", "missing", "delete", "giveback", "finish"},
         NEW f \in Flows \cup {None}, Set(w, at, f),
         at # "idle" => f \in Flows /\ Is(f, {"moved"}),
         UNCHANGED <<flow, live, accounts, consent>>, UNCHANGED faults \/ Fault,
         \/ WritesAsWorker /\ UNCHANGED records
         \/ /\ UNCHANGED job
            /\ \E g \in Flows : Is(g, {"moved"}) /\ exists' = exists \ {flow[g].source}
            /\ UNCHANGED <<owns, receipt, shown>>
  PROVE  IInv'
  <1>1. /\ worker' \in [Workers -> Tasks] /\ worker'[w].at = at /\ worker'[w].flow = f
        /\ \A v \in Workers : v # w => worker'[v] = worker[v]
    <2> DEFINE next == [at |-> at, flow |-> f]
    <2>1. next \in Tasks /\ next.at = at /\ next.flow = f
      BY DEF Tasks
    <2>2. worker' = [worker EXCEPT ![w] = next] /\ worker \in [Workers -> Tasks]
      BY TypesByGroup DEF Set, MindTypes, IInv
    <2> HIDE DEF next
    <2> QED BY <2>1, <2>2
  <1>2. job' \in [Flows -> JobRow]
    BY TypesByGroup DEF WritesAsWorker, IInv, FlowTypes
  <1>3. \A g \in Flows : Carries(g)
    <2>1. ASSUME NEW g \in Flows, job'[g] = job[g] PROVE Carries(g)
      BY <2>1, SameCarries DEF IInv, SignIns
    <2>2. ASSUME NEW g \in Flows, job'[g] # job[g] PROVE Carries(g)
      <3>1. Is(g, {"moved"}) /\ job'[g].status \in {"pending", "leased", "completed"} /\ RowsAgree(g)
        BY <2>2 DEF WritesAsWorker, IInv, SignIns
      <3>2. flow' = flow
        OBVIOUS
      <3> QED BY <3>1, <3>2
              DEF Carries, RowsAgree, Is, Anonymous, Kept, Fenced, Active, Idle, Bindable, Handled, Bound
    <2> QED BY <2>1, <2>2
  <1>4. Records' /\ RecordTypes'
    <2>1. CASE WritesAsWorker /\ UNCHANGED records
      <3>1. \A g \in Flows : flow'[g].state = "moved" =>
                               /\ Is(g, {"moved"})
                               /\ job'[g].status = "completed" =>
                                    job[g].status = "completed" \/ flow[g].source \notin exists
        BY <2>1 DEF WritesAsWorker, Is
      <3> QED BY <1>3, <2>1, <3>1, RecordsCarried, GroupsKept DEF IInv
    <2>2. CASE /\ UNCHANGED job
               /\ \E g \in Flows : Is(g, {"moved"}) /\ exists' = exists \ {flow[g].source}
               /\ UNCHANGED <<owns, receipt, shown>>
      BY <2>2, DeletingKeeps DEF IInv
    <2> QED BY <2>1, <2>2
  <1>5. Remembered'
    <2>1. ConsentHolds'
      BY <1>3, RememberedCarried DEF IInv, Carries, Bound
    <2>2. WorkersHold'
      BY <1>1 DEF IInv, Remembered, WorkersHold, Is
    <2> QED BY <2>1, <2>2 DEF Remembered
  <1>6. SignIns'
    BY <1>3, SignInsCarried DEF IInv
  <1>7. TypeOK'
    <2>1. FlowTypes'
      BY <1>2, TypesByGroup DEF IInv, FlowTypes, Bound
    <2>2. MindTypes'
      BY <1>1, TypesByGroup DEF IInv, MindTypes
    <2> QED BY <1>4, <2>1, <2>2, GroupsKept, TypesByGroupNext DEF IInv
  <1> QED BY <1>4, <1>5, <1>6, <1>7 DEF IInv

LEMMA JobUntouched ==
  ASSUME TypeOK, UNCHANGED job
  PROVE  WritesAsWorker
  BY TypesByGroup DEF WritesAsWorker, FlowTypes

LEMMA WorkersKeep ==
  ASSUME IInv, NEW w \in Workers, Work(w) \/ Crash(w)
  PROVE  IInv'
  <1> DEFINE h == worker[w].flow
  <1>0. ~At(w, "idle") => h \in Flows /\ Is(h, {"moved"})
    BY DEF At, IInv, Remembered, WorkersHold
  <1> HIDE DEF h
  <1>1. ASSUME NEW f \in Flows, Claim(w, f) PROVE IInv'
    <2>1. Is(f, {"moved"})
      BY <1>1, JobsOfMoved DEF Claim, IInv
    <2> DEFINE next == [status |-> "leased", holder |-> w]
    <2>2. next \in JobRow /\ next.status = "leased" /\ job' = [job EXCEPT ![f] = next]
      BY <1>1 DEF Claim, JobRow, Statuses
    <2> HIDE DEF next
    <2>3. WritesAsWorker
      BY <2>1, <2>2, WriteJob DEF WritesAsWorker, IInv
    <2>4. PICK at \in {"present", "missing"} : Set(w, at, f)
      BY <1>1 DEF Claim
    <2>5. UNCHANGED <<flow, live, records, accounts, consent>> /\ (UNCHANGED faults \/ Fault)
      BY <1>1 DEF Claim
    <2> QED BY <2>1, <2>3, <2>4, <2>5, WorkerKeeps
  <1>2. CASE Verify(w)
    <2>1. ~At(w, "idle") /\ UNCHANGED <<flow, job, live, records, accounts, consent, faults>>
      BY <1>2 DEF Verify, At
    <2>2. \/ \E at \in {"delete", "finish", "giveback"} : Set(w, at, h)
          \/ Set(w, "idle", None)
      BY <1>2 DEF Verify, Verdict, h
    <2>3. WritesAsWorker
      BY <2>1, JobUntouched DEF IInv
    <2>4. CASE \E at \in {"delete", "finish", "giveback"} : Set(w, at, h)
      BY <1>0, <2>1, <2>3, <2>4, WorkerKeeps
    <2>5. CASE Set(w, "idle", None)
      BY <2>1, <2>3, <2>5, WorkerKeeps
    <2> QED BY <2>2, <2>4, <2>5
  <1>3. CASE Delete(w)
    <2>1. h \in Flows /\ Is(h, {"moved"}) /\ Set(w, "finish", h)
      BY <1>0, <1>3 DEF Delete, At, h
    <2>2. /\ UNCHANGED <<flow, job, live, accounts, consent>> /\ UNCHANGED <<owns, receipt, shown>>
          /\ \/ exists' = exists \ {flow[h].source} /\ UNCHANGED faults
             \/ UNCHANGED exists /\ Fault
      BY <1>3 DEF Delete, Source, h
    <2>3. WritesAsWorker
      BY <2>2, JobUntouched DEF IInv
    <2>4. CASE exists' = exists \ {flow[h].source} /\ UNCHANGED faults
      BY <2>1, <2>2, <2>4, WorkerKeeps
    <2>5. CASE UNCHANGED exists /\ Fault
      BY <2>1, <2>2, <2>3, <2>5, WorkerKeeps DEF records
    <2> QED BY <2>2, <2>4, <2>5
  <1>4. CASE Finish(w)
    <2>1. h \in Flows /\ Is(h, {"moved"})
      BY <1>0, <1>4 DEF Finish, At
    <2>2. /\ Set(w, "idle", None) /\ UNCHANGED <<flow, live, records, accounts, consent, faults>>
          /\ \/ UNCHANGED job
             \/ Put(h, "completed") /\ flow[h].source \notin exists
             \/ Put(h, "pending")
      BY <1>4 DEF Finish, Source, h
    <2>3. WritesAsWorker
      <3>1. CASE UNCHANGED job
        BY <3>1, JobUntouched DEF IInv
      <3>2. CASE Put(h, "completed") /\ flow[h].source \notin exists
        BY <2>1, <3>2, PutWrites DEF WritesAsWorker, IInv, Statuses
      <3>3. CASE Put(h, "pending")
        BY <2>1, <3>3, PutWrites DEF WritesAsWorker, IInv, Statuses
      <3> QED BY <2>2, <3>1, <3>2, <3>3
    <2> QED BY <2>2, <2>3, WorkerKeeps
  <1>5. CASE Crash(w)
    <2>1. /\ Set(w, "idle", None) /\ Fault /\ UNCHANGED <<flow, job, live, records, accounts, consent>>
      BY <1>5 DEF Crash
    <2> QED BY <2>1, JobUntouched, WorkerKeeps DEF IInv
  <1> QED BY <1>1, <1>2, <1>3, <1>4, <1>5 DEF Work

---------------------------------------------------------------------------
(* The specification.                                                      *)

LEMMA InitInvariant == Init => IInv
  <1> SUFFICES ASSUME Init PROVE IInv
    OBVIOUS
  <1>1. /\ \A f \in Flows : flow[f] = Blank /\ job[f] = NoJob
        /\ \A x \in Flows : consent[x] = Still
        /\ \A w \in Workers : worker[w] = Still
    BY DEF Init
  <1>2. /\ Blank.state = "none" /\ Blank.source = None /\ Blank.target = None
        /\ NoJob.status = "none" /\ Still.at = "idle"
    BY DEF Blank, NoJob, Still
  <1>3. TypeOK
    <2>1. Blank \in FlowRow /\ NoJob \in JobRow /\ Still \in Wanted /\ Still \in Tasks
      BY DEF Blank, NoJob, Still, FlowRow, JobRow, Wanted, Tasks, States, Statuses, Ages
    <2>2. FlowTypes /\ MindTypes
      BY <2>1 DEF Init, FlowTypes, MindTypes
    <2>3. RecordTypes /\ AccountTypes
      BY DEF Init, RecordTypes, AccountTypes
    <2>4. faults \in 0 .. MaxFaults
      BY OAuthAssumption DEF Init
    <2> QED BY <2>2, <2>3, <2>4, TypesByGroup
  <1>4. SignIns
    BY <1>1, <1>2, NoneIsNobody
       DEF SignIns, RowsAgree, SourcesBound, SourceOnce, OneSignIn, Is, Anonymous, Bound, Fenced, Active,
           Promised, Kept, Idle, Bindable
  <1>5. Records
    BY <1>1, <1>2, NoneIsNobody, OAuthAssumption
       DEF Records, UnmovedExist, MovedIsDone, ReceiptOfMoved, DeletedLeavesNothing, Is, Anonymous, Init
  <1>6. Remembered
    BY <1>1, <1>2 DEF Remembered, ConsentHolds, WorkersHold
  <1> QED BY <1>3, <1>4, <1>5, <1>6 DEF IInv

LEMMA StutterKeeps == IInv /\ UNCHANGED vars => IInv'
  <1> SUFFICES ASSUME IInv, UNCHANGED vars PROVE IInv'
    OBVIOUS
  <1>1. /\ UNCHANGED <<flow, job, live, records, accounts, consent, worker, faults>>
        /\ \A g \in Flows : Carries(g)
    BY UntouchedCarries DEF vars, IInv
  <1>2. SignIns' /\ Records' /\ Remembered'
    BY <1>1, SignInsCarried, RecordsCarried, RememberedCarried DEF IInv, Remembered, Carries, Bound, Is
  <1>3. TypeOK'
    BY <1>1, GroupsKept, TypesByGroupNext DEF IInv
  <1> QED BY <1>2, <1>3 DEF IInv

LEMMA InvariantStep == IInv /\ [Next]_vars => IInv'
  <1> SUFFICES ASSUME IInv, [Next]_vars PROVE IInv'
    OBVIOUS
  <1>1. ASSUME NEW f \in Flows, NEW x \in Anons \cup Flows, Begin(f, x) PROVE IInv'
    BY <1>1, BeginKeeps
  <1>2. ASSUME NEW f \in Flows,
               \/ Preflight(f) \/ Cancel(f) \/ Expire(f) \/ FinalizeFailed(f)
               \/ \E t \in Targets : Bind(f, t)
               \/ \E state \in {"completed", "signout_required"} : Finalize(f, state)
               \/ ConfirmSignout(f) \/ CompleteSignout(f) \/ Revoke(f) \/ Tick(f) \/ PruneRevoke(f)
        PROVE  IInv'
    BY <1>2, UndecidedKeeps DEF Undecided, Ending
  <1>3. ASSUME NEW f \in Flows, Release(f) PROVE IInv'
    <2>1. CASE Anonymous(f) /\ flow[f].target \in member
      BY <1>3, <2>1, SkippingKeeps
    <2>2. CASE ~(Anonymous(f) /\ flow[f].target \in member)
      BY <1>3, <2>2, UndecidedKeeps DEF Undecided
    <2> QED BY <2>1, <2>2
  <1>4. ASSUME NEW x \in Flows,
               \/ \E f \in Flows : FindFlow(x, f)
               \/ FindNone(x) \/ Replay(x) \/ Consume(x) \/ Remove(x) \/ Join(x) \/ Drop(x)
        PROVE  IInv'
    BY <1>4, QuietConsentKeeps, ConsumeKeeps, RemoveKeeps
  <1>5. ASSUME NEW f \in Flows, PrunePrivacy(f) PROVE IInv'
    BY <1>5, SkippingKeeps
  <1>6. CASE \/ \E s \in Anons : Play(s)
             \/ \E t \in Targets : Withdraw(t) \/ Reactivate(t)
             \/ \E x \in Flows : EndSession(x)
    BY <1>6, PlayersKeep
  <1>7. ASSUME NEW w \in Workers, Work(w) \/ Crash(w) PROVE IInv'
    BY <1>7, WorkersKeep
  <1>8. CASE UNCHANGED vars
    BY <1>8, StutterKeeps
  <1> QED BY <1>1, <1>2, <1>3, <1>4, <1>5, <1>6, <1>7, <1>8 DEF Next

\* However sign-ins, tabs, the prune and the workers meet: the rows of a flow and of its
\* job agree, an anonymous user is the source of one flow for good, exists until its
\* records have moved, and every request and worker goes by what still holds.
THEOREM OAuthInvariant == Spec => []IInv
  BY InitInvariant, InvariantStep, PTL DEF Spec

\* Every table and every memory of a request or a worker keeps its shape.
THEOREM TypeCorrect == Spec => []TypeOK
  <1>1. IInv => TypeOK
    BY DEF IInv
  <1> QED BY <1>1, OAuthInvariant, PTL

\* A session is named by at most one unfinished sign-in, and an anonymous user's records
\* are promised to at most one: begin_oauth_flow needs no more than the fences and the jobs.
THEOREM SessionsNamedOnce == Spec => []OneSignIn
  <1>1. IInv => OneSignIn
    BY DEF IInv, SignIns
  <1> QED BY <1>1, OAuthInvariant, PTL

\* An anonymous user is deleted, by the consent route or by a worker, only when its
\* records have moved, and nothing is made in its name afterwards.
THEOREM DeletedWasMoved == Spec => []DeletedLeavesNothing
  <1>1. IInv => DeletedLeavesNothing
    BY DEF IInv, Records
  <1> QED BY <1>1, OAuthInvariant, PTL

---------------------------------------------------------------------------
(* What becomes of records that are promised.                              *)

\* The reasons for which the records of a flow leave the public's view.
MayVanish(f) ==
  \/ Taken(f) \/ Lost(f)
  \/ Is(f, {"released"}) /\ f \notin live /\ flow[f].age = "day"

\* The records of a flow that had not moved leave the public's view, for a reason.
Vanish(g) ==
  /\ Anonymous(g) /\ ~Is(g, {"moved"}) /\ MayVanish(g)
  /\ \E view \in {"hidden", "erased"} : shown' = [shown EXCEPT ![flow[g].source] = view]
  /\ UNCHANGED receipt

\* Only the release to an existing account, consent and the prune decide about records.
LEMMA Fates ==
  ASSUME IInv, Next
  PROVE  \/ UNCHANGED <<receipt, shown>>
         \/ \E g \in Flows : Vanish(g)
         \/ \E g \in Flows : Anonymous(g) /\ Is(g, {"released"}) /\ Transfer(g)
  <1>1. ASSUME NEW g \in Flows, Release(g)
        PROVE  UNCHANGED <<receipt, shown>> \/ Vanish(g)
    BY <1>1 DEF Release, Skip, Vanish, MayVanish, Taken, Is, records
  <1>2. ASSUME NEW x \in Flows, Consume(x)
        PROVE  \E g \in Flows : Vanish(g) \/ (Anonymous(g) /\ Is(g, {"released"}) /\ Transfer(g))
    <2> DEFINE f == consent[x].flow
    <2>1. f \in Flows /\ Anonymous(f) /\ Is(f, {"released"})
      BY <1>2 DEF Consume, IInv, Remembered, ConsentHolds
    <2>2. (Taken(f) /\ Skip(f)) \/ Transfer(f)
      BY <1>2 DEF Consume
    <2> HIDE DEF f
    <2> QED BY <2>1, <2>2 DEF Skip, Vanish, MayVanish, Is
  <1>3. ASSUME NEW g \in Flows, PrunePrivacy(g) PROVE Vanish(g)
    <2>1. Anonymous(g) /\ ~Is(g, {"moved"})
      BY <1>3 DEF PrunePrivacy, IInv, SignIns, RowsAgree, Kept, Is
    <2>2. (Lost(g) /\ Scrub(g)) \/ (~Lost(g) /\ Deserted(g) /\ Quarantine(g))
      BY <1>3 DEF PrunePrivacy
    <2>3. MayVanish(g)
      BY <2>2 DEF MayVanish, Deserted, Lost
    <2> QED BY <2>1, <2>2, <2>3 DEF Vanish, Scrub, Quarantine
  <1>4. CASE \/ \E f \in Flows : \E x \in Anons \cup Flows : Begin(f, x)
             \/ \E f \in Flows : \E t \in Targets : Bind(f, t)
             \/ \E f \in Flows : Preflight(f) \/ Cancel(f) \/ Expire(f) \/ FinalizeFailed(f)
             \/ \E f \in Flows : \E state \in {"completed", "signout_required"} : Finalize(f, state)
             \/ \E f \in Flows : ConfirmSignout(f) \/ CompleteSignout(f) \/ Revoke(f)
             \/ \E f \in Flows : EndSession(f) \/ Tick(f) \/ PruneRevoke(f)
    BY <1>4 DEF Begin, Bind, Preflight, Cancel, Expire, FinalizeFailed, Finalize, ConfirmSignout,
                CompleteSignout, Revoke, EndSession, Tick, PruneRevoke, EndBound, Quiet, records
  <1>5. CASE \/ \E x, f \in Flows : FindFlow(x, f)
             \/ \E x \in Flows : FindNone(x) \/ Replay(x) \/ Remove(x) \/ Join(x) \/ Drop(x)
             \/ \E s \in Anons : Play(s)
             \/ \E t \in Targets : Withdraw(t) \/ Reactivate(t)
             \/ \E w \in Workers : Work(w) \/ Crash(w)
    BY <1>5 DEF FindFlow, FindNone, Replay, Remove, Join, Drop, Play, Withdraw, Reactivate,
                Work, Claim, Verify, Delete, Finish, Crash, records
  <1> QED BY <1>1, <1>2, <1>3, <1>4, <1>5 DEF Next

\* A receipt of records still promised is that of the flow itself, which moved them.
LEMMA PromisedWithReceiptMoved ==
  ASSUME IInv, NEW f \in Flows, Promised(f), receipt[flow[f].source] # None
  PROVE  Is(f, {"moved"}) /\ shown[flow[f].source] = "open"
  <1>1. Is(f, {"moved"})
    <2>1. CASE flow[f].source \in exists
      <3>1. PICK g \in Flows : Is(g, {"moved"}) /\ flow[g].source = flow[f].source
        BY <2>1 DEF IInv, Records, ReceiptOfMoved
      <3> QED BY <3>1 DEF IInv, SignIns, SourceOnce, Promised
    <2>2. CASE flow[f].source \notin exists
      BY <2>2 DEF IInv, Records, UnmovedExist, Promised
    <2> QED BY <2>1, <2>2
  <1> QED BY <1>1 DEF IInv, Records, MovedIsDone

LEMMA RecordsWaitStep ==
  ASSUME IInv, Next, NEW f \in Flows, Promised(f)
  PROVE  LET s == flow[f].source IN
           /\ shown[s] = "open" /\ shown'[s] # "open" => MayVanish(f)
           /\ receipt[s] # None => receipt'[s] = receipt[s] /\ shown'[s] = "open"
  <1> DEFINE s == flow[f].source
  <1>1. /\ s \in Anons /\ Anonymous(f)
        /\ shown \in [Anons -> {"open", "hidden", "erased"}]
        /\ receipt \in [Anons -> Targets \cup {None}]
    BY TypesByGroup DEF IInv, RecordTypes, Promised, Anonymous
  <1>2. receipt[s] # None => Is(f, {"moved"}) /\ shown[s] = "open"
    BY PromisedWithReceiptMoved
  <1>3. \A g \in Flows : g # f => flow[g].source # s
    BY <1>1 DEF IInv, SignIns, SourceOnce
  <1> HIDE DEF s
  <1>4. CASE UNCHANGED <<receipt, shown>>
    BY <1>2, <1>4 DEF s
  <1>5. ASSUME NEW g \in Flows, Vanish(g)
        PROVE  /\ shown[s] = "open" /\ shown'[s] # "open" => MayVanish(f)
               /\ receipt[s] # None => receipt'[s] = receipt[s] /\ shown'[s] = "open"
    <2>1. CASE g = f
      BY <1>2, <1>5, <2>1 DEF Vanish
    <2>2. CASE g # f
      <3>1. shown'[s] = shown[s] /\ receipt' = receipt
        BY <1>1, <1>3, <1>5, <2>2 DEF Vanish
      <3> QED BY <1>2, <3>1
    <2> QED BY <2>1, <2>2
  <1>6. ASSUME NEW g \in Flows, Anonymous(g), Is(g, {"released"}), Transfer(g)
        PROVE  /\ shown[s] = "open" /\ shown'[s] # "open" => MayVanish(f)
               /\ receipt[s] # None => receipt'[s] = receipt[s] /\ shown'[s] = "open"
    <2>1. /\ receipt' = [receipt EXCEPT ![flow[g].source] = flow[g].target]
          /\ shown' = [shown EXCEPT ![flow[g].source] = "open"]
      BY <1>6 DEF Transfer
    <2>2. CASE g = f
      <3>1. receipt[s] = None
        BY <1>2, <1>6, <2>2 DEF Is
      <3>2. shown'[s] = "open"
        BY <1>1, <2>1, <2>2 DEF s
      <3> QED BY <3>1, <3>2
    <2>3. CASE g # f
      <3>1. shown'[s] = shown[s] /\ receipt'[s] = receipt[s]
        BY <1>1, <1>3, <2>1, <2>3
      <3> QED BY <1>2, <3>1
    <2> QED BY <2>2, <2>3
  <1> QED BY <1>4, <1>5, <1>6, Fates DEF s

\* Records wait for their member: while a flow keeps them they disappear from view only
\* for the reasons of the release, of consent and of the prune, and once they have moved
\* neither their receipt nor their place in view is taken back.
THEOREM RecordsWaitForMember == Spec => RecordsWait
  <1>1. IInv /\ [Next]_vars =>
          [\A f \in Flows : Promised(f) =>
             LET s == flow[f].source IN
               /\ shown[s] = "open" /\ shown'[s] # "open" =>
                    \/ Taken(f) \/ Lost(f)
                    \/ Is(f, {"released"}) /\ f \notin live /\ flow[f].age = "day"
               /\ receipt[s] # None => receipt'[s] = receipt[s] /\ shown'[s] = "open"]_vars
    BY RecordsWaitStep DEF MayVanish
  <1> QED BY <1>1, OAuthInvariant, PTL DEF Spec, RecordsWait
=============================================================================
