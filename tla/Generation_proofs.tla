------------------------- MODULE Generation_proofs -------------------------
(***************************************************************************)
(* However many continuations, webhooks, polls and sweeps meet at one row: *)
(* no candidate is submitted twice, the images a row offers are in storage *)
(* and those of an ended row stay removed, and no credit is returned while *)
(* fal may still deliver, unless two continuations overlap.                *)
(***************************************************************************)
EXTENDS Generation, TLAPS

WorkerSteps == {"idle", "accepted", "committed", "prepare", "presave", "bind", "rebind",
                "claim", "record"}
Answers == {"none", "acknowledged", "uncertain", "rejected"}

WorkerRow == [at : WorkerSteps, plan : SUBSET Slots, kept : SUBSET Slots, left : SUBSET Slots,
              mine : SUBSET Slots, bad : BOOLEAN, settled : SUBSET Slots,
              refused : SUBSET Slots, answer : [Slots -> Answers]]

RecovererSteps == {"idle", "look", "failing", "expiring", "publish", "lease", "copy", "drop",
                   "release", "lost", "seal"}

RecovererRow == [at : RecovererSteps, known : BOOLEAN, fresh : BOOLEAN, force : BOOLEAN,
                 urls : SUBSET Slots, got : SUBSET Slots]

\* What is remembered has its kind too.
Types == TypeOK /\ wk \in [Workers -> WorkerRow] /\ rec \in [Recoverers -> RecovererRow]

---------------------------------------------------------------------------
(* Submissions.                                                            *)

\* The continuation may still post the candidate, or has an answer to record.
Holding(w, c) == c \in wk[w].mine \/ wk[w].answer[c] # "none"

Begun == {"submitting", "acknowledged", "late_acknowledged"}
Ended == {"rejected", "acknowledged", "late_acknowledged"}

\* A permit belongs to one continuation, which has not used it yet.
PermitIsHeldOnce ==
  \A c \in Slots :
    /\ \A w \in Workers : /\ Holding(w, c) => intent[c] \in Begun
                          /\ c \in wk[w].mine => posts[c] = 0 /\ wk[w].answer[c] = "none"
    /\ \A v, w \in Workers : Holding(v, c) /\ Holding(w, c) => v = w

\* fal is paid once, after the intent was begun, and answers for what was paid.
PaidIsBegun ==
  \A c \in Slots :
    /\ posts[c] <= 1
    /\ intent[c] \in {"none", "planned"} => posts[c] = 0
    /\ job[c] # "none" \/ hook[c] # "none" => posts[c] > 0

\* A candidate a continuation counts as refused is not awaited again.
RefusedForGood == \A w \in Workers : \A c \in wk[w].refused : intent[c] \in Ended

\* Nothing is prepared for an accepted generation before it is committed.
AcceptedUntouched ==
  reservation \in {"accepted", "expired"} =>
    /\ \A c \in Slots : intent[c] = "none"
    /\ \A w \in Workers : wk[w].at \in {"idle", "accepted"}

\* A request id in gen_params is of an acknowledged submission.
NamedIsAcknowledged == \A c \in Slots : params[c].id => intent[c] = "acknowledged"

\* Without an overlap the one continuation writes its first provenance before
\* any intent exists, and gen_params shows every submission that is awaited.
AloneIsNoted ==
  ~overlap =>
    /\ \A v, w \in Workers : Busy(v) /\ Busy(w) => v = w
    /\ \A w \in Workers : wk[w].at = "presave" => \A c \in Slots : intent[c] = "none"
    /\ status = "queued" =>
         \A c \in Slots : Awaited(c) => params[c].st \in {"submitting", "uncertain"}

\* Who is about to fail the row early has seen every submission resolved.
FailingIsResolved ==
  \A r \in Recoverers : rec[r].at = "failing" /\ rec[r].known /\ age < 2 => ~Unresolved

Submissions ==
  /\ PermitIsHeldOnce /\ PaidIsBegun /\ RefusedForGood
  /\ AcceptedUntouched /\ NamedIsAcknowledged /\ AloneIsNoted /\ FailingIsResolved

---------------------------------------------------------------------------
(* Images.                                                                 *)

Writing == {"copy", "drop", "release"}

\* Whoever writes objects has the write lease.
WriterHasLease == \A r \in Recoverers : rec[r].at \in Writing => lease = r

\* The removal meets no writer.
RemovalIsAlone ==
  /\ sweeper # "idle" \/ cleaned => status \in Terminal /\ \A r \in Recoverers : rec[r].at # "copy"
  /\ sweeper = "mark" \/ cleaned => store = {}

\* What a recoverer would publish is there, unless the row has ended.
PublishedExists ==
  /\ status = "queued" => urls = {}
  /\ \A r \in Recoverers :
       /\ rec[r].fresh => rec[r].urls = urls
       /\ rec[r].at \in {"drop", "release", "publish"} /\ status \notin Terminal
            => rec[r].got \subseteq store
  /\ OfferedImagesExist

Images == WriterHasLease /\ RemovalIsAlone /\ PublishedExists

IInv == Types /\ Submissions /\ Images

---------------------------------------------------------------------------
(* Types.                                                                  *)

\* What Types says of the fields of a row, for the provers that need it so.
LEMMA WorkerFields ==
  ASSUME Types, NEW w \in Workers
  PROVE  /\ wk[w] \in WorkerRow /\ wk[w].at \in WorkerSteps
         /\ wk[w].plan \subseteq Slots /\ wk[w].kept \subseteq Slots /\ wk[w].left \subseteq Slots
         /\ wk[w].mine \subseteq Slots /\ wk[w].bad \in BOOLEAN /\ wk[w].settled \subseteq Slots
         /\ wk[w].refused \subseteq Slots /\ wk[w].answer \in [Slots -> Answers]
  BY DEF Types, WorkerRow

LEMMA RecovererFields ==
  ASSUME Types, NEW r \in Recoverers
  PROVE  /\ rec[r] \in RecovererRow /\ rec[r].at \in RecovererSteps
         /\ rec[r].known \in BOOLEAN /\ rec[r].fresh \in BOOLEAN /\ rec[r].force \in BOOLEAN
         /\ rec[r].urls \subseteq Slots /\ rec[r].got \subseteq Slots
  BY DEF Types, RecovererRow

LEMMA Rows == Resting \in WorkerRow /\ Away \in RecovererRow /\ Planned \in [st : Submission, id : BOOLEAN]
  BY DEF Resting, Away, Planned, WorkerRow, RecovererRow, WorkerSteps, RecovererSteps, Answers, Submission

\* After an update of the row everyone else's copy of it is stale.
LEMMA TouchedTypes ==
  ASSUME Types
  PROVE  /\ Touched \in [Recoverers -> RecovererRow]
         /\ \A r \in Recoverers : /\ Touched[r].at = rec[r].at /\ Touched[r].got = rec[r].got
                                  /\ Touched[r].urls = rec[r].urls
                                  /\ ~Touched[r].known /\ ~Touched[r].fresh
  <1> SUFFICES ASSUME NEW r \in Recoverers
               PROVE  LET stale == [rec[r] EXCEPT !.known = FALSE, !.fresh = FALSE]
                      IN  /\ stale \in RecovererRow
                          /\ stale.at = rec[r].at /\ stale.got = rec[r].got /\ stale.urls = rec[r].urls
                          /\ ~stale.known /\ ~stale.fresh
    BY DEF Touched
  <1> QED BY RecovererFields DEF RecovererRow

LEMMA GoTypes ==
  ASSUME Types, NEW w \in Workers, NEW s \in WorkerSteps, Go(w, s)
  PROVE  /\ wk' \in [Workers -> WorkerRow]
         /\ \A v \in Workers : v # w => wk'[v] = wk[v]
         /\ wk'[w] = [wk[w] EXCEPT !.at = s]
         /\ wk'[w].at = s /\ wk'[w].mine = wk[w].mine /\ wk'[w].answer = wk[w].answer
         /\ wk'[w].refused = wk[w].refused
  <1> DEFINE mine == [wk[w] EXCEPT !.at = s]
  <1>1. mine \in WorkerRow /\ mine.at = s /\ mine.mine = wk[w].mine /\ mine.answer = wk[w].answer
        /\ mine.refused = wk[w].refused
    BY WorkerFields DEF WorkerRow
  <1>2. wk' = [wk EXCEPT ![w] = mine] /\ wk \in [Workers -> WorkerRow]
    BY DEF Go, Types
  <1>3. wk'[w] = mine
    BY <1>2
  <1>4. wk'[w] = [wk[w] EXCEPT !.at = s]
    BY <1>3
  <1> HIDE DEF mine
  <1>5. wk' \in [Workers -> WorkerRow] /\ \A v \in Workers : v # w => wk'[v] = wk[v]
    BY <1>1, <1>2
  <1> QED BY <1>1, <1>3, <1>4, <1>5

LEMMA LeaveTypes ==
  ASSUME Types, NEW w \in Workers, Leave(w)
  PROVE  /\ wk' \in [Workers -> WorkerRow] /\ bind' \in [Slots -> Workers \cup {None, Old}]
         /\ \A v \in Workers : v # w => wk'[v] = wk[v]
         /\ wk'[w] = Resting
  BY Rows DEF Leave, Types, TypeOK

\* Types, one part for each group of variables.
LeaseTypes == reservation \in {"accepted", "expired", "running", "submitted"} /\ holder \in Workers \cup {None}
RowTypes ==
  /\ status \in Terminal \cup {"queued", "done"}
  /\ params \in [Slots -> [st : Submission, id : BOOLEAN]]
  /\ sent \in SUBSET Slots /\ urls \in SUBSET Slots /\ cleaned \in BOOLEAN
IntentTypes ==
  /\ intent \in [Slots -> Submission \cup {"none", "late_acknowledged"}]
  /\ bind \in [Slots -> Workers \cup {None, Old}]
  /\ output \in SUBSET Slots /\ sealed \in BOOLEAN
FalTypes ==
  /\ job \in [Slots -> {"none", "running", "image", "barren"}]
  /\ posts \in [Slots -> Nat] /\ hook \in [Slots -> {"none", "due", "acked", "over"}]
ObjectTypes ==
  lease \in Recoverers \cup {None} /\ store \in SUBSET Slots /\ sweeper \in {"idle", "remove", "mark"}
ClockTypes == age \in 0 .. 3 /\ overlap \in BOOLEAN /\ faults \in 0 .. MaxFaults

LEMMA TypesByGroup ==
  Types <=> /\ LeaseTypes /\ RowTypes /\ IntentTypes /\ FalTypes /\ ObjectTypes /\ ClockTypes
            /\ wk \in [Workers -> WorkerRow] /\ rec \in [Recoverers -> RecovererRow]
  BY DEF Types, TypeOK, LeaseTypes, RowTypes, IntentTypes, FalTypes, ObjectTypes, ClockTypes

LEMMA TypesByGroupNext ==
  Types' <=> /\ LeaseTypes' /\ RowTypes' /\ IntentTypes' /\ FalTypes' /\ ObjectTypes' /\ ClockTypes'
             /\ wk' \in [Workers -> WorkerRow] /\ rec' \in [Recoverers -> RecovererRow]
  BY DEF Types, TypeOK, LeaseTypes, RowTypes, IntentTypes, FalTypes, ObjectTypes, ClockTypes

\* A group that is not written keeps its types.
LEMMA GroupsKept ==
  ASSUME Types
  PROVE  /\ UNCHANGED lease2 => LeaseTypes'
         /\ UNCHANGED row => RowTypes'
         /\ UNCHANGED intents => IntentTypes'
         /\ UNCHANGED fal => FalTypes'
         /\ UNCHANGED objects => ObjectTypes'
         /\ UNCHANGED clock => ClockTypes'
         /\ UNCHANGED wk => wk' \in [Workers -> WorkerRow]
         /\ UNCHANGED rec => rec' \in [Recoverers -> RecovererRow]
         /\ TouchRow => rec' \in [Recoverers -> RecovererRow]
  <1>1. TouchRow => rec' \in [Recoverers -> RecovererRow]
    BY TouchedTypes DEF TouchRow
  <1> QED BY <1>1, TypesByGroup
          DEF lease2, row, intents, fal, objects, clock,
              LeaseTypes, RowTypes, IntentTypes, FalTypes, ObjectTypes, ClockTypes

LEMMA FaultTypes ==
  ASSUME Types
  PROVE  Fault => faults' \in 0 .. MaxFaults
  BY GenerationAssumption DEF Types, TypeOK, Fault

\* record_generation_submit_outcome writes the intent, gen_params and the row.
LEMMA OutcomeTypes ==
  ASSUME Types, NEW c \in Slots, NEW outcome \in {"uncertain", "rejected"},
         Acknowledge(c) \/ Report(c, outcome),
         UNCHANGED <<status, urls, cleaned, bind, output, sealed>>
  PROVE  RowTypes' /\ IntentTypes' /\ rec' \in [Recoverers -> RecovererRow]
  <1>0. RowTypes /\ IntentTypes /\ rec \in [Recoverers -> RecovererRow]
    BY TypesByGroup
  <1>1. rec' \in [Recoverers -> RecovererRow]
    BY GroupsKept DEF Acknowledge, Report
  <1>2. intent' \in [Slots -> Submission \cup {"none", "late_acknowledged"}] /\ sent' \in SUBSET Slots
    BY <1>0 DEF RowTypes, IntentTypes, Acknowledge, Report, Submission
  <1>3. params' \in [Slots -> [st : Submission, id : BOOLEAN]]
    <2>1. CASE Acknowledge(c)
      <3>1. [st |-> "acknowledged", id |-> TRUE] \in [st : Submission, id : BOOLEAN]
        BY DEF Submission
      <3> QED BY <1>0, <2>1, <3>1 DEF RowTypes, Acknowledge
    <2>2. CASE Report(c, outcome)
      <3> DEFINE entry == [params[c] EXCEPT !.st = outcome]
      <3>1. entry \in [st : Submission, id : BOOLEAN]
        BY <1>0 DEF RowTypes, Submission
      <3>2. params' = params \/ params' = [params EXCEPT ![c] = entry]
        BY <2>2 DEF Report
      <3> HIDE DEF entry
      <3> QED BY <1>0, <3>1, <3>2 DEF RowTypes
    <2> QED BY <2>1, <2>2
  <1> QED BY <1>0, <1>1, <1>2, <1>3 DEF RowTypes, IntentTypes

\* What a continuation remembers after one of its three longer steps.
LEMMA WorkerUpdate ==
  ASSUME Types, NEW w \in Workers, NEW next \in WorkerRow, wk' = [wk EXCEPT ![w] = next]
  PROVE  /\ wk' \in [Workers -> WorkerRow] /\ wk'[w] = next
         /\ \A v \in Workers : v # w => wk'[v] = wk[v]
  BY DEF Types

LEMMA ClaimRemembers ==
  ASSUME Types, NEW w \in Workers, NEW c \in Slots, Claim(w, c)
  PROVE  /\ wk' \in [Workers -> WorkerRow]
         /\ \A v \in Workers : v # w => wk'[v] = wk[v]
         /\ wk'[w].at = "claim" /\ wk'[w].answer = wk[w].answer
         /\ wk'[w].mine = IF Claimable(c) /\ Matches(w, c) THEN wk[w].mine \cup {c} ELSE wk[w].mine
         /\ wk'[w].refused = IF ~Claimable(c) /\ intent[c] = "rejected"
                              THEN wk[w].refused \cup {c} ELSE wk[w].refused
  <1>0. wk \in [Workers -> WorkerRow] /\ wk[w].at = "claim"
    BY DEF Types, Claim
  <1>1. CASE Claimable(c)
    <2> DEFINE mine == IF Matches(w, c) THEN wk[w].mine \cup {c} ELSE wk[w].mine
               bad == wk[w].bad \/ ~Matches(w, c)
               left == wk[w].left \ {c}
               next == [wk[w] EXCEPT !.left = left, !.mine = mine, !.bad = bad]
    <2>1. mine \subseteq Slots /\ bad \in BOOLEAN /\ left \subseteq Slots
      BY WorkerFields
    <2>2. wk' = [wk EXCEPT ![w] = next]
      BY <1>0, <1>1 DEF Claim
    <2> HIDE DEF mine, bad, left
    <2>3. /\ next \in WorkerRow /\ next.at = "claim" /\ next.answer = wk[w].answer
          /\ next.mine = mine /\ next.refused = wk[w].refused
      BY <1>0, <2>1, WorkerFields DEF WorkerRow
    <2> HIDE DEF next
    <2> QED BY <1>1, <2>2, <2>3, WorkerUpdate DEF mine
  <1>2. CASE ~Claimable(c)
    <2> DEFINE settled == IF intent[c] = "planned" THEN wk[w].settled ELSE wk[w].settled \cup {c}
               refused == IF intent[c] = "rejected" THEN wk[w].refused \cup {c} ELSE wk[w].refused
               bad == wk[w].bad \/ intent[c] = "planned"
               left == wk[w].left \ {c}
               next == [wk[w] EXCEPT !.left = left, !.bad = bad, !.settled = settled, !.refused = refused]
    <2>1. settled \subseteq Slots /\ refused \subseteq Slots /\ bad \in BOOLEAN /\ left \subseteq Slots
      BY WorkerFields
    <2>2. wk' = [wk EXCEPT ![w] = next]
      BY <1>0, <1>2 DEF Claim
    <2> HIDE DEF settled, refused, bad, left
    <2>3. /\ next \in WorkerRow /\ next.at = "claim" /\ next.answer = wk[w].answer
          /\ next.mine = wk[w].mine /\ next.refused = refused
      BY <1>0, <2>1, WorkerFields DEF WorkerRow
    <2> HIDE DEF next
    <2> QED BY <1>2, <2>2, <2>3, WorkerUpdate DEF refused
  <1> QED BY <1>1, <1>2

LEMMA SubmitRemembers ==
  ASSUME Types, NEW w \in Workers, Submit(w)
  PROVE  /\ wk' \in [Workers -> WorkerRow]
         /\ \A v \in Workers : v # w => wk'[v] = wk[v]
         /\ wk'[w].at = "record" /\ wk'[w].mine = {} /\ wk'[w].refused = wk[w].refused
         /\ \A c \in Slots : wk'[w].answer[c] # "none" => c \in wk[w].mine
         /\ \E taken \in SUBSET wk[w].mine :
              /\ job' = [c \in Slots |-> IF c \in taken THEN "running" ELSE job[c]]
              /\ posts' = [c \in Slots |-> IF c \in taken THEN posts[c] + 1 ELSE posts[c]]
         /\ Fault \/ UNCHANGED faults
  <1>0. wk \in [Workers -> WorkerRow]
    BY DEF Types
  <1>1. PICK taken \in SUBSET wk[w].mine, refused \in SUBSET wk[w].mine, lost \in SUBSET wk[w].mine :
          /\ IF lost = {} THEN UNCHANGED faults ELSE Fault
          /\ wk' = [wk EXCEPT ![w].at = "record", ![w].mine = {},
                      ![w].answer = [c \in Slots |-> IF c \in lost THEN "uncertain"
                                                ELSE IF c \in refused THEN "rejected"
                                                ELSE IF c \in taken THEN "acknowledged"
                                                ELSE "none"]]
          /\ job' = [c \in Slots |-> IF c \in taken THEN "running" ELSE job[c]]
          /\ posts' = [c \in Slots |-> IF c \in taken THEN posts[c] + 1 ELSE posts[c]]
    BY DEF Submit
  <1> DEFINE answer == [c \in Slots |-> IF c \in lost THEN "uncertain"
                                        ELSE IF c \in refused THEN "rejected"
                                        ELSE IF c \in taken THEN "acknowledged"
                                        ELSE "none"]
             next == [wk[w] EXCEPT !.at = "record", !.mine = {}, !.answer = answer]
  <1>2. answer \in [Slots -> Answers] /\ \A c \in Slots : answer[c] # "none" => c \in wk[w].mine
    BY DEF Answers
  <1>3. wk' = [wk EXCEPT ![w] = next]
    BY <1>0, <1>1
  <1> HIDE DEF answer
  <1>4. /\ next \in WorkerRow /\ next.at = "record" /\ next.mine = {} /\ next.answer = answer
        /\ next.refused = wk[w].refused
    BY <1>2, WorkerFields DEF WorkerRow, WorkerSteps
  <1> HIDE DEF next
  <1>5. Fault \/ UNCHANGED faults
    BY <1>1
  <1>6. \E posted \in SUBSET wk[w].mine :
          /\ job' = [c \in Slots |-> IF c \in posted THEN "running" ELSE job[c]]
          /\ posts' = [c \in Slots |-> IF c \in posted THEN posts[c] + 1 ELSE posts[c]]
    BY <1>1
  <1> QED BY <1>2, <1>3, <1>4, <1>5, <1>6, WorkerUpdate

LEMMA RecordRemembers ==
  ASSUME Types, NEW w \in Workers, NEW c \in Slots, Record(w, c)
  PROVE  /\ wk' \in [Workers -> WorkerRow]
         /\ \A v \in Workers : v # w => wk'[v] = wk[v]
         /\ wk'[w].at = "record" /\ wk'[w].mine = wk[w].mine
         /\ wk'[w].answer = [wk[w].answer EXCEPT ![c] = "none"]
         /\ \A d \in wk'[w].refused : d \in wk[w].refused \/ (d = c /\ intent'[c] = "rejected")
  <1>0. wk \in [Workers -> WorkerRow] /\ wk[w].at = "record"
    BY DEF Types, Record
  <1> DEFINE answer == [wk[w].answer EXCEPT ![c] = "none"]
  <1>1. answer \in [Slots -> Answers]
    BY WorkerFields DEF Answers
  <1>2. CASE wk' = [wk EXCEPT ![w].answer[c] = "none",
                      ![w].settled = IF status = "queued" \/ wk[w].answer[c] = "acknowledged"
                                     THEN @ \cup {c} ELSE @,
                      ![w].refused = IF intent'[c] = "rejected" THEN @ \cup {c} ELSE @]
    <2> DEFINE settled == IF status = "queued" \/ wk[w].answer[c] = "acknowledged"
                          THEN wk[w].settled \cup {c} ELSE wk[w].settled
               refused == IF intent'[c] = "rejected" THEN wk[w].refused \cup {c} ELSE wk[w].refused
               next == [wk[w] EXCEPT !.answer = answer, !.settled = settled, !.refused = refused]
    <2>1. settled \subseteq Slots /\ refused \subseteq Slots
      BY WorkerFields
    <2>2. wk' = [wk EXCEPT ![w] = next]
      BY <1>0, <1>2
    <2> HIDE DEF answer, settled, refused
    <2>3. /\ next \in WorkerRow /\ next.at = "record" /\ next.mine = wk[w].mine
          /\ next.answer = answer /\ next.refused = refused
      BY <1>0, <1>1, <2>1, WorkerFields DEF WorkerRow
    <2> HIDE DEF next
    <2> QED BY <2>2, <2>3, WorkerUpdate DEF refused, answer
  <1>3. CASE wk' = [wk EXCEPT ![w].answer[c] = "none"]
    <2> DEFINE next == [wk[w] EXCEPT !.answer = answer]
    <2>1. wk' = [wk EXCEPT ![w] = next]
      BY <1>0, <1>3
    <2> HIDE DEF answer
    <2>2. /\ next \in WorkerRow /\ next.at = "record" /\ next.mine = wk[w].mine
          /\ next.answer = answer /\ next.refused = wk[w].refused
      BY <1>0, <1>1, WorkerFields DEF WorkerRow
    <2> HIDE DEF next
    <2> QED BY <2>1, <2>2, WorkerUpdate DEF answer
  <1> QED BY <1>2, <1>3 DEF Record

\* A continuation's step keeps the types.
LEMMA ContinuationTypes ==
  ASSUME Types, NEW w \in Workers, Begin(w) \/ Continuation(w) \/ Crash(w)
  PROVE  Types'
  <1> USE DEF WorkerSteps
  <1>0. /\ LeaseTypes /\ RowTypes /\ IntentTypes /\ FalTypes /\ ObjectTypes /\ ClockTypes
        /\ wk \in [Workers -> WorkerRow] /\ rec \in [Recoverers -> RecovererRow]
    BY TypesByGroup
  <1>1. CASE Begin(w)
    <2>1. ClockTypes'
      BY <1>0, <1>1 DEF Begin, ClockTypes
    <2>2. wk' \in [Workers -> WorkerRow]
      BY <1>1, GoTypes DEF Begin
    <2> QED BY <1>1, <2>1, <2>2, GroupsKept, TypesByGroupNext DEF Begin
  <1>2. CASE Commit(w)
    <2>1. LeaseTypes'
      BY <1>0, <1>2 DEF Commit, LeaseTypes, lease2
    <2>2. wk' \in [Workers -> WorkerRow] /\ rec' \in [Recoverers -> RecovererRow]
      BY <1>2, GoTypes, GroupsKept DEF Commit
    <2> QED BY <1>2, <2>1, <2>2, GroupsKept, TypesByGroupNext DEF Commit
  <1>3. CASE ClaimContinuation(w)
    <2>1. LeaseTypes'
      BY <1>0, <1>3 DEF ClaimContinuation, LeaseTypes
    <2>2. wk' \in [Workers -> WorkerRow]
      BY <1>3, GoTypes DEF ClaimContinuation
    <2> QED BY <1>3, <2>1, <2>2, GroupsKept, TypesByGroupNext DEF ClaimContinuation
  <1>4. CASE Prepare(w)
    <2>1. PICK plan \in SUBSET Slots, kept \in SUBSET Slots, at \in WorkerSteps :
            wk' = [wk EXCEPT ![w].left = Slots, ![w].plan = plan, ![w].kept = kept, ![w].at = at]
      BY <1>4 DEF Prepare
    <2> DEFINE mine == [wk[w] EXCEPT !.left = Slots, !.plan = plan, !.kept = kept, !.at = at]
    <2>2. mine \in WorkerRow
      BY WorkerFields DEF WorkerRow
    <2>3. wk' = [wk EXCEPT ![w] = mine]
      BY <1>0, <2>1
    <2> HIDE DEF mine
    <2>4. wk' \in [Workers -> WorkerRow]
      BY <1>0, <2>2, <2>3
    <2> QED BY <1>4, <2>4, GroupsKept, TypesByGroupNext DEF Prepare
  <1>5. CASE Presave(w)
    <2>1. RowTypes'
      BY <1>0, <1>5, Rows DEF Presave, RowTypes
    <2>2. wk' \in [Workers -> WorkerRow]
      BY <1>5, GoTypes DEF Presave
    <2> QED BY <1>5, <2>1, <2>2, GroupsKept, TypesByGroupNext DEF Presave
  <1>6. CASE Bind(w)
    <2>1. wk' \in [Workers -> WorkerRow] /\ rec' \in [Recoverers -> RecovererRow]
      BY <1>6, GoTypes, LeaveTypes, GroupsKept DEF Bind
    <2>2. IntentTypes'
      <3>1. bind' \in [Slots -> Workers \cup {None, Old}]
        BY <1>6, LeaveTypes DEF Bind
      <3> QED BY <1>0, <1>6, <3>1 DEF Bind, IntentTypes, Submission
    <2> QED BY <1>6, <2>1, <2>2, GroupsKept, TypesByGroupNext DEF Bind
  <1>7. CASE Rebind(w)
    <2>1. CASE Leave(w) /\ UNCHANGED <<params, rec>>
      <3>1. wk' \in [Workers -> WorkerRow] /\ bind' \in [Slots -> Workers \cup {None, Old}]
        BY <2>1, LeaveTypes
      <3>2. IntentTypes' /\ UNCHANGED row
        BY <1>0, <1>7, <2>1, <3>1 DEF Rebind, IntentTypes, row
      <3> QED BY <1>7, <2>1, <3>1, <3>2, GroupsKept, TypesByGroupNext DEF Rebind
    <2>2. CASE /\ bind' = [c \in Slots |-> IF c \in wk[w].plan THEN w ELSE bind[c]]
               /\ params' = [c \in Slots |-> IF c \in wk[w].plan
                                      THEN [params[c] EXCEPT !.st = "planned"] ELSE params[c]]
               /\ wk' = [wk EXCEPT ![w].at = "claim", ![w].plan = {}] /\ TouchRow
      <3> DEFINE mine == [wk[w] EXCEPT !.at = "claim", !.plan = {}]
      <3>1. mine \in WorkerRow
        BY WorkerFields DEF WorkerRow
      <3>2. wk' = [wk EXCEPT ![w] = mine]
        BY <1>0, <2>2
      <3> HIDE DEF mine
      <3>3. wk' \in [Workers -> WorkerRow]
        BY <1>0, <3>1, <3>2
      <3>4. IntentTypes'
        BY <1>0, <1>7, <2>2 DEF Rebind, IntentTypes
      <3>5. \A c \in Slots : [params[c] EXCEPT !.st = "planned"] \in [st : Submission, id : BOOLEAN]
        BY <1>0 DEF RowTypes, Submission
      <3>6. RowTypes'
        BY <1>0, <1>7, <2>2, <3>5 DEF Rebind, RowTypes
      <3> QED BY <1>7, <2>2, <3>3, <3>4, <3>6, GroupsKept, TypesByGroupNext DEF Rebind
    <2> QED BY <1>7, <2>1, <2>2 DEF Rebind
  <1>8. ASSUME NEW c \in Slots, Claim(w, c) PROVE Types'
    <2>1. wk' \in [Workers -> WorkerRow]
      BY <1>8, ClaimRemembers
    <2>2. intent' \in [Slots -> Submission \cup {"none", "late_acknowledged"}]
      BY <1>0, <1>8 DEF Claim, IntentTypes, Submission
    <2>3. params' \in [Slots -> [st : Submission, id : BOOLEAN]]
      <3> DEFINE entry == [params[c] EXCEPT !.st = "submitting"]
      <3>1. entry \in [st : Submission, id : BOOLEAN]
        BY <1>0 DEF RowTypes, Submission
      <3>2. params' = params \/ params' = [params EXCEPT ![c] = entry]
        BY <1>8 DEF Claim
      <3> HIDE DEF entry
      <3> QED BY <1>0, <3>1, <3>2 DEF RowTypes
    <2>4. RowTypes' /\ IntentTypes' /\ rec' \in [Recoverers -> RecovererRow]
      BY <1>0, <1>8, <2>2, <2>3, GroupsKept DEF Claim, RowTypes, IntentTypes
    <2> QED BY <1>8, <2>1, <2>4, GroupsKept, TypesByGroupNext DEF Claim
  <1>9. ASSUME ManualReview(w) \/ Finish(w) PROVE Types'
    <2>1. wk' \in [Workers -> WorkerRow] /\ bind' \in [Slots -> Workers \cup {None, Old}]
      BY <1>9, LeaveTypes DEF ManualReview, Finish
    <2>2. IntentTypes' /\ LeaseTypes'
      BY <1>0, <1>9, <2>1 DEF ManualReview, Finish, IntentTypes, LeaseTypes, lease2
    <2> QED BY <1>9, <2>1, <2>2, GroupsKept, TypesByGroupNext DEF ManualReview, Finish
  <1>10. CASE Submit(w)
    <2>5. wk' \in [Workers -> WorkerRow]
      BY <1>10, SubmitRemembers
    <2>6. FalTypes'
      <3>1. PICK taken \in SUBSET wk[w].mine :
              /\ job' = [c \in Slots |-> IF c \in taken THEN "running" ELSE job[c]]
              /\ posts' = [c \in Slots |-> IF c \in taken THEN posts[c] + 1 ELSE posts[c]]
        BY <1>10, SubmitRemembers
      <3>2. hook' = hook
        BY <1>10 DEF Submit
      <3> QED BY <1>0, <3>1, <3>2 DEF FalTypes
    <2>7. ClockTypes'
      BY <1>0, <1>10, FaultTypes, SubmitRemembers DEF Submit, ClockTypes
    <2> QED BY <1>10, <2>5, <2>6, <2>7, GroupsKept, TypesByGroupNext DEF Submit
  <1>11. ASSUME NEW c \in Slots, Record(w, c) PROVE Types'
    <2>1. wk' \in [Workers -> WorkerRow]
      BY <1>11, RecordRemembers
    <2>2. RowTypes' /\ IntentTypes' /\ rec' \in [Recoverers -> RecovererRow]
      <3>1. wk[w].answer[c] \in {"acknowledged", "uncertain", "rejected"}
        BY <1>11, WorkerFields DEF Record, Answers
      <3>2. CASE UNCHANGED <<intent, params, sent, rec>>
        BY <1>0, <1>11, <3>2 DEF Record, RowTypes, IntentTypes
      <3>3. CASE Acknowledge(c)
        BY <1>11, <3>3, OutcomeTypes DEF Record
      <3>4. ASSUME NEW outcome \in {"uncertain", "rejected"}, Report(c, outcome)
            PROVE  RowTypes' /\ IntentTypes' /\ rec' \in [Recoverers -> RecovererRow]
        BY <1>11, <3>4, OutcomeTypes DEF Record
      <3> QED BY <1>11, <3>1, <3>2, <3>3, <3>4 DEF Record
    <2>3. ClockTypes'
      BY <1>0, <1>11, FaultTypes DEF Record, ClockTypes
    <2> QED BY <1>11, <2>1, <2>2, <2>3, GroupsKept, TypesByGroupNext DEF Record
  <1>12. CASE AllRejected(w)
    <2>1. wk' \in [Workers -> WorkerRow] /\ bind' \in [Slots -> Workers \cup {None, Old}]
      BY <1>12, LeaveTypes DEF AllRejected
    <2>2. IntentTypes' /\ RowTypes'
      BY <1>0, <1>12, <2>1 DEF AllRejected, IntentTypes, RowTypes, Terminal
    <2>3. rec' \in [Recoverers -> RecovererRow]
      BY <1>12, GroupsKept DEF AllRejected
    <2> QED BY <1>12, <2>1, <2>2, <2>3, GroupsKept, TypesByGroupNext DEF AllRejected
  <1>13. CASE Crash(w)
    <2>1. wk' \in [Workers -> WorkerRow] /\ bind' \in [Slots -> Workers \cup {None, Old}]
      BY <1>13, LeaveTypes DEF Crash
    <2>2. IntentTypes' /\ ClockTypes'
      BY <1>0, <1>13, <2>1, FaultTypes DEF Crash, IntentTypes, ClockTypes
    <2> QED BY <1>13, <2>1, <2>2, GroupsKept, TypesByGroupNext DEF Crash
  <1> QED BY <1>1, <1>2, <1>3, <1>4, <1>5, <1>6, <1>7, <1>8, <1>9, <1>10, <1>11, <1>12, <1>13
          DEF Continuation

---------------------------------------------------------------------------
(* What a poll or a sweep remembers.                                       *)

\* One recoverer's row is written; the others keep theirs, or a stale one.
LEMMA RecovererUpdate ==
  ASSUME Types, NEW r \in Recoverers, NEW next \in RecovererRow,
         \/ rec' = [rec EXCEPT ![r] = next]
         \/ rec' = [Touched EXCEPT ![r] = next]
  PROVE  /\ rec' \in [Recoverers -> RecovererRow] /\ rec'[r] = next
         /\ \A q \in Recoverers : q # r => rec'[q] = rec[q] \/ rec'[q] = Touched[q]
  BY TouchedTypes DEF Types

\* A step that leaves the recoverer nothing it could write with.
Rests(r) == rec'[r].at \in {"idle", "seal", "lost"} /\ ~rec'[r].fresh

LEMMA RestRemembers ==
  ASSUME Types, NEW r \in Recoverers, NEW at \in {"idle", "seal", "lost"},
         \/ rec' = [rec EXCEPT ![r] = [Away EXCEPT !.at = at]]
         \/ rec' = [Touched EXCEPT ![r] = [Away EXCEPT !.at = at]]
  PROVE  /\ rec' \in [Recoverers -> RecovererRow] /\ Rests(r)
         /\ \A q \in Recoverers : q # r => rec'[q] = rec[q] \/ rec'[q] = Touched[q]
  <1> DEFINE next == [Away EXCEPT !.at = at]
  <1>1. next \in RecovererRow /\ next.at = at /\ ~next.fresh
    BY DEF Away, RecovererRow, RecovererSteps
  <1> HIDE DEF next
  <1>2. rec' = [rec EXCEPT ![r] = next] \/ rec' = [Touched EXCEPT ![r] = next]
    BY DEF next
  <1> QED BY <1>1, <1>2, RecovererUpdate DEF Rests

LEMMA AwayIsIdle == Away = [Away EXCEPT !.at = "idle"]
  BY DEF Away

\* The steps after which a recoverer rests.
LEMMA RestingSteps ==
  ASSUME Types, NEW r \in Recoverers,
         \/ Publish(r) \/ Lost(r) \/ Fail(r) \/ Expire(r) \/ Seal(r) \/ CrashRecoverer(r)
  PROVE  /\ rec' \in [Recoverers -> RecovererRow] /\ Rests(r)
         /\ \A q \in Recoverers : q # r => rec'[q] = rec[q] \/ rec'[q] = Touched[q]
  <1>1. \E at \in {"idle", "seal", "lost"} :
          \/ rec' = [rec EXCEPT ![r] = [Away EXCEPT !.at = at]]
          \/ rec' = [Touched EXCEPT ![r] = [Away EXCEPT !.at = at]]
    <2>1. CASE Publish(r) \/ Fail(r)
      BY <2>1, AwayIsIdle DEF Publish, Fail
    <2>2. CASE Lost(r) \/ Expire(r) \/ Seal(r) \/ CrashRecoverer(r)
      BY <2>2, AwayIsIdle DEF Lost, Expire, Seal, CrashRecoverer
    <2> QED BY <2>1, <2>2
  <1> QED BY <1>1, RestRemembers

\* A listed row was read just now; a row listed as overdue is past its deadline.
LEMMA ListingRemembers ==
  ASSUME Types, NEW r \in Recoverers, ListRecoverable(r) \/ ListOverdue(r) \/ ListExpired(r)
  PROVE  /\ rec' \in [Recoverers -> RecovererRow]
         /\ \A q \in Recoverers : q # r => rec'[q] = rec[q] \/ rec'[q] = Touched[q]
         /\ rec'[r].at \in {"look", "failing", "expiring"} /\ ~rec'[r].fresh
         /\ rec'[r].at = "failing" => age >= Deadline
  <1>1. PICK at \in {"look", "failing", "expiring"}, force \in BOOLEAN :
          Notes(r, at, force) /\ (at = "failing" => age >= Deadline)
    BY DEF ListRecoverable, ListOverdue, ListExpired
  <1> DEFINE next == [Away EXCEPT !.at = at, !.known = TRUE, !.force = force]
  <1>2. next \in RecovererRow /\ next.at = at /\ ~next.fresh
    BY DEF Away, RecovererRow, RecovererSteps
  <1>3. rec' = [rec EXCEPT ![r] = next]
    BY <1>1 DEF Notes
  <1> HIDE DEF next
  <1> QED BY <1>1, <1>2, <1>3, RecovererUpdate

\* The look at a row: what may be published needs no copy, what is to be
\* failed has no acknowledgement missing, the images offered were read.
LEMMA LookRemembers ==
  ASSUME Types, NEW r \in Recoverers, Look(r)
  PROVE  /\ rec' \in [Recoverers -> RecovererRow]
         /\ \A q \in Recoverers : q # r => rec'[q] = rec[q] \/ rec'[q] = Touched[q]
         /\ rec'[r].at \in {"idle", "failing", "publish", "lease"}
         /\ rec'[r].at = "failing" => ~Unresolved
         /\ rec'[r].at = "publish" => rec'[r].got = {}
         /\ rec'[r].fresh => rec'[r].urls = urls
  <1>1. PICK have \in SUBSET Requests, force \in BOOLEAN, next \in {"idle", "failing", "publish", "lease"} :
          /\ next = "failing" => ~Unresolved
          /\ next = "publish" => have \subseteq urls
          /\ rec' = [rec EXCEPT ![r] =
               CASE next = "idle" -> Away
                 [] next = "failing" -> [Away EXCEPT !.at = next, !.known = rec[r].known]
                 [] OTHER -> [Away EXCEPT !.at = next, !.fresh = TRUE, !.urls = urls,
                                !.got = have \ urls, !.force = force]]
    <2>1. PICK open, have, blank \in SUBSET Requests :
       /\ open \cap have = {} /\ open \cap blank = {} /\ have \cap blank = {}
       /\ output \cap Requests \subseteq have
       /\ \A c \in have : job[c] = "image"
       /\ \A c \in blank : job[c] # "running"
       /\ \A c \in Requests \ (open \cup have \cup blank) : job[c] = "barren"
       /\ LET force == rec[r].force
              wait == (open # {} \/ ~(blank \subseteq urls)) /\ ~force
              recoverable == status \in {"queued", "done"} /\ ~Unresolved
              nothing == have = {} /\ urls = {}
              next == IF ~recoverable \/ (wait /\ Requests # {}) THEN "idle"
                      ELSE IF Requests = {} \/ nothing \/ have \cup blank = {} THEN "failing"
                      ELSE IF have \subseteq urls THEN "publish" ELSE "lease"
          IN rec' = [rec EXCEPT ![r] =
               CASE next = "idle" -> Away
                 [] next = "failing" -> [Away EXCEPT !.at = next, !.known = rec[r].known]
                 [] OTHER -> [Away EXCEPT !.at = next, !.fresh = TRUE, !.urls = urls,
                                !.got = have \ urls, !.force = force /\ next = "lease"]]
      BY DEF Look
    <2> DEFINE wait == (open # {} \/ ~(blank \subseteq urls)) /\ ~rec[r].force
               recoverable == status \in {"queued", "done"} /\ ~Unresolved
               nothing == have = {} /\ urls = {}
               next == IF ~recoverable \/ (wait /\ Requests # {}) THEN "idle"
                       ELSE IF Requests = {} \/ nothing \/ have \cup blank = {} THEN "failing"
                       ELSE IF have \subseteq urls THEN "publish" ELSE "lease"
               force == rec[r].force /\ next = "lease"
    <2>2. /\ next \in {"idle", "failing", "publish", "lease"}
          /\ next = "failing" => ~Unresolved
          /\ next = "publish" => have \subseteq urls
          /\ force \in BOOLEAN
      OBVIOUS
    <2>3. rec' = [rec EXCEPT ![r] =
               CASE next = "idle" -> Away
                 [] next = "failing" -> [Away EXCEPT !.at = next, !.known = rec[r].known]
                 [] OTHER -> [Away EXCEPT !.at = next, !.fresh = TRUE, !.urls = urls,
                                !.got = have \ urls, !.force = force]]
      BY <2>1
    <2> HIDE DEF next, force
    <2> QED BY <2>2, <2>3
  <1>2. have \subseteq Slots
    <2>1. Requests \subseteq Slots
      BY DEF Requests, Types, TypeOK
    <2> QED BY <2>1
  <1>3. CASE next = "idle"
    <2>1. rec' = [rec EXCEPT ![r] = Away] /\ Away.at = "idle" /\ ~Away.fresh
      BY <1>1, <1>3 DEF Away
    <2> QED BY <2>1, Rows, RecovererUpdate
  <1>4. CASE next = "failing"
    <2> DEFINE mine == [Away EXCEPT !.at = "failing", !.known = rec[r].known]
    <2>1. mine \in RecovererRow /\ mine.at = "failing" /\ ~mine.fresh
      BY RecovererFields DEF Away, RecovererRow, RecovererSteps
    <2>2. rec' = [rec EXCEPT ![r] = mine]
      BY <1>1, <1>4
    <2> HIDE DEF mine
    <2> QED BY <1>1, <1>4, <2>1, <2>2, RecovererUpdate
  <1>5. CASE next \in {"publish", "lease"}
    <2> DEFINE got == have \ urls
               mine == [Away EXCEPT !.at = next, !.fresh = TRUE, !.urls = urls, !.got = got, !.force = force]
    <2>1. urls \subseteq Slots /\ got \subseteq Slots /\ (next = "publish" => got = {})
      BY <1>1, <1>2 DEF Types, TypeOK
    <2>2. rec' = [rec EXCEPT ![r] = mine]
      BY <1>1, <1>5
    <2> HIDE DEF got
    <2>3. mine \in RecovererRow /\ mine.at = next /\ mine.urls = urls /\ mine.got = got
      BY <1>5, <2>1 DEF Away, RecovererRow, RecovererSteps
    <2> HIDE DEF mine
    <2> QED BY <1>5, <2>1, <2>2, <2>3, RecovererUpdate
  <1> QED BY <1>1, <1>3, <1>4, <1>5

\* The write lease is taken with a fresh copy of a row that has not ended.
LEMMA TakeLeaseRemembers ==
  ASSUME Types, NEW r \in Recoverers, TakeLease(r)
  PROVE  /\ rec' \in [Recoverers -> RecovererRow]
         /\ \A q \in Recoverers : q # r => rec'[q] = rec[q] \/ rec'[q] = Touched[q]
         /\ \/ /\ rec'[r].at = "copy" /\ Leasable(r) /\ lease = None /\ lease' = r
               /\ rec'[r].fresh = rec[r].fresh /\ rec'[r].urls = rec[r].urls
            \/ Rests(r) /\ lease' = lease
  <1>1. CASE Leasable(r) /\ lease = None /\ lease' = r /\ rec' = [rec EXCEPT ![r].at = "copy"]
    <2> DEFINE next == [rec[r] EXCEPT !.at = "copy"]
    <2>1. /\ next \in RecovererRow /\ next.at = "copy"
          /\ next.fresh = rec[r].fresh /\ next.urls = rec[r].urls
      BY RecovererFields DEF RecovererRow, RecovererSteps
    <2>2. rec' = [rec EXCEPT ![r] = next]
      BY <1>1 DEF Types
    <2> HIDE DEF next
    <2> QED BY <1>1, <2>1, <2>2, RecovererUpdate
  <1>2. CASE rec' = [rec EXCEPT ![r] = Away] /\ lease' = lease
    <2>1. rec' = [rec EXCEPT ![r] = [Away EXCEPT !.at = "idle"]]
      BY <1>2, AwayIsIdle
    <2>2. "idle" \in {"idle", "seal", "lost"}
      OBVIOUS
    <2> QED BY <1>2, <2>1, <2>2, RestRemembers
  <1> QED BY <1>1, <1>2 DEF TakeLease

\* What was copied is in storage.
LEMMA CopyRemembers ==
  ASSUME Types, NEW r \in Recoverers, Copy(r)
  PROVE  /\ rec' \in [Recoverers -> RecovererRow]
         /\ \A q \in Recoverers : q # r => rec'[q] = rec[q] \/ rec'[q] = Touched[q]
         /\ rec'[r].at \in {"drop", "release"} /\ rec'[r].got \subseteq store'
         /\ rec'[r].fresh = rec[r].fresh /\ rec'[r].urls = rec[r].urls
         /\ store \subseteq store' /\ store' \subseteq Slots
  <1>1. PICK stored \in SUBSET rec[r].got, at \in {"drop", "release"} :
          store' = store \cup stored /\ rec' = [rec EXCEPT ![r].got = stored, ![r].at = at]
    BY DEF Copy
  <1> DEFINE next == [rec[r] EXCEPT !.got = stored, !.at = at]
  <1>2. stored \subseteq Slots /\ store \subseteq Slots
    BY RecovererFields DEF Types, TypeOK
  <1>3. /\ next \in RecovererRow /\ next.at = at /\ next.got = stored
        /\ next.fresh = rec[r].fresh /\ next.urls = rec[r].urls
    BY <1>2, RecovererFields DEF RecovererRow, RecovererSteps
  <1>4. rec' = [rec EXCEPT ![r] = next]
    BY <1>1 DEF Types
  <1> HIDE DEF next
  <1> QED BY <1>1, <1>2, <1>3, <1>4, RecovererUpdate

\* The lease is given back before the row is published.
LEMMA ReleaseRemembers ==
  ASSUME Types, NEW r \in Recoverers, Release(r)
  PROVE  /\ rec' \in [Recoverers -> RecovererRow]
         /\ \A q \in Recoverers : q # r => rec'[q] = rec[q] \/ rec'[q] = Touched[q]
         /\ \/ Rests(r)
            \/ /\ rec[r].at = "release" /\ rec'[r].at = "publish" /\ rec'[r].got = rec[r].got
               /\ rec'[r].fresh = rec[r].fresh /\ rec'[r].urls = rec[r].urls
  <1>1. CASE rec[r].at = "drop"
    <2>1. rec' = [rec EXCEPT ![r] = [Away EXCEPT !.at = "idle"]]
      BY <1>1, AwayIsIdle DEF Release, Types
    <2>2. "idle" \in {"idle", "seal", "lost"}
      OBVIOUS
    <2> QED BY <2>1, <2>2, RestRemembers
  <1>2. CASE rec[r].at = "release"
    <2> DEFINE next == [rec[r] EXCEPT !.at = "publish", !.force = FALSE]
    <2>1. /\ next \in RecovererRow /\ next.at = "publish" /\ next.got = rec[r].got
          /\ next.fresh = rec[r].fresh /\ next.urls = rec[r].urls
      BY RecovererFields DEF RecovererRow, RecovererSteps
    <2>2. rec' = [rec EXCEPT ![r] = next]
      BY <1>2 DEF Release, Types
    <2> HIDE DEF next
    <2> QED BY <1>2, <2>1, <2>2, RecovererUpdate
  <1> QED BY <1>1, <1>2 DEF Release

\* A recoverer's step keeps the types.
LEMMA RecovererTypes ==
  ASSUME Types, NEW r \in Recoverers,
         \/ ListRecoverable(r) \/ ListOverdue(r) \/ ListExpired(r)
         \/ Recovery(r) \/ CrashRecoverer(r)
  PROVE  Types'
  <1>0. LeaseTypes /\ RowTypes /\ IntentTypes /\ FalTypes /\ ObjectTypes /\ ClockTypes
    BY TypesByGroup
  <1>1. CASE ListRecoverable(r) \/ ListOverdue(r) \/ ListExpired(r)
    <2>1. rec' \in [Recoverers -> RecovererRow]
      BY <1>1, ListingRemembers
    <2> QED BY <1>1, <2>1, GroupsKept, TypesByGroupNext DEF ListRecoverable, ListOverdue, ListExpired
  <1>2. CASE Look(r)
    <2>1. rec' \in [Recoverers -> RecovererRow]
      BY <1>2, LookRemembers
    <2> QED BY <1>2, <2>1, GroupsKept, TypesByGroupNext DEF Look
  <1>3. CASE TakeLease(r)
    <2>1. rec' \in [Recoverers -> RecovererRow] /\ lease' \in {lease, r}
      BY <1>3, TakeLeaseRemembers
    <2>2. ObjectTypes'
      BY <1>0, <1>3, <2>1 DEF TakeLease, ObjectTypes
    <2> QED BY <1>3, <2>1, <2>2, GroupsKept, TypesByGroupNext DEF TakeLease
  <1>4. CASE Copy(r)
    <2>1. rec' \in [Recoverers -> RecovererRow] /\ store' \subseteq Slots
      BY <1>4, CopyRemembers
    <2>2. ObjectTypes'
      BY <1>0, <1>4, <2>1 DEF Copy, ObjectTypes
    <2> QED BY <1>4, <2>1, <2>2, GroupsKept, TypesByGroupNext DEF Copy
  <1>5. CASE Release(r)
    <2>1. rec' \in [Recoverers -> RecovererRow]
      BY <1>5, ReleaseRemembers
    <2>2. ObjectTypes'
      BY <1>0, <1>5 DEF Release, ObjectTypes
    <2> QED BY <1>5, <2>1, <2>2, GroupsKept, TypesByGroupNext DEF Release
  <1>6. CASE Publish(r)
    <2>1. rec' \in [Recoverers -> RecovererRow]
      BY <1>6, RestingSteps
    <2>2. rec[r].urls \cup rec[r].got \in SUBSET Slots
      BY RecovererFields
    <2>3. RowTypes'
      BY <1>0, <1>6, <2>2 DEF Publish, RowTypes
    <2> QED BY <1>6, <2>1, <2>3, GroupsKept, TypesByGroupNext DEF Publish
  <1>7. CASE Lost(r)
    <2>1. rec' \in [Recoverers -> RecovererRow]
      BY <1>7, RestingSteps
    <2>2. RowTypes' /\ ObjectTypes' /\ ClockTypes'
      BY <1>0, <1>7, FaultTypes DEF Lost, RowTypes, ObjectTypes, ClockTypes
    <2> QED BY <1>7, <2>1, <2>2, GroupsKept, TypesByGroupNext DEF Lost
  <1>8. CASE Fail(r) \/ Expire(r)
    <2>1. rec' \in [Recoverers -> RecovererRow]
      BY <1>8, RestingSteps
    <2>2. RowTypes'
      BY <1>0, <1>8 DEF Fail, Expire, RowTypes, Terminal
    <2> QED BY <1>8, <2>1, <2>2, GroupsKept, TypesByGroupNext DEF Fail, Expire
  <1>9. CASE Seal(r)
    <2>1. rec' \in [Recoverers -> RecovererRow]
      BY <1>9, RestingSteps
    <2>2. IntentTypes'
      BY <1>0, <1>9 DEF Seal, IntentTypes
    <2> QED BY <1>9, <2>1, <2>2, GroupsKept, TypesByGroupNext DEF Seal
  <1>10. CASE CrashRecoverer(r)
    <2>1. rec' \in [Recoverers -> RecovererRow]
      BY <1>10, RestingSteps
    <2>2. ClockTypes'
      BY <1>0, <1>10, FaultTypes DEF CrashRecoverer, ClockTypes
    <2> QED BY <1>10, <2>1, <2>2, GroupsKept, TypesByGroupNext DEF CrashRecoverer
  <1> QED BY <1>1, <1>2, <1>3, <1>4, <1>5, <1>6, <1>7, <1>8, <1>9, <1>10 DEF Recovery

\* fal, the cleanup, the user and the clock keep the types.
LEMMA OtherTypes ==
  ASSUME Types,
         \/ \E c \in Slots : Fal(c) \/ WebhookLost(c)
         \/ Cleanup \/ Pick \/ ReleaseStale \/ LeaseEnds \/ WriteLeaseEnds \/ Tick
  PROVE  Types'
  <1>0. LeaseTypes /\ RowTypes /\ IntentTypes /\ FalTypes /\ ObjectTypes /\ ClockTypes
    BY TypesByGroup
  <1>1. ASSUME NEW c \in Slots, Generate(c) PROVE Types'
    <2>1. FalTypes'
      BY <1>0, <1>1 DEF Generate, FalTypes
    <2> QED BY <1>1, <2>1, GroupsKept, TypesByGroupNext DEF Generate
  <1>2. ASSUME NEW c \in Slots, Webhook(c) PROVE Types'
    <2>1. RowTypes' /\ IntentTypes' /\ rec' \in [Recoverers -> RecovererRow]
      BY <1>2, OutcomeTypes DEF Webhook
    <2>2. FalTypes'
      BY <1>0, <1>2 DEF Webhook, FalTypes
    <2> QED BY <1>2, <2>1, <2>2, GroupsKept, TypesByGroupNext DEF Webhook
  <1>3. ASSUME NEW c \in Slots, WebhookOutput(c) \/ WebhookLost(c) PROVE Types'
    <2>1. FalTypes' /\ IntentTypes' /\ ClockTypes'
      BY <1>0, <1>3, FaultTypes
         DEF WebhookOutput, WebhookLost, FalTypes, IntentTypes, ClockTypes, intents, clock
    <2> QED BY <1>3, <2>1, GroupsKept, TypesByGroupNext DEF WebhookOutput, WebhookLost
  <1>4. CASE BeginCleanup \/ RemoveObjects
    <2>1. ObjectTypes' /\ ClockTypes'
      BY <1>0, <1>4, FaultTypes DEF BeginCleanup, RemoveObjects, ObjectTypes, ClockTypes, clock
    <2> QED BY <1>4, <2>1, GroupsKept, TypesByGroupNext DEF BeginCleanup, RemoveObjects
  <1>5. CASE MarkCleaned
    <2>1. ObjectTypes' /\ RowTypes'
      BY <1>0, <1>5 DEF MarkCleaned, ObjectTypes, RowTypes
    <2>2. rec' \in [Recoverers -> RecovererRow]
      BY <1>5, GroupsKept DEF MarkCleaned
    <2> QED BY <1>5, <2>1, <2>2, GroupsKept, TypesByGroupNext DEF MarkCleaned
  <1>6. CASE Pick \/ ReleaseStale
    <2>1. RowTypes' /\ LeaseTypes'
      BY <1>0, <1>6 DEF Pick, ReleaseStale, RowTypes, LeaseTypes, Terminal, lease2
    <2> QED BY <1>6, <2>1, GroupsKept, TypesByGroupNext DEF Pick, ReleaseStale
  <1>7. CASE LeaseEnds \/ WriteLeaseEnds \/ Tick
    <2>1. LeaseTypes' /\ ObjectTypes' /\ ClockTypes'
      BY <1>0, <1>7 DEF LeaseEnds, WriteLeaseEnds, Tick, LeaseTypes, ObjectTypes, ClockTypes,
                        lease2, objects, clock
    <2> QED BY <1>7, <2>1, GroupsKept, TypesByGroupNext DEF LeaseEnds, WriteLeaseEnds, Tick
  <1> QED BY <1>1, <1>2, <1>3, <1>4, <1>5, <1>6, <1>7 DEF Fal, Cleanup

LEMMA TypeStep == Types /\ [Next]_vars => Types'
  <1> SUFFICES ASSUME Types, [Next]_vars PROVE Types'
    OBVIOUS
  <1>1. CASE UNCHANGED vars
    BY <1>1, GroupsKept, TypesByGroupNext DEF vars
  <1> QED BY <1>1, ContinuationTypes, RecovererTypes, OtherTypes DEF Next

---------------------------------------------------------------------------
(* Submissions: what most steps keep.                                      *)

\* Permits, payments and refusals outlive a step that leaves the intents alone
\* and lets no continuation remember more.
LEMMA PermitsKept ==
  ASSUME PermitIsHeldOnce, PaidIsBegun, RefusedForGood, UNCHANGED <<intent, posts, job, hook>>,
         \A v \in Workers : /\ wk'[v].mine \subseteq wk[v].mine
                            /\ wk'[v].refused \subseteq wk[v].refused
                            /\ \A c \in Slots : wk'[v].answer[c] # "none" => wk[v].answer[c] # "none"
  PROVE  PermitIsHeldOnce' /\ PaidIsBegun' /\ RefusedForGood'
  <1>1. \A v \in Workers, c \in Slots : Holding(v, c)' => Holding(v, c)
    BY DEF Holding
  <1>2. PermitIsHeldOnce'
    BY <1>1 DEF PermitIsHeldOnce
  <1>3. PaidIsBegun'
    BY DEF PaidIsBegun
  <1>4. RefusedForGood'
    BY DEF RefusedForGood
  <1> QED BY <1>2, <1>3, <1>4

\* A lone continuation stays alone, and what is awaited stays noted.
LEMMA AloneKept ==
  ASSUME AloneIsNoted, UNCHANGED <<intent, params, overlap>>, status' = status \/ status' # "queued",
         \A v \in Workers : /\ Busy(v)' => Busy(v)
                            /\ wk'[v].at = "presave" =>
                                 wk[v].at = "presave" \/ \A c \in Slots : intent[c] = "none"
  PROVE  AloneIsNoted'
  BY DEF AloneIsNoted, Awaited

\* An update of the row makes every listing of it stale.
LEMMA FailingTouched ==
  ASSUME Types, TouchRow
  PROVE  FailingIsResolved'
  BY TouchedTypes DEF FailingIsResolved, TouchRow

LEMMA FailingKept ==
  ASSUME FailingIsResolved, UNCHANGED <<params, rec, age>>
  PROVE  FailingIsResolved'
  BY DEF FailingIsResolved, Unresolved

\* A step of one continuation that writes neither intents nor gen_params.
LEMMA QuietContinuation ==
  ASSUME Types, Submissions, NEW w \in Workers,
         UNCHANGED <<intent, params, posts, job, hook, overlap, age>>,
         status' = status \/ status' # "queued",
         rec' = rec \/ TouchRow,
         \A v \in Workers : v # w => wk'[v] = wk[v],
         wk[w].at # "idle",
         wk'[w].mine \subseteq wk[w].mine, wk'[w].refused \subseteq wk[w].refused,
         \A c \in Slots : wk'[w].answer[c] # "none" => wk[w].answer[c] # "none",
         wk'[w].at = "presave" => wk[w].at = "presave" \/ \A c \in Slots : intent[c] = "none",
         reservation' \in {"accepted", "expired"} =>
           reservation' = reservation /\ wk'[w].at \in {"idle", "accepted"}
  PROVE  Submissions'
  <1>1. PermitIsHeldOnce' /\ PaidIsBegun' /\ RefusedForGood'
    <2>1. \A v \in Workers : /\ wk'[v].mine \subseteq wk[v].mine
                             /\ wk'[v].refused \subseteq wk[v].refused
                             /\ \A c \in Slots : wk'[v].answer[c] # "none" => wk[v].answer[c] # "none"
      OBVIOUS
    <2> QED BY <2>1, PermitsKept DEF Submissions
  <1>2. AcceptedUntouched'
    BY DEF Submissions, AcceptedUntouched
  <1>3. NamedIsAcknowledged'
    BY DEF Submissions, NamedIsAcknowledged
  <1>4. AloneIsNoted'
    <2>1. \A v \in Workers : /\ Busy(v)' => Busy(v)
                             /\ wk'[v].at = "presave" =>
                                  wk[v].at = "presave" \/ \A c \in Slots : intent[c] = "none"
      BY DEF Busy
    <2> QED BY <2>1, AloneKept DEF Submissions
  <1>5. FailingIsResolved'
    BY FailingTouched, FailingKept DEF Submissions
  <1> QED BY <1>1, <1>2, <1>3, <1>4, <1>5 DEF Submissions

\* A continuation that leaves.
LEMMA LeavingContinuation ==
  ASSUME Types, Submissions, NEW w \in Workers, Leave(w), Busy(w),
         UNCHANGED <<intent, params, posts, job, hook, overlap, age>>,
         status' = status \/ status' # "queued", rec' = rec \/ TouchRow,
         reservation' \in {"accepted", "expired"} => reservation' = reservation
  PROVE  Submissions'
  <1>1. wk'[w] = Resting /\ \A v \in Workers : v # w => wk'[v] = wk[v]
    BY LeaveTypes
  <1>2. /\ Resting.at = "idle" /\ Resting.mine = {} /\ Resting.refused = {}
        /\ \A c \in Slots : Resting.answer[c] = "none"
    BY DEF Resting
  <1> QED BY <1>1, <1>2, QuietContinuation DEF Busy

---------------------------------------------------------------------------
(* Submissions: the steps of a continuation.                               *)

LEMMA BeginKeeps ==
  ASSUME Types, Submissions, NEW w \in Workers, Begin(w)
  PROVE  Submissions'
  <1>1. /\ \A v \in Workers : v # w => wk'[v] = wk[v]
        /\ wk'[w].at = IF reservation = "accepted" THEN "accepted" ELSE "committed"
        /\ wk'[w].mine = wk[w].mine /\ wk'[w].answer = wk[w].answer /\ wk'[w].refused = wk[w].refused
    <2>1. PICK at \in {"accepted", "committed"} :
            Go(w, at) /\ at = IF reservation = "accepted" THEN "accepted" ELSE "committed"
      BY DEF Begin
    <2> QED BY <2>1, GoTypes DEF WorkerSteps
  <1>2. /\ UNCHANGED <<intent, params, posts, job, hook, status, rec, age, reservation>>
        /\ overlap' = (overlap \/ \E v \in Workers \ {w} : Busy(v))
        /\ reservation \in {"accepted", "running"}
    BY DEF Begin, Committable, row, intents, fal, lease2
  <1>3. PermitIsHeldOnce' /\ PaidIsBegun' /\ RefusedForGood'
    BY <1>1, <1>2, PermitsKept DEF Submissions
  <1>4. AcceptedUntouched'
    BY <1>1, <1>2 DEF Submissions, AcceptedUntouched
  <1>5. NamedIsAcknowledged'
    BY <1>2 DEF Submissions, NamedIsAcknowledged
  <1>6. AloneIsNoted'
    <2> SUFFICES ASSUME ~overlap' PROVE AloneIsNoted'
      BY DEF AloneIsNoted
    <2>1. ~overlap /\ \A v \in Workers \ {w} : ~Busy(v) /\ ~Busy(v)'
      BY <1>1, <1>2 DEF Busy
    <2>2. \A v \in Workers : Busy(v)' => v = w
      BY <2>1
    <2>3. \A v \in Workers : wk'[v].at # "presave"
      BY <1>1, <2>2 DEF Busy
    <2> QED BY <1>2, <2>1, <2>2, <2>3 DEF Submissions, AloneIsNoted, Awaited
  <1>7. FailingIsResolved'
    BY <1>2, FailingKept DEF Submissions
  <1> QED BY <1>3, <1>4, <1>5, <1>6, <1>7 DEF Submissions

LEMMA CommitKeeps ==
  ASSUME Types, Submissions, NEW w \in Workers, Commit(w) \/ ClaimContinuation(w) \/ Prepare(w)
  PROVE  Submissions'
  <1>1. CASE Commit(w) \/ ClaimContinuation(w)
    <2>1. PICK at \in {"prepare", "idle"} :
            /\ Go(w, at)
            /\ at = "prepare" => reservation' \notin {"accepted", "expired"}
            /\ reservation' \in {"accepted", "expired"} => reservation' = reservation
      BY <1>1 DEF Commit, ClaimContinuation, lease2
    <2>2. /\ \A v \in Workers : v # w => wk'[v] = wk[v]
          /\ wk'[w].at = at /\ wk'[w].mine = wk[w].mine /\ wk'[w].answer = wk[w].answer
          /\ wk'[w].refused = wk[w].refused
      BY <2>1, GoTypes DEF WorkerSteps
    <2>3. /\ UNCHANGED <<intent, params, posts, job, hook, overlap, age, status>>
          /\ rec' = rec \/ TouchRow
          /\ wk[w].at # "idle"
      BY <1>1 DEF Commit, ClaimContinuation, row, intents, fal, clock
    <2> QED BY <2>1, <2>2, <2>3, QuietContinuation
  <1>2. CASE Prepare(w)
    <2>1. PICK plan \in SUBSET Slots, kept \in SUBSET Slots, at \in {"presave", "rebind", "claim"} :
            /\ wk' = [wk EXCEPT ![w].left = Slots, ![w].plan = plan, ![w].kept = kept, ![w].at = at]
            /\ at = "presave" => \A c \in Slots : intent[c] = "none"
      BY <1>2 DEF Prepare
    <2> DEFINE mine == [wk[w] EXCEPT !.left = Slots, !.plan = plan, !.kept = kept, !.at = at]
    <2>2. /\ mine \in WorkerRow /\ mine.at = at /\ mine.mine = wk[w].mine
          /\ mine.answer = wk[w].answer /\ mine.refused = wk[w].refused
      BY WorkerFields DEF WorkerRow, WorkerSteps
    <2>3. wk' = [wk EXCEPT ![w] = mine]
      BY <2>1 DEF Types
    <2> HIDE DEF mine
    <2>4. wk'[w] = mine /\ \A v \in Workers : v # w => wk'[v] = wk[v]
      BY <2>2, <2>3, WorkerUpdate
    <2>5. /\ UNCHANGED <<intent, params, posts, job, hook, overlap, age, status, rec, reservation>>
          /\ wk[w].at = "prepare"
      BY <1>2 DEF Prepare, row, intents, fal, clock, lease2
    <2>6. reservation \notin {"accepted", "expired"}
      BY <2>5 DEF Submissions, AcceptedUntouched
    <2> QED BY <2>1, <2>2, <2>4, <2>5, <2>6, QuietContinuation
  <1> QED BY <1>1, <1>2

LEMMA PresaveKeeps ==
  ASSUME Types, Submissions, NEW w \in Workers, Presave(w)
  PROVE  Submissions'
  <1>1. /\ wk[w].at = "presave" /\ \A v \in Workers : v # w => wk'[v] = wk[v]
        /\ wk'[w].at = "bind"
        /\ wk'[w].mine = wk[w].mine /\ wk'[w].answer = wk[w].answer /\ wk'[w].refused = wk[w].refused
    BY GoTypes DEF Presave, WorkerSteps
  <1>2. /\ UNCHANGED <<intent, posts, job, hook, status, overlap, reservation>>
        /\ \A c \in Slots : params'[c] = Planned
        /\ TouchRow
    BY DEF Presave, intents, fal, clock, lease2
  <1>3. PermitIsHeldOnce' /\ PaidIsBegun' /\ RefusedForGood'
    BY <1>1, <1>2, PermitsKept DEF Submissions
  <1>4. AcceptedUntouched'
    BY <1>1, <1>2 DEF Submissions, AcceptedUntouched
  <1>5. NamedIsAcknowledged'
    BY <1>2 DEF NamedIsAcknowledged, Planned
  <1>6. AloneIsNoted'
    <2> SUFFICES ASSUME ~overlap' PROVE AloneIsNoted'
      BY DEF AloneIsNoted
    <2>1. /\ \A v \in Workers : Busy(v) => v = w
          /\ \A c \in Slots : intent[c] = "none"
      BY <1>1, <1>2 DEF Submissions, AloneIsNoted, Busy
    <2>2. \A v \in Workers : Busy(v)' => v = w
      BY <1>1, <2>1 DEF Busy
    <2> QED BY <1>1, <1>2, <2>1, <2>2 DEF AloneIsNoted, Awaited
  <1>7. FailingIsResolved'
    BY <1>2, FailingTouched
  <1> QED BY <1>3, <1>4, <1>5, <1>6, <1>7 DEF Submissions

LEMMA BindKeeps ==
  ASSUME Types, Submissions, NEW w \in Workers, Bind(w)
  PROVE  Submissions'
  <1>0. wk[w].at = "bind" /\ UNCHANGED <<params, posts, job, hook, status, overlap, reservation, age>>
    BY DEF Bind, row, fal, clock, lease2
  <1>1. CASE Leave(w) /\ UNCHANGED <<intent, rec>>
    BY <1>0, <1>1, LeavingContinuation DEF Busy
  <1>2. CASE /\ \A c \in Slots : intent[c] = "none"
             /\ intent' = [c \in Slots |-> "planned"]
             /\ Go(w, "claim") /\ TouchRow
    <2>1. /\ \A v \in Workers : v # w => wk'[v] = wk[v]
          /\ wk'[w].at = "claim"
          /\ wk'[w].mine = wk[w].mine /\ wk'[w].answer = wk[w].answer /\ wk'[w].refused = wk[w].refused
      BY <1>2, GoTypes DEF WorkerSteps
    <2>2. \A c \in Slots : intent[c] = "none" /\ intent'[c] = "planned" /\ posts[c] = 0
      BY <1>2 DEF Submissions, PaidIsBegun
    <2>3. \A v \in Workers, c \in Slots : ~Holding(v, c)
      BY <2>2 DEF Submissions, PermitIsHeldOnce, Begun
    <2>4. \A v \in Workers, c \in Slots : ~Holding(v, c)'
      BY <2>1, <2>3 DEF Holding
    <2>5. PermitIsHeldOnce'
      <3>1. \A v \in Workers, c \in Slots : c \notin wk'[v].mine
        BY <2>4 DEF Holding
      <3> QED BY <2>4, <3>1 DEF PermitIsHeldOnce
    <2>6. PaidIsBegun'
      BY <1>0, <2>2 DEF Submissions, PaidIsBegun
    <2>7. RefusedForGood'
      <3>1. \A v \in Workers : wk[v].refused = {}
        BY <2>2, WorkerFields DEF Submissions, RefusedForGood, Ended
      <3>2. \A v \in Workers : wk'[v].refused = {}
        BY <2>1, <3>1
      <3> QED BY <3>2 DEF RefusedForGood
    <2>8. AcceptedUntouched'
      BY <1>0 DEF Submissions, AcceptedUntouched
    <2>9. NamedIsAcknowledged'
      BY <1>0, <2>2 DEF Submissions, NamedIsAcknowledged
    <2>10. AloneIsNoted'
      <3> SUFFICES ASSUME ~overlap' PROVE AloneIsNoted'
        BY DEF AloneIsNoted
      <3>1. \A v \in Workers : Busy(v) => v = w
        BY <1>0 DEF Submissions, AloneIsNoted, Busy
      <3>2. \A v \in Workers : Busy(v)' => v = w
        BY <2>1, <3>1 DEF Busy
      <3>3. \A v \in Workers : wk'[v].at # "presave"
        BY <2>1, <3>2 DEF Busy
      <3> QED BY <2>2, <3>2, <3>3 DEF AloneIsNoted, Awaited
    <2>11. FailingIsResolved'
      BY <1>2, FailingTouched
    <2> QED BY <2>5, <2>6, <2>7, <2>8, <2>9, <2>10, <2>11 DEF Submissions
  <1> QED BY <1>1, <1>2 DEF Bind

LEMMA RebindKeeps ==
  ASSUME Types, Submissions, NEW w \in Workers, Rebind(w)
  PROVE  Submissions'
  <1>0. /\ wk[w].at = "rebind"
        /\ UNCHANGED <<intent, posts, job, hook, status, overlap, reservation, age>>
    BY DEF Rebind, fal, clock, lease2
  <1>1. CASE Leave(w) /\ UNCHANGED <<params, rec>>
    BY <1>0, <1>1, LeavingContinuation DEF Busy
  <1>2. CASE /\ wk[w].plan = {c \in Slots : intent[c] = "planned"}
             /\ params' = [c \in Slots |-> IF c \in wk[w].plan
                                      THEN [params[c] EXCEPT !.st = "planned"] ELSE params[c]]
             /\ wk' = [wk EXCEPT ![w].at = "claim", ![w].plan = {}] /\ TouchRow
    <2> DEFINE mine == [wk[w] EXCEPT !.at = "claim", !.plan = {}]
    <2>1. /\ mine \in WorkerRow /\ mine.at = "claim" /\ mine.mine = wk[w].mine
          /\ mine.answer = wk[w].answer /\ mine.refused = wk[w].refused
      BY WorkerFields DEF WorkerRow, WorkerSteps
    <2>2. wk' = [wk EXCEPT ![w] = mine]
      BY <1>2 DEF Types
    <2> HIDE DEF mine
    <2>3. wk'[w] = mine /\ \A v \in Workers : v # w => wk'[v] = wk[v]
      BY <2>1, <2>2, WorkerUpdate
    <2>4. \A c \in Slots : /\ params'[c].id = params[c].id
                           /\ intent[c] # "planned" => params'[c] = params[c]
      BY <1>2 DEF Types, TypeOK
    <2>5. PermitIsHeldOnce' /\ PaidIsBegun' /\ RefusedForGood'
      BY <1>0, <2>1, <2>3, PermitsKept DEF Submissions
    <2>6. AcceptedUntouched'
      BY <1>0 DEF Submissions, AcceptedUntouched
    <2>7. NamedIsAcknowledged'
      BY <1>0, <2>4 DEF Submissions, NamedIsAcknowledged
    <2>8. AloneIsNoted'
      <3> SUFFICES ASSUME ~overlap' PROVE AloneIsNoted'
        BY DEF AloneIsNoted
      <3>1. ~overlap /\ \A v \in Workers : Busy(v) => v = w
        BY <1>0 DEF Submissions, AloneIsNoted, Busy
      <3>2. \A v \in Workers : Busy(v)' => v = w
        BY <2>3, <3>1 DEF Busy
      <3>3. \A v \in Workers : wk'[v].at # "presave"
        BY <2>1, <2>3, <3>2 DEF Busy
      <3> QED BY <1>0, <2>4, <3>1, <3>2, <3>3 DEF Submissions, AloneIsNoted, Awaited
    <2>9. FailingIsResolved'
      BY <1>2, FailingTouched
    <2> QED BY <2>5, <2>6, <2>7, <2>8, <2>9 DEF Submissions
  <1> QED BY <1>1, <1>2 DEF Rebind

\* The permit for a candidate goes to the one continuation that claims it.
LEMMA ClaimKeeps ==
  ASSUME Types, Submissions, NEW w \in Workers, NEW c \in Slots, Claim(w, c)
  PROVE  Submissions'
  <1>0. /\ wk[w].at = "claim"
        /\ UNCHANGED <<posts, job, hook, status, overlap, reservation, age>>
    BY DEF Claim, fal, clock, lease2
  <1>1. /\ \A v \in Workers : v # w => wk'[v] = wk[v]
        /\ wk'[w].at = "claim" /\ wk'[w].answer = wk[w].answer
        /\ wk'[w].mine = IF Claimable(c) /\ Matches(w, c) THEN wk[w].mine \cup {c} ELSE wk[w].mine
        /\ wk'[w].refused = IF ~Claimable(c) /\ intent[c] = "rejected"
                             THEN wk[w].refused \cup {c} ELSE wk[w].refused
    BY ClaimRemembers
  <1>2. AcceptedUntouched'
    BY <1>0 DEF Submissions, AcceptedUntouched
  <1>3. CASE Claimable(c)
    <2>1. /\ intent' = [intent EXCEPT ![c] = "submitting"]
          /\ params' = [params EXCEPT ![c].st = "submitting"] /\ TouchRow
          /\ intent[c] = "planned"
      BY <1>3 DEF Claim, Claimable
    <2>2. /\ intent'[c] = "submitting" /\ \A d \in Slots : d # c => intent'[d] = intent[d]
          /\ params'[c].st = "submitting" /\ params'[c].id = params[c].id
          /\ \A d \in Slots : d # c => params'[d] = params[d]
      BY <2>1 DEF Types, TypeOK
    <2>3. posts[c] = 0 /\ \A v \in Workers : ~Holding(v, c)
      BY <2>1 DEF Submissions, PaidIsBegun, PermitIsHeldOnce, Begun
    <2>4. /\ wk'[w].mine \subseteq wk[w].mine \cup {c} /\ wk'[w].refused = wk[w].refused
          /\ wk[w].answer[c] = "none"
      BY <1>1, <1>3, <2>3 DEF Holding
    <2>5. \A v \in Workers, d \in Slots : Holding(v, d)' => Holding(v, d) \/ (v = w /\ d = c)
      BY <1>1, <2>4 DEF Holding
    <2>6. PermitIsHeldOnce'
      <3>1. \A v \in Workers, d \in Slots :
              d \in wk'[v].mine => posts[d] = 0 /\ wk'[v].answer[d] = "none"
        BY <1>1, <2>3, <2>4 DEF Submissions, PermitIsHeldOnce
      <3>2. \A v \in Workers, d \in Slots : Holding(v, d)' => intent'[d] \in Begun
        BY <2>2, <2>5 DEF Submissions, PermitIsHeldOnce, Begun
      <3>3. \A u, v \in Workers, d \in Slots : Holding(u, d)' /\ Holding(v, d)' => u = v
        BY <2>3, <2>5 DEF Submissions, PermitIsHeldOnce
      <3> QED BY <1>0, <3>1, <3>2, <3>3 DEF PermitIsHeldOnce
    <2>7. PaidIsBegun'
      BY <1>0, <2>2, <2>3 DEF Submissions, PaidIsBegun
    <2>8. RefusedForGood'
      <3>1. \A v \in Workers : c \notin wk[v].refused
        BY <2>1 DEF Submissions, RefusedForGood, Ended
      <3>2. \A v \in Workers : wk'[v].refused = wk[v].refused /\ wk[v].refused \subseteq Slots
        BY <1>1, <2>4, WorkerFields
      <3> QED BY <2>2, <3>1, <3>2 DEF Submissions, RefusedForGood
    <2>9. NamedIsAcknowledged'
      BY <2>1, <2>2 DEF Submissions, NamedIsAcknowledged
    <2>10. AloneIsNoted'
      <3> SUFFICES ASSUME ~overlap' PROVE AloneIsNoted'
        BY DEF AloneIsNoted
      <3>1. ~overlap /\ \A v \in Workers : Busy(v) => v = w
        BY <1>0 DEF Submissions, AloneIsNoted, Busy
      <3>2. \A v \in Workers : Busy(v)' => v = w
        BY <1>1, <3>1 DEF Busy
      <3>3. \A v \in Workers : wk'[v].at # "presave"
        BY <1>1, <3>2 DEF Busy
      <3> QED BY <1>0, <2>2, <3>1, <3>2, <3>3 DEF Submissions, AloneIsNoted, Awaited
    <2>11. FailingIsResolved'
      BY <2>1, FailingTouched
    <2> QED BY <1>2, <2>6, <2>7, <2>8, <2>9, <2>10, <2>11 DEF Submissions
  <1>4. CASE ~Claimable(c)
    <2>1. UNCHANGED <<intent, params, rec>>
      BY <1>4 DEF Claim
    <2>2. CASE intent[c] # "rejected"
      <3>1. wk'[w].mine = wk[w].mine /\ wk'[w].refused = wk[w].refused
        BY <1>1, <1>4, <2>2
      <3> QED BY <1>0, <1>1, <2>1, <3>1, QuietContinuation DEF Submissions, AcceptedUntouched
    <2>3. CASE intent[c] = "rejected"
      <3>1. /\ wk'[w].mine = wk[w].mine /\ wk'[w].refused = wk[w].refused \cup {c}
        BY <1>1, <1>4, <2>3
      <3>2. PermitIsHeldOnce' /\ PaidIsBegun'
        <4>1. \A v \in Workers, d \in Slots : Holding(v, d)' <=> Holding(v, d)
          BY <1>1, <3>1 DEF Holding
        <4>2. \A v \in Workers : wk'[v].mine = wk[v].mine /\ wk'[v].answer = wk[v].answer
          BY <1>1, <3>1
        <4> QED BY <1>0, <2>1, <4>1, <4>2 DEF Submissions, PermitIsHeldOnce, PaidIsBegun
      <3>3. RefusedForGood'
        <4>1. \A v \in Workers : wk'[v].refused \subseteq wk[v].refused \cup {c}
          BY <1>1, <3>1
        <4> QED BY <2>1, <2>3, <4>1 DEF Submissions, RefusedForGood, Ended
      <3>4. NamedIsAcknowledged'
        BY <2>1 DEF Submissions, NamedIsAcknowledged
      <3>5. AloneIsNoted'
        <4>1. \A v \in Workers : /\ Busy(v)' => Busy(v)
                                 /\ wk'[v].at = "presave" => wk[v].at = "presave"
          BY <1>0, <1>1 DEF Busy
        <4> QED BY <1>0, <2>1, <4>1, AloneKept DEF Submissions
      <3>6. FailingIsResolved'
        BY <1>0, <2>1, FailingKept DEF Submissions
      <3> QED BY <1>2, <3>2, <3>3, <3>4, <3>5, <3>6 DEF Submissions
    <2> QED BY <2>2, <2>3
  <1> QED BY <1>3, <1>4

\* Each permit is used once: only its holder posts, and gives it up.
LEMMA SubmitKeeps ==
  ASSUME Types, Submissions, NEW w \in Workers, Submit(w)
  PROVE  Submissions'
  <1>0. /\ wk[w].at = "claim"
        /\ UNCHANGED <<intent, params, hook, rec, status, overlap, reservation, age>>
    BY DEF Submit, row, intents, lease2
  <1>1. /\ \A v \in Workers : v # w => wk'[v] = wk[v]
        /\ wk'[w].at = "record" /\ wk'[w].mine = {} /\ wk'[w].refused = wk[w].refused
        /\ \A c \in Slots : wk'[w].answer[c] # "none" => c \in wk[w].mine
    BY SubmitRemembers
  <1>2. PICK taken \in SUBSET wk[w].mine :
          /\ job' = [c \in Slots |-> IF c \in taken THEN "running" ELSE job[c]]
          /\ posts' = [c \in Slots |-> IF c \in taken THEN posts[c] + 1 ELSE posts[c]]
    BY SubmitRemembers
  <1>3. \A v \in Workers, c \in Slots : Holding(v, c)' => Holding(v, c)
    BY <1>1 DEF Holding
  <1>4. \A c \in Slots : c \in taken => posts[c] = 0 /\ intent[c] \in Begun /\ Holding(w, c)
    BY <1>2 DEF Submissions, PermitIsHeldOnce, Holding
  <1>5. \A c \in Slots : /\ posts[c] \in Nat
                         /\ posts'[c] = IF c \in taken THEN 1 ELSE posts[c]
                         /\ job'[c] = IF c \in taken THEN "running" ELSE job[c]
    BY <1>2, <1>4 DEF Types, TypeOK
  <1>6. PermitIsHeldOnce'
    <2>1. \A v \in Workers, c \in Slots :
            c \in wk'[v].mine => posts'[c] = 0 /\ wk'[v].answer[c] = "none"
      <3> SUFFICES ASSUME NEW v \in Workers, NEW c \in Slots, c \in wk'[v].mine
                   PROVE  posts'[c] = 0 /\ wk'[v].answer[c] = "none"
        OBVIOUS
      <3>1. v # w /\ wk'[v] = wk[v]
        BY <1>1
      <3>2. Holding(v, c) /\ posts[c] = 0 /\ wk[v].answer[c] = "none"
        BY <3>1 DEF Holding, Submissions, PermitIsHeldOnce
      <3>3. c \notin taken
        BY <1>4, <3>1, <3>2 DEF Submissions, PermitIsHeldOnce
      <3> QED BY <1>5, <3>1, <3>2, <3>3
    <2> QED BY <1>0, <1>3, <2>1 DEF Submissions, PermitIsHeldOnce
  <1>7. PaidIsBegun'
    BY <1>0, <1>4, <1>5 DEF Submissions, PaidIsBegun, Begun
  <1>8. RefusedForGood'
    BY <1>0, <1>1 DEF Submissions, RefusedForGood
  <1>9. AcceptedUntouched'
    BY <1>0 DEF Submissions, AcceptedUntouched
  <1>10. NamedIsAcknowledged'
    BY <1>0 DEF Submissions, NamedIsAcknowledged
  <1>11. AloneIsNoted'
    <2>1. \A v \in Workers : /\ Busy(v)' => Busy(v)
                             /\ wk'[v].at = "presave" => wk[v].at = "presave"
      BY <1>0, <1>1 DEF Busy
    <2> QED BY <1>0, <2>1, AloneKept DEF Submissions
  <1>12. FailingIsResolved'
    BY <1>0, FailingKept DEF Submissions
  <1> QED BY <1>6, <1>7, <1>8, <1>9, <1>10, <1>11, <1>12 DEF Submissions

---------------------------------------------------------------------------
(* Submissions: their outcomes.                                            *)

\* What record_generation_submit_outcome does to the candidate it names.
Outcome(c) ==
  /\ \A d \in Slots : d # c => intent'[d] = intent[d] /\ params'[d] = params[d]
  /\ rec' = rec \/ TouchRow
  /\ \/ UNCHANGED <<intent, params>>
     \/ /\ intent'[c] = "late_acknowledged" /\ params' = params
        /\ status # "queued" /\ intent[c] \notin {"acknowledged", "late_acknowledged"}
     \/ /\ TouchRow /\ intent[c] \notin {"acknowledged", "late_acknowledged"}
        /\ \/ intent'[c] = "acknowledged"
           \/ intent'[c] \in {"uncertain", "rejected"} /\ params'[c].id = params[c].id
                /\ params'[c].st = intent'[c]
  /\ params' # params => TouchRow

LEMMA OutcomeWrites ==
  ASSUME Types, NEW c \in Slots,
         \/ Acknowledge(c)
         \/ Report(c, "uncertain") \/ Report(c, "rejected")
         \/ UNCHANGED <<intent, params, rec>>
  PROVE  Outcome(c)
  <1>1. CASE Acknowledge(c)
    BY <1>1 DEF Acknowledge, Outcome, Types, TypeOK
  <1>2. ASSUME NEW outcome \in {"uncertain", "rejected"}, Report(c, outcome) PROVE Outcome(c)
    BY <1>2 DEF Report, Outcome, Types, TypeOK
  <1>3. CASE UNCHANGED <<intent, params, rec>>
    BY <1>3 DEF Outcome
  <1> QED BY <1>1, <1>2, <1>3

\* The parts of the invariant that an outcome may disturb whoever reports it.
LEMMA OutcomeKeeps ==
  ASSUME Types, Submissions, NEW c \in Slots, Outcome(c), intent[c] \notin {"none", "planned"},
         UNCHANGED <<posts, status, overlap, reservation, age>>,
         \A v \in Workers : wk'[v].at = wk[v].at,
         \A d \in Slots : job'[d] # "none" \/ hook'[d] # "none" => job[d] # "none" \/ hook[d] # "none"
  PROVE  /\ PaidIsBegun' /\ AcceptedUntouched' /\ NamedIsAcknowledged' /\ AloneIsNoted'
         /\ FailingIsResolved'
  <1>1. intent'[c] \notin {"none", "planned"}
    BY DEF Outcome
  <1>2. PaidIsBegun'
    BY <1>1 DEF Outcome, Submissions, PaidIsBegun
  <1>3. AcceptedUntouched'
    BY DEF Submissions, AcceptedUntouched
  <1>4. NamedIsAcknowledged'
    BY DEF Outcome, Submissions, NamedIsAcknowledged
  <1>5. AloneIsNoted'
    <2>1. \A v \in Workers : Busy(v)' <=> Busy(v)
      BY DEF Busy
    <2>2. ASSUME ~overlap, NEW v \in Workers, wk[v].at = "presave" PROVE FALSE
      BY <2>2 DEF Submissions, AloneIsNoted
    <2>3. ASSUME ~overlap, status = "queued", NEW d \in Slots, Awaited(d)'
          PROVE  params'[d].st \in {"submitting", "uncertain"}
      BY <2>3 DEF Outcome, Submissions, AloneIsNoted, Awaited
    <2> QED BY <2>1, <2>2, <2>3 DEF Submissions, AloneIsNoted
  <1>6. FailingIsResolved'
    BY FailingTouched, FailingKept DEF Outcome, Submissions
  <1> QED BY <1>2, <1>3, <1>4, <1>5, <1>6

LEMMA RecordKeeps ==
  ASSUME Types, Submissions, NEW w \in Workers, NEW c \in Slots, Record(w, c)
  PROVE  Submissions'
  <1>1. wk[w].answer[c] \in {"acknowledged", "uncertain", "rejected"} /\ Holding(w, c)
    BY WorkerFields DEF Record, Answers, Holding
  <1>2. Outcome(c)
    BY <1>1, OutcomeWrites DEF Record
  <1>3. /\ \A v \in Workers : v # w => wk'[v] = wk[v]
        /\ wk[w].at = "record" /\ wk'[w].at = "record" /\ wk'[w].mine = wk[w].mine
        /\ wk'[w].answer = [wk[w].answer EXCEPT ![c] = "none"]
        /\ \A d \in wk'[w].refused : d \in wk[w].refused \/ (d = c /\ intent'[c] = "rejected")
        /\ UNCHANGED <<posts, job, hook, status, overlap, reservation, age>>
    BY RecordRemembers DEF Record, fal, lease2
  <1>4. intent[c] \in Begun /\ c \notin wk[w].mine /\ \A v \in Workers : v # w => ~Holding(v, c)
    BY <1>1 DEF Submissions, PermitIsHeldOnce, Record
  <1>5. /\ PaidIsBegun' /\ AcceptedUntouched' /\ NamedIsAcknowledged' /\ AloneIsNoted'
        /\ FailingIsResolved'
    BY <1>2, <1>3, <1>4, OutcomeKeeps DEF Begun
  <1>6. PermitIsHeldOnce'
    <2>1. \A d \in Slots : wk'[w].answer[d] = IF d = c THEN "none" ELSE wk[w].answer[d]
      BY <1>3, WorkerFields
    <2>2. \A v \in Workers, d \in Slots : Holding(v, d)' => Holding(v, d) /\ d # c
      BY <1>3, <1>4, <2>1 DEF Holding
    <2>3. \A v \in Workers, d \in Slots :
            d \in wk'[v].mine => posts'[d] = 0 /\ wk'[v].answer[d] = "none"
      BY <1>3, <2>1 DEF Submissions, PermitIsHeldOnce
    <2> QED BY <1>2, <2>2, <2>3 DEF Submissions, PermitIsHeldOnce, Outcome
  <1>7. RefusedForGood'
    <2>1. \A v \in Workers, d \in Slots :
            d \in wk'[v].refused => d \in wk[v].refused \/ (d = c /\ intent'[c] = "rejected")
      BY <1>3
    <2>2. \A v \in Workers : c \in wk[v].refused => intent'[c] = intent[c]
      BY <1>2, <1>4 DEF Submissions, RefusedForGood, Ended, Begun, Outcome
    <2>3. \A v \in Workers, d \in Slots : d \in wk'[v].refused => intent'[d] \in Ended
      BY <1>2, <2>1, <2>2 DEF Submissions, RefusedForGood, Ended, Outcome
    <2>4. \A v \in Workers : wk'[v].refused \subseteq Slots
      BY <1>3, WorkerFields
    <2> QED BY <2>3, <2>4 DEF RefusedForGood
  <1> QED BY <1>5, <1>6, <1>7 DEF Submissions

\* fal's webhook acknowledges what fal was paid for.
LEMMA WebhookKeeps ==
  ASSUME Types, Submissions, NEW c \in Slots, Webhook(c)
  PROVE  Submissions'
  <1>1. Outcome(c)
    BY OutcomeWrites DEF Webhook
  <1>2. /\ UNCHANGED <<posts, job, status, overlap, reservation, age, wk>>
        /\ hook[c] = "due" /\ \A d \in Slots : d # c => hook'[d] = hook[d]
    BY DEF Webhook, lease2, clock, Types, TypeOK
  <1>3. posts[c] > 0 /\ posts[c] # 0
    BY <1>2 DEF Submissions, PaidIsBegun, Types, TypeOK
  <1>4. intent[c] \notin {"none", "planned"}
    BY <1>3 DEF Submissions, PaidIsBegun
  <1>5. intent'[c] \in {"acknowledged", "late_acknowledged"}
    BY DEF Webhook, Acknowledge, Types, TypeOK
  <1>6. /\ PaidIsBegun' /\ AcceptedUntouched' /\ NamedIsAcknowledged' /\ AloneIsNoted'
        /\ FailingIsResolved'
    BY <1>1, <1>2, <1>4, OutcomeKeeps
  <1>7. PermitIsHeldOnce'
    <2>1. \A v \in Workers, d \in Slots : Holding(v, d)' <=> Holding(v, d)
      BY <1>2 DEF Holding
    <2> QED BY <1>1, <1>2, <1>5, <2>1 DEF Submissions, PermitIsHeldOnce, Outcome, Begun
  <1>8. RefusedForGood'
    <2>1. \A v \in Workers : wk'[v].refused = wk[v].refused /\ wk[v].refused \subseteq Slots
      BY <1>2, WorkerFields
    <2> QED BY <1>1, <1>5, <2>1 DEF Submissions, RefusedForGood, Outcome, Ended
  <1> QED BY <1>6, <1>7, <1>8 DEF Submissions

---------------------------------------------------------------------------
(* Submissions: the other steps.                                           *)

\* A step that only lists, looks, ends or waits.
LEMMA OutsideKeeps ==
  ASSUME Types, Submissions,
         UNCHANGED <<params, intent, posts, wk, overlap>>,
         \A c \in Slots : job'[c] # "none" \/ hook'[c] # "none" => job[c] # "none" \/ hook[c] # "none",
         status' = status \/ status' # "queued",
         reservation' \in {"accepted", "expired"} => reservation \in {"accepted", "expired"},
         FailingIsResolved'
  PROVE  Submissions'
  <1>1. PermitIsHeldOnce' /\ RefusedForGood'
    BY DEF Submissions, PermitIsHeldOnce, RefusedForGood, Holding
  <1>2. PaidIsBegun'
    BY DEF Submissions, PaidIsBegun
  <1>3. AcceptedUntouched' /\ NamedIsAcknowledged'
    BY DEF Submissions, AcceptedUntouched, NamedIsAcknowledged
  <1>4. AloneIsNoted'
    BY DEF Submissions, AloneIsNoted, Awaited, Busy
  <1> QED BY <1>1, <1>2, <1>3, <1>4 DEF Submissions

\* What one recoverer does leaves the others' listings true.
LEMMA FailingOfOthers ==
  ASSUME Types, Submissions, NEW r \in Recoverers, UNCHANGED <<params, age>>,
         \A q \in Recoverers : q # r => rec'[q] = rec[q] \/ rec'[q] = Touched[q],
         rec'[r].at = "failing" /\ age < 2 => ~Unresolved
  PROVE  FailingIsResolved'
  <1>1. Unresolved' <=> Unresolved
    BY DEF Unresolved
  <1>2. ASSUME NEW q \in Recoverers, q # r, rec'[q].at = "failing", rec'[q].known, age < 2
        PROVE  ~Unresolved
    <2>1. rec'[q] = rec[q]
      BY <1>2, TouchedTypes
    <2> QED BY <1>2, <2>1 DEF Submissions, FailingIsResolved
  <1> QED BY <1>1, <1>2 DEF FailingIsResolved

LEMMA RecovererKeeps ==
  ASSUME Types, Submissions, NEW r \in Recoverers,
         \/ ListRecoverable(r) \/ ListOverdue(r) \/ ListExpired(r)
         \/ Recovery(r) \/ CrashRecoverer(r)
  PROVE  Submissions'
  <1>1. UNCHANGED <<params, intent, posts, wk, overlap, age, reservation, job, hook>>
    <2>1. CASE ListRecoverable(r) \/ ListOverdue(r) \/ ListExpired(r)
      BY <2>1 DEF ListRecoverable, ListOverdue, ListExpired, row, intents, fal, clock, lease2
    <2>2. CASE Look(r) \/ TakeLease(r) \/ Copy(r) \/ Release(r)
      BY <2>2 DEF Look, TakeLease, Copy, Release, row, intents, fal, clock, lease2
    <2>3. CASE Publish(r) \/ Lost(r) \/ Fail(r) \/ Expire(r) \/ Seal(r) \/ CrashRecoverer(r)
      BY <2>3 DEF Publish, Lost, Fail, Expire, Seal, CrashRecoverer, row, intents, fal, clock, lease2
    <2> QED BY <2>1, <2>2, <2>3 DEF Recovery
  <1>2. status' = status \/ status' # "queued"
    <2>1. CASE Publish(r) \/ Fail(r) \/ Expire(r)
      BY <2>1 DEF Publish, Fail, Expire
    <2>2. CASE ~(Publish(r) \/ Fail(r) \/ Expire(r))
      BY <2>2 DEF Recovery, ListRecoverable, ListOverdue, ListExpired, Look, TakeLease, Copy,
                  Release, Lost, Seal, CrashRecoverer, row
    <2> QED BY <2>1, <2>2
  <1>3. /\ \A q \in Recoverers : q # r => rec'[q] = rec[q] \/ rec'[q] = Touched[q]
        /\ rec'[r].at = "failing" /\ age < 2 => ~Unresolved
    <2>1. CASE ListRecoverable(r) \/ ListOverdue(r) \/ ListExpired(r)
      <3>1. ~Unresolved \/ Deadline = 2
        BY DEF Deadline
      <3>2. age \in 0 .. 3
        BY DEF Types, TypeOK
      <3> QED BY <2>1, <3>1, <3>2, ListingRemembers
    <2>2. CASE Look(r)
      BY <2>2, LookRemembers
    <2>3. CASE TakeLease(r)
      BY <2>3, TakeLeaseRemembers DEF Rests
    <2>4. CASE Copy(r) \/ Release(r)
      BY <2>4, CopyRemembers, ReleaseRemembers DEF Rests
    <2>5. CASE Publish(r) \/ Lost(r) \/ Fail(r) \/ Expire(r) \/ Seal(r) \/ CrashRecoverer(r)
      BY <2>5, RestingSteps DEF Rests
    <2> QED BY <2>1, <2>2, <2>3, <2>4, <2>5 DEF Recovery
  <1>4. FailingIsResolved'
    BY <1>1, <1>3, FailingOfOthers
  <1> QED BY <1>1, <1>2, <1>4, OutsideKeeps

LEMMA OtherKeeps ==
  ASSUME Types, Submissions,
         \/ \E c \in Slots : Generate(c) \/ WebhookOutput(c) \/ WebhookLost(c)
         \/ Cleanup \/ Pick \/ ReleaseStale \/ LeaseEnds \/ WriteLeaseEnds \/ Tick
  PROVE  Submissions'
  <1>1. /\ UNCHANGED <<params, intent, posts, wk, overlap>>
        /\ status' = status \/ status' # "queued"
        /\ reservation' \in {"accepted", "expired"} => reservation \in {"accepted", "expired"}
    <2>1. ASSUME NEW c \in Slots, Generate(c) \/ WebhookOutput(c) \/ WebhookLost(c)
          PROVE  UNCHANGED <<params, intent, posts, wk, overlap, status, reservation>>
      BY <2>1 DEF Generate, WebhookOutput, WebhookLost, row, intents, fal, clock, lease2
    <2>2. CASE Cleanup
      BY <2>2 DEF Cleanup, BeginCleanup, RemoveObjects, MarkCleaned, row, intents, fal, clock, lease2
    <2>3. CASE Pick \/ ReleaseStale
      BY <2>3 DEF Pick, ReleaseStale, row, intents, fal, clock, lease2
    <2>4. CASE LeaseEnds \/ WriteLeaseEnds \/ Tick
      BY <2>4 DEF LeaseEnds, WriteLeaseEnds, Tick, row, intents, fal, clock, lease2
    <2> QED BY <2>1, <2>2, <2>3, <2>4
  <1>2. \A c \in Slots : job'[c] # "none" \/ hook'[c] # "none" => job[c] # "none" \/ hook[c] # "none"
    <2>1. ASSUME NEW c \in Slots, Generate(c) \/ WebhookOutput(c) \/ WebhookLost(c)
          PROVE  \A d \in Slots : job'[d] # "none" \/ hook'[d] # "none" => job[d] # "none" \/ hook[d] # "none"
      BY <2>1 DEF Generate, WebhookOutput, WebhookLost, Types, TypeOK
    <2>2. CASE Cleanup \/ Pick \/ ReleaseStale \/ LeaseEnds \/ WriteLeaseEnds \/ Tick
      BY <2>2 DEF Cleanup, BeginCleanup, RemoveObjects, MarkCleaned, Pick, ReleaseStale, LeaseEnds,
                  WriteLeaseEnds, Tick, fal
    <2> QED BY <2>1, <2>2
  <1>3. FailingIsResolved'
    <2>1. CASE rec' = rec \/ TouchRow
      <3>1. age' >= age /\ age \in 0 .. 3 /\ age' \in 0 .. 3
        <4>1. CASE Tick
          BY <4>1 DEF Tick, Types, TypeOK
        <4>2. CASE ~Tick
          <5>1. age' = age
            BY <4>2 DEF Generate, WebhookOutput, WebhookLost, Cleanup, BeginCleanup, RemoveObjects,
                        MarkCleaned, Pick, ReleaseStale, LeaseEnds, WriteLeaseEnds, clock
          <5> QED BY <5>1 DEF Types, TypeOK
        <4> QED BY <4>1, <4>2
      <3>2. Unresolved' <=> Unresolved
        BY <1>1 DEF Unresolved
      <3>3. CASE rec' = rec
        BY <3>1, <3>2, <3>3 DEF Submissions, FailingIsResolved
      <3> QED BY <2>1, <3>3, FailingTouched
    <2>2. rec' = rec \/ TouchRow
      BY DEF Generate, WebhookOutput, WebhookLost, Cleanup, BeginCleanup, RemoveObjects,
             MarkCleaned, Pick, ReleaseStale, LeaseEnds, WriteLeaseEnds, Tick
    <2> QED BY <2>1, <2>2
  <1> QED BY <1>1, <1>2, <1>3, OutsideKeeps

LEMMA SubmissionsStep == Types /\ Submissions /\ [Next]_vars => Submissions'
  <1> SUFFICES ASSUME Types, Submissions, [Next]_vars PROVE Submissions'
    OBVIOUS
  <1>1. ASSUME NEW w \in Workers, Begin(w) \/ Continuation(w) \/ Crash(w) PROVE Submissions'
    <2>1. CASE ManualReview(w) \/ Finish(w) \/ AllRejected(w) \/ Crash(w)
      <3>1. /\ Leave(w) /\ Busy(w)
            /\ UNCHANGED <<intent, params, posts, job, hook, overlap, age>>
            /\ status' = status \/ status' # "queued"
            /\ rec' = rec \/ TouchRow
            /\ reservation' \in {"accepted", "expired"} => reservation' = reservation
        BY <2>1 DEF ManualReview, Finish, AllRejected, Crash, Reported, Busy, row, fal, clock, lease2
      <3> QED BY <3>1, LeavingContinuation
    <2> QED BY <1>1, <2>1, BeginKeeps, CommitKeeps, PresaveKeeps, BindKeeps, RebindKeeps, ClaimKeeps,
               SubmitKeeps, RecordKeeps DEF Continuation
  <1>2. CASE UNCHANGED vars
    <2>1. UNCHANGED <<params, intent, posts, wk, overlap, job, hook, status, reservation, rec, age>>
      BY <1>2 DEF vars, row, intents, fal, clock, lease2
    <2> QED BY <2>1, OutsideKeeps, FailingKept DEF Submissions
  <1> QED BY <1>1, <1>2, WebhookKeeps, RecovererKeeps, OtherKeeps DEF Next, Fal

---------------------------------------------------------------------------
(* Images.                                                                 *)

\* What a recoverer remembers is not changed by another's step; it may become stale.
LEMMA OthersRemember ==
  ASSUME Types, NEW q \in Recoverers, rec'[q] = rec[q] \/ rec'[q] = Touched[q]
  PROVE  /\ rec'[q].at = rec[q].at /\ rec'[q].got = rec[q].got /\ rec'[q].urls = rec[q].urls
         /\ rec'[q].fresh => rec[q].fresh
  BY TouchedTypes

\* A step outside the recoverers that leaves the images alone and may end the row.
LEMMA QuietImages ==
  ASSUME Types, Images, UNCHANGED <<urls, cleaned, objects>>, rec' = rec \/ TouchRow,
         status' = status \/ status' \in Terminal
  PROVE  Images'
  <1>1. \A q \in Recoverers :
          /\ rec'[q].at = rec[q].at /\ rec'[q].got = rec[q].got /\ rec'[q].urls = rec[q].urls
          /\ rec'[q].fresh => rec[q].fresh
    BY OthersRemember DEF TouchRow
  <1>2. WriterHasLease'
    BY <1>1 DEF Images, WriterHasLease, objects
  <1>3. RemovalIsAlone'
    BY <1>1 DEF Images, RemovalIsAlone, objects
  <1>4. PublishedExists'
    BY <1>1 DEF Images, PublishedExists, OfferedImagesExist, objects, Terminal
  <1> QED BY <1>2, <1>3, <1>4 DEF Images

\* A recoverer that writes no image and is left with nothing to publish but
\* what is offered already.
LEMMA IdleImages ==
  ASSUME Types, Images, NEW r \in Recoverers,
         \A q \in Recoverers : q # r => rec'[q] = rec[q] \/ rec'[q] = Touched[q],
         UNCHANGED <<urls, objects>>, cleaned' => cleaned,
         status' = status \/ status' \in Terminal,
         rec'[r].at \notin Writing,
         rec'[r].fresh => rec'[r].urls = urls,
         rec'[r].at = "publish" => rec'[r].got = {}
  PROVE  Images'
  <1>1. \A q \in Recoverers : q # r =>
          /\ rec'[q].at = rec[q].at /\ rec'[q].got = rec[q].got /\ rec'[q].urls = rec[q].urls
          /\ rec'[q].fresh => rec[q].fresh
    BY OthersRemember
  <1>2. WriterHasLease'
    BY <1>1 DEF Images, WriterHasLease, objects
  <1>3. RemovalIsAlone'
    BY <1>1 DEF Images, RemovalIsAlone, objects, Writing
  <1>4. PublishedExists'
    <2>1. \A q \in Recoverers : rec'[q].fresh => rec'[q].urls = urls'
      BY <1>1 DEF Images, PublishedExists
    <2>2. \A q \in Recoverers :
            rec'[q].at \in {"drop", "release", "publish"} /\ status' \notin Terminal
              => rec'[q].got \subseteq store'
      BY <1>1 DEF Images, PublishedExists, objects, Writing
    <2>3. (status' = "queued" => urls' = {}) /\ OfferedImagesExist'
      BY DEF Images, PublishedExists, OfferedImagesExist, objects, Terminal
    <2> QED BY <2>1, <2>2, <2>3 DEF PublishedExists
  <1> QED BY <1>2, <1>3, <1>4 DEF Images

\* Without the lease nobody writes.
LEMMA UnheldIsQuiet ==
  ASSUME Types, Images, lease = None
  PROVE  \A q \in Recoverers : rec[q].at \notin Writing
  BY GenerationAssumption DEF Images, WriterHasLease

LEMMA TakeLeaseImages ==
  ASSUME Types, Images, NEW r \in Recoverers, TakeLease(r)
  PROVE  Images'
  <1>0. /\ rec[r].at = "lease" /\ UNCHANGED <<status, urls, cleaned, store, sweeper>>
        /\ \A q \in Recoverers : q # r => rec'[q] = rec[q] \/ rec'[q] = Touched[q]
    BY TakeLeaseRemembers DEF TakeLease, row
  <1>1. CASE Rests(r) /\ lease' = lease
    BY <1>0, <1>1, IdleImages DEF Rests, Writing, objects
  <1>2. CASE /\ rec'[r].at = "copy" /\ Leasable(r) /\ lease = None /\ lease' = r
             /\ rec'[r].fresh = rec[r].fresh /\ rec'[r].urls = rec[r].urls
    <2>1. \A q \in Recoverers : q # r =>
            /\ rec'[q].at = rec[q].at /\ rec'[q].got = rec[q].got /\ rec'[q].urls = rec[q].urls
            /\ rec'[q].fresh => rec[q].fresh
      BY <1>0, OthersRemember
    <2>2. \A q \in Recoverers : rec[q].at \notin Writing
      BY <1>2, UnheldIsQuiet
    <2>3. status \notin Terminal /\ sweeper = "idle" /\ ~cleaned
      BY <1>2 DEF Leasable, Terminal, Images, RemovalIsAlone
    <2>4. WriterHasLease'
      BY <1>2, <2>1, <2>2 DEF WriterHasLease
    <2>5. RemovalIsAlone'
      BY <1>0, <2>3 DEF RemovalIsAlone
    <2>6. PublishedExists'
      <3>1. \A q \in Recoverers : rec'[q].fresh => rec'[q].urls = urls'
        BY <1>0, <1>2, <2>1 DEF Images, PublishedExists
      <3>2. \A q \in Recoverers :
              rec'[q].at \in {"drop", "release", "publish"} /\ status' \notin Terminal
                => rec'[q].got \subseteq store'
        BY <1>0, <1>2, <2>1 DEF Images, PublishedExists
      <3> QED BY <1>0, <3>1, <3>2 DEF Images, PublishedExists, OfferedImagesExist
    <2> QED BY <2>4, <2>5, <2>6 DEF Images
  <1> QED BY <1>1, <1>2, TakeLeaseRemembers

LEMMA CopyImages ==
  ASSUME Types, Images, NEW r \in Recoverers, Copy(r)
  PROVE  Images'
  <1>0. /\ rec[r].at = "copy" /\ UNCHANGED <<status, urls, cleaned, lease, sweeper>>
        /\ \A q \in Recoverers : q # r => rec'[q] = rec[q] \/ rec'[q] = Touched[q]
        /\ rec'[r].at \in {"drop", "release"} /\ rec'[r].got \subseteq store'
        /\ rec'[r].fresh = rec[r].fresh /\ rec'[r].urls = rec[r].urls
        /\ store \subseteq store'
    BY CopyRemembers DEF Copy, row
  <1>1. \A q \in Recoverers : q # r =>
          /\ rec'[q].at = rec[q].at /\ rec'[q].got = rec[q].got /\ rec'[q].urls = rec[q].urls
          /\ rec'[q].fresh => rec[q].fresh
    BY <1>0, OthersRemember
  <1>2. sweeper = "idle" /\ ~cleaned
    BY <1>0 DEF Types, TypeOK, Images, RemovalIsAlone
  <1>3. WriterHasLease'
    BY <1>0, <1>1 DEF Images, WriterHasLease, Writing
  <1>4. RemovalIsAlone'
    BY <1>0, <1>2 DEF RemovalIsAlone
  <1>5. PublishedExists'
    <2>1. \A q \in Recoverers : rec'[q].fresh => rec'[q].urls = urls'
      BY <1>0, <1>1 DEF Images, PublishedExists
    <2>2. \A q \in Recoverers :
            rec'[q].at \in {"drop", "release", "publish"} /\ status' \notin Terminal
              => rec'[q].got \subseteq store'
      BY <1>0, <1>1 DEF Images, PublishedExists
    <2> QED BY <1>0, <2>1, <2>2 DEF Images, PublishedExists, OfferedImagesExist
  <1> QED BY <1>3, <1>4, <1>5 DEF Images

LEMMA ReleaseImages ==
  ASSUME Types, Images, NEW r \in Recoverers, Release(r)
  PROVE  Images'
  <1>0. /\ rec[r].at \in {"drop", "release"} /\ UNCHANGED <<status, urls, cleaned, store, sweeper>>
        /\ \A q \in Recoverers : q # r => rec'[q] = rec[q] \/ rec'[q] = Touched[q]
        /\ lease = r
    BY ReleaseRemembers DEF Release, row, Images, WriterHasLease, Writing
  <1>1. \A q \in Recoverers : q # r =>
          /\ rec'[q].at = rec[q].at /\ rec'[q].got = rec[q].got /\ rec'[q].urls = rec[q].urls
          /\ rec'[q].fresh => rec[q].fresh
    BY <1>0, OthersRemember
  <1>2. /\ rec'[r].at \notin Writing
        /\ rec'[r].fresh => rec[r].fresh /\ rec'[r].urls = rec[r].urls
        /\ rec'[r].at = "publish" => rec'[r].got = rec[r].got
    BY ReleaseRemembers DEF Rests, Writing
  <1>3. \A q \in Recoverers : rec'[q].at \notin Writing
    BY <1>0, <1>1, <1>2 DEF Images, WriterHasLease
  <1>4. WriterHasLease'
    BY <1>3 DEF WriterHasLease
  <1>5. RemovalIsAlone'
    BY <1>0, <1>3 DEF Images, RemovalIsAlone, Writing
  <1>6. PublishedExists'
    <2>1. \A q \in Recoverers : rec'[q].fresh => rec'[q].urls = urls'
      BY <1>0, <1>1, <1>2 DEF Images, PublishedExists
    <2>2. \A q \in Recoverers :
            rec'[q].at \in {"drop", "release", "publish"} /\ status' \notin Terminal
              => rec'[q].got \subseteq store'
      BY <1>0, <1>1, <1>2 DEF Images, PublishedExists, Writing
    <2> QED BY <1>0, <2>1, <2>2 DEF Images, PublishedExists, OfferedImagesExist
  <1> QED BY <1>4, <1>5, <1>6 DEF Images

\* What is published was copied, or offered before.
LEMMA PublishImages ==
  ASSUME Types, Images, NEW r \in Recoverers, Publish(r)
  PROVE  Images'
  <1>0. /\ rec[r].at = "publish" /\ UNCHANGED <<cleaned, objects>> /\ Rests(r)
        /\ \A q \in Recoverers : q # r => rec'[q] = rec[q] \/ rec'[q] = Touched[q]
    BY RestingSteps DEF Publish
  <1>1. CASE UNCHANGED <<status, urls>>
    BY <1>0, <1>1, IdleImages DEF Rests, Writing
  <1>2. CASE /\ rec[r].fresh /\ status \in {"queued", "done"}
             /\ status' = "done" /\ urls' = rec[r].urls \cup rec[r].got
             /\ rec' = [Touched EXCEPT ![r] = [Away EXCEPT !.at = "seal"]]
    <2>1. \A q \in Recoverers : q # r => rec'[q] = Touched[q]
      BY <1>2, TouchedTypes
    <2>2. \A q \in Recoverers : q # r =>
            rec'[q].at = rec[q].at /\ rec'[q].got = rec[q].got /\ ~rec'[q].fresh
      BY <2>1, TouchedTypes
    <2>3. status \notin Terminal /\ status' \notin Terminal /\ urls \subseteq store
      BY <1>2 DEF Terminal, Images, PublishedExists, OfferedImagesExist
    <2>4. urls' \subseteq store'
      BY <1>0, <1>2, <2>3 DEF Images, PublishedExists, objects
    <2>5. WriterHasLease'
      BY <1>0, <2>2 DEF Images, WriterHasLease, objects, Rests, Writing
    <2>6. RemovalIsAlone'
      BY <1>0, <2>3 DEF Images, RemovalIsAlone, objects
    <2>7. PublishedExists'
      <3>1. \A q \in Recoverers : ~rec'[q].fresh
        BY <1>0, <2>2 DEF Rests
      <3>2. \A q \in Recoverers :
              rec'[q].at \in {"drop", "release", "publish"} => rec'[q].got \subseteq store'
        BY <1>0, <2>2, <2>3 DEF Images, PublishedExists, objects, Rests
      <3> QED BY <1>2, <2>4, <3>1, <3>2 DEF PublishedExists, OfferedImagesExist
    <2> QED BY <2>5, <2>6, <2>7 DEF Images
  <1> QED BY <1>1, <1>2 DEF Publish

\* The loser of a compare-and-set removes objects of an ended row only.
LEMMA LostImages ==
  ASSUME Types, Images, NEW r \in Recoverers, Lost(r)
  PROVE  Images'
  <1>0. /\ rec[r].at = "lost" /\ UNCHANGED <<status, urls, lease, sweeper>> /\ Rests(r)
        /\ \A q \in Recoverers : q # r => rec'[q] = rec[q] \/ rec'[q] = Touched[q]
    BY RestingSteps DEF Lost
  <1>1. CASE store' = store /\ (cleaned' => cleaned)
    BY <1>0, <1>1, IdleImages DEF Rests, Writing, objects
  <1>2. CASE status \in Terminal /\ store' = {} /\ cleaned' = cleaned
    <2>1. \A q \in Recoverers : q # r =>
            /\ rec'[q].at = rec[q].at /\ rec'[q].got = rec[q].got /\ rec'[q].urls = rec[q].urls
            /\ rec'[q].fresh => rec[q].fresh
      BY <1>0, OthersRemember
    <2>2. WriterHasLease'
      BY <1>0, <2>1 DEF Images, WriterHasLease, Rests, Writing
    <2>3. RemovalIsAlone'
      BY <1>0, <1>2, <2>1 DEF Images, RemovalIsAlone, Rests
    <2>4. PublishedExists'
      BY <1>0, <1>2, <2>1 DEF Images, PublishedExists, OfferedImagesExist, Rests, Terminal
    <2> QED BY <2>2, <2>3, <2>4 DEF Images
  <1> QED BY <1>1, <1>2 DEF Lost, Compensates

LEMMA RecovererImages ==
  ASSUME Types, Images, NEW r \in Recoverers,
         \/ ListRecoverable(r) \/ ListOverdue(r) \/ ListExpired(r)
         \/ Recovery(r) \/ CrashRecoverer(r)
  PROVE  Images'
  <1>1. CASE ListRecoverable(r) \/ ListOverdue(r) \/ ListExpired(r)
    <2>1. UNCHANGED <<status, urls, cleaned, objects>>
      BY <1>1 DEF ListRecoverable, ListOverdue, ListExpired, row
    <2> QED BY <1>1, <2>1, ListingRemembers, IdleImages DEF Writing
  <1>2. CASE Look(r)
    <2>1. UNCHANGED <<status, urls, cleaned, objects>>
      BY <1>2 DEF Look, row
    <2> QED BY <1>2, <2>1, LookRemembers, IdleImages DEF Writing
  <1>3. CASE Fail(r) \/ Expire(r) \/ Seal(r) \/ CrashRecoverer(r)
    <2>1. /\ UNCHANGED <<urls, cleaned, objects>>
          /\ status' = status \/ status' \in Terminal
      BY <1>3 DEF Fail, Expire, Seal, CrashRecoverer, row, Terminal
    <2>2. Rests(r) /\ \A q \in Recoverers : q # r => rec'[q] = rec[q] \/ rec'[q] = Touched[q]
      BY <1>3, RestingSteps
    <2> QED BY <2>1, <2>2, IdleImages DEF Rests, Writing
  <1> QED BY <1>1, <1>2, <1>3, TakeLeaseImages, CopyImages, ReleaseImages, PublishImages, LostImages
          DEF Recovery

\* The removal begins when nobody writes, and ends with nothing left.
LEMMA CleanupImages ==
  ASSUME Types, Images, Cleanup
  PROVE  Images'
  <1>1. CASE BeginCleanup
    <2>0. /\ UNCHANGED <<status, urls, cleaned, lease, store, rec>>
          /\ status \in Terminal /\ ~cleaned /\ lease = None /\ sweeper' = "remove"
      BY <1>1 DEF BeginCleanup, Unheld, row
    <2>1. \A q \in Recoverers : rec[q].at \notin Writing
      BY <2>0, UnheldIsQuiet
    <2>2. WriterHasLease' /\ PublishedExists'
      BY <2>0 DEF Images, WriterHasLease, PublishedExists, OfferedImagesExist
    <2>3. RemovalIsAlone'
      BY <2>0, <2>1 DEF RemovalIsAlone, Writing
    <2> QED BY <2>2, <2>3 DEF Images
  <1>2. CASE RemoveObjects
    <2>0. /\ UNCHANGED <<status, urls, cleaned, lease, rec>> /\ sweeper = "remove"
          /\ \/ store' = {} /\ sweeper' = "mark"
             \/ store' = store /\ sweeper' = "idle"
      BY <1>2 DEF RemoveObjects, row
    <2>1. status \in Terminal /\ \A q \in Recoverers : rec[q].at # "copy"
      BY <2>0 DEF Images, RemovalIsAlone
    <2>2. WriterHasLease'
      BY <2>0 DEF Images, WriterHasLease
    <2>3. RemovalIsAlone'
      BY <2>0, <2>1 DEF Images, RemovalIsAlone
    <2>4. PublishedExists'
      BY <2>0, <2>1 DEF Images, PublishedExists, OfferedImagesExist, Terminal
    <2> QED BY <2>2, <2>3, <2>4 DEF Images
  <1>3. CASE MarkCleaned
    <2>0. /\ UNCHANGED <<status, lease, store>> /\ sweeper = "mark" /\ sweeper' = "idle"
          /\ \/ cleaned' = TRUE /\ urls' = {} /\ TouchRow
             \/ UNCHANGED <<cleaned, urls, rec>>
      BY <1>3 DEF MarkCleaned
    <2>1. status \in Terminal /\ store = {} /\ \A q \in Recoverers : rec[q].at # "copy"
      BY <2>0 DEF Images, RemovalIsAlone
    <2>2. \A q \in Recoverers :
            /\ rec'[q].at = rec[q].at /\ rec'[q].urls = rec[q].urls
            /\ rec'[q].fresh => rec[q].fresh /\ urls' = urls
      BY <2>0, TouchedTypes DEF TouchRow
    <2>3. WriterHasLease'
      BY <2>0, <2>2 DEF Images, WriterHasLease
    <2>4. RemovalIsAlone'
      BY <2>0, <2>1, <2>2 DEF RemovalIsAlone
    <2>5. PublishedExists'
      BY <2>0, <2>1, <2>2 DEF Images, PublishedExists, OfferedImagesExist, Terminal
    <2> QED BY <2>3, <2>4, <2>5 DEF Images
  <1> QED BY <1>1, <1>2, <1>3 DEF Cleanup

LEMMA ImagesStep == Types /\ Images /\ [Next]_vars => Images'
  <1> SUFFICES ASSUME Types, Images, [Next]_vars PROVE Images'
    OBVIOUS
  <1>1. ASSUME NEW w \in Workers, Begin(w) \/ Continuation(w) \/ Crash(w) PROVE Images'
    <2>1. /\ UNCHANGED <<urls, cleaned, objects>> /\ (rec' = rec \/ TouchRow)
          /\ status' = status \/ status' \in Terminal
      <3>1. CASE Begin(w) \/ Commit(w) \/ ClaimContinuation(w) \/ Prepare(w) \/ Submit(w)
                 \/ ManualReview(w) \/ Finish(w) \/ Crash(w)
        BY <3>1 DEF Begin, Commit, ClaimContinuation, Prepare, Submit, ManualReview, Finish, Crash, row
      <3>2. CASE Presave(w) \/ Bind(w) \/ Rebind(w)
        BY <3>2 DEF Presave, Bind, Rebind, row
      <3>3. CASE AllRejected(w)
        BY <3>3 DEF AllRejected, Terminal
      <3>4. ASSUME NEW c \in Slots, Claim(w, c) \/ Record(w, c)
            PROVE  /\ UNCHANGED <<urls, cleaned, objects, status>> /\ (rec' = rec \/ TouchRow)
        BY <3>4 DEF Claim, Record, Acknowledge, Report
      <3> QED BY <1>1, <3>1, <3>2, <3>3, <3>4 DEF Continuation
    <2> QED BY <2>1, QuietImages
  <1>2. ASSUME NEW c \in Slots, Fal(c) \/ WebhookLost(c) PROVE Images'
    <2>1. UNCHANGED <<urls, cleaned, objects, status>> /\ (rec' = rec \/ TouchRow)
      BY <1>2 DEF Fal, Generate, Webhook, WebhookOutput, WebhookLost, Acknowledge, row
    <2> QED BY <2>1, QuietImages
  <1>3. CASE Pick \/ ReleaseStale \/ LeaseEnds \/ Tick
    <2>1. /\ UNCHANGED <<urls, cleaned, objects>> /\ (rec' = rec \/ TouchRow)
          /\ status' = status \/ status' \in Terminal
      BY <1>3 DEF Pick, ReleaseStale, LeaseEnds, Tick, row, Terminal
    <2> QED BY <2>1, QuietImages
  <1>4. CASE WriteLeaseEnds
    <2>1. /\ UNCHANGED <<status, urls, cleaned, store, sweeper, rec>>
          /\ rec[lease].at \notin Writing
      BY <1>4 DEF WriteLeaseEnds, row, Writing
    <2>2. WriterHasLease'
      BY <2>1 DEF Images, WriterHasLease
    <2>3. RemovalIsAlone' /\ PublishedExists'
      BY <2>1 DEF Images, RemovalIsAlone, PublishedExists, OfferedImagesExist
    <2> QED BY <2>2, <2>3 DEF Images
  <1>5. CASE UNCHANGED vars
    BY <1>5, QuietImages DEF vars, row
  <1> QED BY <1>1, <1>2, <1>3, <1>4, <1>5, RecovererImages, CleanupImages DEF Next

---------------------------------------------------------------------------
(* The theorems.                                                           *)

LEMMA InitInvariant == Init => IInv
  <1> SUFFICES ASSUME Init PROVE IInv
    OBVIOUS
  <1> USE DEF Init
  <1>1. /\ wk \in [Workers -> WorkerRow] /\ rec \in [Recoverers -> RecovererRow]
        /\ \A w \in Workers : wk[w] = Resting
        /\ \A r \in Recoverers : rec[r] = Away
    BY Rows
  <1>2. /\ Resting.at = "idle" /\ Resting.mine = {} /\ Resting.refused = {}
        /\ \A c \in Slots : Resting.answer[c] = "none"
        /\ Away.at = "idle" /\ ~Away.fresh
    BY DEF Resting, Away
  <1>3. Types
    <2>1. LeaseTypes /\ FalTypes /\ ObjectTypes
      BY DEF LeaseTypes, FalTypes, ObjectTypes
    <2>2. RowTypes /\ IntentTypes
      BY Rows DEF RowTypes, IntentTypes, Submission
    <2>3. ClockTypes
      <3>1. MaxFaults \in Nat
        BY GenerationAssumption
      <3>2. age \in 0 .. 3 /\ faults \in 0 .. MaxFaults
        BY <3>1, SMT
      <3>3. overlap \in BOOLEAN
        BY Zenon
      <3> QED BY <3>2, <3>3 DEF ClockTypes
    <2> QED BY <1>1, <2>1, <2>2, <2>3, TypesByGroup
  <1>4. Submissions
    <2>1. PermitIsHeldOnce /\ PaidIsBegun /\ RefusedForGood
      BY <1>1, <1>2 DEF PermitIsHeldOnce, PaidIsBegun, RefusedForGood, Holding
    <2>2. AcceptedUntouched /\ NamedIsAcknowledged
      BY <1>1, <1>2 DEF AcceptedUntouched, NamedIsAcknowledged, Planned
    <2>3. AloneIsNoted /\ FailingIsResolved
      BY <1>1, <1>2 DEF AloneIsNoted, FailingIsResolved, Busy, Awaited
    <2> QED BY <2>1, <2>2, <2>3 DEF Submissions
  <1>5. Images
    BY <1>1, <1>2
       DEF Images, WriterHasLease, RemovalIsAlone, PublishedExists, OfferedImagesExist, Writing
  <1> QED BY <1>3, <1>4, <1>5 DEF IInv

LEMMA InvariantStep == IInv /\ [Next]_vars => IInv'
  BY TypeStep, SubmissionsStep, ImagesStep DEF IInv

\* What the components agree on at all times, whoever is at work on the row.
THEOREM GenerationInvariant == Spec => []IInv
  <1> QED BY InitInvariant, InvariantStep, PTL DEF Spec

\* Every variable holds a value of its kind.
THEOREM TypeCorrect == Spec => []TypeOK
  <1>1. IInv => TypeOK
    BY DEF IInv, Types
  <1> QED BY <1>1, GenerationInvariant, PTL

\* However many continuations run at once, are resumed, or lose fal's answer,
\* no candidate is submitted to fal twice (claim_generation_submit_work).
THEOREM NeverSubmittedTwice == Spec => []SubmittedOnce
  <1>1. IInv => SubmittedOnce
    BY DEF IInv, Submissions, PaidIsBegun, SubmittedOnce
  <1> QED BY <1>1, GenerationInvariant, PTL

\* The images a finished generation offers are in storage, whoever else was
\* copying, lost the compare-and-set, or cleaned up.
THEOREM OffersWhatIsStored == Spec => []OfferedImagesExist
  <1>1. IInv => OfferedImagesExist
    BY DEF IInv, Images, PublishedExists
  <1> QED BY <1>1, GenerationInvariant, PTL

\* Once a generation is marked cleaned nothing of it is left, and no writer
\* that started before adds an object.
THEOREM CleanedForGood == Spec => []CleanedStaysEmpty
  <1>1. IInv => CleanedStaysEmpty
    BY DEF IInv, Images, RemovalIsAlone, CleanedStaysEmpty
  <1> QED BY <1>1, GenerationInvariant, PTL

\* A lone continuation's submissions are all resolved in gen_params when they are in the database.
LEMMA ResolvedIsNotAwaited ==
  ASSUME IInv, ~overlap, status = "queued", ~Unresolved
  PROVE  \A c \in Slots : ~Awaited(c)
  <1> SUFFICES ASSUME NEW c \in Slots, Awaited(c) PROVE FALSE
    OBVIOUS
  <1>1. params[c].st \in {"submitting", "uncertain"}
    BY DEF IInv, Submissions, AloneIsNoted
  <1>2. params[c].id
    BY <1>1 DEF Unresolved
  <1>3. intent[c] = "acknowledged"
    BY <1>2 DEF IInv, Submissions, NamedIsAcknowledged
  <1> QED BY <1>3 DEF Awaited

\* A row fails, and its credit is returned, in three ways only: every candidate
\* was refused, its listing is still true, or it was never committed.
LEMMA RefundWaits ==
  ASSUME IInv, Next, status = "queued", status' = "failed", age < 2, ~overlap
  PROVE  \A c \in Slots : ~Awaited(c)
  <1>1. \/ \E w \in Workers : AllRejected(w)
        \/ \E r \in Recoverers : Fail(r)
        \/ ReleaseStale
    <2>1. ASSUME NEW w \in Workers, Begin(w) \/ Continuation(w) \/ Crash(w), ~AllRejected(w)
          PROVE  FALSE
      <3>1. status' = status
        <4>1. CASE \E c \in Slots : Claim(w, c) \/ Record(w, c)
          BY <4>1 DEF Claim, Record
        <4>2. CASE ~\E c \in Slots : Claim(w, c) \/ Record(w, c)
          BY <2>1, <4>2 DEF Continuation, Begin, Commit, ClaimContinuation, Prepare, Presave, Bind,
                            Rebind, ManualReview, Submit, Finish, Crash, row
        <4> QED BY <4>1, <4>2
      <3> QED BY <3>1
    <2>2. ASSUME NEW r \in Recoverers, ~Fail(r),
                 \/ ListRecoverable(r) \/ ListOverdue(r) \/ ListExpired(r)
                 \/ Recovery(r) \/ CrashRecoverer(r)
          PROVE  FALSE
      BY <2>2 DEF Recovery, ListRecoverable, ListOverdue, ListExpired, Look, TakeLease, Copy, Release,
                  Publish, Lost, Expire, Seal, CrashRecoverer, row
    <2>3. ASSUME NEW c \in Slots, Fal(c) \/ WebhookLost(c) PROVE FALSE
      BY <2>3 DEF Fal, Generate, Webhook, WebhookOutput, WebhookLost, row
    <2>4. CASE Cleanup \/ Pick \/ LeaseEnds \/ WriteLeaseEnds \/ Tick
      BY <2>4 DEF Cleanup, BeginCleanup, RemoveObjects, MarkCleaned, Pick, LeaseEnds, WriteLeaseEnds,
                  Tick, row
    <2> QED BY <2>1, <2>2, <2>3, <2>4 DEF Next
  <1>2. ASSUME NEW w \in Workers, AllRejected(w) PROVE \A c \in Slots : intent[c] \in Ended
    BY <1>2 DEF AllRejected, IInv, Submissions, RefusedForGood
  <1>3. ASSUME NEW r \in Recoverers, Fail(r) PROVE ~Unresolved
    BY <1>3 DEF Fail, IInv, Submissions, FailingIsResolved
  <1>4. CASE ReleaseStale
    BY <1>4 DEF ReleaseStale, IInv, Submissions, AcceptedUntouched, Awaited
  <1> QED BY <1>1, <1>2, <1>3, <1>4, ResolvedIsNotAwaited DEF Ended, Awaited

\* No credit is returned while fal may still acknowledge a submission, before the
\* 200 minutes in which it may call back, as far as no two continuations overlapped.
THEOREM RefundWaitsForFal == Spec => RefundWaitsUnlessOverlapping
  <1>1. IInv /\ [Next]_vars =>
          [status = "queued" /\ status' = "failed" /\ age < 2 /\ ~overlap
             => \A c \in Slots : ~Awaited(c)]_vars
    BY RefundWaits
  <1> QED BY <1>1, GenerationInvariant, PTL DEF Spec, RefundWaitsUnlessOverlapping
=============================================================================
