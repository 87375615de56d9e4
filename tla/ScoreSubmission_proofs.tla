----------------------- MODULE ScoreSubmission_proofs -----------------------
(***************************************************************************)
(* However tabs, requests, sign-in, merge and ban meet: an entry that left *)
(* the outbox was counted, a banned member shows no score, a game counts   *)
(* once unless a page submitted it under another's session, and a game is  *)
(* refused only for a reason, an error without a name apart.               *)
(***************************************************************************)
EXTENDS ScoreSubmission, FiniteSetTheorems, TLAPS

---------------------------------------------------------------------------
(* The invariant.                                                          *)

Played(g) == games[g].by # None
Shows(t, g) == hook[t].at # "off" /\ hook[t].game = g
Counted(g) == \E o \in Rows(g) : scores[o][g].status = "voided" \/ <<o, g>> \in reported

\* What a page remembers: who it was loaded for, whom its result screen asked for,
\* what its replay found.
PageKnows(t) ==
  /\ doc[t] = Mem => session = Mem
  /\ hook[t].at # "off" =>
       doc[t] # None /\ hook[t].game \in Games /\ Played(hook[t].game)
  /\ hook[t].at \in {"resolved", "waiting"} =>
       /\ hook[t].owner \in Owners
       /\ hook[t].owner = Mem => session = Mem
       /\ doc[t] = Mem => hook[t].owner = Mem
  /\ \A e \in Entries : drain[t][e].at # "off" =>
       /\ doc[t] # None /\ e \in persisted
       /\ drain[t][e].at = "due" => drain[t][e].tries < MaxAttempts

\* One result screen shows a game.
ShownOnce == \A t, u \in Tabs, g \in Games : Shows(t, g) /\ Shows(u, g) => t = u

\* The outbox knows a game under one owner, that of the page that played it, unless
\* a page submitted it under another session.
EntryOfPlayed ==
  \A o \in Owners, g \in Games : <<o, g>> \in persisted => Played(g) /\ (o = Mem => session = Mem)
EntryOfPage ==
  \A t \in Tabs, o \in Owners, g \in Games :
    Shows(t, g) /\ <<o, g>> \in persisted /\ ~games[g].stale => o = doc[t]
EntryOnce ==
  \A g \in Games : <<Anon, g>> \in persisted /\ <<Mem, g>> \in persisted => games[g].stale

Pages == (\A t \in Tabs : PageKnows(t)) /\ ShownOnce /\ EntryOfPlayed /\ EntryOfPage /\ EntryOnce

\* What a request knows holds until its row is stored.
Known(r) ==
  LET q == reqs[r] IN
  /\ q.live => q.pc # "free" /\ q.tab \in Tabs
  /\ q.pc # "free" =>
       /\ q.owner \in Owners /\ q.acting \in Owners /\ q.user \in Owners /\ q.game \in Games
       /\ <<q.owner, q.game>> \in persisted
       /\ q.owner = Mem => q.user = Mem
       /\ ~games[q.game].stale => q.acting = q.user
       /\ q.pc \notin {"sent", "rejected", "retryable"} => Source(q) # q.user
       /\ q.doll => q.user = Mem /\ games[q.game].doll
       /\ q.linked /\ ~receipt => Owned(q.user, q.game)
       /\ q.pc = "ok" => Counted(q.game)

\* A row is of its origin until a merge moves it, and was sent by way of the outbox.
RowsOfOrigin ==
  \A o \in Owners, g \in Games :
    /\ scores[o][g].owner # None => games[g].stale \/ <<o, g>> \in persisted
    /\ scores[o][g].owner # None => Played(g)
    /\ scores[o][g].linked => scores[o][g].owner # None
    /\ ~receipt => /\ scores[o][g].owner \in {None, o}
                   /\ scores[o][g].linked => games[g].linked /\ games[g].by = o

Table == RowsOfOrigin /\ RefusalHasCause /\ (banned => member) /\ NoVisibleScoreOfBanned

IInv ==
  /\ TypeOK
  /\ Pages
  /\ \A r \in Requests : Known(r)
  /\ Table
  /\ ClearedWasReported

---------------------------------------------------------------------------
(* Types.                                                                  *)

GameRow == [by : Owners \cup {None}, linked : BOOLEAN, asMember : BOOLEAN,
            doll : BOOLEAN, stale : BOOLEAN]
ScoreRow == [owner : Owners \cup {None}, status : {"none", "registered", "voided"}, linked : BOOLEAN]
HookRow == [game : Games \cup {None}, owner : Owners \cup {None},
            tries : 0 .. MaxAttempts, at : HookStates]
DrainRow == [tries : 0 .. MaxAttempts, at : DrainStates]
RequestRow == [tab : Tabs \cup {None}, owner : Owners \cup {None}, game : Games \cup {None},
               acting : Owners \cup {None}, user : Owners \cup {None}, linked : BOOLEAN,
               doll : BOOLEAN, live : BOOLEAN, pc : RequestSteps]
Marks == AttemptStates

\* TypeOK, one part for each group of variables.
AccountTypes ==
  /\ session \in Owners /\ flow \in {"none", "running", "exchanged", "signed"}
  /\ member \in BOOLEAN /\ receipt \in BOOLEAN /\ banned \in BOOLEAN
  /\ doll \in {"none", "alive", "deleted", "restored"}
  /\ profile \in [Owners -> {"active", "deleted", "restored"}]
GameTypes == games \in [Games -> GameRow]
ScoreTypes == scores \in [Owners -> [Games -> ScoreRow]] /\ reported \subseteq Entries
AttemptTypes == attempts \in [Owners -> [Owners -> [Games -> Marks]]]
StoreTypes == outbox \subseteq persisted /\ persisted \subseteq Entries
DocTypes == doc \in [Tabs -> Owners \cup {None}]
HookTypes == hook \in [Tabs -> HookRow]
DrainTypes == drain \in [Tabs -> [Entries -> DrainRow]]
RequestTypes == reqs \in [Requests -> RequestRow]

Types ==
  /\ AccountTypes /\ GameTypes /\ ScoreTypes /\ AttemptTypes /\ StoreTypes
  /\ DocTypes /\ HookTypes /\ DrainTypes /\ RequestTypes

LEMMA TypesByGroup == TypeOK <=> Types
  BY DEF TypeOK, Types, AccountTypes, GameTypes, ScoreTypes, AttemptTypes, StoreTypes, DocTypes, HookTypes,
         DrainTypes, RequestTypes, GameRow, ScoreRow, HookRow, DrainRow, RequestRow, Marks

LEMMA TypesByGroupNext == TypeOK' <=> Types'
  BY DEF TypeOK, Types, AccountTypes, GameTypes, ScoreTypes, AttemptTypes, StoreTypes, DocTypes, HookTypes,
         DrainTypes, RequestTypes, GameRow, ScoreRow, HookRow, DrainRow, RequestRow, Marks

LEMMA GroupsKept ==
  ASSUME TypeOK
  PROVE  /\ UNCHANGED account => AccountTypes'
         /\ UNCHANGED games => GameTypes'
         /\ UNCHANGED <<scores, reported>> => ScoreTypes'
         /\ UNCHANGED attempts => AttemptTypes'
         /\ UNCHANGED store => StoreTypes'
         /\ UNCHANGED doc => DocTypes'
         /\ UNCHANGED hook => HookTypes'
         /\ UNCHANGED drain => DrainTypes'
         /\ UNCHANGED reqs => RequestTypes'
  BY TypesByGroup
     DEF Types, account, store, AccountTypes, GameTypes, ScoreTypes, AttemptTypes, StoreTypes, DocTypes,
         HookTypes, DrainTypes, RequestTypes

LEMMA TwoOwners == Owners = {Anon, Mem} /\ Anon # Mem /\ None \notin Owners
  BY ScoreAssumption DEF Owners

LEMMA EntryIsPair ==
  ASSUME NEW e \in Entries
  PROVE  e[1] \in Owners /\ e[2] \in Games /\ e = <<e[1], e[2]>>
  BY DEF Entries

LEMMA PairIsEntry ==
  ASSUME NEW o \in Owners, NEW g \in Games
  PROVE  <<o, g>> \in Entries /\ <<o, g>>[1] = o /\ <<o, g>>[2] = g
  BY DEF Entries

\* The row of one page, and of one of the entries it replays.
LEMMA WriteHook ==
  ASSUME TypeOK, NEW t \in Tabs, NEW next \in HookRow, hook' = [hook EXCEPT ![t] = next]
  PROVE  HookTypes' /\ hook'[t] = next /\ \A u \in Tabs : u # t => hook'[u] = hook[u]
  BY TypesByGroup DEF Types, HookTypes

LEMMA WriteDrain ==
  ASSUME TypeOK, NEW t \in Tabs, NEW next \in [Entries -> DrainRow], drain' = [drain EXCEPT ![t] = next]
  PROVE  DrainTypes' /\ drain'[t] = next /\ \A u \in Tabs : u # t => drain'[u] = drain[u]
  BY TypesByGroup DEF Types, DrainTypes

LEMMA WriteDrainEntry ==
  ASSUME TypeOK, NEW t \in Tabs, NEW e \in Entries, NEW next \in DrainRow,
         drain' = [drain EXCEPT ![t][e] = next]
  PROVE  /\ DrainTypes' /\ drain'[t][e] = next
         /\ \A d \in Entries : d # e => drain'[t][d] = drain[t][d]
         /\ \A u \in Tabs : u # t => drain'[u] = drain[u]
  <1> DEFINE list == [drain[t] EXCEPT ![e] = next]
  <1>1. drain[t] \in [Entries -> DrainRow] /\ drain' = [drain EXCEPT ![t] = list]
    BY TypesByGroup DEF Types, DrainTypes
  <1>2. /\ list \in [Entries -> DrainRow] /\ list[e] = next
        /\ \A d \in Entries : d # e => list[d] = drain[t][d]
    BY <1>1
  <1> HIDE DEF list
  <1> QED BY <1>1, <1>2, WriteDrain

LEMMA WriteDoc ==
  ASSUME TypeOK, NEW t \in Tabs, NEW next \in Owners \cup {None}, doc' = [doc EXCEPT ![t] = next]
  PROVE  DocTypes' /\ doc'[t] = next /\ \A u \in Tabs : u # t => doc'[u] = doc[u]
  BY TypesByGroup DEF Types, DocTypes

LEMMA WriteRequest ==
  ASSUME TypeOK, NEW r \in Requests, NEW next \in RequestRow, reqs' = [reqs EXCEPT ![r] = next]
  PROVE  RequestTypes' /\ reqs'[r] = next /\ \A p \in Requests : p # r => reqs'[p] = reqs[p]
  BY TypesByGroup DEF Types, RequestTypes

LEMMA EmptyRows ==
  /\ NoRequest \in RequestRow /\ NoRequest.pc = "free" /\ NoRequest.live = FALSE
  /\ NoHook \in HookRow /\ NoHook.at = "off"
  /\ Idle \in DrainRow /\ Idle.at = "off"
  /\ NoDrain \in [Entries -> DrainRow] /\ \A e \in Entries : NoDrain[e] = Idle
  <1>1. 0 \in 0 .. MaxAttempts
    BY ScoreAssumption
  <1>2. Idle \in DrainRow /\ Idle.at = "off"
    BY <1>1 DEF Idle, DrainRow, DrainStates
  <1>3. NoHook \in HookRow /\ NoHook.at = "off"
    BY <1>1 DEF NoHook, HookRow, HookStates
  <1>4. NoRequest \in RequestRow /\ NoRequest.pc = "free" /\ NoRequest.live = FALSE
    BY DEF NoRequest, RequestRow, RequestSteps
  <1>5. NoDrain \in [Entries -> DrainRow] /\ \A e \in Entries : NoDrain[e] = Idle
    BY <1>2 DEF NoDrain
  <1> QED BY <1>2, <1>3, <1>4, <1>5

\* The fields of a request.
LEMMA RequestFields ==
  ASSUME TypeOK, NEW r \in Requests
  PROVE  /\ reqs[r] \in RequestRow
         /\ reqs[r].tab \in Tabs \cup {None} /\ reqs[r].owner \in Owners \cup {None}
         /\ reqs[r].game \in Games \cup {None} /\ reqs[r].acting \in Owners \cup {None}
         /\ reqs[r].user \in Owners \cup {None} /\ reqs[r].linked \in BOOLEAN
         /\ reqs[r].doll \in BOOLEAN /\ reqs[r].live \in BOOLEAN /\ reqs[r].pc \in RequestSteps
  BY TypesByGroup DEF Types, RequestTypes, RequestRow

LEMMA OrphanRow ==
  ASSUME TypeOK, NEW r \in Requests
  PROVE  [reqs[r] EXCEPT !.live = FALSE, !.tab = None] \in RequestRow
  BY RequestFields DEF RequestRow

---------------------------------------------------------------------------
(* What every step leaves standing.                                        *)

\* A sign-in, an outbox key, a played game, a counted game, a receipt, the loss of a doll
\* or a profile: none is undone without a trace.
Grows ==
  /\ session = Mem => session' = Mem
  /\ persisted \subseteq persisted'
  /\ \A g \in Games :
       /\ Played(g) =>
            /\ games'[g].by = games[g].by /\ games'[g].linked = games[g].linked
            /\ games'[g].asMember = games[g].asMember
       /\ games[g].doll => games'[g].doll
       /\ games[g].stale => games'[g].stale
       /\ Counted(g) => Counted(g)'
  /\ receipt => receipt'
  /\ receipt' \/ member' = member
  /\ doll # "alive" => doll' # "alive"
  /\ \A u \in Owners : profile[u] # "active" => profile'[u] # "active"

LEMMA CountedStays ==
  ASSUME reported \subseteq reported', NEW g \in Games,
         \A o \in Owners : scores[o][g].owner # None =>
           /\ scores'[o][g].owner # None
           /\ scores[o][g].status = "voided" => scores'[o][g].status = "voided",
         Counted(g)
  PROVE  Counted(g)'
  BY DEF Counted, Rows

LEMMA NothingGrows ==
  ASSUME UNCHANGED <<session, persisted, games, scores, reported, receipt, member, doll, profile>>
  PROVE  Grows
  BY CountedStays DEF Grows, Played

\* What a page knows stays so while it does nothing.
LEMMA PageKnowsStill ==
  ASSUME TypeOK, NEW t \in Tabs, PageKnows(t), Grows,
         doc'[t] = doc[t], hook'[t] = hook[t], drain'[t] = drain[t]
  PROVE  PageKnows(t)'
  <1>1. hook[t].at # "off" => Played(hook[t].game)'
    BY TwoOwners DEF PageKnows, Grows, Played
  <1> QED BY <1>1 DEF PageKnows, Grows

LEMMA OwnedStays ==
  ASSUME Grows, NEW u \in Owners, NEW g \in Games, Played(g), Owned(u, g), ~receipt'
  PROVE  Owned(u, g)'
  <1>1. /\ games'[g].by = games[g].by /\ games'[g].linked = games[g].linked
        /\ games'[g].asMember = games[g].asMember /\ member' = member /\ ~receipt
    BY DEF Grows
  <1> QED BY <1>1 DEF Owned

\* What a request knows stays so while it rests, is given up, or ends.
LEMMA KnownStill ==
  ASSUME TypeOK, Pages, NEW r \in Requests, Known(r), Grows,
         \/ reqs'[r] = reqs[r] \/ reqs'[r] = NoRequest
         \/ reqs'[r] = [reqs[r] EXCEPT !.live = FALSE, !.tab = None]
  PROVE  Known(r)'
  <1>1. CASE reqs'[r] = NoRequest
    BY <1>1, EmptyRows DEF Known
  <1>2. CASE reqs'[r] = reqs[r] \/ reqs'[r] = [reqs[r] EXCEPT !.live = FALSE, !.tab = None]
    <2>0. PICK q, p : q = reqs[r] /\ p = reqs'[r]
      OBVIOUS
    <2>1. /\ p.pc = q.pc /\ p.owner = q.owner /\ p.acting = q.acting /\ p.user = q.user
          /\ p.game = q.game /\ p.linked = q.linked /\ p.doll = q.doll
          /\ (p.live = q.live /\ p.tab = q.tab) \/ p.live = FALSE
      BY <1>2, <2>0, RequestFields DEF RequestRow
    <2>2. ASSUME q.pc # "free" 
          PROVE  /\ q.game \in Games /\ q.user \in Owners /\ q.owner \in Owners /\ Played(q.game)
                 /\ <<q.owner, q.game>> \in persisted'
      BY <2>0, <2>2 DEF Known, Pages, EntryOfPlayed, Grows
    <2>3. q.pc # "free" /\ q.linked /\ ~receipt' => Owned(q.user, q.game)'
      BY <2>0, <2>2, OwnedStays DEF Known, Grows
    <2>4. q.pc # "free" =>
            /\ Counted(q.game) => Counted(q.game)'
            /\ games[q.game].stale => games'[q.game].stale
            /\ games[q.game].doll => games'[q.game].doll
      BY <2>2 DEF Grows
    <2>5. Source(p) = Source(q)
      BY <2>1 DEF Source
    <2> QED BY <2>0, <2>1, <2>2, <2>3, <2>4, <2>5 DEF Known
  <1> QED BY <1>1, <1>2

LEMMA PagesStill ==
  ASSUME TypeOK, Pages, Grows, UNCHANGED persisted,
         \A t \in Tabs : PageKnows(t)',
         \A t \in Tabs, g \in Games : Shows(t, g)' => Shows(t, g) /\ doc'[t] = doc[t]
  PROVE  Pages'
  <1>1. ShownOnce'
    BY DEF Pages, ShownOnce
  <1>2. \A g \in Games : Played(g) => Played(g)'
    BY DEF Grows, Played
  <1>3. EntryOfPlayed'
    BY <1>2 DEF Pages, EntryOfPlayed, Grows
  <1>4. EntryOfPage' /\ EntryOnce'
    BY DEF Pages, EntryOfPage, EntryOnce, Grows
  <1> QED BY <1>1, <1>3, <1>4 DEF Pages

LEMMA TableStill ==
  ASSUME TypeOK, Table, Grows, UNCHANGED <<scores, attempts, receipt, member, banned>>
  PROVE  Table'
  <1>1. RowsOfOrigin'
    BY DEF Table, RowsOfOrigin, Grows, Played
  <1>2. RefusalHasCause'
    BY DEF Table, RefusalHasCause, Grows
  <1>3. (banned' => member') /\ NoVisibleScoreOfBanned'
    BY DEF Table, NoVisibleScoreOfBanned
  <1> QED BY <1>1, <1>2, <1>3 DEF Table

LEMMA ClearedByCount ==
  /\ ClearedWasReported <=> \A e \in persisted \ outbox : Counted(e[2])
  /\ ClearedWasReported' <=> \A e \in persisted' \ outbox' : Counted(e[2])'
  BY DEF ClearedWasReported, Counted

LEMMA ClearedStill ==
  ASSUME TypeOK, ClearedWasReported, Grows, UNCHANGED persisted, outbox \subseteq outbox'
  PROVE  ClearedWasReported'
  <1>1. \A e \in persisted : e[2] \in Games
    BY TypesByGroup, EntryIsPair DEF Types, StoreTypes
  <1> QED BY <1>1, ClearedByCount DEF Grows

---------------------------------------------------------------------------
(* Pages.                                                                  *)

\* A step of a page that sends nothing: its requests at most go on without it.
LEMMA QuietPageKeeps ==
  ASSUME IInv, NEW t \in Tabs, UNCHANGED <<account, games, table, store>>,
         \A u \in Tabs : u # t => doc'[u] = doc[u] /\ hook'[u] = hook[u] /\ drain'[u] = drain[u],
         DocTypes', HookTypes', DrainTypes', RequestTypes', PageKnows(t)',
         \A g \in Games : Shows(t, g)' => Shows(t, g) /\ doc'[t] = doc[t],
         \A r \in Requests :
           \/ reqs'[r] = reqs[r] \/ reqs'[r] = NoRequest
           \/ reqs'[r] = [reqs[r] EXCEPT !.live = FALSE, !.tab = None]
  PROVE  IInv'
  <1>0. UNCHANGED <<session, member, receipt, banned, doll, profile, scores, reported, attempts, outbox, persisted>>
    BY DEF account, table, store
  <1>1. Grows
    BY <1>0, NothingGrows
  <1>2. \A u \in Tabs : PageKnows(u)'
    BY <1>1, PageKnowsStill DEF IInv, Pages
  <1>3. Pages'
    <2>1. \A u \in Tabs, g \in Games : Shows(u, g)' => Shows(u, g) /\ doc'[u] = doc[u]
      BY DEF Shows
    <2> QED BY <1>0, <1>1, <1>2, <2>1, PagesStill DEF IInv
  <1>4. \A r \in Requests : Known(r)'
    BY <1>1, KnownStill DEF IInv
  <1>5. Table' /\ ClearedWasReported'
    BY <1>0, <1>1, TableStill, ClearedStill DEF IInv
  <1>6. TypeOK'
    BY <1>0, GroupsKept, TypesByGroupNext DEF IInv, Types
  <1> QED BY <1>3, <1>4, <1>5, <1>6 DEF IInv

LEMMA RequestsRest ==
  ASSUME UNCHANGED reqs, TypeOK
  PROVE  RequestTypes' /\ \A r \in Requests : reqs'[r] = reqs[r]
  BY GroupsKept

LEMMA BootKeeps ==
  ASSUME IInv, NEW t \in Tabs, Boot(t)
  PROVE  IInv'
  <1> DEFINE list == [e \in Entries |-> [tries |-> 0, at |-> IF e \in outbox THEN "due" ELSE "off"]]
  <1>1. /\ doc[t] = None /\ doc' = [doc EXCEPT ![t] = session]
        /\ drain' = [drain EXCEPT ![t] = list]
        /\ UNCHANGED <<account, games, table, store, hook, reqs>>
    BY DEF Boot
  <1>2. /\ list \in [Entries -> DrainRow]
        /\ \A e \in Entries : list[e].at # "off" => e \in outbox /\ list[e].tries < MaxAttempts
    <2>1. 0 \in 0 .. MaxAttempts /\ 0 < MaxAttempts
      BY ScoreAssumption
    <2> QED BY <2>1 DEF DrainRow, DrainStates
  <1>3. session \in Owners /\ outbox \subseteq persisted /\ session' = session /\ persisted' = persisted
    BY <1>1, TypesByGroup DEF IInv, Types, AccountTypes, StoreTypes, account, store
  <1> HIDE DEF list
  <1>4. DocTypes' /\ doc'[t] = session /\ \A u \in Tabs : u # t => doc'[u] = doc[u]
    BY <1>1, <1>3, WriteDoc DEF IInv
  <1>5. DrainTypes' /\ drain'[t] = list /\ \A u \in Tabs : u # t => drain'[u] = drain[u]
    BY <1>1, <1>2, WriteDrain DEF IInv
  <1>6. hook'[t] = hook[t] /\ hook[t].at = "off"
    BY <1>1 DEF IInv, Pages, PageKnows
  <1>7. PageKnows(t)'
    BY <1>2, <1>3, <1>4, <1>5, <1>6, TwoOwners DEF PageKnows
  <1>8. \A g \in Games : ~Shows(t, g)'
    BY <1>6 DEF Shows
  <1> QED BY <1>1, <1>4, <1>5, <1>7, <1>8, QuietPageKeeps, RequestsRest, GroupsKept DEF IInv

LEMMA ReloadKeeps ==
  ASSUME IInv, NEW t \in Tabs, Reload(t)
  PROVE  IInv'
  <1>1. /\ doc' = [doc EXCEPT ![t] = None] /\ hook' = [hook EXCEPT ![t] = NoHook]
        /\ drain' = [drain EXCEPT ![t] = NoDrain] /\ Orphan(t)
        /\ UNCHANGED <<account, games, table, store>>
    BY DEF Reload
  <1>2. DocTypes' /\ doc'[t] = None /\ \A u \in Tabs : u # t => doc'[u] = doc[u]
    BY <1>1, WriteDoc DEF IInv
  <1>3. HookTypes' /\ hook'[t] = NoHook /\ \A u \in Tabs : u # t => hook'[u] = hook[u]
    BY <1>1, WriteHook, EmptyRows DEF IInv
  <1>4. DrainTypes' /\ drain'[t] = NoDrain /\ \A u \in Tabs : u # t => drain'[u] = drain[u]
    BY <1>1, WriteDrain, EmptyRows DEF IInv
  <1>5. PageKnows(t)'
    BY <1>2, <1>3, <1>4, EmptyRows, TwoOwners DEF PageKnows
  <1>6. \A g \in Games : ~Shows(t, g)'
    BY <1>3, EmptyRows DEF Shows
  <1>7. /\ RequestTypes'
        /\ \A r \in Requests :
             \/ reqs'[r] = reqs[r] \/ reqs'[r] = NoRequest
             \/ reqs'[r] = [reqs[r] EXCEPT !.live = FALSE, !.tab = None]
    <2>1. ASSUME NEW r \in Requests
          PROVE  \/ reqs'[r] = reqs[r] \/ reqs'[r] = NoRequest
                 \/ reqs'[r] = [reqs[r] EXCEPT !.live = FALSE, !.tab = None]
      BY <1>1 DEF Orphan
    <2>2. ASSUME NEW r \in Requests PROVE reqs'[r] \in RequestRow
      BY <2>1, OrphanRow, RequestFields, EmptyRows DEF IInv
    <2>3. reqs' = [r \in Requests |-> reqs'[r]]
      BY <1>1 DEF Orphan
    <2> QED BY <2>1, <2>2, <2>3 DEF RequestTypes
  <1> QED BY <1>1, <1>2, <1>3, <1>4, <1>5, <1>6, <1>7, QuietPageKeeps

\* The result screen asks, waits and tries again.
LEMMA HookTriesKeep ==
  ASSUME IInv, NEW t \in Tabs, ResolveOwner(t) \/ RetryTimer(t) \/ RetryByPlayer(t)
  PROVE  IInv'
  <1>1. UNCHANGED <<account, games, table, store, doc, drain, reqs>>
    BY DEF ResolveOwner, RetryTimer, RetryByPlayer
  <1>2. /\ hook[t] \in HookRow /\ hook \in [Tabs -> HookRow] /\ session \in Owners /\ MaxAttempts \in Nat
        /\ session' = session /\ persisted' = persisted
    BY <1>1, TypesByGroup, ScoreAssumption DEF IInv, Types, HookTypes, AccountTypes, account, store
  <1>3. PICK next \in HookRow :
          /\ hook' = [hook EXCEPT ![t] = next]
          /\ hook[t].at # "off" /\ next.game = hook[t].game
          /\ next.at \in {"due", "failed"} \/ (next.at = "resolved" /\ next.owner = session)
    <2>1. CASE ResolveOwner(t)
      <3>1. hook[t].tries < MaxAttempts => hook[t].tries + 1 \in 0 .. MaxAttempts
        BY <1>2 DEF HookRow
      <3> DEFINE next == [hook[t] EXCEPT !.tries = hook[t].tries + 1,
                                         !.at = IF Barrier THEN "failed" ELSE "resolved",
                                         !.owner = IF Barrier THEN hook[t].owner ELSE session]
      <3>2. /\ next \in HookRow /\ next.game = hook[t].game
            /\ next.at = "failed" \/ (next.at = "resolved" /\ next.owner = session)
        BY <1>2, <2>1, <3>1 DEF HookRow, HookStates, ResolveOwner
      <3>3. hook' = [hook EXCEPT ![t] = next] /\ hook[t].at # "off"
        BY <1>2, <2>1 DEF ResolveOwner
      <3> QED BY <3>2, <3>3
    <2>2. CASE RetryTimer(t)
      <3> DEFINE next == [hook[t] EXCEPT !.at = "due"]
      <3>1. next \in HookRow /\ next.game = hook[t].game /\ next.at = "due"
        BY <1>2 DEF HookRow, HookStates
      <3>2. hook' = [hook EXCEPT ![t] = next] /\ hook[t].at # "off"
        BY <1>2, <2>2 DEF RetryTimer
      <3> QED BY <3>1, <3>2
    <2>3. CASE RetryByPlayer(t)
      <3> DEFINE next == [hook[t] EXCEPT !.at = "due", !.tries = 0]
      <3>1. next \in HookRow /\ next.game = hook[t].game /\ next.at = "due"
        <4>1. 0 \in 0 .. MaxAttempts
          BY <1>2
        <4> QED BY <1>2, <4>1 DEF HookRow, HookStates
      <3>2. hook' = [hook EXCEPT ![t] = next] /\ hook[t].at # "off"
        BY <1>2, <2>3 DEF RetryByPlayer
      <3> QED BY <3>1, <3>2
    <2> QED BY <2>1, <2>2, <2>3
  <1>4. HookTypes' /\ hook'[t] = next /\ \A u \in Tabs : u # t => hook'[u] = hook[u]
    BY <1>3, WriteHook DEF IInv
  <1>5. doc'[t] = doc[t] /\ drain'[t] = drain[t] /\ games' = games
    BY <1>1
  <1>6. PageKnows(t)'
    <2>1. PageKnows(t)
      BY DEF IInv, Pages
    <2> QED BY <1>2, <1>3, <1>4, <1>5, <2>1, TwoOwners DEF PageKnows, Played
  <1>7. \A g \in Games : Shows(t, g)' => Shows(t, g)
    BY <1>3, <1>4 DEF Shows
  <1> QED BY <1>1, <1>4, <1>5, <1>6, <1>7, QuietPageKeeps, RequestsRest, GroupsKept DEF IInv

LEMMA DrainTimerKeeps ==
  ASSUME IInv, NEW t \in Tabs, NEW e \in Entries, DrainTimer(t, e)
  PROVE  IInv'
  <1>1. /\ UNCHANGED <<account, games, table, store, doc, hook, reqs>>
        /\ drain[t][e].at = "failed" /\ drain[t][e].tries < MaxAttempts
    BY DEF DrainTimer
  <1> DEFINE next == [drain[t][e] EXCEPT !.at = "due"]
  <1>2. next \in DrainRow /\ next.at = "due" /\ next.tries = drain[t][e].tries
    BY TypesByGroup DEF IInv, Types, DrainTypes, DrainRow, DrainStates
  <1>3. drain' = [drain EXCEPT ![t][e] = next]
    BY TypesByGroup DEF DrainTimer, IInv, Types, DrainTypes
  <1> HIDE DEF next
  <1>4. /\ DrainTypes' /\ drain'[t][e] = next
        /\ \A d \in Entries : d # e => drain'[t][d] = drain[t][d]
        /\ \A u \in Tabs : u # t => drain'[u] = drain[u]
    BY <1>2, <1>3, WriteDrainEntry DEF IInv
  <1>5. /\ doc'[t] = doc[t] /\ hook'[t] = hook[t] /\ games' = games
        /\ session' = session /\ persisted' = persisted
    BY <1>1 DEF account, store
  <1>6. PageKnows(t)'
    <2>1. PageKnows(t)
      BY DEF IInv, Pages
    <2> QED BY <1>1, <1>2, <1>4, <1>5, <2>1 DEF PageKnows, Played
  <1>7. \A g \in Games : Shows(t, g)' => Shows(t, g)
    BY <1>5 DEF Shows
  <1> QED BY <1>1, <1>4, <1>5, <1>6, <1>7, QuietPageKeeps, RequestsRest, GroupsKept DEF IInv

\* A game is played on one page, and no outbox, row or request knew it before.
LEMMA PlayKeeps ==
  ASSUME IInv, NEW t \in Tabs, NEW g \in Games, Play(t, g)
  PROVE  IInv'
  <1>1. /\ doc[t] # None /\ games[g] = NoGame
        /\ UNCHANGED <<account, table, store, doc, drain, reqs>>
        /\ hook' = [hook EXCEPT ![t] = [game |-> g, owner |-> None, tries |-> 0, at |-> "due"]]
    BY DEF Play
  <1>2. PICK linked \in BOOLEAN, played \in BOOLEAN :
          games' = [games EXCEPT ![g] = [by |-> session, linked |-> linked, doll |-> played, stale |-> FALSE,
                                         asMember |-> session = Mem /\ member]]
    BY DEF Play
  <1>3. /\ UNCHANGED <<session, member, receipt, banned, doll, profile, scores, reported, attempts, outbox, persisted>>
        /\ session \in Owners /\ member \in BOOLEAN
    BY <1>1, TypesByGroup DEF IInv, Types, AccountTypes, account, table, store
  <1> DEFINE next == [by |-> session, linked |-> linked, doll |-> played, stale |-> FALSE,
                      asMember |-> session = Mem /\ member]
             screen == [game |-> g, owner |-> None, tries |-> 0, at |-> "due"]
  <1>4. next \in GameRow /\ next.by = session /\ next.stale = FALSE
    BY <1>3 DEF GameRow
  <1>5. screen \in HookRow /\ screen.game = g /\ screen.at = "due"
    <2>1. 0 \in 0 .. MaxAttempts
      BY ScoreAssumption
    <2> QED BY <2>1 DEF HookRow, HookStates
  <1> HIDE DEF next, screen
  <1>6. GameTypes' /\ games'[g] = next /\ \A h \in Games : h # g => games'[h] = games[h]
    BY <1>2, <1>4, TypesByGroup DEF IInv, Types, GameTypes, next
  <1>7. HookTypes' /\ hook'[t] = screen /\ \A u \in Tabs : u # t => hook'[u] = hook[u]
    BY <1>1, <1>5, WriteHook DEF IInv, screen
  <1>8. ~Played(g) /\ ~games[g].stale /\ ~games[g].doll /\ Played(g)'
    BY <1>1, <1>3, <1>4, <1>6, TwoOwners DEF Played, NoGame
  <1>9. /\ \A o \in Owners : <<o, g>> \notin persisted
        /\ \A u \in Tabs : ~Shows(u, g)
        /\ \A o \in Owners : scores[o][g].owner = None
    BY <1>8 DEF IInv, Pages, EntryOfPlayed, PageKnows, Shows, Table, RowsOfOrigin
  <1>10. Grows
    BY <1>3, <1>6, <1>8, CountedStays DEF Grows, Played
  <1>11. \A u \in Tabs : PageKnows(u)'
    <2>1. ASSUME NEW u \in Tabs, u # t PROVE PageKnows(u)'
      BY <1>1, <1>7, <1>10, <2>1, PageKnowsStill DEF IInv, Pages
    <2>2. PageKnows(t)'
      <3>1. PageKnows(t) /\ doc'[t] = doc[t] /\ drain'[t] = drain[t]
        BY <1>1 DEF IInv, Pages
      <3> QED BY <1>1, <1>3, <1>5, <1>7, <1>8, <3>1 DEF PageKnows
    <2> QED BY <2>1, <2>2
  <1>12. Pages'
    <2>1. \A u \in Tabs, h \in Games : h # g \/ u # t => (Shows(u, h)' => Shows(u, h) /\ h # g)
      BY <1>5, <1>7, <1>9 DEF Shows
    <2>2. ShownOnce'
      BY <1>9, <2>1 DEF IInv, Pages, ShownOnce
    <2>3. EntryOfPlayed' /\ EntryOnce'
      BY <1>3, <1>6, <1>9 DEF IInv, Pages, EntryOfPlayed, EntryOnce, Played, Owners
    <2>4. EntryOfPage'
      BY <1>1, <1>3, <1>6, <1>9, <2>1 DEF IInv, Pages, EntryOfPage
    <2> QED BY <1>11, <2>2, <2>3, <2>4 DEF Pages
  <1>13. \A r \in Requests : Known(r)'
    BY <1>1, <1>10, KnownStill DEF IInv
  <1>14. Table' /\ ClearedWasReported'
    BY <1>3, <1>10, TableStill, ClearedStill DEF IInv
  <1>15. TypeOK'
    BY <1>1, <1>3, <1>6, <1>7, GroupsKept, TypesByGroupNext DEF IInv, Types
  <1> QED BY <1>12, <1>13, <1>14, <1>15 DEF IInv

---------------------------------------------------------------------------
(* Sending: the entry is written first.                                    *)

LEMMA PersistWrites ==
  ASSUME IInv, NEW t \in Tabs, NEW o \in Owners, NEW g \in Games, Persist(t, o, g)
  PROVE  /\ GameTypes' /\ StoreTypes'
         /\ \A h \in Games : h # g => games'[h] = games[h]
         /\ games'[g].by = games[g].by /\ games'[g].linked = games[g].linked
         /\ games'[g].asMember = games[g].asMember /\ games'[g].doll = games[g].doll
         /\ games[g].stale => games'[g].stale
         /\ doc[t] # session => games'[g].stale
         /\ \A e : e \in persisted' <=> e \in persisted \/ e = <<o, g>>
         /\ \A e : e \in outbox' <=> e \in outbox \/ e = <<o, g>>
  <1> DEFINE stale == games[g].stale \/ doc[t] # session
             next == [games[g] EXCEPT !.stale = stale]
  <1>1. games[g] \in GameRow /\ games \in [Games -> GameRow] /\ games' = [games EXCEPT ![g] = next]
    BY TypesByGroup DEF IInv, Types, GameTypes, Persist
  <1>2. stale \in BOOLEAN
    BY <1>1 DEF GameRow
  <1>3. stale <=> games[g].stale \/ doc[t] # session
    OBVIOUS
  <1> HIDE DEF stale
  <1>4. /\ next \in GameRow /\ next.by = games[g].by /\ next.linked = games[g].linked
        /\ next.asMember = games[g].asMember /\ next.doll = games[g].doll /\ next.stale = stale
    BY <1>1, <1>2 DEF GameRow
  <1> HIDE DEF next
  <1>5. GameTypes' /\ games'[g] = next /\ \A h \in Games : h # g => games'[h] = games[h]
    BY <1>1, <1>4 DEF GameTypes
  <1>6. outbox' = outbox \cup {<<o, g>>} /\ persisted' = persisted \cup {<<o, g>>}
    BY DEF Persist
  <1>7. StoreTypes'
    BY <1>6, PairIsEntry, TypesByGroup DEF IInv, Types, StoreTypes
  <1> QED BY <1>3, <1>4, <1>5, <1>6, <1>7

\* Only the result screen of a game makes its entry, under the user it asked for.
LEMMA PersistKeeps ==
  ASSUME IInv, NEW t \in Tabs, NEW o \in Owners, NEW g \in Games, Persist(t, o, g), UNCHANGED <<account, table>>,
         Played(g), o = Mem => session = Mem,
         <<o, g>> \notin persisted => Shows(t, g) /\ (doc[t] = session => o = doc[t]),
         UNCHANGED doc, \A u \in Tabs, h \in Games : Shows(u, h)' => Shows(u, h)
  PROVE  /\ Grows /\ GameTypes' /\ StoreTypes' /\ Table' /\ ClearedWasReported'
         /\ ShownOnce' /\ EntryOfPlayed' /\ EntryOfPage' /\ EntryOnce'
  <1>0. UNCHANGED <<session, member, receipt, banned, doll, profile, scores, reported, attempts>>
    BY DEF account, table
  <1>1. Grows
    BY <1>0, PersistWrites, CountedStays DEF Grows
  <1>2. ShownOnce'
    BY DEF IInv, Pages, ShownOnce
  <1>3. ASSUME NEW p \in Owners, NEW h \in Games
        PROVE  (<<p, h>> \in persisted') <=> (<<p, h>> \in persisted \/ (p = o /\ h = g))
    <2>1. <<p, h>> = <<o, g>> <=> p = o /\ h = g
      OBVIOUS
    <2> QED BY <2>1, PersistWrites
  <1>4. EntryOfPlayed'
    <2>1. \A h \in Games : Played(h)' <=> Played(h)
      BY PersistWrites DEF Played
    <2> QED BY <1>0, <1>3, <2>1 DEF IInv, Pages, EntryOfPlayed
  <1>5. EntryOfPage'
    <2>1. ASSUME NEW u \in Tabs, NEW p \in Owners, NEW h \in Games,
                 Shows(u, h), <<p, h>> \in persisted', ~games'[h].stale
          PROVE  p = doc[u]
      <3>1. ~games[h].stale
        BY <2>1, PersistWrites
      <3>2. CASE <<p, h>> \in persisted
        BY <2>1, <3>1, <3>2 DEF IInv, Pages, EntryOfPage
      <3>3. CASE <<p, h>> \notin persisted
        <4>1. p = o /\ h = g /\ Shows(t, g) /\ doc[t] = session /\ o = doc[t]
          BY <1>3, <2>1, <3>3, PersistWrites
        <4>2. u = t
          BY <2>1, <4>1 DEF IInv, Pages, ShownOnce
        <4> QED BY <4>1, <4>2
      <3> QED BY <3>2, <3>3
    <2> QED BY <2>1 DEF EntryOfPage
  <1>6. EntryOnce'
    <2> SUFFICES ASSUME NEW h \in Games, <<Anon, h>> \in persisted', <<Mem, h>> \in persisted',
                        ~games'[h].stale
                 PROVE  FALSE
      BY DEF EntryOnce
    <2>1. ~games[h].stale /\ Anon \in Owners /\ Mem \in Owners /\ Anon # Mem
      BY PersistWrites, TwoOwners
    <2>2. ~(<<Anon, h>> \in persisted /\ <<Mem, h>> \in persisted)
      BY <2>1 DEF IInv, Pages, EntryOnce
    <2>3. h = g /\ <<o, g>> \notin persisted
      BY <1>3, <2>1, <2>2
    <2>4. Shows(t, g) /\ o = doc[t]
      BY <2>3, PersistWrites
    <2>5. \A p \in Owners : <<p, g>> \in persisted => p = o
      BY <2>1, <2>3, <2>4 DEF IInv, Pages, EntryOfPage
    <2> QED BY <1>3, <2>1, <2>3, <2>5
  <1>7. Table'
    BY <1>0, <1>1, TableStill DEF IInv
  <1>8. ClearedWasReported'
    <2>1. \A e \in persisted' \ outbox' : e \in persisted \ outbox /\ e[2] \in Games
      BY PersistWrites, TypesByGroup, EntryIsPair DEF IInv, Types, StoreTypes
    <2> QED BY <1>1, <2>1, ClearedByCount DEF IInv, Grows
  <1> QED BY <1>1, <1>2, <1>4, <1>5, <1>6, <1>7, <1>8, PersistWrites

\* The request carries the cookie of the moment.
LEMMA SendKeeps ==
  ASSUME IInv, Grows, NEW t \in Tabs, NEW o \in Owners, NEW g \in Games, NEW acting \in Owners,
         Send(t, o, g, acting), <<o, g>> \in persisted', o = Mem => session = Mem,
         games'[g].stale \/ acting = session
  PROVE  RequestTypes' /\ \A r \in Requests : Known(r)'
  <1>1. CASE UNCHANGED reqs
    BY <1>1, RequestsRest, KnownStill DEF IInv
  <1>2. CASE ~UNCHANGED reqs
    <2> DEFINE next == [tab |-> t, owner |-> o, game |-> g, acting |-> acting,
                        user |-> session, linked |-> FALSE, doll |-> FALSE,
                        live |-> TRUE, pc |-> "sent"]
    <2>1. PICK r \in Requests : reqs' = [reqs EXCEPT ![r] = next]
      BY <1>2 DEF Send
    <2>2. session \in Owners
      BY TypesByGroup DEF IInv, Types, AccountTypes
    <2>3. /\ next \in RequestRow /\ next.owner = o /\ next.game = g /\ next.acting = acting
          /\ next.user = session /\ next.linked = FALSE /\ next.doll = FALSE
          /\ next.tab = t /\ next.live = TRUE /\ next.pc = "sent"
      BY <2>2 DEF RequestRow, RequestSteps
    <2> HIDE DEF next
    <2>4. RequestTypes' /\ reqs'[r] = next /\ \A p \in Requests : p # r => reqs'[p] = reqs[p]
      BY <2>1, <2>3, WriteRequest DEF IInv
    <2>5. Known(r)'
      BY <2>2, <2>3, <2>4 DEF Known
    <2> QED BY <2>4, <2>5, KnownStill DEF IInv
  <1> QED BY <1>1, <1>2

LEMMA HookSubmitKeeps ==
  ASSUME IInv, NEW t \in Tabs, HookSubmit(t)
  PROVE  IInv'
  <1> DEFINE o == hook[t].owner
             g == hook[t].game
  <1>1. hook[t].at = "resolved" /\ UNCHANGED <<account, table, doc, drain>>
    BY DEF HookSubmit
  <1>2. /\ o \in Owners /\ g \in Games /\ (o = Mem => session = Mem) /\ (doc[t] = Mem => o = Mem)
        /\ doc[t] # None /\ Played(g) /\ PageKnows(t) /\ doc[t] \in Owners /\ session \in Owners
        /\ Shows(t, g)
    <2>1. PageKnows(t)
      BY DEF IInv, Pages
    <2> QED BY <1>1, <2>1, TypesByGroup DEF PageKnows, Shows, IInv, Types, DocTypes, AccountTypes
  <1>3. hook[t] \in HookRow /\ hook \in [Tabs -> HookRow]
    BY TypesByGroup DEF IInv, Types, HookTypes
  <1> HIDE DEF o, g
  <1>4. ASSUME NEW next \in HookRow, next.game = g, next.at \in {"failed", "waiting"},
               next.at = "waiting" => next.owner = o, hook' = [hook EXCEPT ![t] = next]
        PROVE  /\ HookTypes' /\ hook'[t] = next /\ \A u \in Tabs : u # t => hook'[u] = hook[u]
               /\ \A u \in Tabs, h \in Games : Shows(u, h)' => Shows(u, h)
    <2>1. HookTypes' /\ hook'[t] = next /\ \A u \in Tabs : u # t => hook'[u] = hook[u]
      BY <1>4, WriteHook DEF IInv
    <2>2. \A u \in Tabs, h \in Games : Shows(u, h)' => Shows(u, h)
      BY <1>2, <1>4, <2>1 DEF Shows
    <2> QED BY <2>1, <2>2
  <1>5. ASSUME NEW next \in HookRow, next.game = g, next.at \in {"failed", "waiting"},
               next.at = "waiting" => next.owner = o, hook'[t] = next, Grows
        PROVE  PageKnows(t)'
    <2>1. /\ doc'[t] = doc[t] /\ drain'[t] = drain[t] /\ session' = session /\ persisted \subseteq persisted'
          /\ games'[g].by # None
      BY <1>1, <1>2, <1>5 DEF Grows, Played, account
    <2> QED BY <1>2, <1>5, <2>1 DEF PageKnows, Played
  <1>6. CASE hook' = [hook EXCEPT ![t].at = "failed", ![t].owner = None] /\ UNCHANGED <<games, store, reqs>>
    <2> DEFINE next == [hook[t] EXCEPT !.at = "failed", !.owner = None]
    <2>1. next \in HookRow /\ next.game = g /\ next.at = "failed" /\ hook' = [hook EXCEPT ![t] = next]
      BY <1>3, <1>6 DEF HookRow, HookStates, g
    <2> HIDE DEF next
    <2>2. /\ HookTypes' /\ hook'[t] = next /\ \A u \in Tabs : u # t => hook'[u] = hook[u]
          /\ \A u \in Tabs, h \in Games : Shows(u, h)' => Shows(u, h)
      BY <1>4, <2>1
    <2>3. Grows
      BY <1>1, <1>6, NothingGrows DEF account, table, store
    <2>4. PageKnows(t)'
      BY <1>5, <2>1, <2>2, <2>3
    <2> QED BY <1>1, <1>6, <2>2, <2>4, QuietPageKeeps, RequestsRest, GroupsKept DEF IInv
  <1>7. CASE Persist(t, o, g) /\ hook' = [hook EXCEPT ![t].at = "waiting"] /\ Send(t, o, g, o)
    <2> DEFINE next == [hook[t] EXCEPT !.at = "waiting"]
    <2>1. /\ next \in HookRow /\ next.game = g /\ next.at = "waiting" /\ next.owner = o
          /\ hook' = [hook EXCEPT ![t] = next]
      BY <1>3, <1>7 DEF HookRow, HookStates, g, o
    <2> HIDE DEF next
    <2>2. /\ HookTypes' /\ hook'[t] = next /\ \A u \in Tabs : u # t => hook'[u] = hook[u]
          /\ \A u \in Tabs, h \in Games : Shows(u, h)' => Shows(u, h)
      BY <1>4, <2>1
    <2>3. doc[t] = session => o = doc[t]
      BY <1>2, TwoOwners
    <2>4. /\ Grows /\ GameTypes' /\ StoreTypes' /\ Table' /\ ClearedWasReported'
          /\ ShownOnce' /\ EntryOfPlayed' /\ EntryOfPage' /\ EntryOnce'
      BY <1>1, <1>2, <1>7, <2>2, <2>3, PersistKeeps
    <2>5. <<o, g>> \in persisted' /\ (games'[g].stale \/ o = session)
      BY <1>2, <1>7, <2>3, PersistWrites
    <2>6. RequestTypes' /\ \A r \in Requests : Known(r)'
      BY <1>2, <1>7, <2>4, <2>5, SendKeeps
    <2>7. \A u \in Tabs : PageKnows(u)'
      <3>1. PageKnows(t)'
        BY <1>5, <2>1, <2>2, <2>4
      <3>2. ASSUME NEW u \in Tabs, u # t PROVE PageKnows(u)'
        BY <1>1, <2>2, <2>4, <3>2, PageKnowsStill DEF IInv, Pages
      <3> QED BY <3>1, <3>2
    <2>8. TypeOK'
      <3>1. AccountTypes' /\ ScoreTypes' /\ AttemptTypes' /\ DocTypes' /\ DrainTypes'
        BY <1>1, GroupsKept DEF IInv, table
      <3> QED BY <2>2, <2>4, <2>6, <3>1, TypesByGroupNext DEF Types
    <2> QED BY <2>4, <2>6, <2>7, <2>8 DEF IInv, Pages
  <1> QED BY <1>6, <1>7 DEF HookSubmit, o, g

LEMMA DrainSubmitKeeps ==
  ASSUME IInv, NEW t \in Tabs, NEW e \in Entries, DrainSubmit(t, e)
  PROVE  IInv'
  <1> DEFINE o == e[1]
             g == e[2]
  <1>1. drain[t][e].at = "due" /\ UNCHANGED <<account, table, doc, hook>>
    BY DEF DrainSubmit
  <1>2. o \in Owners /\ g \in Games /\ e = <<o, g>>
    BY EntryIsPair
  <1> HIDE DEF o, g
  <1>3. /\ PageKnows(t) /\ e \in persisted /\ doc[t] \in Owners /\ drain[t][e].tries < MaxAttempts
        /\ Played(g) /\ (o = Mem => session = Mem)
    <2>1. PageKnows(t)
      BY DEF IInv, Pages
    <2>2. e \in persisted /\ doc[t] \in Owners /\ drain[t][e].tries < MaxAttempts
      BY <1>1, <2>1, TypesByGroup DEF PageKnows, IInv, Types, DocTypes
    <2>3. Played(g) /\ (o = Mem => session = Mem)
      BY <1>2, <2>2 DEF IInv, Pages, EntryOfPlayed
    <2> QED BY <2>1, <2>2, <2>3
  <1>4. \A u \in Tabs, h \in Games : Shows(u, h)' => Shows(u, h)
    BY <1>1 DEF Shows
  <1>5. PICK at \in {"failed", "waiting"} :
          drain' = [drain EXCEPT ![t][e] = [tries |-> drain[t][e].tries + 1, at |-> at]]
    BY TypesByGroup DEF DrainSubmit, IInv, Types, DrainTypes
  <1> DEFINE next == [tries |-> drain[t][e].tries + 1, at |-> at]
  <1>6. next \in DrainRow /\ next.at = at
    <2>1. drain[t][e].tries \in 0 .. MaxAttempts
      BY TypesByGroup DEF IInv, Types, DrainTypes, DrainRow
    <2>2. drain[t][e].tries + 1 \in 0 .. MaxAttempts
      BY <1>3, <2>1, ScoreAssumption
    <2> QED BY <2>2 DEF DrainRow, DrainStates
  <1>7. /\ DrainTypes' /\ drain'[t][e] = next
        /\ \A d \in Entries : d # e => drain'[t][d] = drain[t][d]
        /\ \A u \in Tabs : u # t => drain'[u] = drain[u]
    BY <1>5, <1>6, WriteDrainEntry DEF IInv
  <1> HIDE DEF next
  <1>8. ASSUME Grows PROVE PageKnows(t)'
    <2>1. /\ doc'[t] = doc[t] /\ hook'[t] = hook[t] /\ session' = session /\ persisted \subseteq persisted'
      BY <1>1, <1>8 DEF Grows, account
    <2>2. hook[t].at # "off" => games'[hook[t].game].by # None
      BY <1>3, <1>8 DEF PageKnows, Grows, Played
    <2>3. \A d \in Entries : drain'[t][d].at # "off" =>
            doc[t] # None /\ d \in persisted /\ (drain'[t][d].at = "due" => drain'[t][d].tries < MaxAttempts)
      BY <1>3, <1>6, <1>7, TwoOwners DEF PageKnows
    <2> QED BY <1>3, <2>1, <2>2, <2>3 DEF PageKnows, Played
  <1>9. CASE UNCHANGED <<games, store, reqs>>
    <2>1. Grows
      BY <1>1, <1>9, NothingGrows DEF account, table, store
    <2> QED BY <1>1, <1>4, <1>7, <1>8, <1>9, <2>1, QuietPageKeeps, RequestsRest, GroupsKept DEF IInv
  <1>10. CASE Persist(t, o, g) /\ Send(t, o, g, doc[t])
    <2>1. /\ Grows /\ GameTypes' /\ StoreTypes' /\ Table' /\ ClearedWasReported'
          /\ ShownOnce' /\ EntryOfPlayed' /\ EntryOfPage' /\ EntryOnce'
      BY <1>1, <1>2, <1>3, <1>4, <1>10, PersistKeeps
    <2>2. <<o, g>> \in persisted' /\ (games'[g].stale \/ doc[t] = session)
      BY <1>2, <1>10, PersistWrites
    <2>3. RequestTypes' /\ \A r \in Requests : Known(r)'
      BY <1>2, <1>3, <1>10, <2>1, <2>2, SendKeeps
    <2>4. \A u \in Tabs : PageKnows(u)'
      <3>1. ASSUME NEW u \in Tabs, u # t PROVE PageKnows(u)'
        BY <1>1, <1>7, <2>1, <3>1, PageKnowsStill DEF IInv, Pages
      <3> QED BY <1>8, <2>1, <3>1
    <2>5. TypeOK'
      <3>1. AccountTypes' /\ ScoreTypes' /\ AttemptTypes' /\ DocTypes' /\ HookTypes'
        BY <1>1, GroupsKept DEF IInv, table
      <3> QED BY <1>7, <2>1, <2>3, <3>1, TypesByGroupNext DEF Types
    <2> QED BY <2>1, <2>3, <2>4, <2>5 DEF IInv, Pages
  <1> QED BY <1>9, <1>10 DEF DrainSubmit, o, g

---------------------------------------------------------------------------
(* The three RPCs of a request.                                            *)

LEMMA AtWrites ==
  ASSUME TypeOK, NEW r \in Requests, NEW step \in RequestSteps, At(r, step)
  PROVE  /\ RequestTypes' /\ \A p \in Requests : p # r => reqs'[p] = reqs[p]
         /\ \/ reqs'[r] = NoRequest
            \/ /\ reqs'[r].tab = reqs[r].tab /\ reqs'[r].owner = reqs[r].owner
               /\ reqs'[r].game = reqs[r].game /\ reqs'[r].acting = reqs[r].acting
               /\ reqs'[r].user = reqs[r].user /\ reqs'[r].live = reqs[r].live /\ reqs'[r].pc = step
               /\ \/ reqs'[r].linked = reqs[r].linked /\ reqs'[r].doll = reqs[r].doll
                  \/ reqs'[r].linked = FALSE /\ reqs'[r].doll = FALSE
  <1> DEFINE q == reqs[r]
             kept == [q EXCEPT !.pc = step]
             bare == [q EXCEPT !.pc = step, !.linked = FALSE, !.doll = FALSE]
  <1>1. /\ kept \in RequestRow /\ kept.tab = q.tab /\ kept.owner = q.owner /\ kept.game = q.game
        /\ kept.acting = q.acting /\ kept.user = q.user /\ kept.live = q.live /\ kept.pc = step
        /\ kept.linked = q.linked /\ kept.doll = q.doll
    BY RequestFields DEF RequestRow
  <1>2. /\ bare \in RequestRow /\ bare.tab = q.tab /\ bare.owner = q.owner /\ bare.game = q.game
        /\ bare.acting = q.acting /\ bare.user = q.user /\ bare.live = q.live /\ bare.pc = step
        /\ bare.linked = FALSE /\ bare.doll = FALSE
    BY RequestFields DEF RequestRow
  <1>3. \E next \in {kept, NoRequest, bare} : reqs' = [reqs EXCEPT ![r] = next]
    BY TypesByGroup DEF At, Types, RequestTypes
  <1> HIDE DEF kept, bare
  <1>4. PICK next \in {kept, NoRequest, bare} : reqs' = [reqs EXCEPT ![r] = next]
    BY <1>3
  <1>5. next \in RequestRow
    BY <1>1, <1>2, EmptyRows
  <1>6. RequestTypes' /\ reqs'[r] = next /\ \A p \in Requests : p # r => reqs'[p] = reqs[p]
    BY <1>4, <1>5, WriteRequest
  <1> QED BY <1>1, <1>2, <1>6

\* What a request knows when it gets as far as a step.
LEMMA AtKeeps ==
  ASSUME IInv, Grows, NEW r \in Requests, NEW step \in RequestSteps \ {"free"}, At(r, step),
         reqs[r].pc # "free",
         step \notin {"sent", "rejected", "retryable"} => Source(reqs[r]) # reqs[r].user,
         \A g \in Games : step = "ok" /\ g = reqs[r].game => Counted(g)'
  PROVE  RequestTypes' /\ \A p \in Requests : Known(p)'
  <1>1. /\ RequestTypes' /\ \A p \in Requests : p # r => reqs'[p] = reqs[p]
        /\ \/ reqs'[r] = NoRequest
           \/ /\ reqs'[r].tab = reqs[r].tab /\ reqs'[r].owner = reqs[r].owner
              /\ reqs'[r].game = reqs[r].game /\ reqs'[r].acting = reqs[r].acting
              /\ reqs'[r].user = reqs[r].user /\ reqs'[r].live = reqs[r].live /\ reqs'[r].pc = step
              /\ \/ reqs'[r].linked = reqs[r].linked /\ reqs'[r].doll = reqs[r].doll
                 \/ reqs'[r].linked = FALSE /\ reqs'[r].doll = FALSE
    BY AtWrites DEF IInv
  <1>2. ASSUME NEW p \in Requests, p # r PROVE Known(p)'
    BY <1>1, <1>2, KnownStill DEF IInv
  <1>3. CASE reqs'[r] = NoRequest
    BY <1>1, <1>2, <1>3, KnownStill DEF IInv
  <1>4. CASE reqs'[r] # NoRequest
    <2>0. PICK q, p : q = reqs[r] /\ p = reqs'[r]
      OBVIOUS
    <2>1. /\ p.tab = q.tab /\ p.owner = q.owner /\ p.game = q.game /\ p.acting = q.acting
          /\ p.user = q.user /\ p.live = q.live /\ p.pc = step
          /\ p.linked => q.linked
          /\ p.doll => q.doll
      BY <1>1, <1>4, <2>0
    <2>2. Known(r) /\ q.game \in Games /\ q.user \in Owners /\ Played(q.game)
      BY <2>0 DEF IInv, Known, Pages, EntryOfPlayed
    <2>3. p.linked /\ ~receipt' => Owned(q.user, q.game)'
      BY <2>0, <2>1, <2>2, OwnedStays DEF Known, Grows
    <2>4. /\ games[q.game].stale => games'[q.game].stale
          /\ games[q.game].doll => games'[q.game].doll
          /\ <<q.owner, q.game>> \in persisted'
      BY <2>0, <2>2 DEF Grows, Known
    <2>5. step = "ok" => Counted(q.game)'
      BY <2>0, <2>2
    <2>6. Source(p) = Source(q)
      BY <2>1 DEF Source
    <2>7. Known(r)'
      BY <2>0, <2>1, <2>2, <2>3, <2>4, <2>5, <2>6 DEF Known
    <2> QED BY <1>1, <1>2, <2>7
  <1> QED BY <1>3, <1>4

\* A step of a request touches no page and no entry.
LEMMA PostKeeps ==
  ASSUME IInv, UNCHANGED <<account, games, store, page>>, Grows,
         ScoreTypes', AttemptTypes', RequestTypes', \A r \in Requests : Known(r)', Table'
  PROVE  IInv'
  <1>1. UNCHANGED <<account, games, store, persisted, outbox, doc, hook, drain>>
    BY DEF store, page
  <1>2. Pages'
    <2>1. \A t \in Tabs : PageKnows(t)'
      BY <1>1, PageKnowsStill DEF IInv, Pages
    <2> QED BY <1>1, <2>1, PagesStill DEF IInv, Shows
  <1>3. ClearedWasReported'
    BY <1>1, ClearedStill DEF IInv
  <1>4. TypeOK'
    BY <1>1, GroupsKept, TypesByGroupNext DEF IInv, Types
  <1> QED BY <1>2, <1>3, <1>4 DEF IInv

LEMMA AskedFields ==
  ASSUME IInv, NEW r \in Requests, reqs[r].pc # "free"
  PROVE  /\ reqs[r].owner \in Owners /\ reqs[r].acting \in Owners /\ reqs[r].user \in Owners
         /\ reqs[r].game \in Games /\ Played(reqs[r].game)
         /\ Origin(reqs[r]) \in Owners /\ Source(reqs[r]) \in Owners \cup {None}
  BY DEF IInv, Known, Pages, EntryOfPlayed, Origin, Source

\* The gates read the telemetry and doll rows.
LEMMA GateKeeps ==
  ASSUME IInv, NEW r \in Requests, Gate(r)
  PROVE  IInv'
  <1>1. UNCHANGED <<account, games, table, store, page>> /\ reqs[r].pc = "sent"
    BY DEF Gate
  <1>2. UNCHANGED <<session, member, receipt, banned, doll, profile, scores, reported, attempts, persisted>>
    BY <1>1 DEF account, table, store
  <1>3. Grows
    BY <1>1, <1>2, NothingGrows
  <1>4. RequestTypes' /\ \A p \in Requests : Known(p)'
    <2>1. CASE At(r, "rejected")
      <3>1. "rejected" \in RequestSteps \ {"free"}
        BY DEF RequestSteps, Answers
      <3> QED BY <1>1, <1>3, <2>1, <3>1, AtKeeps
    <2>2. CASE ~At(r, "rejected")
      <3>0. PICK q : q = reqs[r]
        OBVIOUS
      <3> DEFINE known == games[q.game].doll /\ DollAlive /\ q.user = Mem
                 linked == Owned(q.user, q.game)
                 next == [q EXCEPT !.linked = linked, !.doll = known, !.pc = "checked"]
      <3>1. Source(q) # q.user /\ reqs' = [reqs EXCEPT ![r] = next]
        BY <2>2, <3>0 DEF Gate
      <3>2. /\ q.owner \in Owners /\ q.acting \in Owners /\ q.user \in Owners /\ q.game \in Games
            /\ Played(q.game) /\ Known(r)
        BY <1>1, <3>0, AskedFields DEF IInv
      <3>3. known \in BOOLEAN /\ linked \in BOOLEAN /\ (known => q.user = Mem /\ games[q.game].doll)
        <4>1. games[q.game].doll \in BOOLEAN /\ DollAlive \in BOOLEAN
          BY <3>2, TypesByGroup DEF IInv, Types, GameTypes, GameRow, DollAlive
        <4>2. linked \in BOOLEAN
          BY <3>2, TypesByGroup DEF IInv, Types, GameTypes, GameRow, Owned
        <4> QED BY <4>1, <4>2
      <3>4. linked => Owned(q.user, q.game)
        OBVIOUS
      <3> HIDE DEF known, linked
      <3>5. /\ next \in RequestRow /\ next.owner = q.owner /\ next.acting = q.acting /\ next.user = q.user
            /\ next.game = q.game /\ next.live = q.live /\ next.tab = q.tab /\ next.pc = "checked"
            /\ next.linked = linked /\ next.doll = known
        BY <3>0, <3>3, RequestFields DEF IInv, RequestRow, RequestSteps
      <3> HIDE DEF next
      <3>6. RequestTypes' /\ reqs'[r] = next /\ \A p \in Requests : p # r => reqs'[p] = reqs[p]
        BY <3>1, <3>5, WriteRequest DEF IInv
      <3>7. Source(next) = Source(q)
        BY <3>5 DEF Source
      <3>8. next.linked /\ ~receipt' => Owned(q.user, q.game)'
        BY <1>3, <3>2, <3>4, <3>5, OwnedStays
      <3>9. Known(r)'
        BY <1>1, <1>2, <3>0, <3>1, <3>2, <3>3, <3>5, <3>6, <3>7, <3>8 DEF Known
      <3> QED BY <1>3, <3>6, <3>9, KnownStill DEF IInv
    <2> QED BY <2>1, <2>2
  <1>5. Table' /\ ScoreTypes' /\ AttemptTypes'
    BY <1>2, <1>3, TableStill, GroupsKept DEF IInv
  <1> QED BY <1>1, <1>3, <1>4, <1>5, PostKeeps

\* One reservation is written.
LEMMA MarkWrites ==
  ASSUME IInv, NEW r \in Requests, reqs[r].pc # "free", NEW state \in Marks,
         Mark(reqs[r], state)
  PROVE  /\ AttemptTypes'
         /\ \A u, o \in Owners, g \in Games :
              \/ attempts'[u][o][g] = attempts[u][o][g]
              \/ /\ u = reqs[r].user /\ o = Origin(reqs[r]) /\ g = reqs[r].game
                 /\ attempts'[u][o][g] = state
  BY AskedFields, TypesByGroup DEF IInv, Types, AttemptTypes, Mark

\* What may be behind a refusal of u for a game of o's.
Cause(u, o, g) ==
  \/ receipt \/ profile[u] # "active"
  \/ u = Mem /\ (o = Anon \/ (games[g].doll /\ doll # "alive"))

\* Nothing but a refusal is remembered as one.
LEMMA CauseStill ==
  ASSUME IInv, UNCHANGED <<receipt, doll, profile, games>>,
         \A u, o \in Owners, g \in Games :
           \/ attempts'[u][o][g] = attempts[u][o][g]
           \/ attempts'[u][o][g] # "failed"
           \/ Cause(u, o, g)
  PROVE  RefusalHasCause'
  BY DEF IInv, Table, RefusalHasCause, Cause

LEMMA ReserveKeeps ==
  ASSUME IInv, NEW r \in Requests, Reserve(r)
  PROVE  IInv'
  <1>1. UNCHANGED <<account, games, scores, reported, store, page>> /\ reqs[r].pc = "checked"
    BY DEF Reserve
  <1>2. UNCHANGED <<session, member, receipt, banned, doll, profile, persisted>>
    BY <1>1 DEF account, store
  <1>3. Grows
    BY <1>1, <1>2, NothingGrows
  <1>4. PICK step \in {"stored", "rejected", "retryable", "reserved"} : At(r, step)
    BY DEF Reserve, Settled
  <1>5. UNCHANGED attempts \/ \E state \in {"succeeded", "reserved"} : Mark(reqs[r], state)
    BY DEF Reserve, Settled, MarkReplayed
  <1>6. RequestTypes' /\ \A p \in Requests : Known(p)'
    <2>1. step \in RequestSteps \ {"free"} /\ step # "ok"
      BY DEF RequestSteps, Answers
    <2>2. Source(reqs[r]) # reqs[r].user
      BY <1>1 DEF IInv, Known
    <2> QED BY <1>1, <1>3, <1>4, <2>1, <2>2, AtKeeps
  <1>7. AttemptTypes' /\ RefusalHasCause'
    <2>1. CASE UNCHANGED attempts
      BY <1>1, <1>2, <2>1, CauseStill, GroupsKept DEF IInv
    <2>2. ASSUME NEW state \in {"succeeded", "reserved"}, Mark(reqs[r], state)
          PROVE  AttemptTypes' /\ RefusalHasCause'
      <3>1. state \in Marks /\ state # "failed"
        BY DEF Marks, AttemptStates
      <3> QED BY <1>1, <1>2, <2>2, <3>1, MarkWrites, CauseStill
    <2> QED BY <1>5, <2>1, <2>2
  <1>8. Table' /\ ScoreTypes'
    <2>1. RowsOfOrigin' /\ (banned' => member') /\ NoVisibleScoreOfBanned'
      BY <1>1, <1>2 DEF IInv, Table, RowsOfOrigin, NoVisibleScoreOfBanned, Played
    <2> QED BY <1>1, <1>7, <2>1, GroupsKept DEF IInv, Table
  <1> QED BY <1>1, <1>3, <1>6, <1>7, <1>8, PostKeeps

\* The core writes a row only of the user's own entry, and where none is.
LEMMA StoreIsNew ==
  ASSUME IInv, NEW q, NEW r \in Requests, q = reqs[r], q.pc = "reserved", ~Replayed(q), ~Refused(q)
  PROVE  /\ Source(q) = None /\ q.acting = q.owner /\ Origin(q) = q.user
         /\ scores[q.user][q.game].owner = None
  <1>1. q.user \in Owners /\ q.owner \in Owners /\ q.acting \in Owners
    BY AskedFields
  <1>2. Source(q) = None
    BY DEF Refused, Replayed
  <1>3. q.acting = q.owner /\ Origin(q) = q.user
    BY <1>1, <1>2, TwoOwners DEF Source, Origin
  <1>4. scores[q.user][q.game].owner \in {None, q.user}
    BY <1>3 DEF Refused
  <1>5. scores[q.user][q.game].owner # q.user
    BY <1>2, <1>3 DEF Replayed
  <1> QED BY <1>2, <1>3, <1>4, <1>5

LEMMA LinkedIsOwned ==
  ASSUME RowsOfOrigin, NEW o \in Owners, NEW g \in Games, scores[o][g].owner = None
  PROVE  ~scores[o][g].linked
  BY DEF RowsOfOrigin

\* Only a merge, a sign-in, a doll or a profile that was deleted lets the core refuse.
LEMMA RefusedForCause ==
  ASSUME IInv, NEW q, NEW r \in Requests, q = reqs[r], q.pc = "reserved", Refused(q)
  PROVE  Cause(q.user, Origin(q), q.game)
  <1> SUFFICES ASSUME ~Cause(q.user, Origin(q), q.game) PROVE FALSE
    OBVIOUS
  <1>0. /\ ~receipt /\ ~Deleted(q.user)
        /\ q.user = Mem => Origin(q) # Anon /\ (games[q.game].doll => DollAlive)
    BY DEF Cause, Deleted, DollAlive
  <1>1. /\ q.user \in Owners /\ q.owner \in Owners /\ q.acting \in Owners /\ q.game \in Games
        /\ Source(q) # q.user /\ (q.owner = Mem => q.user = Mem) /\ (q.doll => q.user = Mem /\ games[q.game].doll)
        /\ (q.linked => Owned(q.user, q.game))
    BY <1>0 DEF IInv, Known
  <1>2. Source(q) = None
    <2> SUFFICES ASSUME Source(q) # None PROVE FALSE
      OBVIOUS
    <2>1. Source(q) = q.owner /\ Origin(q) = q.owner
      BY DEF Source, Origin
    <2> QED BY <1>0, <1>1, <2>1, TwoOwners
  <1>3. Origin(q) = q.user
    BY <1>2 DEF Origin
  <1>4. \A o \in Owners : scores[o][q.game].owner \in {None, o}
    BY <1>0, <1>1 DEF IInv, Table, RowsOfOrigin
  <1>5. \A o \in Owners : q.linked /\ scores[o][q.game].linked =>
          o = q.user /\ scores[o][q.game].owner # None
    <2>1. q.linked => games[q.game].by = q.user
      BY <1>0, <1>1 DEF Owned
    <2>2. \A o \in Owners : scores[o][q.game].linked =>
            games[q.game].by = o /\ scores[o][q.game].owner # None
      <3>1. q.game \in Games /\ ~receipt /\ RowsOfOrigin
        BY <1>0, <1>1 DEF IInv, Table
      <3>2. ASSUME NEW o \in Owners, NEW g \in Games, scores[o][g].linked
            PROVE  games[g].by = o /\ scores[o][g].owner # None
        BY <3>1, <3>2, LinkedIsOwned DEF RowsOfOrigin
      <3> QED BY <3>1, <3>2
    <2> QED BY <2>1, <2>2
  <1> QED BY <1>0, <1>1, <1>2, <1>3, <1>4, <1>5 DEF Refused

LEMMA StoreKeeps ==
  ASSUME IInv, NEW r \in Requests, Store(r)
  PROVE  IInv'
  <1>0. PICK q : q = reqs[r]
    OBVIOUS
  <1>1. UNCHANGED <<account, games, reported, store, page>> /\ q.pc = "reserved" /\ reqs[r].pc # "free"
    BY <1>0 DEF Store
  <1>2. UNCHANGED <<session, member, receipt, banned, doll, profile, persisted>>
    BY <1>1 DEF account, store
  <1>3. /\ q.user \in Owners /\ q.owner \in Owners /\ q.acting \in Owners /\ q.game \in Games
        /\ Played(q.game) /\ Known(r) /\ Origin(q) \in Owners
    BY <1>0, <1>1, AskedFields DEF IInv
  <1>4. PICK step \in {"stored", "rejected", "retryable"} : At(r, step)
    BY DEF Store, Settled
  <1>5. step \in RequestSteps \ {"free"} /\ step # "ok" /\ Source(reqs[r]) # reqs[r].user
    BY <1>0, <1>1, <1>3 DEF RequestSteps, Answers, Known
  <1>6. ASSUME NEW state \in {"succeeded", "failed", "internal_error"}, Mark(q, state), state = "failed" => Refused(q)
        PROVE  AttemptTypes' /\ RefusalHasCause'
    <2>1. state \in Marks
      BY DEF Marks, AttemptStates
    <2>2. state = "failed" => Cause(q.user, Origin(q), q.game)
      BY <1>0, <1>1, <1>6, RefusedForCause
    <2> QED BY <1>0, <1>1, <1>2, <1>6, <2>1, <2>2, MarkWrites, CauseStill
  <1>7. CASE UNCHANGED scores
    <2>1. Grows
      BY <1>1, <1>2, <1>7, NothingGrows
    <2>2. RequestTypes' /\ \A p \in Requests : Known(p)'
      BY <1>1, <1>4, <1>5, <2>1, AtKeeps
    <2>3. AttemptTypes' /\ RefusalHasCause'
      <3>1. CASE UNCHANGED attempts
        BY <1>1, <1>2, <3>1, CauseStill, GroupsKept DEF IInv
      <3>2. CASE ~UNCHANGED attempts
        <4>1. Mark(q, "succeeded") \/ Mark(q, "internal_error") \/ (Mark(q, "failed") /\ Refused(q))
          BY <1>0, <3>2 DEF Store, Settled, MarkReplayed
        <4> QED BY <1>6, <4>1
      <3> QED BY <3>1, <3>2
    <2>4. Table' /\ ScoreTypes'
      <3>1. RowsOfOrigin' /\ (banned' => member') /\ NoVisibleScoreOfBanned'
        BY <1>1, <1>2, <1>7 DEF IInv, Table, RowsOfOrigin, NoVisibleScoreOfBanned, Played
      <3> QED BY <1>1, <1>7, <2>3, <3>1, GroupsKept DEF IInv, Table
    <2> QED BY <1>1, <2>1, <2>2, <2>3, <2>4, PostKeeps
  <1>8. CASE ~UNCHANGED scores
    <2> DEFINE row == [owner |-> q.user, linked |-> q.linked,
                       status |-> IF banned /\ q.user = Mem THEN "voided" ELSE "registered"]
    <2>1. /\ ~Replayed(q) /\ ~Refused(q) /\ Mark(q, "succeeded")
          /\ scores' = [scores EXCEPT ![Origin(q)][q.game] = row]
      BY <1>0, <1>8 DEF Store
    <2>2. /\ Source(q) = None /\ q.acting = q.owner /\ Origin(q) = q.user
          /\ scores[q.user][q.game].owner = None
      BY <1>0, <1>1, <2>1, StoreIsNew
    <2>3. /\ row \in ScoreRow /\ row.owner = q.user /\ row.linked = q.linked
          /\ banned /\ q.user = Mem => row.status = "voided"
      <3>1. q.linked \in BOOLEAN
        BY <1>0, RequestFields DEF IInv
      <3> QED BY <1>3, <3>1 DEF ScoreRow
    <2> HIDE DEF row
    <2>4. /\ ScoreTypes' /\ scores'[q.user][q.game] = row
          /\ \A o \in Owners, g \in Games : o # q.user \/ g # q.game => scores'[o][g] = scores[o][g]
      BY <1>1, <1>3, <2>1, <2>2, <2>3, TypesByGroup DEF IInv, Types, ScoreTypes
    <2>5. Grows
      <3>1. \A g \in Games : Counted(g) => Counted(g)'
        BY <1>1, <2>2, <2>4, CountedStays
      <3> QED BY <1>1, <1>2, <3>1 DEF Grows
    <2>6. RequestTypes' /\ \A p \in Requests : Known(p)'
      BY <1>1, <1>4, <1>5, <2>5, AtKeeps
    <2>7. RowsOfOrigin'
      <3>1. /\ games[q.game].stale \/ <<q.user, q.game>> \in persisted
            /\ q.linked /\ ~receipt => games[q.game].linked /\ games[q.game].by = q.user
            /\ q.user # None
        BY <1>0, <1>1, <1>3, <2>2, TwoOwners DEF Known, Owned
      <3>2. \A o \in Owners, g \in Games : o # q.user \/ g # q.game =>
              /\ scores'[o][g].owner # None => games[g].stale \/ <<o, g>> \in persisted
              /\ scores'[o][g].owner # None => Played(g)
              /\ scores'[o][g].linked => scores'[o][g].owner # None
              /\ ~receipt => /\ scores'[o][g].owner \in {None, o}
                             /\ scores'[o][g].linked => games[g].linked /\ games[g].by = o
        BY <2>4 DEF IInv, Table, RowsOfOrigin
      <3> QED BY <1>1, <1>2, <1>3, <2>3, <2>4, <3>1, <3>2 DEF RowsOfOrigin, Played
    <2>8. (banned' => member') /\ NoVisibleScoreOfBanned'
      BY <1>2, <1>3, <2>3, <2>4 DEF IInv, Table, NoVisibleScoreOfBanned
    <2>9. AttemptTypes' /\ RefusalHasCause'
      BY <1>6, <2>1
    <2> QED BY <1>1, <2>4, <2>5, <2>6, <2>7, <2>8, <2>9, PostKeeps DEF Table
  <1> QED BY <1>7, <1>8

LEMMA ReportKeeps ==
  ASSUME IInv, NEW r \in Requests, Report(r)
  PROVE  IInv'
  <1>0. PICK q : q = reqs[r]
    OBVIOUS
  <1>1. UNCHANGED <<account, games, scores, attempts, store, page>> /\ q.pc = "stored"
    BY <1>0 DEF Report
  <1>2. UNCHANGED <<session, member, receipt, banned, doll, profile, persisted>>
    BY <1>1 DEF account, store
  <1>3. q.user \in Owners /\ q.game \in Games /\ Origin(q) \in Owners /\ Known(r)
    BY <1>0, <1>1, AskedFields DEF IInv
  <1>4. PICK step \in {"ok", "retryable"} : At(r, step)
    BY DEF Report
  <1>5. reported \subseteq reported' /\ reported' \subseteq reported \cup {<<Origin(q), q.game>>}
    BY <1>0 DEF Report
  <1>6. Grows
    <2>1. \A g \in Games : Counted(g) => Counted(g)'
      BY <1>1, <1>5, CountedStays
    <2> QED BY <1>1, <1>2, <2>1 DEF Grows
  <1>7. RequestTypes' /\ \A p \in Requests : Known(p)'
    <2>1. CASE At(r, "retryable")
      <3>1. "retryable" \in RequestSteps \ {"free"}
        BY DEF RequestSteps, Answers
      <3> QED BY <1>0, <1>1, <1>6, <2>1, <3>1, AtKeeps
    <2>2. CASE ~At(r, "retryable")
      <3>1. /\ At(r, "ok") /\ scores[Origin(q)][q.game].owner = q.user
            /\ \/ scores[Origin(q)][q.game].status = "voided"
               \/ <<Origin(q), q.game>> \in reported'
        BY <1>0, <2>2 DEF Report
      <3>2. Counted(q.game)'
        BY <1>1, <1>3, <3>1, TwoOwners DEF Counted, Rows
      <3>3. "ok" \in RequestSteps \ {"free"} /\ Source(q) # q.user
        BY <1>0, <1>1, <1>3 DEF RequestSteps, Answers, Known
      <3> QED BY <1>0, <1>1, <1>6, <3>1, <3>2, <3>3, AtKeeps
    <2> QED BY <2>1, <2>2
  <1>8. ScoreTypes' /\ AttemptTypes' /\ Table'
    <2>1. reported' \subseteq Entries
      BY <1>3, <1>5, PairIsEntry, TypesByGroup DEF IInv, Types, ScoreTypes
    <2> QED BY <1>1, <1>2, <1>6, <2>1, TableStill, GroupsKept, TypesByGroup DEF IInv, Types, ScoreTypes
  <1> QED BY <1>1, <1>6, <1>7, <1>8, PostKeeps

\* A request that fails, or ends unheard.
LEMMA RequestEndsKeeps ==
  ASSUME IInv, NEW r \in Requests, ServerFails(r) \/ Vanish(r)
  PROVE  IInv'
  <1>1. UNCHANGED <<account, games, table, store, page>>
    BY DEF ServerFails, Vanish
  <1>2. UNCHANGED <<session, member, receipt, banned, doll, profile, scores, reported, attempts, persisted>>
    BY <1>1 DEF account, table, store
  <1>3. Grows
    BY <1>1, <1>2, NothingGrows
  <1>4. RequestTypes' /\ \A p \in Requests : Known(p)'
    <2>1. CASE ServerFails(r)
      <3>1. reqs[r].pc # "free" /\ At(r, "retryable") /\ "retryable" \in RequestSteps \ {"free"}
        BY <2>1 DEF ServerFails, IInv, Known, RequestSteps, Answers
      <3> QED BY <1>3, <3>1, AtKeeps
    <2>2. CASE Vanish(r)
      <3>1. RequestTypes' /\ reqs'[r] = NoRequest /\ \A p \in Requests : p # r => reqs'[p] = reqs[p]
        BY <2>2, EmptyRows, WriteRequest DEF Vanish, IInv
      <3> QED BY <1>3, <3>1, KnownStill DEF IInv
    <2> QED BY <2>1, <2>2
  <1>5. Table' /\ ScoreTypes' /\ AttemptTypes'
    BY <1>2, <1>3, TableStill, GroupsKept DEF IInv
  <1> QED BY <1>1, <1>3, <1>4, <1>5, PostKeeps

---------------------------------------------------------------------------
(* The page that hears of a request.                                       *)

LEMMA HeardKeeps ==
  ASSUME IInv, NEW r \in Requests, NEW outcome, reqs[r].live, Heard(r, outcome),
         UNCHANGED <<session, persisted, games, doc>>
  PROVE  /\ HookTypes' /\ DrainTypes' /\ \A t \in Tabs : PageKnows(t)'
         /\ \A t \in Tabs, g \in Games : Shows(t, g)' => Shows(t, g)
  <1> DEFINE t == reqs[r].tab
             e == <<reqs[r].owner, reqs[r].game>>
  <1>1. t \in Tabs /\ e \in Entries
    <2>1. reqs[r].pc # "free" /\ t \in Tabs
      BY DEF IInv, Known
    <2> QED BY <2>1, AskedFields, PairIsEntry
  <1>2. /\ hook[t] \in HookRow /\ hook \in [Tabs -> HookRow] /\ PageKnows(t)
        /\ drain[t][e] \in DrainRow /\ drain \in [Tabs -> [Entries -> DrainRow]]
    BY <1>1, TypesByGroup DEF IInv, Types, HookTypes, DrainTypes, Pages
  <1> HIDE DEF t, e
  <1>3. PICK screen \in HookRow :
          /\ hook' = [hook EXCEPT ![t] = screen]
          /\ \/ screen = hook[t] \/ screen.at = "off"
             \/ screen.at = "failed" /\ screen.game = hook[t].game /\ hook[t].at # "off"
    <2> DEFINE failed == [hook[t] EXCEPT !.at = "failed", !.owner = None]
    <2>1. failed \in HookRow /\ failed.at = "failed" /\ failed.game = hook[t].game
      BY <1>2 DEF HookRow, HookStates
    <2>2. \/ hook' = [hook EXCEPT ![t] = hook[t]] \/ hook' = [hook EXCEPT ![t] = NoHook]
          \/ hook' = [hook EXCEPT ![t] = failed] /\ hook[t].at = "waiting"
      BY <1>1, <1>2 DEF Heard, t
    <2> HIDE DEF failed
    <2> QED BY <1>2, <2>1, <2>2, EmptyRows
  <1>4. PICK replay \in DrainRow :
          /\ drain' = [drain EXCEPT ![t][e] = replay]
          /\ replay = drain[t][e] \/ replay.at = "off" \/ (replay.at = "failed" /\ drain[t][e].at # "off")
    <2> DEFINE failed == [drain[t][e] EXCEPT !.at = "failed"]
    <2>1. failed \in DrainRow /\ failed.at = "failed"
      BY <1>2 DEF DrainRow, DrainStates
    <2>2. \/ drain' = [drain EXCEPT ![t][e] = drain[t][e]] \/ drain' = [drain EXCEPT ![t][e] = Idle]
          \/ drain' = [drain EXCEPT ![t][e] = failed] /\ drain[t][e].at = "waiting"
      BY <1>1, <1>2 DEF Heard, t, e
    <2> HIDE DEF failed
    <2> QED BY <1>2, <2>1, <2>2, EmptyRows
  <1>5. HookTypes' /\ hook'[t] = screen /\ \A u \in Tabs : u # t => hook'[u] = hook[u]
    BY <1>1, <1>3, WriteHook DEF IInv
  <1>6. /\ DrainTypes' /\ drain'[t][e] = replay
        /\ \A d \in Entries : d # e => drain'[t][d] = drain[t][d]
        /\ \A u \in Tabs : u # t => drain'[u] = drain[u]
    BY <1>1, <1>4, WriteDrainEntry DEF IInv
  <1>7. ASSUME NEW u \in Tabs PROVE PageKnows(u)'
    <2>1. PageKnows(u)
      BY DEF IInv, Pages
    <2>2. CASE u # t
      BY <1>5, <1>6, <2>1, <2>2 DEF PageKnows, Played
    <2>3. CASE u = t
      <3>1. /\ hook'[u].at # "off" => hook[u].at # "off" /\ hook'[u].game = hook[u].game
            /\ hook'[u].at \in {"resolved", "waiting"} => hook'[u] = hook[u]
        BY <1>3, <1>5, <2>3
      <3>2. \A d \in Entries :
              /\ drain'[u][d].at # "off" => drain[u][d].at # "off"
              /\ drain'[u][d].at = "due" => drain'[u][d] = drain[u][d]
        BY <1>4, <1>6, <2>3
      <3> QED BY <2>1, <3>1, <3>2 DEF PageKnows, Played
    <2> QED BY <2>2, <2>3
  <1>8. \A u \in Tabs, g \in Games : Shows(u, g)' => Shows(u, g)
    BY <1>3, <1>5 DEF Shows
  <1> QED BY <1>5, <1>6, <1>7, <1>8

\* A row's acknowledgement, and nothing else, clears the entry.
LEMMA AnswerKeeps ==
  ASSUME IInv, NEW r \in Requests, Deliver(r) \/ GiveUp(r)
  PROVE  IInv'
  <1>1. UNCHANGED <<account, games, table, persisted, doc>> /\ reqs[r].live
    BY DEF Deliver, GiveUp, store
  <1>2. UNCHANGED <<session, member, receipt, banned, doll, profile, scores, reported, attempts>>
    BY <1>1 DEF account, table
  <1>3. PICK outcome : Heard(r, outcome)
    BY DEF Deliver, GiveUp
  <1>4. /\ HookTypes' /\ DrainTypes' /\ \A t \in Tabs : PageKnows(t)'
        /\ \A t \in Tabs, g \in Games : Shows(t, g)' => Shows(t, g)
    BY <1>1, <1>2, <1>3, HeardKeeps
  <1>5. Grows
    BY <1>1, <1>2, NothingGrows
  <1>6. Pages'
    BY <1>1, <1>4, <1>5, PagesStill DEF IInv
  <1>7. RequestTypes' /\ \A p \in Requests : Known(p)'
    <2> DEFINE gone == [reqs[r] EXCEPT !.live = FALSE, !.tab = None]
    <2>1. gone \in RequestRow
      BY OrphanRow DEF IInv
    <2>2. PICK next \in {NoRequest, gone} : reqs' = [reqs EXCEPT ![r] = next]
      BY TypesByGroup DEF Deliver, GiveUp, IInv, Types, RequestTypes
    <2> HIDE DEF gone
    <2>3. RequestTypes' /\ reqs'[r] = next /\ \A p \in Requests : p # r => reqs'[p] = reqs[p]
      BY <2>1, <2>2, EmptyRows, WriteRequest DEF IInv
    <2> QED BY <1>5, <2>2, <2>3, KnownStill DEF IInv, gone
  <1>8. StoreTypes' /\ ClearedWasReported'
    <2>0. outbox \subseteq persisted /\ persisted \subseteq Entries /\ Known(r)
      BY TypesByGroup DEF IInv, Types, StoreTypes
    <2>1. CASE UNCHANGED outbox
      BY <1>1, <1>5, <2>0, <2>1, ClearedStill DEF IInv, StoreTypes
    <2>2. CASE ~UNCHANGED outbox
      <3>1. PICK e : e = <<reqs[r].owner, reqs[r].game>>
        OBVIOUS
      <3>2. reqs[r].pc = "ok" /\ outbox' = outbox \ {e}
        BY <2>2, <3>1 DEF Deliver, GiveUp, store
      <3>3. Counted(e[2]) /\ e[2] \in Games
        BY <2>0, <3>1, <3>2 DEF Known
      <3>4. \A d \in persisted : d[2] \in Games
        BY <2>0, EntryIsPair
      <3>5. \A d \in persisted' \ outbox' : Counted(d[2])'
        BY <1>1, <1>5, <3>2, <3>3, <3>4, ClearedByCount DEF IInv, Grows
      <3> QED BY <1>1, <2>0, <3>2, <3>5, ClearedByCount DEF StoreTypes
    <2> QED BY <2>1, <2>2
  <1>9. Table'
    BY <1>2, <1>5, TableStill DEF IInv
  <1>10. TypeOK'
    BY <1>1, <1>2, <1>4, <1>7, <1>8, GroupsKept, TypesByGroupNext DEF IInv, Types
  <1> QED BY <1>6, <1>7, <1>8, <1>9, <1>10 DEF IInv

---------------------------------------------------------------------------
(* The account.                                                            *)

LEMMA AccountStepKeeps ==
  ASSUME IInv, UNCHANGED <<games, reported, attempts, store, page, reqs>>,
         AccountTypes', ScoreTypes', Grows, Table'
  PROVE  IInv'
  <1>1. UNCHANGED <<outbox, persisted, doc, hook, drain>>
    BY DEF store, page
  <1>2. \A t \in Tabs : PageKnows(t)'
    BY <1>1, PageKnowsStill DEF IInv, Pages
  <1>3. Pages'
    <2>1. \A t \in Tabs, g \in Games : Shows(t, g)' => Shows(t, g) /\ doc'[t] = doc[t]
      BY <1>1 DEF Shows
    <2> QED BY <1>1, <1>2, <2>1, PagesStill DEF IInv
  <1>4. \A r \in Requests : Known(r)'
    BY KnownStill DEF IInv
  <1>5. ClearedWasReported'
    BY <1>1, ClearedStill DEF IInv
  <1>6. TypeOK'
    BY <1>1, GroupsKept, TypesByGroupNext DEF IInv, Types
  <1> QED BY <1>3, <1>4, <1>5, <1>6 DEF IInv

\* The OAuth flow, and the session its callback exchanges.
LEMMA FlowKeeps ==
  ASSUME IInv, BeginSignIn \/ CancelSignIn \/ Exchange \/ Release \/ HideSource
  PROVE  IInv'
  <1>1. /\ UNCHANGED <<member, receipt, banned, doll, games, table, store, page, reqs>>
        /\ UNCHANGED profile \/ profile' = [profile EXCEPT ![Anon] = "deleted"]
        /\ session' \in {session, Mem} /\ flow' \in {"none", "running", "exchanged", "signed"}
    BY DEF BeginSignIn, CancelSignIn, Exchange, Release, HideSource, Close
  <1>2. UNCHANGED <<scores, reported, attempts, persisted>>
    BY <1>1 DEF table, store
  <1>3. Grows
    <2>1. \A u \in Owners : profile[u] # "active" => profile'[u] # "active"
      BY <1>1, TypesByGroup DEF IInv, Types, AccountTypes
    <2>2. \A g \in Games : Counted(g) => Counted(g)'
      BY <1>2, CountedStays
    <2> QED BY <1>1, <1>2, <2>1, <2>2 DEF Grows
  <1>4. Table'
    BY <1>1, <1>2, <1>3, TableStill DEF IInv
  <1>5. AccountTypes' /\ ScoreTypes'
    BY <1>1, <1>2, TwoOwners, TypesByGroup DEF IInv, Types, AccountTypes, ScoreTypes
  <1> QED BY <1>1, <1>2, <1>3, <1>4, <1>5, AccountStepKeeps

\* The rows a merge or a ban rewrites keep their origin, their telemetry and an owner.
LEMMA RowsRewritten ==
  ASSUME IInv, UNCHANGED <<games, reported, store>>,
         scores' \in [Owners -> [Games -> ScoreRow]],
         \A o \in Owners, g \in Games :
           /\ scores'[o][g].linked = scores[o][g].linked
           /\ scores'[o][g].owner # None <=> scores[o][g].owner # None
           /\ scores[o][g].status = "voided" => scores'[o][g].status = "voided"
  PROVE  /\ ScoreTypes' /\ \A g \in Games : Counted(g) => Counted(g)'
         /\ \A o \in Owners, g \in Games :
              /\ scores'[o][g].owner # None => games'[g].stale \/ <<o, g>> \in persisted'
              /\ scores'[o][g].owner # None => Played(g)'
              /\ scores'[o][g].linked => scores'[o][g].owner # None
  <1>1. ScoreTypes'
    BY TypesByGroup DEF IInv, Types, ScoreTypes
  <1>2. \A g \in Games : Counted(g) => Counted(g)'
    BY CountedStays
  <1>3. ASSUME NEW o \in Owners, NEW g \in Games
        PROVE  /\ scores'[o][g].owner # None => games'[g].stale \/ <<o, g>> \in persisted'
               /\ scores'[o][g].owner # None => Played(g)'
               /\ scores'[o][g].linked => scores'[o][g].owner # None
    <2>1. /\ scores[o][g].owner # None => games[g].stale \/ <<o, g>> \in persisted
          /\ scores[o][g].owner # None => Played(g)
          /\ ~scores[o][g].linked \/ scores[o][g].owner # None
      BY DEF IInv, Table, RowsOfOrigin
    <2>2. scores'[o][g].linked = scores[o][g].linked /\ (scores'[o][g].owner # None <=> scores[o][g].owner # None)
      OBVIOUS
    <2> QED BY <2>1, <2>2 DEF Played, store
  <1> QED BY <1>1, <1>2, <1>3

LEMMA MigrateKeeps ==
  ASSUME IInv, Migrate
  PROVE  IInv'
  <1> DEFINE W(o, g) == IF scores[o][g].owner = Anon THEN [scores[o][g] EXCEPT !.owner = Mem]
                        ELSE scores[o][g]
  <1>1. /\ scores' = [o \in Owners |-> [g \in Games |-> W(o, g)]] /\ receipt' = TRUE /\ ~member
        /\ UNCHANGED <<session, flow, member, banned, doll, profile, games, reported, attempts, store, page, reqs>>
    BY DEF Migrate
  <1>2. ASSUME NEW o \in Owners, NEW g \in Games
        PROVE  /\ W(o, g) \in ScoreRow /\ W(o, g).linked = scores[o][g].linked
               /\ W(o, g).owner # None <=> scores[o][g].owner # None
               /\ scores[o][g].status = "voided" => W(o, g).status = "voided"
    <2>1. PICK row \in ScoreRow : row = scores[o][g]
      BY TypesByGroup DEF IInv, Types, ScoreTypes
    <2>2. [row EXCEPT !.owner = Mem] \in ScoreRow
      BY TwoOwners DEF ScoreRow
    <2> QED BY <2>1, <2>2, TwoOwners DEF ScoreRow
  <1> HIDE DEF W
  <1>rows. /\ scores' \in [Owners -> [Games -> ScoreRow]]
        /\ \A o \in Owners, g \in Games : scores'[o][g] = W(o, g)
    BY <1>1, <1>2
  <1>3. /\ ScoreTypes' /\ \A g \in Games : Counted(g) => Counted(g)'
        /\ \A o \in Owners, g \in Games :
             /\ scores'[o][g].owner # None => games'[g].stale \/ <<o, g>> \in persisted'
             /\ scores'[o][g].owner # None => Played(g)'
             /\ scores'[o][g].linked => scores'[o][g].owner # None
    BY <1>1, <1>2, <1>rows, RowsRewritten
  <1>4. Grows
    BY <1>1, <1>3 DEF Grows, store
  <1>5. RowsOfOrigin'
    BY <1>1, <1>3 DEF RowsOfOrigin
  <1>6. Table'
    BY <1>1, <1>5 DEF IInv, Table, RefusalHasCause, NoVisibleScoreOfBanned
  <1>7. AccountTypes'
    BY <1>1, TypesByGroup DEF IInv, Types, AccountTypes
  <1> QED BY <1>1, <1>3, <1>4, <1>6, <1>7, AccountStepKeeps

LEMMA BanKeeps ==
  ASSUME IInv, Ban
  PROVE  IInv'
  <1> DEFINE W(o, g) == IF scores[o][g].owner = Mem THEN [scores[o][g] EXCEPT !.status = "voided"]
                        ELSE scores[o][g]
  <1>1. /\ scores' = [o \in Owners |-> [g \in Games |-> W(o, g)]] /\ member /\ banned' = TRUE
        /\ UNCHANGED <<session, flow, member, receipt, doll, profile, games, reported, attempts, store, page, reqs>>
    BY DEF Ban
  <1>2. ASSUME NEW o \in Owners, NEW g \in Games
        PROVE  /\ W(o, g) \in ScoreRow /\ W(o, g).linked = scores[o][g].linked
               /\ W(o, g).owner = scores[o][g].owner
               /\ scores[o][g].status = "voided" => W(o, g).status = "voided"
               /\ W(o, g).owner = Mem => W(o, g).status = "voided"
    <2>1. PICK row \in ScoreRow : row = scores[o][g]
      BY TypesByGroup DEF IInv, Types, ScoreTypes
    <2>2. [row EXCEPT !.status = "voided"] \in ScoreRow
      BY DEF ScoreRow
    <2> QED BY <2>1, <2>2 DEF ScoreRow
  <1> HIDE DEF W
  <1>rows. /\ scores' \in [Owners -> [Games -> ScoreRow]]
        /\ \A o \in Owners, g \in Games : scores'[o][g] = W(o, g)
    BY <1>1, <1>2
  <1>3. /\ ScoreTypes' /\ \A g \in Games : Counted(g) => Counted(g)'
        /\ \A o \in Owners, g \in Games :
             /\ scores'[o][g].owner # None => games'[g].stale \/ <<o, g>> \in persisted'
             /\ scores'[o][g].owner # None => Played(g)'
             /\ scores'[o][g].linked => scores'[o][g].owner # None
    BY <1>1, <1>2, <1>rows, RowsRewritten
  <1>4. Grows
    BY <1>1, <1>3 DEF Grows, store
  <1>5. RowsOfOrigin'
    <2>1. ASSUME NEW o \in Owners, NEW g \in Games, ~receipt'
          PROVE  /\ scores'[o][g].owner \in {None, o}
                 /\ scores'[o][g].linked => games'[g].linked /\ games'[g].by = o
      <3>1. scores'[o][g].owner = scores[o][g].owner /\ scores'[o][g].linked = scores[o][g].linked
        BY <1>2, <1>rows
      <3>2. /\ scores[o][g].owner \in {None, o}
            /\ ~scores[o][g].linked \/ (games[g].linked /\ games[g].by = o)
        BY <1>1, <2>1 DEF IInv, Table, RowsOfOrigin
      <3> QED BY <1>1, <3>1, <3>2
    <2> QED BY <1>3, <2>1 DEF RowsOfOrigin
  <1>6. NoVisibleScoreOfBanned'
    BY <1>2, <1>rows DEF NoVisibleScoreOfBanned
  <1>7. Table'
    BY <1>1, <1>5, <1>6 DEF IInv, Table, RefusalHasCause
  <1>8. AccountTypes'
    BY <1>1, TypesByGroup DEF IInv, Types, AccountTypes
  <1> QED BY <1>1, <1>3, <1>4, <1>7, <1>8, AccountStepKeeps

LEMMA AccountRowKeeps ==
  ASSUME IInv, Consent \/ DeleteDoll \/ RestoreDoll \/ Withdraw \/ Reactivate
  PROVE  IInv'
  <1>1. /\ UNCHANGED <<session, flow, receipt, banned, games, table, store, page, reqs>>
        /\ \/ member' = TRUE /\ receipt /\ UNCHANGED <<doll, profile>>
           \/ UNCHANGED member
        /\ doll' = doll \/ doll' \in {"deleted", "restored"}
        /\ \/ UNCHANGED profile
           \/ \E state \in {"deleted", "restored"} : profile' = [profile EXCEPT ![Mem] = state]
    BY DEF Consent, DeleteDoll, RestoreDoll, Withdraw, Reactivate, Close
  <1>2. UNCHANGED <<scores, reported, attempts, persisted>>
    BY <1>1 DEF table, store
  <1>3. Grows
    <2>1. \A u \in Owners : profile[u] # "active" => profile'[u] # "active"
      BY <1>1, TypesByGroup DEF IInv, Types, AccountTypes
    <2>2. \A g \in Games : Counted(g) => Counted(g)'
      BY <1>2, CountedStays
    <2> QED BY <1>1, <1>2, <2>1, <2>2 DEF Grows
  <1>4. Table'
    <2>1. RowsOfOrigin'
      BY <1>1, <1>2 DEF IInv, Table, RowsOfOrigin, Played
    <2>2. RefusalHasCause'
      BY <1>1, <1>2, <1>3 DEF IInv, Table, RefusalHasCause, Grows
    <2>3. (banned' => member') /\ NoVisibleScoreOfBanned'
      BY <1>1, <1>2 DEF IInv, Table, NoVisibleScoreOfBanned
    <2> QED BY <2>1, <2>2, <2>3 DEF Table
  <1>5. AccountTypes' /\ ScoreTypes'
    BY <1>1, <1>2, TypesByGroup DEF IInv, Types, AccountTypes, ScoreTypes
  <1> QED BY <1>1, <1>2, <1>3, <1>4, <1>5, AccountStepKeeps

---------------------------------------------------------------------------
(* The invariant holds.                                                    *)

LEMMA InitInvariant == Init => IInv
  <1> SUFFICES ASSUME Init PROVE IInv
    OBVIOUS
  <1>1. TypeOK
    <2>1. AccountTypes /\ StoreTypes /\ DocTypes
      BY ScoreAssumption, TwoOwners DEF Init, AccountTypes, StoreTypes, DocTypes
    <2>2. GameTypes
      BY DEF Init, GameTypes, GameRow, NoGame
    <2>3. ScoreTypes
      BY DEF Init, ScoreTypes, ScoreRow, NoScore
    <2>4. AttemptTypes
      BY DEF Init, AttemptTypes, Marks, AttemptStates
    <2>5. HookTypes /\ DrainTypes /\ RequestTypes
      BY EmptyRows DEF Init, HookTypes, DrainTypes, RequestTypes
    <2> QED BY <2>1, <2>2, <2>3, <2>4, <2>5, TypesByGroup DEF Types
  <1>2. Pages
    <2>1. \A t \in Tabs : PageKnows(t)
      BY EmptyRows, TwoOwners DEF Init, PageKnows
    <2>2. \A t \in Tabs, g \in Games : ~Shows(t, g)
      BY EmptyRows DEF Init, Shows
    <2>3. persisted = {}
      BY DEF Init
    <2> QED BY <2>1, <2>2, <2>3 DEF Pages, ShownOnce, EntryOfPlayed, EntryOfPage, EntryOnce
  <1>3. \A r \in Requests : Known(r)
    BY EmptyRows DEF Init, Known
  <1>4. Table
    <2>1. \A o \in Owners, g \in Games : scores[o][g].owner = None /\ scores[o][g].linked = FALSE
      BY DEF Init, NoScore
    <2>2. RowsOfOrigin
      BY <2>1 DEF RowsOfOrigin
    <2>3. RefusalHasCause /\ (banned => member) /\ NoVisibleScoreOfBanned
      BY DEF Init, RefusalHasCause, NoVisibleScoreOfBanned
    <2> QED BY <2>2, <2>3 DEF Table
  <1>5. ClearedWasReported
    BY DEF Init, ClearedWasReported
  <1> QED BY <1>1, <1>2, <1>3, <1>4, <1>5 DEF IInv

LEMMA StutterKeeps ==
  ASSUME IInv, UNCHANGED vars
  PROVE  IInv'
  <1>1. UNCHANGED <<account, games, table, store, page, reqs>>
    BY DEF vars
  <1>2. UNCHANGED <<session, member, receipt, banned, doll, profile, scores, reported, attempts, persisted>>
    BY <1>1 DEF account, table, store
  <1>3. Grows
    BY <1>1, <1>2, NothingGrows
  <1>4. Table' /\ AccountTypes' /\ ScoreTypes'
    BY <1>1, <1>2, <1>3, TableStill, GroupsKept DEF IInv
  <1> QED BY <1>1, <1>2, <1>3, <1>4, AccountStepKeeps

LEMMA InvariantStep == IInv /\ [Next]_vars => IInv'
  <1> SUFFICES ASSUME IInv, [Next]_vars PROVE IInv'
    OBVIOUS
  <1>1. ASSUME NEW t \in Tabs, Page(t) PROVE IInv'
    BY <1>1, BootKeeps, ReloadKeeps, HookTriesKeep, HookSubmitKeeps, PlayKeeps, DrainTimerKeeps, DrainSubmitKeeps
       DEF Page
  <1>2. ASSUME NEW r \in Requests, Post(r) PROVE IInv'
    BY <1>2, GateKeeps, ReserveKeeps, StoreKeeps, ReportKeeps, RequestEndsKeeps, AnswerKeeps DEF Post
  <1>3. ASSUME Account PROVE IInv'
    BY <1>3, FlowKeeps, MigrateKeeps, AccountRowKeeps, BanKeeps DEF Account
  <1> QED BY <1>1, <1>2, <1>3, StutterKeeps DEF Next

\* Every state the browser, the route and the account reach satisfies the invariant.
THEOREM ScoreInvariant == Spec => []IInv
  BY InitInvariant, InvariantStep, PTL DEF Spec

\* Every variable keeps its type, whatever tabs, requests and sign-in do (types of
\* score-outbox.ts, use-score-submission.ts and the scores and attempts tables).
THEOREM TypeCorrect == Spec => []TypeOK
  <1>1. IInv => TypeOK
    BY DEF IInv
  <1> QED BY <1>1, ScoreInvariant, PTL

\* For any number of tabs, requests and games: an entry that has left the outbox stands
\* for a row that was reported or voided (submitScoreWithOutbox removes it on an
\* acknowledgement only, and the route acknowledges after the report).
THEOREM ClearedReported == Spec => []ClearedWasReported
  <1>1. IInv => ClearedWasReported
    BY DEF IInv
  <1> QED BY <1>1, ScoreInvariant, PTL

\* However a ban and the submissions of the member interleave, no score of a banned
\* member is visible (admin_ban_member and the core of submit_score_with_review).
THEOREM BannedHidden == Spec => []NoVisibleScoreOfBanned
  <1>1. IInv => NoVisibleScoreOfBanned
    BY DEF IInv, Table
  <1> QED BY <1>1, ScoreInvariant, PTL

\* A refusal that is remembered by its name has a cause: a merge, a sign-in, a doll or a
\* profile that was deleted, never a lost answer or an interleaving; a failure without a
\* name, internal_error, is kept apart (submit_score_with_review, reserve_score_write_attempt).
THEOREM RefusedForGood == Spec => []RefusalHasCause
  <1>1. IInv => RefusalHasCause
    BY DEF IInv, Table
  <1> QED BY <1>1, ScoreInvariant, PTL

\* A game is one row for any number of tabs, requests, retries and lost answers, unless a
\* page submitted it under a session other than its own (score-outbox.ts, 0079 core).
THEOREM OneRow == Spec => []GameCountsOnceUnlessStale
  <1>1. ASSUME IInv, NEW g \in Games, ~games[g].stale
        PROVE  Cardinality(Rows(g)) <= 1
    <2>1. \A o \in Rows(g) : o \in Owners /\ <<o, g>> \in persisted
      BY <1>1 DEF IInv, Table, RowsOfOrigin, Rows
    <2>2. ~(Anon \in Rows(g) /\ Mem \in Rows(g))
      BY <1>1, <2>1 DEF IInv, Pages, EntryOnce
    <2>3. Rows(g) = {} \/ Rows(g) = {Anon} \/ Rows(g) = {Mem}
      BY <2>1, <2>2, TwoOwners
    <2>4. \A x : Cardinality({x}) = 1
      BY FS_Singleton
    <2>5. Cardinality({}) = 0
      BY FS_EmptySet
    <2>6. Cardinality(Rows(g)) = 0 \/ Cardinality(Rows(g)) = 1
      BY <2>3, <2>4, <2>5, Zenon
    <2> QED BY <2>6, SMT
  <1>2. IInv => GameCountsOnceUnlessStale
    BY <1>1 DEF GameCountsOnceUnlessStale
  <1> QED BY <1>2, ScoreInvariant, PTL
=============================================================================
