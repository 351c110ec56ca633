----------------------------- MODULE OfflineProofs -----------------------------
(***************************************************************************)
(* Proofs about the commands and the database they share (Offline), about  *)
(* db copy (DbCopy), and about the logs with their windows (Activity).     *)
(*                                                                         *)
(* Of a command it is enough to know which step may follow which (Legal)   *)
(* and what a step may find when it is taken (AtOsm, AtTable, AtCompare):  *)
(* whatever is left of a program after any number of steps is legal again. *)
(* The copy is a prefix of its source until it has been verified, and what *)
(* the prune may not have taken yet is in the log.                         *)
(***************************************************************************)
EXTENDS Offline, DbCopy, Activity, SequenceTheorems, TLAPS

-------------------------------------------------------------------------------
(* db copy                                                                 *)

\* A copy of some of the source's tables, and of some indexes.
Begun(p) == p \in [rows : Seq(Nat), indexes : SUBSET Indexes] /\ Len(p.rows) <= Len(TableRows)
AllTablesIn(p) == Len(p.rows) = Len(TableRows)

\* The copy as it is written: tables, then indexes.  What is detached has been
\* checked.
CopyShape ==
  /\ partialWal \in BOOLEAN /\ destWal \in BOOLEAN
  /\ littered \in BOOLEAN /\ strayed \in BOOLEAN
  /\ copying \in {"off", "tables", "verify", "checkpoint", "rename"}
  /\ copying # "off" => Begun(partial)
  /\ copying = "verify" => AllTablesIn(partial)
  /\ copying \in {"checkpoint", "rename"} => partial = Source

CopyInv == CopyShape /\ DestIsComplete

\* No file, and no copy under way.
LEMMA CopyInitInv == CopyInit => CopyInv
BY DEF CopyInit, CopyInv, CopyShape, DestIsComplete

\* What is verified is the source: as many tables, the same counts, all indexes.
LEMMA VerifiedIsSource ==
  ASSUME CopyShape, copying = "verify", Verified
  PROVE  partial = Source
<1>1. /\ partial \in [rows : Seq(Nat), indexes : SUBSET Indexes]
      /\ Len(partial.rows) = Len(TableRows)
  BY DEF CopyShape, Begun, AllTablesIn
<1>2. partial.rows = TableRows
  <2>1. \A t \in 1 .. Len(TableRows) : partial.rows[t] = TableRows[t]
    BY SourceAssumption DEF Verified
  <2> QED
    BY <1>1, <2>1, SourceAssumption, SeqEqual
<1> QED
  BY <1>1, <1>2 DEF Verified, Source

\* Every step of the copy, of its clean-up and of others keeps the shape of the
\* files.
LEMMA CopyStep == CopyInv /\ [CopyNext]_copyVars => CopyInv'
<1> SUFFICES ASSUME CopyInv, [CopyNext]_copyVars PROVE CopyInv'
  OBVIOUS
<1> USE DEF CopyInv, CopyShape, DestIsComplete
<1>1. CASE Stray \/ TakeAway
  <2>1. CASE Stray
    <3>1. /\ UNCHANGED <<partial, partialWal, copying, littered>> /\ strayed' = TRUE
          /\ dest' \in {dest, Foreign} /\ destWal' \in BOOLEAN
      BY <2>1 DEF Stray
    <3> QED
      BY <3>1
  <2>2. CASE TakeAway
    BY <2>2 DEF TakeAway
  <2> QED
    BY <1>1, <2>1, <2>2
<1>2. CASE StartCopy \/ AttachFails
  <2>1. Begun(Empty)
    BY SourceAssumption DEF Begun, Empty
  <2>2. CASE StartCopy
    BY <2>1, <2>2 DEF StartCopy, Refused
  <2>3. CASE AttachFails
    BY <2>3 DEF AttachFails, Refused
  <2> QED
    BY <1>2, <2>2, <2>3
<1>3. CASE CopyTable \/ CopyLess
  <2>1. Begun(partial) /\ Len(partial.rows) + 1 \in 1 .. Len(TableRows)
    BY <1>3, SourceAssumption DEF CopyTable, CopyLess, Begun
  <2>2. PICK n \in Nat : partial' = [partial EXCEPT !.rows = Append(@, n)]
    BY <1>3, <2>1, SourceAssumption DEF CopyTable, CopyLess, Begun
  <2>3. Begun(partial')
    <3>1. /\ Append(partial.rows, n) \in Seq(Nat)
          /\ Len(Append(partial.rows, n)) = Len(partial.rows) + 1
      BY <2>1, AppendProperties DEF Begun
    <3>2. /\ partial' \in [rows : Seq(Nat), indexes : SUBSET Indexes]
          /\ partial'.rows = Append(partial.rows, n)
      BY <2>1, <2>2, <3>1 DEF Begun
    <3> QED
      BY <2>1, <3>1, <3>2 DEF Begun
  <2> QED
    BY <1>3, <2>3 DEF CopyTable, CopyLess
<1>4. CASE CreateIndex
  <2>1. Begun(partial')
    BY <1>4 DEF CreateIndex, Begun
  <2> QED
    BY <1>4, <2>1 DEF CreateIndex
<1>5. CASE SkipIndexes \/ AllCreated
  BY <1>5 DEF SkipIndexes, AllCreated, AllTablesIn
<1>6. CASE Verify
  BY <1>6, VerifiedIsSource DEF Verify
<1>7. CASE Detach \/ MoveIntoPlace
  <2>1. CASE Detach
    BY <2>1 DEF Detach
  <2>2. CASE MoveIntoPlace
    BY <2>2 DEF MoveIntoPlace
  <2> QED
    BY <1>7, <2>1, <2>2
<1>8. CASE Fail \/ FailLittering
  BY <1>8 DEF Fail, FailLittering, Drop
<1>9. CASE CopyCrash
  BY <1>9 DEF CopyCrash
<1>10. CASE UNCHANGED copyVars
  BY <1>10 DEF copyVars
<1> QED
  BY <1>1, <1>2, <1>3, <1>4, <1>5, <1>6, <1>7, <1>8, <1>9, <1>10 DEF CopyNext

\* For any source database: the file at <dest> is complete or not the copy's, no
\* WAL lies by it that was there when the copy looked, and only a kill or a failed
\* clean-up leaves a partial copy.
THEOREM CopyIsWhole == CopyInit /\ [][CopyNext]_copyVars => []DestIsComplete
<1>1. CopyInv => DestIsComplete
  BY DEF CopyInv
<1> QED
  BY CopyInitInv, CopyStep, <1>1, PTL

-------------------------------------------------------------------------------
(* The logs and their windows                                              *)

\* An export is on its way, or has been handed to its requester.
Going(r) == step[r] \in {"asked", "built", "ready", "answered"}
Sent(r) == step[r] \in {"ready", "answered"}

ActivityTypes ==
  /\ now \in Nat
  /\ step \in [Exports -> {"new", "asked", "built", "ready", "answered", "over"}]
  /\ via \in [Exports -> Endpoints] /\ got \in [Exports -> {0, 1}]
  /\ DOMAIN asked = Exports /\ DOMAIN answered = Exports
  /\ \A r \in Exports :
       /\ Going(r) => asked[r] \in 0 .. now
       /\ step[r] = "answered" => answered[r] \in 0 .. now
  /\ DOMAIN logged = Tables
  /\ applying = Never \/ applying \in 0 .. now
  /\ refreshes \in Seq([began : Nat, committed : Nat])

\* The log holds what was sent, at a time that has passed.
LoggedIsTrue ==
  /\ \A t \in Tables : \A x \in logged[t] : x.at \in 0 .. now
  /\ \A x \in logged["exports"] : x.id \in Exports /\ Sent(x.id) /\ x.count = got[x.id]

\* What the prune may not have taken yet is in the log.
KeptInLog ==
  /\ \A r \in Exports \ unlogged :
       Sent(r) /\ (via[r] = "package" \/ got[r] > 0) /\ asked[r] >= now - Keep["exports"] =>
         \E x \in logged["exports"] : x.id = r /\ x.at >= asked[r]
  /\ \A n \in DOMAIN refreshes :
       refreshes[n].began >= now - Keep["areas"] =>
         \E x \in logged["areas"] : x.id = n /\ x.at = refreshes[n].began

\* What a render that read then got: nothing from before the window, and every
\* refresh of it that had been committed.
ReadThen(seen, then) ==
  /\ \A x \in seen : x.at \in then - Window["areas"] .. then
  /\ \A n \in DOMAIN refreshes :
       refreshes[n].committed < then /\ refreshes[n].began >= then - Shorter("areas") =>
         \E x \in seen : x.id = n

\* So it is with the renders under way and with the tile in the cache.
RendersAreTrue ==
  /\ \A e \in rendering : e.began \in 0 .. now /\ ReadThen(e.rows, e.began)
  /\ cached # Never =>
       /\ cached.inserted \in 0 .. now /\ cached.took \in 0 .. cached.inserted
       /\ ReadThen(cached.rows, cached.inserted - cached.took)

\* A page shows exports that have been sent, so their rows do not change any more.
PageIsSettled ==
  page # Never =>
    /\ page.of \in Tables
    /\ page.of = "exports" => \A x \in page.shown : x.id \in Exports /\ Sent(x.id)

ActivityInv ==
  /\ ActivityTypes /\ LoggedIsTrue /\ KeptInLog /\ RendersAreTrue
  /\ PageIsSettled /\ ExportsShown /\ RefreshesShown

\* Nothing asked, nothing logged.
LEMMA ActivityInitInv == ActivityInit => ActivityInv
<1> SUFFICES ASSUME ActivityInit PROVE ActivityInv
  OBVIOUS
<1>1. ActivityTypes
  BY DEF ActivityInit, ActivityTypes, Going, Endpoints, Tables
<1>2. LoggedIsTrue /\ KeptInLog
  BY DEF ActivityInit, LoggedIsTrue, KeptInLog, Sent, Tables
<1> QED
  BY <1>1, <1>2
  DEF ActivityInit, ActivityInv, RendersAreTrue, PageIsSettled, ExportsShown, RefreshesShown

\* An export is asked for once and built once: no-store keeps browsers out.
LEMMA NeverReused ==
  ASSUME ActivityTypes, NEW e \in Endpoints
  PROVE  Reusable(e) = {}
BY DEF Reusable, MaxAge, ActivityTypes

\* Every step keeps the types and the clock ahead of what it has stamped.
LEMMA ActivityTypesStep == ActivityTypes /\ [ActivityNext]_activityVars => ActivityTypes'
<1> SUFFICES ASSUME ActivityTypes, [ActivityNext]_activityVars PROVE ActivityTypes'
  OBVIOUS
<1> USE DEF ActivityTypes, Going, requests, refresh
<1>1. CASE Pass
  BY <1>1 DEF Pass
<1>2. ASSUME NEW r \in Exports, Ask(r) PROVE ActivityTypes'
  BY <1>2, NeverReused DEF Ask
<1>3. ASSUME NEW r \in Exports, Refuse(r) PROVE ActivityTypes'
  BY <1>3 DEF Refuse
<1>4. ASSUME NEW r \in Exports, Build(r) PROVE ActivityTypes'
  BY <1>4 DEF Build
<1>5. ASSUME NEW r \in Exports, LogExport(r) PROVE ActivityTypes'
  BY <1>5 DEF LogExport
<1>6. ASSUME NEW r \in Exports, LogFails(r) PROVE ActivityTypes'
  BY <1>6 DEF LogFails
<1>7. ASSUME NEW r \in Exports, HandOut(r) PROVE ActivityTypes'
  BY <1>7 DEF HandOut
<1>8. ASSUME NEW r \in Exports, ExportFails(r) PROVE ActivityTypes'
  BY <1>8 DEF ExportFails, Endpoints
<1>9. CASE BeginApply \/ RollBackAreas
  BY <1>9 DEF BeginApply, RollBackAreas
<1>10. CASE CommitAreas
  <2>1. applying \in Nat /\ now \in Nat
    BY <1>10 DEF CommitAreas
  <2>2. refreshes' \in Seq([began : Nat, committed : Nat])
    BY <1>10, <2>1, AppendProperties DEF CommitAreas
  <2> QED
    BY <1>10, <2>2 DEF CommitAreas
<1>11. CASE StartPrune \/ PruneOne \/ PruneOneFails
  BY <1>11 DEF StartPrune, PruneOne, PruneOneFails
<1>12. CASE \/ LookAtExports \/ TileFromCache \/ RenderTile \/ DropCached
             \/ \E e \in rendering : FinishTile(e) \/ FailTile(e)
  BY <1>12 DEF LookAtExports, TileFromCache, RenderTile, DropCached, FinishTile, FailTile
<1>13. CASE UNCHANGED activityVars
  BY <1>13 DEF activityVars
<1> QED
  BY <1>1, <1>2, <1>3, <1>4, <1>5, <1>6, <1>7, <1>8, <1>9, <1>10, <1>11, <1>12, <1>13
  DEF ActivityNext

\* What has been sent stays sent, as it was: the steps of a request go one way.
LEMMA SentForGood ==
  ASSUME ActivityTypes, [ActivityNext]_activityVars, NEW r \in Exports, Sent(r)
  PROVE  Sent(r)' /\ got'[r] = got[r] /\ via'[r] = via[r] /\ asked'[r] = asked[r]
<1> USE DEF ActivityTypes, Sent, requests
<1>1. ASSUME NEW q \in Exports, Ask(q) \/ Refuse(q) \/ Build(q) \/ LogExport(q) \/ LogFails(q)
      PROVE  Sent(r)' /\ got'[r] = got[r] /\ via'[r] = via[r] /\ asked'[r] = asked[r]
  BY <1>1, NeverReused DEF Ask, Refuse, Build, LogExport, LogFails
<1>2. ASSUME NEW q \in Exports, HandOut(q) \/ ExportFails(q)
      PROVE  Sent(r)' /\ got'[r] = got[r] /\ via'[r] = via[r] /\ asked'[r] = asked[r]
  BY <1>2 DEF HandOut, ExportFails
<1> QED
  BY <1>1, <1>2
  DEF ActivityNext, Pass, BeginApply, CommitAreas, RollBackAreas, StartPrune, PruneOne,
      PruneOneFails, LookAtExports, TileFromCache, RenderTile, FinishTile, FailTile, DropCached,
      activityVars

\* The steps by what they do to the log, the clock and who is owed a row.
LEMMA LogSteps ==
  ASSUME ActivityTypes, [ActivityNext]_activityVars
  PROVE  \/ UNCHANGED <<logged, refreshes>> /\ now' >= now /\ now' \in Nat
         \/ \E r \in Exports : LogExport(r)
         \/ CommitAreas \/ PruneOne
<1> USE DEF ActivityTypes, requests, refresh
<1>1. ASSUME NEW r \in Exports,
             Ask(r) \/ Refuse(r) \/ Build(r) \/ LogFails(r) \/ HandOut(r) \/ ExportFails(r)
      PROVE  UNCHANGED <<logged, refreshes, now>>
  BY <1>1 DEF Ask, Refuse, Build, LogFails, HandOut, ExportFails
<1> QED
  BY <1>1
  DEF ActivityNext, Pass, BeginApply, RollBackAreas, StartPrune, PruneOneFails,
      LookAtExports, TileFromCache, RenderTile, FinishTile, FailTile, DropCached, activityVars

\* Every row of the log stays true: of a request that was sent, with its count.
LEMMA LoggedStep ==
  ActivityTypes /\ LoggedIsTrue /\ [ActivityNext]_activityVars => LoggedIsTrue'
<1> SUFFICES ASSUME ActivityTypes, LoggedIsTrue, [ActivityNext]_activityVars PROVE LoggedIsTrue'
  OBVIOUS
<1> USE DEF LoggedIsTrue
<1>t. now \in Nat /\ DOMAIN logged = Tables
  BY DEF ActivityTypes
<1>1. ASSUME UNCHANGED logged, now' >= now, now' \in Nat PROVE LoggedIsTrue'
  BY <1>1, <1>t, SentForGood
<1>2. ASSUME NEW r \in Exports, LogExport(r) PROVE LoggedIsTrue'
  <2> DEFINE row == [id |-> r, at |-> now, count |-> got[r]]
  <2>1. /\ logged' = [logged EXCEPT !["exports"] = @ \cup {row}]
        /\ now' = now /\ got' = got /\ Sent(r)'
    BY <1>2 DEF LogExport, Sent, ActivityTypes
  <2>2. \A x \in logged["exports"] : x.id \in Exports /\ Sent(x.id)' /\ x.count = got[x.id]
    BY SentForGood
  <2> QED
    BY <1>t, <2>1, <2>2 DEF Tables
<1>3. CASE CommitAreas
  <2>1. /\ now' = now /\ applying \in 0 .. now
        /\ logged' = [logged EXCEPT !["areas"] =
                        @ \cup {[id |-> Len(refreshes) + 1, at |-> applying, count |-> 1]}]
    BY <1>3 DEF CommitAreas, ActivityTypes
  <2>2. \A x \in logged["exports"] : x.id \in Exports /\ Sent(x.id)' /\ x.count = got'[x.id]
    BY SentForGood
  <2> QED
    BY <1>t, <2>1, <2>2 DEF Tables
<1>4. CASE PruneOne
  <2>1. now' = now /\ DOMAIN logged' = Tables /\ \A t \in Tables : logged'[t] \subseteq logged[t]
    BY <1>4, <1>t DEF PruneOne
  <2>2. \A x \in logged["exports"] : x.id \in Exports /\ Sent(x.id)' /\ x.count = got'[x.id]
    BY SentForGood
  <2> QED
    BY <1>t, <2>1, <2>2 DEF Tables
<1> QED
  BY LogSteps, <1>1, <1>2, <1>3, <1>4

\* A refresh has its two times.
LEMMA RefreshTimes ==
  ASSUME ActivityTypes, NEW n \in DOMAIN refreshes
  PROVE  refreshes[n].began \in Nat /\ refreshes[n].committed \in Nat
<1>1. refreshes \in Seq([began : Nat, committed : Nat])
  BY DEF ActivityTypes
<1>2. refreshes[n] \in [began : Nat, committed : Nat]
  BY <1>1, LenProperties
<1> QED
  BY <1>2

\* What is within a window later is within it now.
LEMMA LaterIsWithin ==
  \A then, later, window, at \in Nat :
    later >= then /\ at >= later - window => at >= then - window
OBVIOUS

\* The prune takes no row that is younger than it may take, and what is sent is in
\* the log by then unless its statement failed.
LEMMA KeptStep ==
  ActivityTypes /\ LoggedIsTrue /\ KeptInLog /\ [ActivityNext]_activityVars => KeptInLog'
<1> SUFFICES ASSUME ActivityTypes, LoggedIsTrue, KeptInLog, [ActivityNext]_activityVars
             PROVE  KeptInLog'
  OBVIOUS
<1>t. /\ now \in Nat /\ DOMAIN logged = Tables /\ refreshes \in Seq([began : Nat, committed : Nat])
      /\ Keep["exports"] \in Nat /\ Keep["areas"] \in Nat
  BY WindowsAssumption DEF ActivityTypes, Tables
<1> DEFINE Owes(r) ==
      Sent(r) /\ (via[r] = "package" \/ got[r] > 0) /\ asked[r] >= now - Keep["exports"]
           Row(r) == \E x \in logged["exports"] : x.id = r /\ x.at >= asked[r]
           Area(n) == refreshes[n].began >= now - Keep["areas"] =>
                        \E x \in logged["areas"] : x.id = n /\ x.at = refreshes[n].began
<1>k. (\A r \in Exports \ unlogged : Owes(r) => Row(r)) /\ (\A n \in DOMAIN refreshes : Area(n))
  BY DEF KeptInLog
<1>a. \A r \in Exports : Sent(r) => asked[r] \in 0 .. now
  BY DEF ActivityTypes, Going, Sent
<1>1. ASSUME NEW r \in Exports, r \notin unlogged', Owes(r)', ~LogExport(r) PROVE Sent(r)
  <2>1. ASSUME NEW q \in Exports, Build(q) PROVE Sent(r)
    BY <1>1, <2>1 DEF Build, Sent, ActivityTypes
  <2>2. ASSUME NEW q \in Exports, Ask(q) PROVE Sent(r)
    BY <1>1, <2>2, NeverReused DEF Ask, Sent, ActivityTypes
  <2>3. ASSUME NEW q \in Exports, Refuse(q) \/ LogFails(q) \/ HandOut(q) \/ ExportFails(q)
        PROVE  Sent(r)
    BY <1>1, <2>3 DEF Refuse, LogFails, HandOut, ExportFails, Sent, ActivityTypes
  <2>4. ASSUME NEW q \in Exports, LogExport(q) PROVE Sent(r)
    BY <1>1, <2>4 DEF LogExport, Sent, ActivityTypes
  <2>5. ASSUME UNCHANGED step PROVE Sent(r)
    BY <1>1, <2>5 DEF Sent
  <2> QED
    BY <2>1, <2>2, <2>3, <2>4, <2>5
    DEF ActivityNext, Pass, BeginApply, CommitAreas, RollBackAreas, StartPrune, PruneOne,
        PruneOneFails, LookAtExports, TileFromCache, RenderTile, FinishTile, FailTile,
        DropCached, activityVars, requests
<1>2. ASSUME NEW r \in Exports, r \notin unlogged' PROVE r \notin unlogged
  <2>1. unlogged \subseteq unlogged'
    <3>1. ASSUME NEW q \in Exports,
                 \/ Ask(q) \/ Refuse(q) \/ Build(q) \/ LogExport(q) \/ LogFails(q)
                 \/ HandOut(q) \/ ExportFails(q)
          PROVE  unlogged \subseteq unlogged'
      BY <3>1 DEF Ask, Refuse, Build, LogExport, LogFails, HandOut, ExportFails
    <3> QED
      BY <3>1 DEF ActivityNext, Pass, BeginApply, CommitAreas, RollBackAreas, StartPrune,
                  PruneOne, PruneOneFails, LookAtExports, TileFromCache, RenderTile,
                  FinishTile, FailTile, DropCached, activityVars, requests
  <2> QED
    BY <1>2, <2>1
<1>n. now \in Nat
  BY <1>t
<1>3. now' >= now /\ now' \in Nat
  <2>1. ASSUME NEW q \in Exports, LogExport(q) PROVE now' = now
    BY <2>1 DEF LogExport
  <2> QED
    BY <1>t, <2>1, LogSteps DEF CommitAreas, PruneOne
<1>4. ASSUME NEW r \in Exports, r \notin unlogged', Owes(r)', ~LogExport(r)
      PROVE  Row(r) /\ asked'[r] = asked[r] /\ asked[r] \in 0 .. now
  <2>1. Sent(r) /\ r \notin unlogged
    BY <1>1, <1>2, <1>4
  <2>2. got'[r] = got[r] /\ via'[r] = via[r] /\ asked'[r] = asked[r]
    BY <2>1, SentForGood
  <2>3. Owes(r)
    BY <1>3, <1>4, <1>t, <1>a, <2>1, <2>2
  <2> QED
    BY <1>k, <1>a, <2>1, <2>2, <2>3
<1>5. ASSUME NEW r \in Exports, r \notin unlogged', Owes(r)' PROVE Row(r)'
  <2>1. CASE LogExport(r)
    <3> DEFINE row == [id |-> r, at |-> now, count |-> got[r]]
    <3>1. now' = now /\ asked' = asked /\ asked[r] \in 0 .. now
          /\ logged'["exports"] = logged["exports"] \cup {row}
      BY <2>1, <1>t DEF LogExport, ActivityTypes, Going, Tables
    <3>2. row \in logged'["exports"] /\ row.id = r /\ row.at >= asked'[r]
      BY <1>t, <3>1
    <3> HIDE DEF row
    <3> QED
      BY <3>2
  <2>2. CASE ~LogExport(r)
    <3>1. PICK x \in logged["exports"] : x.id = r /\ x.at >= asked[r]
      BY <1>4, <1>5, <2>2
    <3>2. asked'[r] = asked[r] /\ asked[r] \in 0 .. now /\ x.at \in 0 .. now
      BY <1>4, <1>5, <2>2 DEF LoggedIsTrue, Tables
    <3>3. x \in logged'["exports"]
      <4>1. CASE PruneOne
        <5>1. x.at >= now - Keep["exports"]
          BY <1>3, <1>5, <1>t, <3>1, <3>2
        <5> QED
          BY <4>1, <5>1, <1>t DEF PruneOne, Tables
      <4>2. CASE \E q \in Exports : LogExport(q)
        BY <4>2, <1>t DEF LogExport, Tables
      <4>3. CASE CommitAreas
        BY <4>3, <1>t DEF CommitAreas, Tables
      <4> QED
        BY <4>1, <4>2, <4>3, LogSteps
    <3> QED
      BY <3>1, <3>2, <3>3
  <2> QED
    BY <2>1, <2>2
<1>6. ASSUME NEW n \in DOMAIN refreshes' PROVE Area(n)'
  <2>1. CASE UNCHANGED <<logged, refreshes>>
    <3>1. n \in DOMAIN refreshes /\ refreshes'[n] = refreshes[n]
      BY <1>6, <2>1
    <3>2. refreshes[n].began \in Nat
      BY <3>1, RefreshTimes
    <3>3. ASSUME refreshes[n].began >= now' - Keep["areas"]
          PROVE  \E x \in logged["areas"] : x.id = n /\ x.at = refreshes[n].began
      <4>1. Keep["areas"] \in Nat
        BY <1>t
      <4>2. refreshes[n].began >= now - Keep["areas"]
        BY <1>n, <1>3, <3>2, <3>3, <4>1, LaterIsWithin
      <4> QED
        BY <1>k, <3>1, <4>2
    <3> QED
      BY <2>1, <3>1, <3>3
  <2>2. CASE \E q \in Exports : LogExport(q)
    <3>1. UNCHANGED <<now, refreshes>> /\ logged'["areas"] = logged["areas"]
      BY <2>2, <1>t DEF LogExport, refresh, Tables
    <3> QED
      BY <1>6, <1>k, <3>1
  <2>3. CASE CommitAreas
    <3> DEFINE area == [id |-> Len(refreshes) + 1, at |-> applying, count |-> 1]
    <3> DEFINE done == [began |-> applying, committed |-> now]
    <3>1. /\ now' = now /\ refreshes' = Append(refreshes, done)
          /\ done \in [began : Nat, committed : Nat] /\ done.began = applying
          /\ logged'["areas"] = logged["areas"] \cup {area}
      BY <2>3, <1>t DEF CommitAreas, Tables, ActivityTypes
    <3>2. /\ n \in 1 .. Len(refreshes) + 1
          /\ n = Len(refreshes) + 1 => refreshes'[n] = done
          /\ n # Len(refreshes) + 1 => n \in DOMAIN refreshes /\ refreshes'[n] = refreshes[n]
      BY <1>6, <1>t, <3>1
    <3>3. CASE n = Len(refreshes) + 1
      <4>1. area \in logged'["areas"] /\ area.id = n /\ area.at = refreshes'[n].began
        BY <3>1, <3>2, <3>3
      <4> QED
        BY <4>1
    <3>4. CASE n # Len(refreshes) + 1
      BY <1>k, <3>1, <3>2, <3>4
    <3> QED
      BY <3>3, <3>4
  <2>4. CASE PruneOne
    <3>1. UNCHANGED <<now, refreshes>> /\ \A x \in logged["areas"] :
            x.at >= now - Keep["areas"] => x \in logged'["areas"]
      BY <2>4, <1>t DEF PruneOne, refresh, Tables
    <3>2. ASSUME refreshes'[n].began >= now' - Keep["areas"]
          PROVE  \E x \in logged'["areas"] : x.id = n /\ x.at = refreshes'[n].began
      <4>1. PICK x \in logged["areas"] : x.id = n /\ x.at = refreshes[n].began
        BY <1>6, <1>k, <3>1, <3>2
      <4> QED
        BY <3>1, <3>2, <4>1
    <3> QED
      BY <3>2
  <2> QED
    BY <2>1, <2>2, <2>3, <2>4, LogSteps
<1> QED
  BY <1>5, <1>6 DEF KeptInLog

\* Only a reader makes a page.
LEMMA LookOrSame ==
  ASSUME [ActivityNext]_activityVars
  PROVE  \/ LookAtExports \/ TileFromCache \/ UNCHANGED page
         \/ \E e \in rendering : FinishTile(e) /\ page' = PageOf("areas", e.rows, now - e.began)
<1>1. ASSUME NEW r \in Exports,
             \/ Ask(r) \/ Refuse(r) \/ Build(r) \/ LogExport(r) \/ LogFails(r)
             \/ HandOut(r) \/ ExportFails(r)
      PROVE  UNCHANGED page
  BY <1>1 DEF Ask, Refuse, Build, LogExport, LogFails, HandOut, ExportFails
<1>2. ASSUME NEW e \in rendering, FinishTile(e) \/ FailTile(e)
      PROVE  \/ UNCHANGED page
             \/ FinishTile(e) /\ page' = PageOf("areas", e.rows, now - e.began)
  BY <1>2 DEF FinishTile, FailTile
<1> QED
  BY <1>1, <1>2 DEF ActivityNext, Pass, BeginApply, CommitAreas, RollBackAreas, StartPrune,
                    PruneOne, PruneOneFails, RenderTile, DropCached, activityVars

\* A later refresh was committed later than what was read.
LEMMA ReadForGood ==
  ASSUME ActivityTypes, [ActivityNext]_activityVars,
         NEW seen, NEW then \in 0 .. now, ReadThen(seen, then)
  PROVE  ReadThen(seen, then)'
<1>1. ASSUME refreshes' = refreshes PROVE ReadThen(seen, then)'
  BY <1>1 DEF ReadThen, Shorter
<1>2. CASE CommitAreas
  <2> DEFINE done == [began |-> applying, committed |-> now]
  <2>1. /\ refreshes \in Seq([began : Nat, committed : Nat]) /\ now \in Nat
        /\ refreshes' = Append(refreshes, done)
    BY <1>2 DEF CommitAreas, ActivityTypes
  <2>2. done \in [began : Nat, committed : Nat] /\ ~(done.committed < then)
    BY <1>2, <2>1 DEF CommitAreas, ActivityTypes
  <2> HIDE DEF done
  <2>3. \A n \in DOMAIN refreshes' :
          \/ n \in DOMAIN refreshes /\ refreshes'[n] = refreshes[n]
          \/ refreshes'[n] = done
    BY <2>1, <2>2, AppendProperties
  <2> QED
    BY <2>2, <2>3 DEF ReadThen, Shorter
<1>3. refreshes' = refreshes \/ CommitAreas
  <2>1. ASSUME NEW r \in Exports, LogExport(r) PROVE refreshes' = refreshes
    BY <2>1 DEF LogExport, refresh
  <2>2. ASSUME PruneOne PROVE refreshes' = refreshes
    BY <2>2 DEF PruneOne, refresh
  <2> QED
    BY <2>1, <2>2, LogSteps
<1> QED
  BY <1>1, <1>2, <1>3

\* A render reads what the log holds, and takes that to the cache.
LEMMA RenderStep ==
  ActivityInv /\ [ActivityNext]_activityVars => RendersAreTrue'
<1> SUFFICES ASSUME ActivityInv, [ActivityNext]_activityVars PROVE RendersAreTrue'
  OBVIOUS
<1>t. ActivityTypes /\ LoggedIsTrue /\ KeptInLog /\ RendersAreTrue
  BY DEF ActivityInv
<1>n. /\ now \in Nat /\ now' \in Nat /\ now' >= now
      /\ Window["areas"] \in Nat /\ Keep["areas"] \in Nat
  <2>1. now \in Nat /\ now' \in Nat
    BY <1>t, ActivityTypesStep DEF ActivityTypes
  <2>2. ASSUME NEW r \in Exports, LogExport(r) PROVE now' = now
    BY <2>2 DEF LogExport
  <2>3. now' >= now
    BY <1>t, <2>1, <2>2, LogSteps DEF CommitAreas, PruneOne
  <2> QED
    BY <2>1, <2>3, WindowsAssumption DEF Tables
<1>1. \A e \in rendering : e.began \in 0 .. now' /\ ReadThen(e.rows, e.began)'
  <2> SUFFICES ASSUME NEW e \in rendering
               PROVE  e.began \in 0 .. now' /\ ReadThen(e.rows, e.began)'
    OBVIOUS
  <2>1. e.began \in 0 .. now /\ ReadThen(e.rows, e.began)
    BY <1>t DEF RendersAreTrue
  <2> DEFINE seen == e.rows
             then == e.began
  <2>2. seen' = seen /\ then' = then
    OBVIOUS
  <2> HIDE DEF seen, then
  <2>3. ReadThen(seen, then)'
    BY <1>t, <2>1, <2>2, ReadForGood DEF seen, then
  <2> QED
    BY <1>n, <2>1, <2>3 DEF seen, then
<1>2. ReadThen(Recent("areas"), now)
  <2>1. \A x \in Recent("areas") : x.at \in now - Window["areas"] .. now
    BY <1>t, <1>n DEF Recent, LoggedIsTrue, Tables
  <2>2. ASSUME NEW n \in DOMAIN refreshes, refreshes[n].began >= now - Shorter("areas")
        PROVE  \E x \in Recent("areas") : x.id = n
    <3>1. refreshes[n].began \in Nat
      BY <1>t, RefreshTimes
    <3>2. /\ refreshes[n].began >= now - Keep["areas"]
          /\ refreshes[n].began >= now - Window["areas"]
      BY <1>n, <2>2, <3>1 DEF Shorter
    <3>3. PICK x \in logged["areas"] : x.id = n /\ x.at = refreshes[n].began
      BY <1>t, <3>2 DEF KeptInLog
    <3> QED
      BY <3>2, <3>3 DEF Recent
  <2> QED
    BY <2>1, <2>2 DEF ReadThen
<1>3. \A c : c = cached /\ c # Never =>
        /\ c.inserted \in 0 .. now' /\ c.took \in 0 .. c.inserted
        /\ ReadThen(c.rows, c.inserted - c.took)'
  <2> SUFFICES ASSUME NEW c, c = cached, c # Never
               PROVE  /\ c.inserted \in 0 .. now' /\ c.took \in 0 .. c.inserted
                      /\ ReadThen(c.rows, c.inserted - c.took)'
    OBVIOUS
  <2> DEFINE seen == c.rows
             then == c.inserted - c.took
  <2>1. c.inserted \in 0 .. now /\ c.took \in 0 .. c.inserted /\ ReadThen(seen, then)
    BY <1>t DEF RendersAreTrue
  <2>2. then \in 0 .. now
    BY <1>n, <2>1
  <2> HIDE DEF seen, then
  <2>3. ReadThen(seen, then)'
    BY <1>t, <2>1, <2>2, ReadForGood DEF seen, then
  <2> QED
    BY <1>n, <2>1, <2>3 DEF seen, then
<1>4. ASSUME NEW e \in rendering, FinishTile(e) PROVE RendersAreTrue'
  <2>1. /\ rendering' \subseteq rendering /\ UNCHANGED now
        /\ cached' = [rows |-> e.rows, inserted |-> now, took |-> now - e.began]
    BY <1>4 DEF FinishTile
  <2>2. /\ cached'.rows = e.rows /\ cached'.inserted = now /\ cached'.took = now - e.began
        /\ e.began \in 0 .. now /\ ReadThen(e.rows, e.began)'
    BY <1>1, <2>1
  <2>3. cached'.inserted - cached'.took = e.began
    BY <1>n, <2>2
  <2>4. cached'.inserted \in 0 .. now' /\ cached'.took \in 0 .. cached'.inserted
    BY <1>n, <2>1, <2>2
  <2>5. ReadThen(cached.rows, cached.inserted - cached.took)'
    BY <2>2, <2>3 DEF ReadThen
  <2> QED
    BY <1>1, <2>1, <2>4, <2>5 DEF RendersAreTrue
<1>5. CASE RenderTile
  <2>1. ReadThen(Recent("areas"), now)'
        <=> ReadThen(Recent("areas"), now)
    BY <1>5 DEF RenderTile, ReadThen, Recent, refresh, Shorter
  <2> DEFINE new == [began |-> now, rows |-> Recent("areas")]
  <2>2. /\ rendering' = rendering \cup {new} /\ UNCHANGED <<now, refreshes, cached>>
        /\ new.began = now /\ new.rows = Recent("areas")
    BY <1>5 DEF RenderTile, refresh
  <2> HIDE DEF new
  <2>3. new.began \in 0 .. now /\ ReadThen(new.rows, new.began)
    BY <1>2, <1>n, <2>2
  <2>4. \A e \in rendering' : e.began \in 0 .. now' /\ ReadThen(e.rows, e.began)'
    <3>1. \A e \in rendering' : e.began \in 0 .. now /\ ReadThen(e.rows, e.began)
      BY <1>t, <2>2, <2>3 DEF RendersAreTrue
    <3> QED
      BY <2>2, <3>1 DEF ReadThen
  <2> QED
    BY <1>3, <2>2, <2>4 DEF RendersAreTrue, ReadThen
<1>6. ASSUME rendering' \subseteq rendering, cached' = Never PROVE RendersAreTrue'
  BY <1>1, <1>6 DEF RendersAreTrue
<1>7. ASSUME rendering' \subseteq rendering, UNCHANGED cached PROVE RendersAreTrue'
  <2>1. cached' # Never =>
          /\ cached'.inserted \in 0 .. now' /\ cached'.took \in 0 .. cached'.inserted
          /\ ReadThen(cached.rows, cached.inserted - cached.took)'
    BY <1>3, <1>7 DEF ReadThen
  <2> QED
    BY <1>1, <1>7, <2>1 DEF RendersAreTrue
<1>8. \/ \E e \in rendering : FinishTile(e)
      \/ RenderTile
      \/ rendering' \subseteq rendering /\ (cached' = Never \/ UNCHANGED cached)
  <2>1. ASSUME NEW r \in Exports,
               \/ Ask(r) \/ Refuse(r) \/ Build(r) \/ LogExport(r) \/ LogFails(r)
               \/ HandOut(r) \/ ExportFails(r)
        PROVE  UNCHANGED tileState
    BY <2>1 DEF Ask, Refuse, Build, LogExport, LogFails, HandOut, ExportFails
  <2>2. ASSUME NEW e \in rendering, FailTile(e)
        PROVE  rendering' \subseteq rendering /\ UNCHANGED cached
    BY <2>2 DEF FailTile
  <2>3. ASSUME DropCached PROVE UNCHANGED rendering /\ cached' = Never
    BY <2>3 DEF DropCached
  <2>4. UNCHANGED tileState => rendering' \subseteq rendering /\ UNCHANGED cached
    BY DEF tileState
  <2> QED
    BY <2>1, <2>2, <2>3, <2>4
    DEF ActivityNext, Pass, BeginApply, CommitAreas, RollBackAreas, StartPrune, PruneOne,
        PruneOneFails, LookAtExports, TileFromCache, activityVars
<1> QED
  BY <1>4, <1>5, <1>6, <1>7, <1>8

\* Whose exports a page shows: they were sent before it was made.
LEMMA PageStep ==
  ActivityInv /\ [ActivityNext]_activityVars => PageIsSettled'
<1> SUFFICES ASSUME ActivityInv, [ActivityNext]_activityVars PROVE PageIsSettled'
  OBVIOUS
<1>t. ActivityTypes /\ LoggedIsTrue /\ PageIsSettled
  BY DEF ActivityInv
<1>1. ASSUME UNCHANGED page PROVE PageIsSettled'
  BY <1>1, <1>t, SentForGood DEF PageIsSettled
<1>2. CASE LookAtExports
  <2>1. page'.of = "exports" /\ page'.shown \subseteq logged["exports"]
    BY <1>2 DEF LookAtExports, PageOf, Recent
  <2>2. \A x \in logged["exports"] : x.id \in Exports /\ Sent(x.id)'
    BY <1>t, SentForGood DEF LoggedIsTrue
  <2> QED
    BY <2>1, <2>2 DEF PageIsSettled, Tables
<1>3. ASSUME NEW seen, NEW lag, page' = PageOf("areas", seen, lag) PROVE PageIsSettled'
  BY <1>3 DEF PageOf, PageIsSettled, Tables
<1> QED
  BY <1>1, <1>2, <1>3, LookOrSame DEF TileFromCache

\* A tile that was read not longer than its lag ago shows what it owes.
LEMMA TileShows ==
  ASSUME ActivityTypes, NEW seen, NEW then \in 0 .. now, NEW lag \in Int,
         now - lag <= then, ReadThen(seen, then), page' = PageOf("areas", seen, lag)
  PROVE  RefreshesShown'
<1>n. now \in Nat /\ Window["areas"] \in Nat /\ Shorter("areas") \in Nat
  BY WindowsAssumption DEF ActivityTypes, Shorter, Tables
<1>1. /\ page'.at = now /\ page'.lag = lag /\ page'.shown = seen
      /\ page'.owed = Owed("areas", lag)
  BY DEF PageOf
<1>2. ASSUME NEW n \in Owed("areas", lag) PROVE \E x \in seen : x.id = n
  <2>1. /\ n \in DOMAIN refreshes /\ refreshes[n].began >= now - Shorter("areas")
        /\ refreshes[n].committed < now - lag
    BY <1>2 DEF Owed
  <2>2. refreshes[n].began \in Nat /\ refreshes[n].committed \in Nat
    BY <2>1, RefreshTimes
  <2>3. refreshes[n].began >= then - Shorter("areas") /\ refreshes[n].committed < then
    BY <1>n, <2>1, <2>2
  <2> QED
    BY <2>1, <2>3 DEF ReadThen
<1>3. \A x \in seen : x.at \in now - Window["areas"] - lag .. now
  BY <1>n DEF ReadThen
<1> QED
  BY <1>1, <1>2, <1>3 DEF RefreshesShown

\* A page stays right while it lies in a browser; one that is made now finds all
\* it owes in the log or in a tile that is as old as it says.
LEMMA ShownStep ==
  ActivityInv /\ [ActivityNext]_activityVars => ExportsShown' /\ RefreshesShown'
<1> SUFFICES ASSUME ActivityInv, [ActivityNext]_activityVars
             PROVE  ExportsShown' /\ RefreshesShown'
  OBVIOUS
<1>t. /\ ActivityTypes /\ LoggedIsTrue /\ KeptInLog /\ RendersAreTrue
      /\ PageIsSettled /\ ExportsShown /\ RefreshesShown
  BY DEF ActivityInv
<1>n. /\ now \in Nat /\ Window["exports"] \in Nat /\ Keep["exports"] \in Nat
      /\ Window["areas"] \in Nat /\ Ttl \in Nat
  BY <1>t, WindowsAssumption, TtlAssumption DEF ActivityTypes, Tables
<1>1. ASSUME UNCHANGED page PROVE ExportsShown' /\ RefreshesShown'
  <2>1. ExportsShown'
    BY <1>1, <1>t, SentForGood DEF PageIsSettled, ExportsShown
  <2>2. RefreshesShown'
    BY <1>1, <1>t DEF RefreshesShown
  <2> QED
    BY <2>1, <2>2
<1>2. CASE LookAtExports
  <2>1. /\ page'.of = "exports" /\ page'.at = now /\ page'.shown = Recent("exports")
        /\ page'.owed = Owed("exports", 0) /\ UNCHANGED <<now, got>>
    BY <1>2 DEF LookAtExports, PageOf, requests
  <2>2. \A x \in Recent("exports") :
          x.at \in now - Window["exports"] .. now /\ x.count = got[x.id]
    BY <1>t, <1>n DEF Recent, LoggedIsTrue, Tables
  <2>3. ASSUME NEW r \in Owed("exports", 0) PROVE \E x \in Recent("exports") : x.id = r
    <3>1. /\ r \in Exports \ unlogged /\ step[r] = "answered"
          /\ asked[r] >= now - Shorter("exports")
          /\ via[r] = "package" \/ got[r] > 0
      BY <2>3 DEF Owed
    <3>2. asked[r] \in 0 .. now
      BY <1>t, <3>1 DEF ActivityTypes, Going
    <3>3. asked[r] >= now - Window["exports"] /\ asked[r] >= now - Keep["exports"]
      BY <1>n, <3>1, <3>2 DEF Shorter
    <3>4. PICK x \in logged["exports"] : x.id = r /\ x.at >= asked[r]
      BY <1>t, <3>1, <3>3 DEF KeptInLog, Sent
    <3>5. x.at \in 0 .. now
      BY <1>t, <3>4 DEF LoggedIsTrue, Tables
    <3> QED
      BY <1>n, <3>2, <3>3, <3>4, <3>5 DEF Recent
  <2>4. page'.owed \subseteq {x.id : x \in page'.shown}
    BY <2>1, <2>3
  <2>5. \A x \in page'.shown :
          x.at \in page'.at - Window["exports"] .. page'.at /\ x.count = got'[x.id]
    BY <2>1, <2>2
  <2> QED
    BY <2>1, <2>4, <2>5 DEF ExportsShown, RefreshesShown
<1>3. ASSUME NEW seen, NEW then \in 0 .. now, NEW lag \in Int, now - lag <= then,
             ReadThen(seen, then), page' = PageOf("areas", seen, lag)
      PROVE  ExportsShown' /\ RefreshesShown'
  <2>1. RefreshesShown'
    BY <1>3, <1>t, TileShows
  <2>2. page'.of = "areas"
    BY <1>3 DEF PageOf
  <2> QED
    BY <2>1, <2>2 DEF ExportsShown
<1>4. CASE TileFromCache
  <2> DEFINE seen == cached.rows
             then == cached.inserted - cached.took
             lag == cached.took + Ttl - 1
  <2>1. /\ cached.inserted \in 0 .. now /\ cached.took \in 0 .. cached.inserted
        /\ ReadThen(seen, then) /\ now - cached.inserted < Ttl
        /\ page' = PageOf("areas", seen, lag)
    BY <1>4, <1>t DEF TileFromCache, InCache, RendersAreTrue
  <2>2. then \in 0 .. now /\ lag \in Int /\ now - lag <= then
    BY <1>n, <2>1
  <2> HIDE DEF seen, then, lag
  <2> QED
    BY <1>3, <2>1, <2>2
<1>5. ASSUME NEW e \in rendering, FinishTile(e), page' = PageOf("areas", e.rows, now - e.began)
      PROVE  ExportsShown' /\ RefreshesShown'
  <2>1. e.began \in 0 .. now /\ ReadThen(e.rows, e.began)
    BY <1>t DEF RendersAreTrue
  <2>2. now - e.began \in Int /\ now - (now - e.began) <= e.began
    BY <1>n, <2>1
  <2> QED
    BY <1>3, <1>5, <2>1, <2>2
<1> QED
  BY <1>1, <1>2, <1>4, <1>5, LookOrSame

\* For any windows, retentions and ages: whoever reads the exports finds each one
\* handed out within the window and the retention, and whoever gets a tile each
\* refresh of them that was committed before the tile was read, which is no longer
\* ago than a render and a TTL; whatever the prune, the failures, the renders, the
\* evictions and the browsers do.
THEOREM WindowsAreWhole ==
  ActivityInit /\ [][ActivityNext]_activityVars => []WindowsShown
<1>1. ActivityInv /\ [ActivityNext]_activityVars => ActivityInv'
  BY ActivityTypesStep, LoggedStep, KeptStep, RenderStep, PageStep, ShownStep DEF ActivityInv
<1>2. ActivityInv => WindowsShown
  BY DEF ActivityInv, WindowsShown
<1> QED
  BY ActivityInitInv, <1>1, <1>2, PTL

-------------------------------------------------------------------------------
(* The commands: their programs                                            *)

Ops ==
  {"dropOsm", "clearStore", "load", "index", "unstamp", "stamp", "drop", "create", "finish",
   "begin", "write", "count", "commit", "updateOsm", "update", "updateFile", "enqueue",
   "drain", "warm", "serve", "clearTiles"}
Steps == [op : Ops, src : Sources \cup {Absent}]
\* A step that is only ever taken after another one, of the same source.
After ==
  {<<"dropOsm", "clearStore">>, <<"clearStore", "load">>, <<"load", "index">>,
   <<"index", "unstamp">>, <<"unstamp", "stamp">>,
   <<"drop", "create">>, <<"create", "finish">>,
   <<"begin", "write">>, <<"write", "count">>, <<"count", "commit">>}
Inner == {"clearStore", "load", "index", "unstamp", "stamp", "create", "finish", "write",
          "count", "commit"}
OfSource == {"drop", "create", "finish", "begin", "write", "count", "commit", "update",
             "updateFile", "enqueue"}
\* The steps that change what the tile shows and leave it no row.
Unmarked == {"drop", "create", "finish", "commit"}

\* What is left of a program.
Legal(p) ==
  /\ p \in Seq(Steps)
  /\ \A i \in 1 .. Len(p) : p[i].op \in OfSource => p[i].src \in Sources
  /\ \A i \in 1 .. Len(p) : \A j \in 1 .. Len(p) :
       j = i + 1 /\ p[j].op \in Inner => <<p[i].op, p[j].op>> \in After /\ p[i].src = p[j].src
  /\ \A i \in 1 .. Len(p) : p[i].op = "unstamp" => i < Len(p) /\ p[i + 1].op = "stamp"
Opens(p) == p # <<>> => p[1].op \notin Inner
Program(p) == Legal(p) /\ Opens(p)
Marks(p) == \A i \in 1 .. Len(p) : p[i].op \in Unmarked => p[Len(p)].op = "clearTiles"

\* A program may follow another.
LEMMA ProgramsInARow ==
  ASSUME NEW p, NEW q, Program(p), Program(q)
  PROVE  Program(p \o q)
<1>t. p \in Seq(Steps) /\ q \in Seq(Steps)
  BY DEF Program, Legal
<1>1. /\ p \o q \in Seq(Steps) /\ Len(p \o q) = Len(p) + Len(q)
      /\ \A i \in 1 .. Len(p) + Len(q) :
           (p \o q)[i] = IF i <= Len(p) THEN p[i] ELSE q[i - Len(p)]
  BY <1>t
<1>n. Len(p) \in Nat /\ Len(q) \in Nat
  BY <1>t
<1> DEFINE r == p \o q
<1> HIDE DEF r
<1>r. /\ Len(r) = Len(p) + Len(q)
      /\ \A i \in 1 .. Len(p) : r[i] = p[i]
      /\ \A i \in 1 .. Len(r) : i > Len(p) => i - Len(p) \in 1 .. Len(q) /\ r[i] = q[i - Len(p)]
  BY <1>1, <1>n DEF r
<1>2. ASSUME NEW i \in 1 .. Len(r), r[i].op \in OfSource PROVE r[i].src \in Sources
  <2>1. CASE i <= Len(p)
    <3>1. i \in 1 .. Len(p) /\ r[i] = p[i]
      BY <2>1, <1>r, <1>n
    <3> QED
      BY <1>2, <3>1 DEF Program, Legal
  <2>2. CASE i > Len(p)
    <3>1. i - Len(p) \in 1 .. Len(q) /\ r[i] = q[i - Len(p)]
      BY <2>2, <1>r, <1>n
    <3> QED
      BY <1>2, <3>1 DEF Program, Legal
  <2> QED
    BY <2>1, <2>2, <1>n
<1>3. ASSUME NEW i \in 1 .. Len(r), NEW j \in 1 .. Len(r), j = i + 1, r[j].op \in Inner
      PROVE  <<r[i].op, r[j].op>> \in After /\ r[i].src = r[j].src
  <2>1. CASE j <= Len(p)
    <3>1. i \in 1 .. Len(p) /\ j \in 1 .. Len(p)
      BY <1>3, <2>1, <1>r, <1>n
    <3>2. r[i] = p[i] /\ r[j] = p[j]
      BY <3>1, <1>r
    <3> QED
      BY <1>3, <3>1, <3>2 DEF Program, Legal
  <2>2. CASE i > Len(p)
    <3>1. i - Len(p) \in 1 .. Len(q) /\ j - Len(p) \in 1 .. Len(q) /\ j - Len(p) = i - Len(p) + 1
      BY <1>3, <2>2, <1>r, <1>n
    <3>2. r[i] = q[i - Len(p)] /\ r[j] = q[j - Len(p)]
      BY <1>3, <2>2, <1>r, <1>n
    <3> QED
      BY <1>3, <3>1, <3>2 DEF Program, Legal
  <2>3. CASE j = Len(p) + 1
    <3>1. r[j] = q[1] /\ q # <<>>
      BY <1>3, <2>3, <1>r, <1>n
    <3> QED
      BY <1>3, <3>1 DEF Program, Opens
  <2> QED
    BY <1>3, <1>n, <2>1, <2>2, <2>3
<1>4. ASSUME NEW i \in 1 .. Len(r), r[i].op = "unstamp"
      PROVE  i < Len(r) /\ r[i + 1].op = "stamp"
  <2>1. CASE i <= Len(p)
    <3>1. i < Len(p) /\ p[i + 1].op = "stamp"
      BY <1>4, <2>1, <1>r, <1>n DEF Program, Legal
    <3>2. i + 1 \in 1 .. Len(p)
      BY <3>1, <1>n
    <3> QED
      BY <3>1, <3>2, <1>r, <1>n
  <2>2. CASE i > Len(p)
    <3> DEFINE k == i - Len(p)
    <3>1. k \in 1 .. Len(q) /\ q[k].op = "unstamp"
      BY <1>4, <2>2, <1>r, <1>n
    <3>2. k < Len(q) /\ q[k + 1].op = "stamp"
      BY <3>1 DEF Program, Legal
    <3>3. i + 1 \in 1 .. Len(r) /\ i + 1 > Len(p) /\ (i + 1) - Len(p) = k + 1
      BY <2>2, <3>2, <1>r, <1>n
    <3> QED
      BY <3>2, <3>3, <1>r, <1>n
  <2> QED
    BY <2>1, <2>2, <1>n
<1>5. Opens(r)
  <2>1. CASE p = <<>>
    BY <2>1, <1>r, <1>1, <1>n DEF Program, Opens, r
  <2>2. CASE p # <<>>
    BY <2>2, <1>t, <1>r, <1>n DEF Program, Opens
  <2> QED
    BY <2>1, <2>2
<1> QED
  BY <1>1, <1>2, <1>3, <1>4, <1>5 DEF Program, Legal, r

\* A step is one, and has its parts.
LEMMA StepParts ==
  \A op \in Ops, s \in Sources \cup {Absent} :
    Step(op, s) \in Steps /\ Step(op, s).op = op /\ Step(op, s).src = s
BY DEF Step, Steps
\* A function on the first n numbers is a sequence of n steps.
LEMMA SeqOfSteps ==
  ASSUME NEW n \in Nat, NEW p \in [1 .. n -> Steps]
  PROVE  p \in Seq(Steps) /\ Len(p) = n
OBVIOUS

\* A program of one step.
LEMMA OneStep ==
  ASSUME NEW op \in Ops, NEW s \in Sources \cup {Absent},
         op \notin Inner, op \in OfSource => s \in Sources
  PROVE  Program(<<Step(op, s)>>)
<1> DEFINE p == <<Step(op, s)>>
<1>1. p \in Seq(Steps) /\ Len(p) = 1 /\ p[1].op = op /\ p[1].src = s
  BY DEF Step, Steps
<1>2. op # "unstamp"
  BY DEF Inner
<1> HIDE DEF p
<1>3. Program(p)
  BY <1>1, <1>2 DEF Program, Legal, Opens
<1> QED
  BY <1>3 DEF p

\* The steps of an OSM import.
LEMMA ImportOsmProgram == Program(ImportOsm)
<1> DEFINE ops == <<"dropOsm", "clearStore", "load", "index", "unstamp", "stamp">>
           p == ImportOsm
<1>1. Len(ops) = 6 /\ \A i \in 1 .. 6 : ops[i] \in Ops
  BY DEF Ops
<1>2. p = [i \in 1 .. 6 |-> Step(ops[i], Absent)]
  BY <1>1 DEF ImportOsm, Plain
<1>3. \A i \in 1 .. 6 : p[i] \in Steps /\ p[i].op = ops[i] /\ p[i].src = Absent
  BY <1>1, <1>2, StepParts
<1>4. p \in Seq(Steps) /\ Len(p) = 6
  <2>1. p \in [1 .. 6 -> Steps]
    BY <1>2, <1>3
  <2> QED
    BY <2>1, SeqOfSteps
<1>5. /\ p[1].op = "dropOsm" /\ p[2].op = "clearStore" /\ p[3].op = "load"
      /\ p[4].op = "index" /\ p[5].op = "unstamp" /\ p[6].op = "stamp"
  BY <1>3
<1> HIDE DEF p, ops
<1>6. \A i \in 1 .. 6 : p[i].op \notin OfSource
  BY <1>5 DEF OfSource
<1>7. \A i \in 1 .. 5 : <<p[i].op, p[i + 1].op>> \in After
  BY <1>5 DEF After
<1>8. \A i \in 1 .. 6 : p[i].op = "unstamp" => i = 5
  BY <1>5
<1>9. Legal(p)
  BY <1>3, <1>4, <1>5, <1>6, <1>7, <1>8 DEF Legal
<1>10. Opens(p)
  BY <1>5 DEF Opens, Inner
<1> QED
  BY <1>9, <1>10 DEF Program, p

\* Of one source: its import, its comparison.
LEMMA ImportSourceProgram == \A s \in Sources : Program(ImportSource(s))
<1> SUFFICES ASSUME NEW s \in Sources PROVE Program(ImportSource(s))
  OBVIOUS
<1> DEFINE p == <<Step("drop", s), Step("create", s), Step("finish", s)>>
<1>0. Step("drop", s) \in Steps /\ Step("create", s) \in Steps /\ Step("finish", s) \in Steps
  BY StepParts DEF Ops
<1>1. p \in Seq(Steps) /\ Len(p) = 3
  BY <1>0
<1>2. /\ p[1].op = "drop" /\ p[2].op = "create" /\ p[3].op = "finish"
      /\ \A i \in 1 .. 3 : p[i].src = s
  BY DEF Step
<1> HIDE DEF p
<1>3. Legal(p) /\ Opens(p)
  BY <1>1, <1>2 DEF Legal, Opens, After, Inner
<1> QED
  BY <1>3 DEF Program, ImportSource, p

\* Comparing one source: begin, write, count, commit.
LEMMA CompareSourceProgram == \A s \in Sources : Program(CompareSource(s))
<1> SUFFICES ASSUME NEW s \in Sources PROVE Program(CompareSource(s))
  OBVIOUS
<1> DEFINE p == <<Step("begin", s), Step("write", s), Step("count", s), Step("commit", s)>>
<1>0. /\ Step("begin", s) \in Steps /\ Step("write", s) \in Steps
      /\ Step("count", s) \in Steps /\ Step("commit", s) \in Steps
  BY StepParts DEF Ops
<1>1. p \in Seq(Steps) /\ Len(p) = 4
  BY <1>0
<1>2. /\ p[1].op = "begin" /\ p[2].op = "write" /\ p[3].op = "count" /\ p[4].op = "commit"
      /\ \A i \in 1 .. 4 : p[i].src = s
  BY DEF Step
<1> HIDE DEF p
<1>3. Legal(p) /\ Opens(p)
  BY <1>1, <1>2 DEF Legal, Opens, After, Inner
<1> QED
  BY <1>3 DEF Program, CompareSource, p

\* One source after another: each place of ForEach is a place in one source's
\* program, and the next place is the next one in it or the first of another.
LEMMA ImportSources == Program(ForEach(3, ImportSource))
<1> DEFINE r == ForEach(3, ImportSource)
           k(i) == (i - 1) \div 3 + 1
           m(i) == ((i - 1) % 3) + 1
<1>n. Len(Order) \in Nat
  BY SourcesAssumption
<1>o. \A n \in 1 .. Len(Order) : Order[n] \in Sources
  BY SourcesAssumption
<1>k. ASSUME NEW i \in 1 .. 3 * Len(Order)
      PROVE  k(i) \in 1 .. Len(Order) /\ m(i) \in 1 .. 3
  BY <1>n
<1>1. r = [i \in 1 .. 3 * Len(Order) |-> ImportSource(Order[k(i)])[m(i)]]
  BY DEF ForEach
<1>s. \A s \in Sources :
        /\ ImportSource(s)[1] = Step("drop", s) /\ ImportSource(s)[2] = Step("create", s)
        /\ ImportSource(s)[3] = Step("finish", s)
  BY DEF ImportSource
<1>2. \A i \in 1 .. 3 * Len(Order) :
        /\ Order[k(i)] \in Sources /\ m(i) \in 1 .. 3
        /\ m(i) = 1 => r[i] = Step("drop", Order[k(i)])
        /\ m(i) = 2 => r[i] = Step("create", Order[k(i)])
        /\ m(i) = 3 => r[i] = Step("finish", Order[k(i)])
  <2> SUFFICES ASSUME NEW i \in 1 .. 3 * Len(Order)
               PROVE  /\ Order[k(i)] \in Sources /\ m(i) \in 1 .. 3
                      /\ m(i) = 1 => r[i] = Step("drop", Order[k(i)])
                      /\ m(i) = 2 => r[i] = Step("create", Order[k(i)])
                      /\ m(i) = 3 => r[i] = Step("finish", Order[k(i)])
    OBVIOUS
  <2>1. k(i) \in 1 .. Len(Order) /\ m(i) \in 1 .. 3
    BY <1>k
  <2>2. r[i] = ImportSource(Order[k(i)])[m(i)]
    BY <1>1
  <2> HIDE DEF r, k, m
  <2>3. Order[k(i)] \in Sources
    BY <1>o, <2>1
  <2> QED
    BY <1>s, <2>1, <2>2, <2>3
<1>3. \A i \in 1 .. 3 * Len(Order) :
        /\ r[i] \in Steps /\ r[i].src = Order[k(i)] /\ r[i].src \in Sources
        /\ m(i) = 1 => r[i].op = "drop"
        /\ m(i) = 2 => r[i].op = "create"
        /\ m(i) = 3 => r[i].op = "finish"
  <2> SUFFICES ASSUME NEW i \in 1 .. 3 * Len(Order)
               PROVE  /\ r[i] \in Steps /\ r[i].src = Order[k(i)] /\ r[i].src \in Sources
                      /\ m(i) = 1 => r[i].op = "drop"
                      /\ m(i) = 2 => r[i].op = "create"
                      /\ m(i) = 3 => r[i].op = "finish"
    OBVIOUS
  <2> HIDE DEF r, k, m
  <2>1. m(i) = 1 \/ m(i) = 2 \/ m(i) = 3
    BY <1>2
  <2>2. QED
    <3>1. Order[k(i)] \in Sources
      BY <1>2
    <3>2. \A op \in Ops : /\ Step(op, Order[k(i)]) \in Steps
                             /\ Step(op, Order[k(i)]).op = op
                             /\ Step(op, Order[k(i)]).src = Order[k(i)]
      BY <3>1, StepParts
    <3> QED
      BY <1>2, <2>1, <3>1, <3>2 DEF Ops
<1>4. \A i \in 1 .. 3 * Len(Order) :
        /\ m(i + 1) # 1 => k(i) = k(i + 1) /\ m(i + 1) = m(i) + 1
        /\ m(i) # 3 => i + 1 <= 3 * Len(Order)
  BY <1>n
<1>5. r \in Seq(Steps) /\ Len(r) = 3 * Len(Order)
  <2>1. \A i \in 1 .. 3 * Len(Order) : r[i] \in Steps
    BY <1>3
  <2>2. r \in [1 .. 3 * Len(Order) -> Steps] /\ 3 * Len(Order) \in Nat
    BY <1>1, <1>n, <2>1
  <2> QED
    BY <2>2, SeqOfSteps
<1> HIDE DEF r, k, m
<1>6. ASSUME NEW i \in 1 .. Len(r), NEW j \in 1 .. Len(r), j = i + 1, r[j].op \in Inner
      PROVE  <<r[i].op, r[j].op>> \in After /\ r[i].src = r[j].src
  <2>1. m(j) # 1
    BY <1>3, <1>5, <1>6 DEF Inner
  <2>2. k(i) = k(j) /\ m(j) = m(i) + 1
    BY <1>4, <1>5, <1>6, <2>1
  <2>3. m(i) \in 1 .. 3 /\ m(j) \in 1 .. 3
    BY <1>2, <1>5
  <2>4. (m(i) = 1 /\ m(j) = 2) \/ (m(i) = 2 /\ m(j) = 3)
    BY <2>2, <2>3
  <2> QED
    BY <1>3, <1>5, <2>2, <2>4 DEF After
<1>7. \A i \in 1 .. Len(r) : r[i].op # "unstamp"
  BY <1>2, <1>3, <1>5
<1>8. Legal(r)
  BY <1>3, <1>5, <1>6, <1>7 DEF Legal
<1>9. Opens(r)
  <2>1. ASSUME r # <<>> PROVE r[1].op \notin Inner
    <3>1. 1 \in 1 .. 3 * Len(Order)
      BY <1>5, <2>1, <1>n
    <3>2. m(1) = 1
      BY DEF m
    <3> QED
      BY <1>3, <3>1, <3>2 DEF Inner
  <2> QED
    BY <2>1 DEF Opens
<1> QED
  BY <1>8, <1>9 DEF Program, r

\* Comparing every source: the four steps of one after the four of another.
LEMMA CompareSources == Program(ForEach(4, CompareSource))
<1> DEFINE r == ForEach(4, CompareSource)
           k(i) == (i - 1) \div 4 + 1
           m(i) == ((i - 1) % 4) + 1
<1>n. Len(Order) \in Nat
  BY SourcesAssumption
<1>o. \A n \in 1 .. Len(Order) : Order[n] \in Sources
  BY SourcesAssumption
<1>k. ASSUME NEW i \in 1 .. 4 * Len(Order)
      PROVE  k(i) \in 1 .. Len(Order) /\ m(i) \in 1 .. 4
  BY <1>n
<1>1. r = [i \in 1 .. 4 * Len(Order) |-> CompareSource(Order[k(i)])[m(i)]]
  BY DEF ForEach
<1>s. \A s \in Sources :
        /\ CompareSource(s)[1] = Step("begin", s) /\ CompareSource(s)[2] = Step("write", s)
        /\ CompareSource(s)[3] = Step("count", s) /\ CompareSource(s)[4] = Step("commit", s)
  BY DEF CompareSource
<1>2. \A i \in 1 .. 4 * Len(Order) :
        /\ Order[k(i)] \in Sources /\ m(i) \in 1 .. 4
        /\ m(i) = 1 => r[i] = Step("begin", Order[k(i)])
        /\ m(i) = 2 => r[i] = Step("write", Order[k(i)])
        /\ m(i) = 3 => r[i] = Step("count", Order[k(i)])
        /\ m(i) = 4 => r[i] = Step("commit", Order[k(i)])
  <2> SUFFICES ASSUME NEW i \in 1 .. 4 * Len(Order)
               PROVE  /\ Order[k(i)] \in Sources /\ m(i) \in 1 .. 4
                      /\ m(i) = 1 => r[i] = Step("begin", Order[k(i)])
                      /\ m(i) = 2 => r[i] = Step("write", Order[k(i)])
                      /\ m(i) = 3 => r[i] = Step("count", Order[k(i)])
                      /\ m(i) = 4 => r[i] = Step("commit", Order[k(i)])
    OBVIOUS
  <2>1. r[i] = CompareSource(Order[k(i)])[m(i)]
    BY <1>1
  <2>2. k(i) \in 1 .. Len(Order) /\ m(i) \in 1 .. 4
    BY <1>k
  <2> HIDE DEF r, k, m
  <2>3. Order[k(i)] \in Sources
    BY <2>2, <1>o
  <2> QED
    BY <2>1, <2>2, <2>3, <1>s
<1>3. \A i \in 1 .. 4 * Len(Order) :
        /\ r[i] \in Steps /\ r[i].src = Order[k(i)] /\ r[i].src \in Sources
        /\ m(i) = 1 => r[i].op = "begin"
        /\ m(i) = 2 => r[i].op = "write"
        /\ m(i) = 3 => r[i].op = "count"
        /\ m(i) = 4 => r[i].op = "commit"
  <2> SUFFICES ASSUME NEW i \in 1 .. 4 * Len(Order)
               PROVE  /\ r[i] \in Steps /\ r[i].src = Order[k(i)] /\ r[i].src \in Sources
                      /\ m(i) = 1 => r[i].op = "begin"
                      /\ m(i) = 2 => r[i].op = "write"
                      /\ m(i) = 3 => r[i].op = "count"
                      /\ m(i) = 4 => r[i].op = "commit"
    OBVIOUS
  <2> HIDE DEF r, k, m
  <2>1. m(i) = 1 \/ m(i) = 2 \/ m(i) = 3 \/ m(i) = 4
    BY <1>2
  <2>2. QED
    <3>1. Order[k(i)] \in Sources
      BY <1>2
    <3>2. \A op \in Ops : /\ Step(op, Order[k(i)]) \in Steps
                             /\ Step(op, Order[k(i)]).op = op
                             /\ Step(op, Order[k(i)]).src = Order[k(i)]
      BY <3>1, StepParts
    <3> QED
      BY <1>2, <2>1, <3>1, <3>2 DEF Ops
<1>4. \A i \in 1 .. 4 * Len(Order) :
        /\ m(i + 1) # 1 => k(i) = k(i + 1) /\ m(i + 1) = m(i) + 1
        /\ m(i) # 4 => i + 1 <= 4 * Len(Order)
  BY <1>n
<1>5. r \in Seq(Steps) /\ Len(r) = 4 * Len(Order)
  <2>1. \A i \in 1 .. 4 * Len(Order) : r[i] \in Steps
    BY <1>3
  <2>2. r \in [1 .. 4 * Len(Order) -> Steps] /\ 4 * Len(Order) \in Nat
    BY <1>1, <1>n, <2>1
  <2> QED
    BY <2>2, SeqOfSteps
<1> HIDE DEF r, k, m
<1>6. ASSUME NEW i \in 1 .. Len(r), NEW j \in 1 .. Len(r), j = i + 1, r[j].op \in Inner
      PROVE  <<r[i].op, r[j].op>> \in After /\ r[i].src = r[j].src
  <2>1. m(j) # 1
    BY <1>3, <1>5, <1>6 DEF Inner
  <2>2. k(i) = k(j) /\ m(j) = m(i) + 1
    BY <1>4, <1>5, <1>6, <2>1
  <2>3. m(i) \in 1 .. 4 /\ m(j) \in 1 .. 4
    BY <1>2, <1>5
  <2>4. \/ m(i) = 1 /\ m(j) = 2
        \/ m(i) = 2 /\ m(j) = 3
        \/ m(i) = 3 /\ m(j) = 4
    BY <2>2, <2>3
  <2> QED
    BY <1>3, <1>5, <2>2, <2>4 DEF After
<1>7. \A i \in 1 .. Len(r) : r[i].op # "unstamp"
  BY <1>2, <1>3, <1>5
<1>8. Legal(r)
  BY <1>3, <1>5, <1>6, <1>7 DEF Legal
<1>9. Opens(r)
  <2>1. ASSUME r # <<>> PROVE r[1].op \notin Inner
    <3>1. 1 \in 1 .. 4 * Len(Order)
      BY <1>5, <2>1, <1>n
    <3>2. m(1) = 1
      BY DEF m
    <3> QED
      BY <1>3, <3>1, <3>2 DEF Inner
  <2> QED
    BY <2>1 DEF Opens
<1> QED
  BY <1>8, <1>9 DEF Program, r

\* Queuing the cells of every source, one step each.
LEMMA EnqueueSources == Program(EnqueueAll)
<1> DEFINE r == EnqueueAll
<1>n. Len(Order) \in Nat /\ \A n \in 1 .. Len(Order) : Order[n] \in Sources
  BY SourcesAssumption
<1>1. r = [i \in 1 .. Len(Order) |-> Step("enqueue", Order[i])]
  BY DEF EnqueueAll
<1>2. \A i \in 1 .. Len(Order) : r[i] \in Steps /\ r[i].op = "enqueue" /\ r[i].src \in Sources
  BY <1>1, <1>n, StepParts DEF Ops
<1>3. r \in Seq(Steps) /\ Len(r) = Len(Order)
  <2>1. r \in [1 .. Len(Order) -> Steps]
    BY <1>1, <1>2
  <2> QED
    BY <2>1, <1>n, SeqOfSteps
<1> HIDE DEF r
<1>4. Legal(r)
  BY <1>2, <1>3 DEF Legal, Inner
<1>5. Opens(r)
  <2>1. r # <<>> => 1 \in 1 .. Len(Order)
    BY <1>3, <1>n
  <2> QED
    BY <1>2, <2>1 DEF Opens, Inner
<1> QED
  BY <1>4, <1>5 DEF Program, r

\* Every command is a program, and what it leaves unmarked for the tiles it
\* clears in the end.
LEMMA PlainProgram ==
  ASSUME NEW op \in Ops, op \notin Inner, op \notin OfSource
  PROVE  /\ Program(Plain(<<op>>)) /\ Len(Plain(<<op>>)) = 1 /\ Plain(<<op>>) \in Seq(Steps)
         /\ Plain(<<op>>)[1].op = op
<1> DEFINE p == Plain(<<op>>)
<1>1. p = [i \in 1 .. 1 |-> Step(op, Absent)]
  BY DEF Plain
<1>2. p \in Seq(Steps) /\ Len(p) = 1
  <2>1. p \in [1 .. 1 -> Steps]
    BY <1>1, StepParts
  <2> QED
    BY <2>1, SeqOfSteps
<1>3. p[1].op = op
  BY <1>1, StepParts
<1> HIDE DEF p
<1>4. Legal(p) /\ Opens(p)
  BY <1>2, <1>3 DEF Legal, Opens, Inner
<1> QED
  BY <1>2, <1>3, <1>4 DEF Program, p

\* The commands that do everything are programs put in a row.
LEMMA FullPrograms ==
  /\ Program(ImportFull) /\ Program(CompareFull) /\ Program(InitAll)
<1>1. Program(ImportFull)
  BY ImportOsmProgram, ImportSources, ProgramsInARow DEF ImportFull
<1>2. Program(CompareFull)
  BY CompareSources DEF CompareFull
<1>3. Program(Plain(<<"updateOsm">>)) /\ Program(Plain(<<"drain">>))
  BY PlainProgram DEF Ops, Inner, OfSource
<1>4. Program(ImportFull \o Plain(<<"updateOsm">>))
  BY <1>1, <1>3, ProgramsInARow
<1>5. Program(ImportFull \o Plain(<<"updateOsm">>) \o CompareFull)
  BY <1>2, <1>4, ProgramsInARow
<1> QED
  BY <1>1, <1>2, <1>3, <1>5, ProgramsInARow DEF InitAll

\* Whatever the operator runs is a program that pays the marks it makes.
LEMMA CommandsArePrograms == \A p \in Commands : Program(p) /\ Marks(p)
<1>1. ASSUME NEW p \in Clearing PROVE Program(p) /\ Marks(p)
  <2>1. PICK q \in {ImportOsm, ImportFull, CompareFull, InitAll}
                   \cup {ImportSource(s) : s \in Sources} \cup {CompareSource(s) : s \in Sources} :
          p = q \o Plain(<<"clearTiles">>)
    BY <1>1 DEF Clearing
  <2>2. Program(q)
    BY ImportOsmProgram, FullPrograms, ImportSourceProgram, CompareSourceProgram
  <2> DEFINE e == Plain(<<"clearTiles">>)
  <2>3. Program(e) /\ Len(e) = 1 /\ e \in Seq(Steps) /\ e[1].op = "clearTiles"
    BY PlainProgram DEF Ops, Inner, OfSource
  <2> HIDE DEF e
  <2>4. q \in Seq(Steps) /\ p = q \o e
    BY <2>1, <2>2 DEF Program, Legal, e
  <2>5. Len(p) = Len(q) + 1 /\ p[Len(p)] = e[1]
    <3>1. Len(q) \in Nat
      BY <2>4
    <3>2. /\ Len(q \o e) = Len(q) + Len(e)
          /\ \A i \in 1 .. Len(q) + Len(e) :
               (q \o e)[i] = IF i <= Len(q) THEN q[i] ELSE e[i - Len(q)]
      BY <2>3, <2>4, ConcatProperties
    <3>3. Len(q) + 1 \in 1 .. Len(q) + Len(e) /\ (Len(q) + 1) - Len(q) = 1 /\ ~(Len(q) + 1 <= Len(q))
      BY <2>3, <3>1
    <3>4. (q \o e)[Len(q) + 1] = e[1]
      BY <3>2, <3>3
    <3> QED
      BY <2>3, <2>4, <3>2, <3>4
  <2>6. Program(p)
    BY <2>2, <2>3, <2>4, ProgramsInARow
  <2> QED
    BY <2>3, <2>5, <2>6 DEF Marks
<1>2. ASSUME NEW op \in {"updateOsm", "drain", "warm", "clearTiles", "serve"}
      PROVE  Program(Plain(<<op>>)) /\ Marks(Plain(<<op>>))
  <2>1. /\ Program(Plain(<<op>>)) /\ Len(Plain(<<op>>)) = 1 /\ Plain(<<op>>)[1].op = op
    BY PlainProgram DEF Ops, Inner, OfSource
  <2> QED
    BY <2>1 DEF Marks, Unmarked
<1>3. ASSUME NEW op \in {"update", "updateFile"}, NEW s \in Sources
      PROVE  Program(<<Step(op, s)>>) /\ Marks(<<Step(op, s)>>)
  <2>1. op \in Ops /\ op \notin Inner /\ op \notin Unmarked
    BY DEF Ops, Inner, Unmarked
  <2>2. Len(<<Step(op, s)>>) = 1 /\ <<Step(op, s)>>[1].op = op
    BY <2>1, StepParts
  <2> QED
    BY <2>1, <2>2, OneStep DEF Marks
<1>4. Program(EnqueueAll) /\ Marks(EnqueueAll)
  <2>1. Len(Order) \in Nat /\ \A n \in 1 .. Len(Order) : Order[n] \in Sources
    BY SourcesAssumption
  <2>2. \A i \in 1 .. Len(Order) : EnqueueAll[i].op = "enqueue"
    BY <2>1, StepParts DEF EnqueueAll, Ops
  <2>3. Len(EnqueueAll) = Len(Order)
    BY <2>1 DEF EnqueueAll
  <2> QED
    BY <2>2, <2>3, EnqueueSources DEF Marks, Unmarked
<1> QED
  BY <1>1, <1>2, <1>3, <1>4 DEF Commands

\* What is left after a step is legal again, ends as it did, and its first step
\* may follow the one taken.
LEMMA TailLegal ==
  ASSUME NEW p, Legal(p), Marks(p), p # <<>>
  PROVE  /\ Legal(Tail(p)) /\ Marks(Tail(p))
         /\ Head(p).op \in Ops /\ Head(p).src \in Sources \cup {Absent}
         /\ Head(p).op \in OfSource => Head(p).src \in Sources
         /\ Tail(p) # <<>> =>
              /\ Head(Tail(p)).op \in Inner =>
                   <<Head(p).op, Head(Tail(p)).op>> \in After /\ Head(Tail(p)).src = Head(p).src
              /\ Last(Tail(p)) = Last(p)
         /\ Tail(p) = <<>> => Last(p) = Head(p)
         /\ Head(p).op = "unstamp" => Tail(p) # <<>> /\ Head(Tail(p)).op = "stamp"
         /\ Head(p).op \in Unmarked => Last(p).op = "clearTiles" /\ Tail(p) # <<>>
<1> DEFINE t == Tail(p)
<1>1. /\ p \in Seq(Steps) /\ Len(p) \in Nat \ {0} /\ t \in Seq(Steps) /\ Len(t) = Len(p) - 1
      /\ \A i \in 1 .. Len(t) : i \in 1 .. Len(p) /\ i + 1 \in 1 .. Len(p) /\ t[i] = p[i + 1]
      /\ Head(p) = p[1] /\ 1 \in 1 .. Len(p) /\ p[1] \in Steps
      /\ Last(p) = p[Len(p)] /\ Last(t) = t[Len(t)]
  BY DEF Legal, Last
<1>2. /\ t # <<>> => 1 \in 1 .. Len(t) /\ 2 \in 1 .. Len(p) /\ Head(t) = p[2]
      /\ t = <<>> => Len(p) = 1
      /\ t # <<>> => Len(t) \in 1 .. Len(t) /\ t[Len(t)] = p[Len(p)]
  <2>1. t # <<>> => Len(t) >= 1
    BY <1>1, EmptySeq
  <2>2. t # <<>> => Len(t) \in 1 .. Len(t) /\ Len(t) + 1 = Len(p)
    BY <1>1, <2>1
  <2>3. t # <<>> => 1 \in 1 .. Len(t) /\ 2 \in 1 .. Len(p) /\ t[1] = p[2]
    BY <1>1, <2>1
  <2>4. t # <<>> => Head(t) = t[1]
    BY <1>1
  <2> HIDE DEF t
  <2>5. t = <<>> => Len(t) = 0
    BY EmptySeq
  <2> QED
    BY <1>1, <2>2, <2>3, <2>4, <2>5
<1> HIDE DEF t
<1>3. Legal(t)
  <2>1. ASSUME NEW i \in 1 .. Len(t) PROVE t[i].op \in OfSource => t[i].src \in Sources
    BY <1>1 DEF Legal
  <2>2. ASSUME NEW i \in 1 .. Len(t), NEW j \in 1 .. Len(t), j = i + 1, t[j].op \in Inner
        PROVE  <<t[i].op, t[j].op>> \in After /\ t[i].src = t[j].src
    <3>1. i + 1 \in 1 .. Len(p) /\ j + 1 \in 1 .. Len(p) /\ j + 1 = (i + 1) + 1
      BY <1>1, <2>2
    <3>2. t[i] = p[i + 1] /\ t[j] = p[j + 1]
      BY <1>1
    <3> QED
      BY <2>2, <3>1, <3>2 DEF Legal
  <2>3. ASSUME NEW i \in 1 .. Len(t), t[i].op = "unstamp"
        PROVE  i < Len(t) /\ t[i + 1].op = "stamp"
    <3>1. i + 1 \in 1 .. Len(p) /\ p[i + 1].op = "unstamp"
      BY <1>1, <2>3
    <3>2. i + 1 < Len(p) /\ p[(i + 1) + 1].op = "stamp"
      BY <3>1 DEF Legal
    <3>3. i < Len(t) /\ i + 1 \in 1 .. Len(t)
      BY <3>2, <1>1
    <3> QED
      BY <1>1, <3>2, <3>3
  <2> QED
    BY <1>1, <2>1, <2>2, <2>3 DEF Legal
<1>4. Marks(t)
  <2> SUFFICES ASSUME NEW i \in 1 .. Len(t), t[i].op \in Unmarked
               PROVE  t[Len(t)].op = "clearTiles"
    BY DEF Marks
  <2>1. p[i + 1].op \in Unmarked /\ i + 1 \in 1 .. Len(p)
    BY <1>1
  <2>2. t # <<>>
    BY <1>1
  <2> QED
    BY <1>2, <2>1, <2>2 DEF Marks
<1>5. Head(p).op \in Ops /\ Head(p).src \in Sources \cup {Absent}
  BY <1>1 DEF Steps
<1>6. Head(p).op \in OfSource => Head(p).src \in Sources
  BY <1>1 DEF Legal
<1>7. ASSUME t # <<>>, Head(t).op \in Inner
      PROVE  <<Head(p).op, Head(t).op>> \in After /\ Head(t).src = Head(p).src
  BY <1>1, <1>2, <1>7 DEF Legal
<1>8. t # <<>> => Last(t) = Last(p)
  BY <1>1, <1>2
<1>9. t = <<>> => Last(p) = Head(p)
  BY <1>1, <1>2
<1>10. Head(p).op = "unstamp" => t # <<>> /\ Head(t).op = "stamp"
  BY <1>1, <1>2 DEF Legal
<1>11. Head(p).op \in Unmarked => Last(p).op = "clearTiles"
  BY <1>1 DEF Marks
<1>12. Head(p).op \in Unmarked => t # <<>>
  BY <1>9, <1>11 DEF Unmarked
<1> QED
  BY <1>3, <1>4, <1>5, <1>6, <1>7, <1>8, <1>9, <1>10, <1>11, <1>12 DEF t

-------------------------------------------------------------------------------
(* The commands: what their steps keep                                     *)

\* What the steps before it have left, for the step the command is at.
AtOsm ==
  /\ Doing("clearStore") => osm.done = 0 /\ compared = {}
  /\ Doing("load") => osm.done < Passes /\ compared = {}
  /\ Doing("index") \/ Doing("unstamp") \/ Doing("stamp") => osm.done = Passes
AtTable ==
  /\ Doing("create") => Src \notin compared
  /\ Doing("finish") => Src \notin compared /\ raw[Src] # Absent
AtCompare ==
  /\ Doing("write") \/ Doing("count") \/ Doing("commit") =>
       /\ txn = [src |-> Src, rows |-> txn.rows] /\ txn.rows \in [Cells -> Contents]
       /\ raw[Src] # Absent
       /\ \A c \in Cells : txn.rows[c] \in {Absent, Content(Src, c)}
  /\ Doing("count") \/ Doing("commit") => \A c \in Cells : txn.rows[c] # Absent

Programmed == Legal(todo) /\ Marks(todo)
OfflineInv ==
  /\ Programmed /\ AtOsm /\ AtTable /\ AtCompare
  /\ ComparedStaysServed /\ StampIsEarned /\ TilesFresh

\* The database starts empty and no command runs.
LEMMA OfflineInitInv == Init => OfflineInv
<1> SUFFICES ASSUME Init PROVE OfflineInv
  OBVIOUS
<1>1. Programmed
  BY DEF Init, Programmed, Legal, Marks
<1>2. AtOsm /\ AtTable /\ AtCompare
  BY DEF Init, AtOsm, AtTable, AtCompare, Doing
<1>3. TypeOK
  <2>1. 1 \in 1 .. MaxPub /\ 0 \in Pubs /\ 0 \in 0 .. Passes /\ 0 \in 0 .. MaxCommands
    BY BoundsAssumption DEF Pubs
  <2>2. /\ feed \in 1 .. MaxPub /\ osm \in [pub : Pubs, done : 0 .. Passes]
        /\ stamp \in Pubs /\ etag \in [Sources -> Pubs] /\ ran \in 0 .. MaxCommands
    BY <2>1 DEF Init
  <2>3. /\ raw \in [Sources -> [pub : Pubs, finished : BOOLEAN] \cup {Absent}]
        /\ rows \in [Sources -> [Cells -> Contents]]
        /\ totals \in [Sources -> [Cells -> Pubs \cup {Absent}]]
    BY DEF Init, Contents
  <2>4. txn.src \in Sources \cup {Absent}
    BY DEF Init, NoTxn
  <2> QED
    BY <2>2, <2>3, <2>4 DEF Init, TypeOK
<1>4. ComparedStaysServed
  BY <1>3 DEF Init, ComparedStaysServed
<1>5. StampIsEarned /\ TilesFresh
  BY DEF Init, StampIsEarned, TilesFresh
<1> QED
  BY <1>1, <1>2, <1>4, <1>5 DEF OfflineInv

\* The command is at no step that another one of it has prepared.
Outside == todo = <<>> \/ Head(todo).op \notin Inner

\* The steps that prepare no other, and what each leaves of the command.
LEMMA OutsideSteps ==
  ASSUME Programmed,
         (\E p \in Commands : Begin(p)) \/ EndEarly \/ Incremental \/ Tiles
  PROVE  Programmed' /\ Outside'
<1>1. ASSUME NEW p \in Commands, Begin(p) PROVE Programmed' /\ Outside'
  <2>1. Legal(p) /\ Opens(p) /\ Marks(p) /\ todo' = p
    BY <1>1, CommandsArePrograms DEF Begin, Program
  <2>2. p # <<>> => Head(p) = p[1]
    BY <2>1 DEF Legal
  <2> QED
    BY <2>1, <2>2 DEF Programmed, Outside, Opens
<1>2. ASSUME EndEarly PROVE Programmed' /\ Outside'
  BY <1>2 DEF EndEarly, Programmed, Outside, Legal, Marks
<1>3. ASSUME Incremental \/ Tiles
      PROVE  /\ todo # <<>> /\ todo' \in {todo, Tail(todo)}
             /\ Head(todo).op \in {"updateOsm", "update", "updateFile", "enqueue", "drain",
                                   "warm", "serve", "clearTiles"}
  BY <1>3 DEF Incremental, Tiles, UpdateOsm, UpdateFile, Update, Enqueue, DrainEnds,
              RecomputeCell, StoreTile, NothingToWarm, RefreshTile, ClearTiles, MayUpdate,
              Doing, Serving, Done
<1>4. ASSUME Incremental \/ Tiles PROVE Programmed' /\ Outside'
  <2> DEFINE op == Head(todo).op
  <2>1. /\ op \notin Inner
        /\ \A x \in Inner : <<op, x>> \notin After
    BY <1>3, <1>4 DEF Inner, After
  <2>2. CASE todo' = todo
    BY <2>1, <2>2 DEF Programmed, Outside
  <2>3. CASE todo' = Tail(todo)
    BY <1>3, <1>4, <2>1, <2>3, TailLegal DEF Programmed, Outside
  <2> QED
    BY <1>3, <1>4, <2>2, <2>3
<1> QED
  BY <1>1, <1>2, <1>4

\* An import or a compare goes on with the step after it, if that one is inner.
Goes(x) ==
  /\ Programmed'
  /\ Head(todo).op \in OfSource => Src \in Sources
  /\ todo' # <<>> /\ Head(todo').op \in Inner => Head(todo').op = x /\ Src' = Src

\* A step that ends leaves the command at a step that may follow it.
LEMMA NextStep ==
  ASSUME Programmed, todo # <<>>, todo' = Tail(todo), NEW x,
         \A y \in Inner : <<Head(todo).op, y>> \in After => y = x
  PROVE  Goes(x)
BY TailLegal DEF Programmed, Goes, Src

\* Where each step of an import or a compare leaves the command.
LEMMA InnerSteps ==
  ASSUME Programmed
  PROVE  /\ DropOsm => Goes("clearStore")
         /\ ClearStore => Goes("load")
         /\ Load => Goes("index") \/ (todo' = todo /\ ~LastPass)
         /\ Index => Goes("unstamp")
         /\ Unstamp => Goes("stamp")
         /\ Stamp => Programmed' /\ Outside'
         /\ DropTable => Goes("create")
         /\ CreateTable => Goes("finish")
         /\ FinishTable => Programmed' /\ Outside' /\ Src \in Sources
         /\ BeginCompare => Goes("write")
         /\ WriteRows => Src \in Sources /\ (Goes("count") \/ todo' = todo)
         /\ RebuildTotals => Goes("commit")
         /\ CommitCompare => Programmed' /\ Outside' /\ Src \in Sources
<1>1. DropOsm => Goes("clearStore")
  BY NextStep DEF DropOsm, Doing, Done, Serving, After
<1>2. ClearStore => Goes("load")
  BY NextStep DEF ClearStore, Doing, Done, Serving, After
<1>3. Load => Goes("index") \/ (todo' = todo /\ ~LastPass)
  BY NextStep DEF Load, Doing, Done, Serving, After
<1>4. Index => Goes("unstamp")
  BY NextStep DEF Index, Doing, Done, Serving, After
<1>5. ASSUME Unstamp PROVE Goes("stamp")
  <2>1. todo # <<>> /\ Head(todo).op = "unstamp"
    BY <1>5 DEF Unstamp, Doing
  <2>2. CASE todo' = Tail(todo)
    BY <2>1, <2>2, NextStep DEF After
  <2>3. CASE todo' = Tail(Tail(todo))
    <3>1. /\ Legal(Tail(todo)) /\ Marks(Tail(todo)) /\ Tail(todo) # <<>>
          /\ Head(Tail(todo)).op = "stamp"
      BY <2>1, TailLegal DEF Programmed
    <3>2. /\ Programmed'
          /\ todo' # <<>> /\ Head(todo').op \in Inner => <<"stamp", Head(todo').op>> \in After
      BY <2>3, <3>1, TailLegal DEF Programmed
    <3>3. \A y \in Inner : <<"stamp", y>> \notin After
      BY DEF After, Inner
    <3>4. Head(todo).op \notin OfSource
      BY <2>1 DEF OfSource
    <3> QED
      BY <3>2, <3>3, <3>4 DEF Goes
  <2> QED
    BY <1>5, <2>1, <2>2, <2>3 DEF Unstamp, Done, Serving, Doing
<1>6. ASSUME Stamp PROVE Programmed' /\ Outside'
  <2>1. todo # <<>> /\ Head(todo).op = "stamp" /\ todo' = Tail(todo)
    BY <1>6 DEF Stamp, Doing, Done, Serving
  <2>2. \A y \in Inner : <<"stamp", y>> \notin After
    BY DEF After, Inner
  <2> QED
    BY <2>1, <2>2, TailLegal DEF Programmed, Outside
<1>7. DropTable => Goes("create")
  BY NextStep DEF DropTable, Doing, Done, Serving, After
<1>8. CreateTable => Goes("finish")
  BY NextStep DEF CreateTable, Doing, Done, Serving, After
<1>9. ASSUME FinishTable PROVE Programmed' /\ Outside' /\ Src \in Sources
  <2>1. todo # <<>> /\ Head(todo).op = "finish" /\ todo' = Tail(todo)
    BY <1>9 DEF FinishTable, Doing, Done, Serving
  <2>2. "finish" \in OfSource /\ \A y \in Inner : <<"finish", y>> \notin After
    BY DEF After, Inner, OfSource
  <2> QED
    BY <2>1, <2>2, TailLegal DEF Programmed, Outside, Src
<1>10. BeginCompare => Goes("write")
  BY NextStep DEF BeginCompare, Doing, Done, Serving, After
<1>11. ASSUME WriteRows PROVE Src \in Sources /\ (Goes("count") \/ todo' = todo)
  <2>1. todo # <<>> /\ Head(todo).op = "write" /\ (todo' = Tail(todo) \/ todo' = todo)
    BY <1>11 DEF WriteRows, Doing
  <2>2. "write" \in OfSource
    BY DEF OfSource
  <2>3. Src \in Sources
    BY <2>1, <2>2, TailLegal DEF Programmed, Src
  <2>4. todo' = Tail(todo) => Goes("count")
    BY <2>1, NextStep DEF After
  <2> QED
    BY <2>1, <2>3, <2>4
<1>12. RebuildTotals => Goes("commit")
  BY NextStep DEF RebuildTotals, Doing, Done, Serving, After
<1>13. ASSUME CommitCompare PROVE Programmed' /\ Outside' /\ Src \in Sources
  <2>1. todo # <<>> /\ Head(todo).op = "commit" /\ todo' = Tail(todo)
    BY <1>13 DEF CommitCompare, Doing, Done, Serving
  <2>2. "commit" \in OfSource /\ \A y \in Inner : <<"commit", y>> \notin After
    BY DEF After, Inner, OfSource
  <2> QED
    BY <2>1, <2>2, TailLegal DEF Programmed, Outside, Src
<1> QED
  BY <1>1, <1>2, <1>3, <1>4, <1>5, <1>6, <1>7, <1>8, <1>9, <1>10, <1>11, <1>12, <1>13

\* Whatever is left of a command is still a program's end.
LEMMA ProgrammedStep == Programmed /\ [Next]_vars => Programmed'
<1> SUFFICES ASSUME Programmed, [Next]_vars PROVE Programmed'
  OBVIOUS
<1>1. CASE UNCHANGED todo
  BY <1>1 DEF Programmed
<1>2. CASE (\E p \in Commands : Begin(p)) \/ EndEarly \/ Incremental \/ Tiles
  BY <1>2, OutsideSteps
<1>3. CASE Import \/ Compare
  <2>1. \A x : Goes(x) => Programmed'
    BY DEF Goes
  <2> QED
    BY <1>3, <2>1, InnerSteps DEF Import, Compare, Programmed
<1> QED
  BY <1>1, <1>2, <1>3 DEF Next, Publish, vars

\* What a comparison writes, and what the totals are counted from.
LEMMA ContentIsData ==
  ASSUME TypeOK, NEW s \in Sources, NEW c \in Cells, raw[s] # Absent
  PROVE  /\ Content(s, c) \in Contents /\ Content(s, c) # Absent
         /\ At(c, raw[s].pub) \in Pubs /\ At(c, raw[s].pub) # Absent
         /\ Content(s, c).raw = At(c, raw[s].pub)
<1>1. /\ raw[s] \in [pub : Pubs, finished : BOOLEAN] /\ osm \in [pub : Pubs, done : 0 .. Passes]
      /\ 1 \in Pubs
  BY BoundsAssumption DEF TypeOK, Pubs
<1>2. At(c, raw[s].pub) \in Pubs /\ At(c, osm.pub) \in Pubs /\ osm.done \in 0 .. Passes
  BY <1>1 DEF At
<1>3. Content(s, c) \in [raw : Pubs, osm : Pubs, done : 0 .. Passes]
  BY <1>2 DEF Content
<1>4. Pubs \subseteq Nat /\ 0 .. Passes \subseteq Nat
  BY BoundsAssumption DEF Pubs
<1>5. Content(s, c) \in [raw : Nat, osm : Nat, done : Nat]
  BY <1>3, <1>4
<1>6. Content(s, c).raw = At(c, raw[s].pub)
  BY DEF Content
<1> QED
  BY <1>2, <1>3, <1>4, <1>5, <1>6, AbsentAssumption DEF Contents

\* The steps one by one, what they write and where they may be.
LEMMA ImportTypes == TypeOK /\ AtOsm /\ AtTable /\ Import => TypeOK'
<1> SUFFICES ASSUME TypeOK, AtOsm, AtTable, Import PROVE TypeOK'
  OBVIOUS
<1>n. Passes \in Nat \ {0} /\ MaxPub \in Nat \ {0} /\ Pubs = 0 .. MaxPub
  BY BoundsAssumption DEF Pubs
<1>1. ASSUME DropOsm PROVE TypeOK'
  <2>1. osm' \in [pub : Pubs, done : 0 .. Passes]
    BY <1>1, <1>n DEF DropOsm, TypeOK
  <2> QED
    BY <1>1, <2>1 DEF DropOsm, TypeOK
<1>2. ASSUME ClearStore \/ Index PROVE TypeOK'
  BY <1>2 DEF ClearStore, Index, TypeOK, disk, history
<1>3. ASSUME Load PROVE TypeOK'
  <2>1. osm.done < Passes /\ osm \in [pub : Pubs, done : 0 .. Passes]
    BY <1>3 DEF Load, AtOsm, TypeOK
  <2>2. osm' \in [pub : Pubs, done : 0 .. Passes]
    BY <1>3, <1>n, <2>1 DEF Load
  <2> QED
    BY <1>3, <2>2 DEF Load, TypeOK, history
<1>4. ASSUME Unstamp \/ Stamp PROVE TypeOK'
  <2>1. stamp' \in Pubs /\ over' \in BOOLEAN
    <3>1. 0 \in Pubs /\ stamp \in Pubs /\ osm.pub \in Pubs /\ over \in BOOLEAN
      BY <1>n DEF TypeOK
    <3> QED
      BY <1>4, <3>1 DEF Unstamp, Stamp, history
  <2> QED
    BY <1>4, <2>1 DEF Unstamp, Stamp, TypeOK, history
<1>5. ASSUME DropTable \/ CreateTable \/ FinishTable PROVE TypeOK'
  <2>1. raw' \in [Sources -> [pub : Pubs, finished : BOOLEAN] \cup {Absent}]
    <3>1. CASE DropTable
      BY <3>1 DEF DropTable, TypeOK
    <3>2. CASE CreateTable
      <4>1. PICK f \in 1 .. feed : raw' = [raw EXCEPT ![Src] = [pub |-> f, finished |-> FALSE]]
        BY <3>2 DEF CreateTable
      <4>2. [pub |-> f, finished |-> FALSE] \in [pub : Pubs, finished : BOOLEAN]
        BY <1>n DEF TypeOK
      <4> QED
        BY <4>1, <4>2 DEF TypeOK
    <3>3. CASE FinishTable
      <4>1. raw' = [raw EXCEPT ![Src] = [raw[Src] EXCEPT !.finished = TRUE]]
        BY <3>3 DEF FinishTable
      <4>2. raw[Src] # Absent
        BY <3>3 DEF FinishTable, AtTable
      <4>3. Src \in Sources => [raw[Src] EXCEPT !.finished = TRUE] \in [pub : Pubs, finished : BOOLEAN]
        BY <4>2 DEF TypeOK
      <4> QED
        BY <4>1, <4>3 DEF TypeOK
    <3> QED
      BY <1>5, <3>1, <3>2, <3>3
  <2>2. compared' \subseteq Sources
    BY <1>5 DEF DropTable, CreateTable, FinishTable, TypeOK, history
  <2> QED
    BY <1>5, <2>1, <2>2 DEF DropTable, CreateTable, FinishTable, TypeOK, history
<1> QED
  BY <1>1, <1>2, <1>3, <1>4, <1>5 DEF Import

\* The steps of a compare keep the types.
LEMMA CompareTypes == Programmed /\ TypeOK /\ AtCompare /\ Compare => TypeOK'
<1> SUFFICES ASSUME Programmed, TypeOK, AtCompare, Compare PROVE TypeOK'
  OBVIOUS
<1>1. ASSUME BeginCompare PROVE TypeOK'
  <2>1. Src \in Sources
    BY <1>1, TailLegal DEF BeginCompare, Doing, Programmed, Src, OfSource
  <2>2. txn'.src \in Sources \cup {Absent}
    BY <1>1, <2>1 DEF BeginCompare
  <2> QED
    BY <1>1, <2>2 DEF BeginCompare, TypeOK, disk, history
<1>2. ASSUME WriteRows PROVE TypeOK'
  <2>1. \E r : txn' = [txn EXCEPT !.rows = r]
    BY <1>2 DEF WriteRows
  <2>2. txn'.src \in Sources \cup {Absent}
    <3>1. txn = [src |-> Src, rows |-> txn.rows] /\ Src \in Sources
      BY <1>2, InnerSteps DEF WriteRows, AtCompare
    <3> QED
      BY <2>1, <3>1
  <2> QED
    BY <1>2, <2>2 DEF WriteRows, TypeOK, disk, history
<1>3. ASSUME RebuildTotals PROVE TypeOK'
  BY <1>3 DEF RebuildTotals, TypeOK, disk, history
<1>4. ASSUME CommitCompare PROVE TypeOK'
  <2>1. Src \in Sources /\ txn.rows \in [Cells -> Contents] /\ raw[Src] # Absent
    BY <1>4, InnerSteps DEF CommitCompare, AtCompare
  <2>2. \A c \in Cells : At(c, raw[Src].pub) \in Pubs
    BY <2>1, ContentIsData
  <2>3. rows' \in [Sources -> [Cells -> Contents]]
    BY <1>4, <2>1 DEF CommitCompare, TypeOK
  <2>4. totals' \in [Sources -> [Cells -> Pubs \cup {Absent}]]
    BY <1>4, <2>1, <2>2 DEF CommitCompare, TypeOK
  <2>5. txn'.src \in Sources \cup {Absent} /\ compared' \subseteq Sources
    BY <1>4, <2>1 DEF CommitCompare, NoTxn, TypeOK
  <2> QED
    BY <1>4, <2>3, <2>4, <2>5 DEF CommitCompare, TypeOK
<1> QED
  BY <1>1, <1>2, <1>3, <1>4 DEF Compare
\* A refresh to a publication there is.
LEMMA RefreshTypes ==
  ASSUME TypeOK, NEW s \in Sources, NEW f \in 1 .. feed, Refresh(s, f), etag' \in [Sources -> Pubs]
  PROVE  TypeOK'
<1>1. f \in Pubs
  BY BoundsAssumption DEF TypeOK, Pubs
<1>2. raw' \in [Sources -> [pub : Pubs, finished : BOOLEAN] \cup {Absent}]
  <2>1. raw' = [raw EXCEPT ![s] = [raw[s] EXCEPT !.pub = f]] /\ raw[s] # Absent
    BY DEF Refresh
  <2>2. [raw[s] EXCEPT !.pub = f] \in [pub : Pubs, finished : BOOLEAN]
    BY <1>1, <2>1 DEF TypeOK
  <2> QED
    BY <2>1, <2>2 DEF TypeOK
<1>3. queue' \subseteq Sources \X Cells
  BY DEF Refresh, TypeOK, Changed
<1>4. tileQueue' \in BOOLEAN
  BY DEF Refresh, TypeOK
<1> QED
  BY <1>2, <1>3, <1>4 DEF Refresh, TypeOK, history

\* The incremental and the recovery steps keep every variable in its type.
LEMMA IncrementalTypes == Programmed /\ TypeOK /\ Incremental => TypeOK'
<1> SUFFICES ASSUME Programmed, TypeOK, Incremental PROVE TypeOK'
  OBVIOUS
<1>n. Passes \in Nat \ {0} /\ MaxPub \in Nat \ {0} /\ Pubs = 0 .. MaxPub
      /\ feed \in 1 .. feed /\ feed \in Pubs
  BY BoundsAssumption DEF Pubs, TypeOK
<1>1. ASSUME UpdateOsm PROVE TypeOK'
  <2>1. osm' \in [pub : Pubs, done : 0 .. Passes] /\ stamp' \in Pubs
    BY <1>1, <1>n DEF UpdateOsm, TypeOK
  <2>2. queue' \subseteq Sources \X Cells
    BY <1>1 DEF UpdateOsm, TypeOK, Changed
  <2> QED
    BY <1>1, <2>1, <2>2 DEF UpdateOsm, TypeOK, history
<1>2. ASSUME UpdateFile PROVE TypeOK'
  <2>1. Src \in Sources
    BY <1>2, TailLegal DEF UpdateFile, Doing, Programmed, Src, OfSource
  <2>2. etag' \in [Sources -> Pubs]
    BY <1>2 DEF UpdateFile, TypeOK
  <2> QED
    BY <1>2, <2>1, <2>2, RefreshTypes DEF UpdateFile
<1>3. ASSUME NEW s \in Sources, Update(s) PROVE TypeOK'
  <2>1. CASE etag[s] = feed
    BY <1>3, <2>1 DEF Update, TypeOK, disk, history
  <2>2. CASE etag[s] # feed
    <3>1. Refresh(s, feed) /\ etag' = [etag EXCEPT ![s] = feed]
      BY <1>3, <2>2 DEF Update
    <3>2. etag' \in [Sources -> Pubs]
      BY <1>n, <3>1 DEF TypeOK
    <3> QED
      BY <1>n, <3>1, <3>2, RefreshTypes
  <2> QED
    BY <2>1, <2>2
<1>4. ASSUME Enqueue PROVE TypeOK'
  <2>1. Src \in Sources
    BY <1>4, TailLegal DEF Enqueue, Doing, Programmed, Src, OfSource
  <2> QED
    BY <1>4, <2>1 DEF Enqueue, TypeOK, history
<1>5. ASSUME DrainEnds PROVE TypeOK'
  BY <1>5 DEF DrainEnds, TypeOK, disk, history
<1>6. ASSUME NEW s \in Sources, NEW c \in Cells, RecomputeCell(s, c) PROVE TypeOK'
  <2>1. Content(s, c) \in Contents /\ At(c, raw[s].pub) \in Pubs
    BY <1>6, ContentIsData DEF RecomputeCell
  <2>2. rows' \in [Sources -> [Cells -> Contents]]
    BY <1>6, <2>1 DEF RecomputeCell, TypeOK
  <2>3. totals' \in [Sources -> [Cells -> Pubs \cup {Absent}]]
    BY <1>6, <2>1 DEF RecomputeCell, TypeOK
  <2> QED
    BY <1>6, <2>2, <2>3 DEF RecomputeCell, TypeOK, history
<1> QED
  BY <1>1, <1>2, <1>3, <1>4, <1>5, <1>6 DEF Incremental

\* Every action keeps the types.
LEMMA OfflineTypes ==
  Programmed /\ TypeOK /\ AtOsm /\ AtTable /\ AtCompare /\ [Next]_vars => TypeOK'
<1> SUFFICES ASSUME Programmed, TypeOK, AtOsm, AtTable, AtCompare, [Next]_vars PROVE TypeOK'
  OBVIOUS
<1>1. CASE UNCHANGED vars
  BY <1>1 DEF vars, disk, history, TypeOK
<1>2. CASE Publish
  BY <1>2, BoundsAssumption DEF Publish, disk, history, TypeOK
<1>3. ASSUME NEW p \in Commands, Begin(p) PROVE TypeOK'
  BY <1>3, BoundsAssumption DEF Begin, disk, history, TypeOK
<1>4. CASE EndEarly
  BY <1>4 DEF EndEarly, NoTxn, disk, OwesClear, TypeOK
<1>5. CASE Tiles
  <2>1. CASE StoreTile \/ RefreshTile
    <3>1. tile' = Picture
      BY <2>1 DEF StoreTile, RefreshTile
    <3>2. tile'.rows \in [Sources -> [Cells -> Contents]]
      BY <3>1 DEF Picture, TypeOK
    <3> QED
      BY <2>1, <3>2 DEF StoreTile, RefreshTile, history, TypeOK
  <2>2. CASE NothingToWarm \/ ClearTiles
    BY <2>2 DEF NothingToWarm, ClearTiles, disk, history, TypeOK
  <2> QED
    BY <1>5, <2>1, <2>2 DEF Tiles
<1> QED
  BY <1>1, <1>2, <1>3, <1>4, <1>5, ImportTypes, CompareTypes, IncrementalTypes DEF Next

\* Outside an import and a compare nothing is prepared.
LEMMA OutsideIsFree == Outside' => AtOsm' /\ AtTable' /\ AtCompare'
BY DEF Outside, AtOsm, AtTable, AtCompare, Doing, Inner
\* Where an import or a compare goes on, only what is prepared for its next step
\* has to be right.
LEMMA OnlyNext ==
  ASSUME NEW x, Goes(x)
  PROVE  \A y \in Inner : Doing(y)' => y = x /\ Src' = Src
BY DEF Goes, Doing
\* Each step of an OSM import finds what the one before it left.
LEMMA AtOsmStep ==
  Programmed /\ TypeOK /\ AtOsm /\ (Import \/ Compare) => AtOsm'
<1> SUFFICES ASSUME Programmed, TypeOK, AtOsm, Import \/ Compare PROVE AtOsm'
  OBVIOUS
<1>0. ASSUME NEW x, Goes(x)
      PROVE  /\ Doing("clearStore")' => x = "clearStore"
             /\ Doing("load")' => x = "load"
             /\ Doing("index")' => x = "index"
             /\ Doing("unstamp")' => x = "unstamp"
             /\ Doing("stamp")' => x = "stamp"
  BY <1>0, OnlyNext DEF Inner
<1>n. Passes \in Nat \ {0} /\ osm.done \in 0 .. Passes /\ osm = [pub |-> osm.pub, done |-> osm.done]
  BY BoundsAssumption DEF TypeOK
<1>1. ASSUME DropOsm PROVE AtOsm'
  <2>1. osm'.done = 0 /\ compared' = {} /\ Goes("clearStore")
    BY <1>1, InnerSteps DEF DropOsm
  <2> QED
    BY <2>1, <1>0 DEF AtOsm
<1>2. ASSUME ClearStore PROVE AtOsm'
  <2>1. osm'.done < Passes /\ compared' = {} /\ Goes("load")
    <3>1. osm.done = 0 /\ compared = {} /\ osm' = osm /\ compared' = compared
      BY <1>2 DEF ClearStore, AtOsm
    <3> QED
      BY <1>2, <1>n, <3>1, InnerSteps
  <2> QED
    BY <2>1, <1>0 DEF AtOsm
<1>3. ASSUME Load PROVE AtOsm'
  <2>1. Doing("load") /\ osm.done < Passes /\ compared = {} /\ compared' = {}
        /\ osm'.done = osm.done + 1
    BY <1>3, <1>n DEF Load, AtOsm, history
  <2>2. CASE LastPass
    <3>1. Goes("index") \/ todo' = Tail(todo)
      BY <1>3, <2>2 DEF Load
    <3>2. Goes("index")
      BY <1>3, <2>2, InnerSteps
    <3>3. osm'.done = Passes
      BY <2>1, <2>2 DEF LastPass
    <3> QED
      BY <3>2, <3>3, <1>0 DEF AtOsm
  <2>3. CASE ~LastPass
    <3>1. todo' = todo /\ osm'.done < Passes
      BY <1>3, <1>n, <2>1, <2>3 DEF Load, LastPass
    <3>2. \A y : Doing(y)' => y = "load"
      BY <2>1, <3>1 DEF Doing
    <3> QED
      BY <2>1, <3>1, <3>2 DEF AtOsm
  <2> QED
    BY <2>2, <2>3
<1>4. ASSUME Index PROVE AtOsm'
  <2>1. osm'.done = Passes /\ Goes("unstamp")
    BY <1>4, InnerSteps DEF Index, AtOsm, disk
  <2> QED
    BY <2>1, <1>0 DEF AtOsm
<1>5. ASSUME Unstamp PROVE AtOsm'
  <2>1. osm'.done = Passes /\ Goes("stamp")
    BY <1>5, InnerSteps DEF Unstamp, AtOsm
  <2> QED
    BY <2>1, <1>0 DEF AtOsm
<1>6. ASSUME Stamp \/ FinishTable \/ CommitCompare PROVE AtOsm'
  BY <1>6, InnerSteps, OutsideIsFree
<1>7. ASSUME DropTable PROVE AtOsm'
  BY <1>7, <1>0, InnerSteps DEF AtOsm
<1>8. ASSUME CreateTable PROVE AtOsm'
  BY <1>8, <1>0, InnerSteps DEF AtOsm
<1>9. ASSUME BeginCompare PROVE AtOsm'
  BY <1>9, <1>0, InnerSteps DEF AtOsm
<1>10. ASSUME WriteRows PROVE AtOsm'
  <2>1. Doing("write")
    BY <1>10 DEF WriteRows
  <2>2. CASE todo' = todo
    BY <2>1, <2>2 DEF AtOsm, Doing
  <2>3. CASE Goes("count")
    BY <2>3, <1>0 DEF AtOsm
  <2> QED
    BY <1>10, <2>2, <2>3, InnerSteps
<1>11. ASSUME RebuildTotals PROVE AtOsm'
  BY <1>11, <1>0, InnerSteps DEF AtOsm
<1> QED
  BY <1>1, <1>2, <1>3, <1>4, <1>5, <1>6, <1>7, <1>8, <1>9, <1>10, <1>11 DEF Import, Compare
\* Each step of a table's import does.
LEMMA AtTableStep ==
  Programmed /\ TypeOK /\ AtTable /\ (Import \/ Compare) => AtTable'
<1> SUFFICES ASSUME Programmed, TypeOK, AtTable, Import \/ Compare PROVE AtTable'
  OBVIOUS
<1>0. ASSUME NEW x, Goes(x)
      PROVE  /\ Doing("create")' => x = "create" /\ Src' = Src
             /\ Doing("finish")' => x = "finish" /\ Src' = Src
  BY <1>0, OnlyNext DEF Inner
<1>1. ASSUME NEW x, Goes(x), x \notin {"create", "finish"} PROVE AtTable'
  BY <1>0, <1>1 DEF AtTable
<1>2. ASSUME DropTable PROVE AtTable'
  <2>1. Src \notin compared' /\ Goes("create")
    BY <1>2, InnerSteps DEF DropTable
  <2> QED
    BY <2>1, <1>0 DEF AtTable
<1>3. ASSUME CreateTable PROVE AtTable'
  <2>1. Src \in Sources
    BY <1>3, TailLegal DEF CreateTable, Doing, Programmed, Src, OfSource
  <2>2. Src \notin compared /\ compared' = compared /\ Goes("finish")
    BY <1>3, InnerSteps DEF CreateTable, AtTable, history
  <2>3. PICK f \in 1 .. feed : raw' = [raw EXCEPT ![Src] = [pub |-> f, finished |-> FALSE]]
    BY <1>3 DEF CreateTable
  <2>4. raw'[Src] = [pub |-> f, finished |-> FALSE]
    BY <2>1, <2>3 DEF TypeOK
  <2>5. f \in Nat
    BY BoundsAssumption DEF TypeOK
  <2>6. raw'[Src] # Absent
    <3>1. [pub |-> f, finished |-> FALSE] \in [pub : Nat, finished : BOOLEAN]
      BY <2>5
    <3> QED
      BY <2>4, <3>1, AbsentAssumption
  <2> QED
    BY <2>2, <2>6, <1>0 DEF AtTable
<1>4. ASSUME WriteRows \/ Load PROVE AtTable'
  <2>1. Doing("write") \/ Doing("load")
    BY <1>4 DEF WriteRows, Load
  <2>2. CASE todo' = todo
    BY <2>1, <2>2 DEF AtTable, Doing
  <2> QED
    BY <1>4, <1>1, <2>2, InnerSteps
<1>5. ASSUME Stamp \/ FinishTable \/ CommitCompare PROVE AtTable'
  BY <1>5, InnerSteps, OutsideIsFree
<1> QED
  BY <1>1, <1>2, <1>3, <1>4, <1>5, InnerSteps DEF Import, Compare
\* Each step of a comparison does: what it has written is what it would write.
LEMMA AtCompareStep ==
  Programmed /\ TypeOK /\ AtCompare /\ (Import \/ Compare) => AtCompare'
<1> SUFFICES ASSUME Programmed, TypeOK, AtCompare, Import \/ Compare PROVE AtCompare'
  OBVIOUS
<1>0. ASSUME NEW x, Goes(x)
      PROVE  /\ Doing("write")' => x = "write" /\ Src' = Src
             /\ Doing("count")' => x = "count" /\ Src' = Src
             /\ Doing("commit")' => x = "commit" /\ Src' = Src
  BY <1>0, OnlyNext DEF Inner
<1>1. ASSUME NEW x, Goes(x), x \notin {"write", "count", "commit"} PROVE AtCompare'
  BY <1>0, <1>1 DEF AtCompare
<1>2. ASSUME BeginCompare PROVE AtCompare'
  <2>1. /\ raw[Src] # Absent /\ raw' = raw
        /\ txn' = [src |-> Src, rows |-> [c \in Cells |-> Absent]]
    BY <1>2 DEF BeginCompare, disk
  <2>2. txn' = [src |-> Src, rows |-> txn'.rows] /\ txn'.rows = [c \in Cells |-> Absent]
    BY <2>1
  <2>3. txn'.rows \in [Cells -> Contents] /\ \A c \in Cells : txn'.rows[c] = Absent
    BY <2>2 DEF Contents
  <2>4. Contents' = Contents
    BY DEF Contents, Pubs
  <2>5. Goes("write")
    BY <1>2, InnerSteps
  <2> QED
    BY <2>1, <2>2, <2>3, <2>4, <2>5, <1>0 DEF AtCompare
<1>3. ASSUME WriteRows PROVE AtCompare'
  <2>1. PICK C \in IF Src \in Buildings THEN {{c} : c \in Cells} ELSE {Cells} :
          /\ txn' = [txn EXCEPT !.rows =
                       [c \in Cells |-> IF c \in C THEN Content(Src, c) ELSE txn.rows[c]]]
          /\ todo' = IF \E c \in Cells \ C : txn.rows[c] = Absent THEN todo ELSE Tail(todo)
    BY <1>3 DEF WriteRows
  <2>2. /\ Doing("write") /\ osm' = osm /\ raw' = raw /\ Src \in Sources
        /\ Goes("count") \/ todo' = todo
    BY <1>3, InnerSteps DEF WriteRows, disk
  <2>3. /\ txn = [src |-> Src, rows |-> txn.rows] /\ raw[Src] # Absent /\ txn.rows \in [Cells -> Contents]
        /\ \A c \in Cells : txn.rows[c] \in {Absent, Content(Src, c)}
    BY <2>2 DEF AtCompare
  <2> DEFINE R == [c \in Cells |-> IF c \in C THEN Content(Src, c) ELSE txn.rows[c]]
  <2>4. txn' = [src |-> Src, rows |-> txn'.rows] /\ txn'.rows = R
    BY <2>1, <2>3
  <2>5. \A c \in Cells : Content(Src, c) \in Contents /\ Content(Src, c) # Absent
    BY <2>2, <2>3, ContentIsData
  <2>6. R \in [Cells -> Contents] /\ \A c \in Cells : R[c] \in {Absent, Content(Src, c)}
    BY <2>3, <2>5
  <2>7. (\A c \in Cells \ C : txn.rows[c] # Absent) => \A c \in Cells : R[c] # Absent
    BY <2>5
  <2> HIDE DEF R
  <2>8. Contents' = Contents /\ \A s, c : Content(s, c)' = Content(s, c)
    BY <2>2 DEF Contents, Pubs, Content
  <2>9. CASE todo' = todo
    <3>1. Src' = Src /\ Doing("write")' /\ ~Doing("count")' /\ ~Doing("commit")'
      BY <2>2, <2>9 DEF Src, Doing
    <3> QED
      BY <2>2, <2>3, <2>4, <2>6, <2>8, <3>1 DEF AtCompare
  <2>10. CASE todo' # todo
    <3>1. Goes("count") /\ \A c \in Cells : R[c] # Absent
      BY <2>1, <2>2, <2>7, <2>10
    <3> QED
      BY <2>2, <2>3, <2>4, <2>6, <2>8, <3>1, <1>0 DEF AtCompare
  <2> QED
    BY <2>9, <2>10
<1>4. ASSUME RebuildTotals PROVE AtCompare'
  <2>1. Goes("commit") /\ Doing("count") /\ UNCHANGED <<txn, raw, osm>>
    BY <1>4, InnerSteps DEF RebuildTotals, disk
  <2>2. Contents' = Contents /\ \A s, c : Content(s, c)' = Content(s, c)
    BY <2>1 DEF Contents, Pubs, Content
  <2> QED
    BY <2>1, <2>2, <1>0 DEF AtCompare
<1>5. ASSUME Stamp \/ FinishTable \/ CommitCompare PROVE AtCompare'
  BY <1>5, InnerSteps, OutsideIsFree
<1>6. ASSUME Load PROVE AtCompare'
  <2>1. CASE todo' = todo
    BY <1>6, <2>1 DEF Load, AtCompare, Doing
  <2> QED
    BY <1>6, <1>1, <2>1, InnerSteps
<1> QED
  BY <1>1, <1>2, <1>3, <1>4, <1>5, <1>6, InnerSteps DEF Import, Compare
\* The step a command is at finds what it needs, whatever was done before it.
LEMMA AtStep ==
  Programmed /\ TypeOK /\ AtOsm /\ AtTable /\ AtCompare /\ [Next]_vars
    => AtOsm' /\ AtTable' /\ AtCompare'
<1> SUFFICES ASSUME Programmed, TypeOK, AtOsm, AtTable, AtCompare, [Next]_vars
             PROVE  AtOsm' /\ AtTable' /\ AtCompare'
  OBVIOUS
<1>1. CASE Publish \/ UNCHANGED vars
  <2>1. UNCHANGED <<todo, txn, osm, raw, compared>>
    BY <1>1 DEF Publish, vars, disk, history
  <2> QED
    BY <2>1 DEF AtOsm, AtTable, AtCompare, Doing, Src, Content, Contents, Pubs
<1>2. CASE (\E p \in Commands : Begin(p)) \/ EndEarly \/ Incremental \/ Tiles
  BY <1>2, OutsideSteps, OutsideIsFree
<1> QED
  BY <1>1, <1>2, AtOsmStep, AtTableStep, AtCompareStep DEF Next

\* Which steps touch what the stamp says.
LEMMA StampStep ==
  Programmed /\ TypeOK /\ AtOsm /\ StampIsEarned /\ [Next]_vars => StampIsEarned'
<1> SUFFICES ASSUME Programmed, TypeOK, AtOsm, StampIsEarned, [Next]_vars
             PROVE  StampIsEarned'
  OBVIOUS
<1>n. /\ osm \in [pub : Nat, done : Nat] /\ stamp \in Nat /\ feed \in Nat /\ Passes \in Nat
      /\ feed >= 1
  BY BoundsAssumption DEF TypeOK, Pubs
<1>1. CASE UNCHANGED <<osm, stamp, over>>
  BY <1>1 DEF StampIsEarned
<1>2. CASE DropOsm
  BY <1>2 DEF DropOsm, StampIsEarned
<1>3. CASE Load
  <2>1. osm.done < Passes /\ UNCHANGED <<stamp, over>>
    BY <1>3 DEF Load, AtOsm, history
  <2> QED
    BY <2>1, <1>n DEF StampIsEarned
<1>4. CASE Unstamp
  BY <1>4 DEF Unstamp, StampIsEarned
<1>5. CASE Stamp
  <2>1. osm.done = Passes /\ stamp' = osm.pub /\ UNCHANGED osm
    BY <1>5 DEF Stamp, AtOsm
  <2> QED
    BY <2>1, <1>n DEF StampIsEarned
<1>6. CASE UpdateOsm
  <2>1. /\ stamp # 0 /\ stamp' = feed /\ over' = over
        /\ osm' = IF stamp < feed THEN [osm EXCEPT !.pub = feed] ELSE osm
    BY <1>6 DEF UpdateOsm, history
  <2>2. osm'.done = osm.done /\ (stamp < feed => osm'.pub = feed) /\ (~(stamp < feed) => osm'.pub = osm.pub)
    BY <2>1, <1>n
  <2> QED
    BY <2>1, <2>2, <1>n DEF StampIsEarned
<1>7. CASE Compare \/ Tiles \/ Publish \/ EndEarly \/ \E p \in Commands : Begin(p)
  BY <1>7, <1>1 DEF Compare, BeginCompare, WriteRows, RebuildTotals, CommitCompare, Tiles,
     StoreTile, NothingToWarm, RefreshTile, ClearTiles, Publish, EndEarly, Begin, disk, history
<1>8. CASE ClearStore \/ Index \/ DropTable \/ CreateTable \/ FinishTable
  BY <1>8, <1>1 DEF ClearStore, Index, DropTable, CreateTable, FinishTable, disk, history
<1>9. CASE UpdateFile \/ (\E s \in Sources : Update(s)) \/ Enqueue \/ DrainEnds
           \/ \E s \in Sources, c \in Cells : RecomputeCell(s, c)
  BY <1>9, <1>1 DEF UpdateFile, Update, Refresh, Enqueue, DrainEnds, RecomputeCell, disk, history
<1> QED
  BY <1>1, <1>2, <1>3, <1>4, <1>5, <1>6, <1>7, <1>8, <1>9 DEF Next, Import, Incremental, vars, disk, history

\* What is served is kept where neither the rows, the totals nor the data change.
Served ==
  /\ \A s \in compared, c \in Cells : rows[s][c] = Content(s, c) \/ <<s, c>> \in queue
  /\ \A s \in Sources, c \in Cells :
       /\ (rows[s][c] = Absent) <=> (totals[s][c] = Absent)
       /\ rows[s][c] # Absent => rows[s][c].raw = totals[s][c]
\* The data of an unquiet cell may move when the cell is queued, that of a quiet
\* one does not.
LEMMA MovedIsQueued ==
  ASSUME TypeOK, Served, UNCHANGED <<rows, totals, compared>>,
         queue \subseteq queue', osm'.done = osm.done,
         \A s \in Sources : (raw'[s].pub = raw[s].pub /\ osm'.pub = osm.pub)
                            \/ Changed({s}) \subseteq queue'
  PROVE  Served'
<1>1. ASSUME NEW s \in compared, NEW c \in Cells
      PROVE  rows'[s][c] = Content(s, c)' \/ <<s, c>> \in queue'
  <2>0. s \in Sources
    BY DEF TypeOK
  <2>1. CASE raw'[s].pub = raw[s].pub /\ osm'.pub = osm.pub
    BY <2>1 DEF Served, Content, At
  <2>2. CASE Changed({s}) \subseteq queue' /\ c \notin Quiet
    BY <2>2 DEF Changed
  <2>3. CASE c \in Quiet
    <3>1. Content(s, c)' = Content(s, c)
      BY <2>3 DEF Content, At
    <3> QED
      BY <3>1 DEF Served
  <2> QED
    BY <2>0, <2>1, <2>2, <2>3
<1> QED
  BY <1>1 DEF Served

\* Every action keeps what was compared served, or queued to be.
LEMMA ServedStep ==
  Programmed /\ AtOsm /\ AtTable /\ AtCompare /\ TypeOK /\ Served /\ [Next]_vars => Served'
<1> SUFFICES ASSUME Programmed, AtOsm, AtTable, AtCompare, TypeOK, Served, [Next]_vars
             PROVE  Served'
  OBVIOUS
<1>1. CASE UNCHANGED <<rows, totals, compared, queue, osm, raw>>
  BY <1>1 DEF Served, Content
<1>2. CASE DropOsm
  BY <1>2 DEF DropOsm, Served
<1>3. CASE Load
  <2>1. compared = {} /\ UNCHANGED <<rows, totals, compared>>
    BY <1>3 DEF Load, AtOsm, history
  <2> QED
    BY <2>1 DEF Served
<1>4. CASE DropTable \/ CreateTable \/ FinishTable
  <2>1. /\ UNCHANGED <<rows, totals, queue, osm>> /\ compared' \subseteq compared
        /\ Src \notin compared'
    BY <1>4 DEF DropTable, CreateTable, FinishTable, AtTable, history
  <2>2. \A s \in Sources : s # Src => raw'[s] = raw[s]
    BY <1>4 DEF DropTable, CreateTable, FinishTable, TypeOK
  <2>3. \A s \in compared', c \in Cells : s \in Sources /\ Content(s, c)' = Content(s, c)
    BY <2>1, <2>2 DEF Content, TypeOK
  <2> QED
    BY <2>1, <2>3 DEF Served
<1>5. CASE CommitCompare
  <2>1. /\ Src \in Sources /\ raw[Src] # Absent /\ txn.rows \in [Cells -> Contents]
        /\ \A c \in Cells : txn.rows[c] = Content(Src, c)
    BY <1>5, InnerSteps DEF CommitCompare, AtCompare
  <2>2. /\ rows' = [rows EXCEPT ![Src] = txn.rows] /\ compared' = compared \cup {Src}
        /\ totals' = [totals EXCEPT ![Src] = [c \in Cells |-> At(c, raw[Src].pub)]]
        /\ UNCHANGED <<osm, raw, queue>>
    BY <1>5 DEF CommitCompare
  <2>3. \A s, c : Content(s, c)' = Content(s, c)
    BY <2>2 DEF Content
  <2>4. ASSUME NEW s \in Sources, s # Src PROVE rows'[s] = rows[s] /\ totals'[s] = totals[s]
    BY <2>2, <2>4 DEF TypeOK
  <2>5. \A c \in Cells : /\ rows'[Src][c] = Content(Src, c) /\ rows'[Src][c] # Absent
                         /\ totals'[Src][c] = At(c, raw[Src].pub) /\ totals'[Src][c] # Absent
                         /\ rows'[Src][c].raw = totals'[Src][c]
    BY <2>1, <2>2, ContentIsData DEF TypeOK
  <2>6. ASSUME NEW s \in compared', NEW c \in Cells
        PROVE  rows'[s][c] = Content(s, c)' \/ <<s, c>> \in queue'
    BY <2>2, <2>3, <2>4, <2>5 DEF Served, TypeOK
  <2>7. ASSUME NEW s \in Sources, NEW c \in Cells
        PROVE  /\ (rows'[s][c] = Absent) <=> (totals'[s][c] = Absent)
               /\ rows'[s][c] # Absent => rows'[s][c].raw = totals'[s][c]
    BY <2>4, <2>5 DEF Served
  <2> QED
    BY <2>6, <2>7 DEF Served
<1>6. CASE UpdateOsm
  <2>1. /\ UNCHANGED <<rows, totals, compared, raw>>
        /\ osm' = IF stamp < feed THEN [osm EXCEPT !.pub = feed] ELSE osm
        /\ queue' = IF stamp < feed THEN queue \cup Changed(Sources) ELSE queue
    BY <1>6 DEF UpdateOsm, history
  <2>2. osm'.done = osm.done
    BY <2>1 DEF TypeOK
  <2>3. \A s \in Sources : Changed({s}) \subseteq Changed(Sources)
    BY DEF Changed
  <2> QED
    BY <2>1, <2>2, <2>3, MovedIsQueued
<1>7. ASSUME NEW s \in Sources, NEW f, Refresh(s, f) PROVE Served'
  <2>1. /\ UNCHANGED <<rows, totals, compared, osm>> /\ raw[s] # Absent
        /\ raw' = [raw EXCEPT ![s].pub = f]
        /\ queue' = IF raw[s].pub # f THEN queue \cup Changed({s}) ELSE queue
    BY <1>7 DEF Refresh, history
  <2>2. \A z \in Sources : z # s => raw'[z] = raw[z]
    BY <2>1 DEF TypeOK
  <2>3. raw'[s].pub = f
    BY <2>1 DEF TypeOK
  <2> QED
    BY <2>1, <2>2, <2>3, MovedIsQueued
<1>8. CASE UpdateFile \/ \E s \in Sources : Update(s)
  <2>1. CASE UpdateFile
    <3>1. Src \in Sources
      BY <2>1, TailLegal DEF UpdateFile, Doing, Programmed, Src, OfSource
    <3> QED
      BY <2>1, <3>1, <1>7 DEF UpdateFile
  <2>2. ASSUME NEW s \in Sources, Update(s) PROVE Served'
    <3>1. Refresh(s, feed) \/ UNCHANGED <<rows, totals, compared, queue, osm, raw>>
      BY <2>2 DEF Update, disk, history
    <3> QED
      BY <3>1, <1>1, <1>7
  <2> QED
    BY <1>8, <2>1, <2>2
<1>9. CASE Enqueue
  <2>1. queue \subseteq queue' /\ UNCHANGED <<rows, totals, compared, osm, raw>>
    BY <1>9 DEF Enqueue, history
  <2> QED
    BY <2>1, MovedIsQueued
<1>10. ASSUME NEW s \in Sources, NEW c \in Cells, RecomputeCell(s, c) PROVE Served'
  <2>1. /\ raw[s] # Absent /\ rows' = [rows EXCEPT ![s][c] = Content(s, c)]
        /\ totals' = [totals EXCEPT ![s][c] = At(c, raw[s].pub)]
        /\ queue' = queue \ {<<s, c>>} /\ UNCHANGED <<osm, raw, compared>>
    BY <1>10 DEF RecomputeCell, history
  <2>2. \A z, d : Content(z, d)' = Content(z, d)
    BY <2>1 DEF Content
  <2>3. /\ rows'[s][c] = Content(s, c) /\ rows'[s][c] # Absent
        /\ totals'[s][c] = At(c, raw[s].pub) /\ totals'[s][c] # Absent
        /\ rows'[s][c].raw = totals'[s][c]
    BY <2>1, ContentIsData DEF TypeOK
  <2>4. ASSUME NEW z \in Sources, NEW d \in Cells, <<z, d>> # <<s, c>>
        PROVE  /\ rows'[z][d] = rows[z][d] /\ totals'[z][d] = totals[z][d]
               /\ <<z, d>> \in queue' <=> <<z, d>> \in queue
    BY <2>1, <2>4 DEF TypeOK
  <2>5. ASSUME NEW z \in compared', NEW d \in Cells
        PROVE  rows'[z][d] = Content(z, d)' \/ <<z, d>> \in queue'
    <3>1. z \in Sources /\ z \in compared
      BY <2>1 DEF TypeOK
    <3>2. CASE <<z, d>> = <<s, c>>
      BY <2>2, <2>3, <3>2
    <3>3. CASE <<z, d>> # <<s, c>>
      BY <2>2, <2>4, <3>1, <3>3 DEF Served
    <3> QED
      BY <3>2, <3>3
  <2>6. ASSUME NEW z \in Sources, NEW d \in Cells
        PROVE  /\ (rows'[z][d] = Absent) <=> (totals'[z][d] = Absent)
               /\ rows'[z][d] # Absent => rows'[z][d].raw = totals'[z][d]
    <3>1. CASE <<z, d>> = <<s, c>>
      BY <2>3, <3>1
    <3>2. CASE <<z, d>> # <<s, c>>
      <4>1. rows'[z][d] = rows[z][d] /\ totals'[z][d] = totals[z][d]
        BY <2>4, <3>2
      <4>2. /\ (rows[z][d] = Absent) <=> (totals[z][d] = Absent)
            /\ rows[z][d] # Absent => rows[z][d].raw = totals[z][d]
        BY DEF Served
      <4> QED
        BY <4>1, <4>2
    <3> QED
      BY <3>1, <3>2
  <2> QED
    BY <2>5, <2>6 DEF Served
<1>11. CASE Publish \/ EndEarly \/ (\E p \in Commands : Begin(p)) \/ Tiles
  BY <1>11, <1>1 DEF Publish, EndEarly, Begin, Tiles, StoreTile, NothingToWarm, RefreshTile,
     ClearTiles, disk, history
<1>12. CASE ClearStore \/ Index \/ Unstamp \/ Stamp \/ BeginCompare \/ WriteRows
            \/ RebuildTotals \/ DrainEnds
  BY <1>12, <1>1 DEF ClearStore, Index, Unstamp, Stamp, BeginCompare, WriteRows, RebuildTotals,
     DrainEnds, disk, history
<1> QED
  BY <1>1, <1>2, <1>3, <1>4, <1>5, <1>6, <1>8, <1>9, <1>10, <1>11, <1>12
     DEF Next, Import, Compare, Incremental, vars, disk, history

\* What is owed for the stored tile stays owed while the command goes on, and a
\* step that leaves the tile no row is one of a command that owes it.
LEMMA OwedOn ==
  ASSUME Programmed, todo # <<>>
  PROVE  /\ todo' = Tail(todo) /\ Head(todo).op # "clearTiles" => (OwesClear => OwesClear')
         /\ todo' = Tail(todo) /\ Head(todo).op \in Unmarked => OwesClear'
         /\ todo' = Tail(Tail(todo)) /\ Head(todo).op = "unstamp" => (OwesClear => OwesClear')
<1>0. Legal(todo) /\ Marks(todo)
  BY DEF Programmed
<1>1. ASSUME todo' = Tail(todo), Head(todo).op # "clearTiles", OwesClear PROVE OwesClear'
  BY <1>0, <1>1, TailLegal DEF OwesClear
<1>2. ASSUME todo' = Tail(todo), Head(todo).op \in Unmarked PROVE OwesClear'
  BY <1>0, <1>2, TailLegal DEF OwesClear
<1>3. ASSUME todo' = Tail(Tail(todo)), Head(todo).op = "unstamp", OwesClear PROVE OwesClear'
  <2> DEFINE t == Tail(todo)
  <2>1. Legal(t) /\ Marks(t) /\ t # <<>> /\ Head(t).op = "stamp" /\ Last(t) = Last(todo)
    BY <1>0, <1>3, TailLegal
  <2> HIDE DEF t
  <2>2. Last(t).op = "clearTiles"
    BY <1>3, <2>1 DEF OwesClear
  <2>3. Tail(t) # <<>> /\ Last(Tail(t)) = Last(t)
    BY <2>1, <2>2, TailLegal
  <2>4. todo' = Tail(t)
    BY <1>3 DEF t
  <2> QED
    BY <2>2, <2>3, <2>4 DEF OwesClear
<1> QED
  BY <1>1, <1>2, <1>3
\* Steps that show the tile nothing else.
LEMMA SamePicture ==
  ASSUME TypeOK, rows' = rows, \A s \in Sources : raw'[s] # Absent <=> raw[s] # Absent,
         \A s \in Sources : raw[s] # Absent => raw'[s].pub = raw[s].pub
  PROVE  Picture' = Picture
<1>1. \A s \in Sources : (IF raw'[s] = Absent THEN Absent ELSE raw'[s].pub)
                       = (IF raw[s] = Absent THEN Absent ELSE raw[s].pub)
  OBVIOUS
<1> QED
  BY <1>1 DEF Picture

\* Every action keeps the tiles fresh, queued or owed by the command under way.
LEMMA TilesStep ==
  Programmed /\ AtTable /\ TypeOK /\ TilesFresh /\ [Next]_vars => TilesFresh'
<1> SUFFICES ASSUME Programmed, AtTable, TypeOK, TilesFresh, [Next]_vars
             PROVE  TilesFresh'
  OBVIOUS
<1>1. ASSUME UNCHANGED <<rows, raw, tile, tileQueue, cut>>, OwesClear => OwesClear'
      PROVE  TilesFresh'
  BY <1>1 DEF TilesFresh, Picture
<1>2. CASE UNCHANGED vars \/ Publish
  <2>1. UNCHANGED <<rows, raw, tile, tileQueue, cut, todo>>
    BY <1>2 DEF vars, disk, history, Publish
  <2> QED
    BY <2>1, <1>1 DEF OwesClear
<1>3. ASSUME NEW p \in Commands, Begin(p) PROVE TilesFresh'
  BY <1>1, <1>3 DEF Begin, disk, history, OwesClear
<1>4. CASE EndEarly
  <2>1. /\ UNCHANGED <<rows, raw, tile, tileQueue>>
        /\ cut' = (cut \/ (OwesClear /\ tile # Absent))
    BY <1>4 DEF EndEarly, disk
  <2> QED
    BY <2>1 DEF TilesFresh, Picture
<1>5. CASE ClearStore \/ ClearTiles
  BY <1>5 DEF ClearStore, ClearTiles, TilesFresh
<1>6. CASE StoreTile \/ RefreshTile
  <2>1. tile' = Picture /\ UNCHANGED <<rows, raw>>
    BY <1>6 DEF StoreTile, RefreshTile
  <2> QED
    BY <2>1 DEF TilesFresh, Picture
<1>7. CASE DropTable \/ CreateTable \/ FinishTable \/ CommitCompare
  <2>1. /\ todo # <<>> /\ todo' = Tail(todo) /\ Head(todo).op \in Unmarked
    BY <1>7 DEF DropTable, CreateTable, FinishTable, CommitCompare, Doing, Done, Serving, Unmarked
  <2> QED
    BY <2>1, OwedOn DEF TilesFresh
<1>8. CASE DropOsm \/ Load \/ Index \/ Stamp \/ BeginCompare \/ WriteRows \/ RebuildTotals
           \/ NothingToWarm \/ Enqueue \/ DrainEnds \/ UpdateOsm
  <2>1. UNCHANGED <<rows, raw, tile, tileQueue, cut>>
    BY <1>8 DEF DropOsm, Load, Index, Stamp, BeginCompare, WriteRows, RebuildTotals,
       NothingToWarm, Enqueue, DrainEnds, UpdateOsm, disk, history
  <2>2. todo # <<>> /\ Head(todo).op # "clearTiles" /\ (todo' = Tail(todo) \/ todo' = todo)
    BY <1>8 DEF DropOsm, Load, Index, Stamp, BeginCompare, WriteRows, RebuildTotals,
       NothingToWarm, Enqueue, DrainEnds, UpdateOsm, MayUpdate, Doing, Done, Serving
  <2>3. OwesClear => OwesClear'
    BY <2>2, OwedOn DEF OwesClear
  <2> QED
    BY <2>1, <2>3, <1>1
<1>9. CASE Unstamp
  <2>1. UNCHANGED <<rows, raw, tile, tileQueue, cut>>
    BY <1>9 DEF Unstamp
  <2>2. /\ todo # <<>> /\ Head(todo).op = "unstamp"
        /\ todo' = Tail(todo) \/ todo' = Tail(Tail(todo))
    BY <1>9 DEF Unstamp, Doing, Done, Serving
  <2>3. OwesClear => OwesClear'
    BY <2>2, OwedOn
  <2> QED
    BY <2>1, <2>3, <1>1
<1>10. ASSUME NEW s \in Sources, NEW f \in Nat, Refresh(s, f), OwesClear => OwesClear'
       PROVE  TilesFresh'
  <2>1. /\ UNCHANGED <<rows, tile, cut>> /\ raw[s] # Absent
        /\ raw' = [raw EXCEPT ![s] = [raw[s] EXCEPT !.pub = f]]
        /\ tileQueue' = (tileQueue \/ raw[s].pub # f)
    BY <1>10 DEF Refresh, history
  <2>2. CASE raw[s].pub # f
    BY <2>1, <2>2 DEF TilesFresh
  <2>3. CASE raw[s].pub = f
    <3>1. /\ raw'[s].pub = f /\ raw'[s] \in [pub : Nat, finished : BOOLEAN]
          /\ \A z \in Sources : z # s => raw'[z] = raw[z]
      BY <2>1, BoundsAssumption DEF TypeOK, Pubs
    <3>2. Picture' = Picture
      BY <2>1, <2>3, <3>1, AbsentAssumption, SamePicture
    <3> QED
      BY <1>10, <2>1, <2>3, <3>2 DEF TilesFresh
  <2> QED
    BY <2>2, <2>3
<1>11. CASE UpdateFile
  <2>1. Src \in Sources /\ (OwesClear => OwesClear')
    <3>1. todo # <<>> /\ Head(todo).op = "updateFile" /\ todo' = Tail(todo)
      BY <1>11 DEF UpdateFile, Doing, Done, Serving
    <3> QED
      BY <3>1, OwedOn, TailLegal DEF Programmed, Src, OfSource
  <2>2. \A f \in 1 .. feed : f \in Nat
    BY DEF TypeOK
  <2> QED
    BY <1>10, <1>11, <2>1, <2>2 DEF UpdateFile
<1>12. ASSUME NEW s \in Sources, Update(s) PROVE TilesFresh'
  <2>1. todo # <<>> /\ Head(todo).op # "clearTiles" /\ (todo' = Tail(todo) \/ todo' = todo)
    BY <1>12 DEF Update, MayUpdate, Doing, Done, Serving
  <2>2. OwesClear => OwesClear'
    BY <2>1, OwedOn DEF OwesClear
  <2>3. feed \in Nat
    BY BoundsAssumption DEF TypeOK
  <2>4. CASE etag[s] = feed
    <3>1. UNCHANGED <<rows, raw, tile, tileQueue, cut>>
      BY <1>12, <2>4 DEF Update, disk, history
    <3> QED
      BY <2>2, <3>1, <1>1
  <2>5. CASE etag[s] # feed
    BY <1>10, <1>12, <2>2, <2>3, <2>5 DEF Update
  <2> QED
    BY <2>4, <2>5
<1>13. ASSUME NEW s \in Sources, NEW c \in Cells, RecomputeCell(s, c) PROVE TilesFresh'
  BY <1>13 DEF RecomputeCell, TilesFresh
<1> QED
  BY <1>2, <1>3, <1>4, <1>5, <1>6, <1>7, <1>8, <1>9, <1>11, <1>12, <1>13
     DEF Next, Import, Compare, Incremental, Tiles

\* Only a finished comparison and a drained cell replace what is served, and both
\* have rows to put there.
LEMMA BlankStep ==
  Programmed /\ AtCompare /\ TypeOK /\ [Next]_vars
    => \A s \in Sources, c \in Cells : rows[s][c] # Absent => rows'[s][c] # Absent
<1> SUFFICES ASSUME Programmed, AtCompare, TypeOK, [Next]_vars,
                    NEW s \in Sources, NEW c \in Cells, rows[s][c] # Absent
             PROVE  rows'[s][c] # Absent
  OBVIOUS
<1>1. CASE rows' = rows
  BY <1>1
<1>2. CASE CommitCompare
  <2>1. /\ txn.rows \in [Cells -> Contents] /\ \A d \in Cells : txn.rows[d] # Absent
        /\ rows' = [rows EXCEPT ![Src] = txn.rows]
    BY <1>2 DEF CommitCompare, AtCompare
  <2> QED
    BY <2>1 DEF TypeOK
<1>3. ASSUME NEW z \in Sources, NEW d \in Cells, RecomputeCell(z, d) PROVE rows'[s][c] # Absent
  <2>1. rows' = [rows EXCEPT ![z][d] = Content(z, d)] /\ Content(z, d) # Absent
    BY <1>3, ContentIsData DEF RecomputeCell
  <2> QED
    BY <2>1 DEF TypeOK
<1>4. CASE Import
  BY <1>1, <1>4 DEF Import, DropOsm, ClearStore, Load, Index, Unstamp, Stamp, DropTable,
     CreateTable, FinishTable, disk
<1>5. CASE BeginCompare \/ WriteRows \/ RebuildTotals \/ Tiles
  BY <1>1, <1>5 DEF BeginCompare, WriteRows, RebuildTotals, Tiles, StoreTile, NothingToWarm,
     RefreshTile, ClearTiles, disk
<1>6. CASE UpdateOsm \/ UpdateFile \/ (\E z \in Sources : Update(z)) \/ Enqueue \/ DrainEnds
  BY <1>1, <1>6 DEF UpdateOsm, UpdateFile, Update, Refresh, Enqueue, DrainEnds, disk
<1>7. CASE Publish \/ EndEarly \/ (\E p \in Commands : Begin(p)) \/ UNCHANGED vars
  BY <1>1, <1>7 DEF Publish, EndEarly, Begin, vars, disk
<1> QED
  BY <1>2, <1>3, <1>4, <1>5, <1>6, <1>7 DEF Next, Compare, Incremental

-------------------------------------------------------------------------------
(* The commands: what holds of the database                                *)

\* The induction step: all the parts of the invariant together.
LEMMA OfflineStep == OfflineInv /\ [Next]_vars => OfflineInv'
<1> SUFFICES ASSUME OfflineInv, [Next]_vars PROVE OfflineInv'
  OBVIOUS
<1>1. /\ Programmed /\ AtOsm /\ AtTable /\ AtCompare /\ TypeOK /\ Served
      /\ StampIsEarned /\ TilesFresh
  BY DEF OfflineInv, ComparedStaysServed, Served
<1>2. Programmed' /\ AtOsm' /\ AtTable' /\ AtCompare' /\ TypeOK'
  BY <1>1, ProgrammedStep, AtStep, OfflineTypes
<1>3. Served' /\ StampIsEarned' /\ TilesFresh'
  BY <1>1, ServedStep, StampStep, TilesStep
<1> QED
  BY <1>2, <1>3 DEF OfflineInv, ComparedStaysServed, Served

\* The parts hold together of every run.
LEMMA OfflineInvHolds == Spec => []OfflineInv
BY OfflineInitInv, OfflineStep, PTL DEF Spec

\* For any sources, cells, passes and commands, whatever fails, is stopped or
\* dies: a stamp is one of data loaded in full, unless an import replaced it.
THEOREM StampEarned == Spec => []StampIsEarned
<1>1. OfflineInv => StampIsEarned
  BY DEF OfflineInv
<1> QED
  BY OfflineInvHolds, <1>1, PTL

\* No step takes away what is served, for a compare replaces it only with all of
\* its cells written.
THEOREM NothingBlanked == Spec => NeverBlanked
<1>1. OfflineInv /\ [Next]_vars
        => [\A s \in Sources, c \in Cells : rows[s][c] # Absent => rows'[s][c] # Absent]_vars
  BY BlankStep DEF OfflineInv, ComparedStaysServed
<1> QED
  BY OfflineInvHolds, <1>1, PTL DEF Spec, NeverBlanked

\* What was compared once is served from the newest data or queued.
THEOREM ServedOrQueued == Spec => []ComparedStaysServed
<1>1. OfflineInv => ComparedStaysServed
  BY DEF OfflineInv
<1> QED
  BY OfflineInvHolds, <1>1, PTL

\* The stored tile shows the data, or there is a row or a command that owes it.
THEOREM StoredTilesFresh == Spec => []TilesFresh
<1>1. OfflineInv => TilesFresh
  BY DEF OfflineInv
<1> QED
  BY OfflineInvHolds, <1>1, PTL
===============================================================================
