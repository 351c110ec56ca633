-------------------------- MODULE MatchInputsProofs --------------------------
(***************************************************************************)
(* What MatchInputs promises, for any keys, contents, cells, handlers and  *)
(* bounds.                                                                 *)
(*                                                                         *)
(*   Types and ids.  Ids are given from MAX(id) + 1 of a snapshot, so that *)
(*   an id is in 1..MaxReports has to be shown: it is no greater than the  *)
(*   place of its row (IdsBounded).  Exclusive says what the scenario      *)
(*   keeps apart.                                                          *)
(*   ClashOnlyUnseen.  Numbered: the ids of an open insert follow those    *)
(*   stored when it began, whatever others store meanwhile, and those of   *)
(*   its own rows rise; so a stored id is greater than all its writer saw. *)
(*   NoStaleActive.  Current: stored reports and those about to be stored  *)
(*   are about what their record says, and an open refresh has seen all    *)
(*   of them; what the refresh changes it retires.                         *)
(*   ServedOrQueued, TileRowWithChange.  The cell a report is stored with  *)
(*   is the cell its record is in (Current), so the cells a step queues    *)
(*   are those in which a record, its report or the mapping changed        *)
(*   (Announced); a mapping swap holds every cell with a record            *)
(*   (SwapCovers); and what is served changes with a drain alone           *)
(*   (Drained).                                                            *)
(***************************************************************************)
EXTENDS MatchInputs, SequenceTheorems, FiniteSetTheorems, TLAPS

\* A bounded set of naturals has a greatest element: MAX of a column of ids.
LEMMA BoundedMax ==
  ASSUME NEW n \in Nat, NEW S \in SUBSET (0..n), S # {}
  PROVE  Max(S) \in S /\ \A y \in S : y <= Max(S)
<1> DEFINE T == {n - x : x \in S}
<1>1. T \in SUBSET Nat /\ T # {}
  <2>1. \A x \in S : x \in Nat /\ n - x \in Nat
    OBVIOUS
  <2> QED
    BY <2>1
<1>2. \E t \in T : \A u \in T : <<u, t>> \notin OpToRel(<, Nat)
  BY <1>1, WFMin, NatLessThanWellFounded
<1>3. \A t, u \in T : <<u, t>> \notin OpToRel(<, Nat) => t <= u
  BY <1>1 DEF OpToRel
<1>4. \E t \in T : \A u \in T : t <= u
  BY <1>2, <1>3
<1>5. PICK x \in S : \A y \in S : n - x <= n - y
  BY <1>4
<1>6. \A y \in S : x >= y
  BY <1>5
<1>7. \E z \in S : \A y \in S : z >= y
  BY <1>6
<1>8. Max(S) \in S /\ \A y \in S : Max(S) >= y
  BY <1>7 DEF Max
<1> QED
  BY <1>8

\* A set of keys as a sequence: each once.
LEMMA Listed ==
  ASSUME NEW S \in SUBSET Keys
  PROVE  /\ Cardinality(S) \in Nat
         /\ SetToSeq(S) \in [1..Cardinality(S) -> S]
<1>1. IsFiniteSet(S)
  BY KeysAssumption, FS_Subset
<1>2. Cardinality(S) \in Nat /\ ExistsBijection(1..Cardinality(S), S)
  BY <1>1, FS_CardinalityType
<1>3. \E f \in [1..Cardinality(S) -> S] : IsInjective(f)
  BY <1>2 DEF ExistsBijection, Bijection, Injection
<1> QED
  BY <1>2, <1>3 DEF SetToSeq

-------------------------------------------------------------------------------
(* Type correctness                                                        *)

\* The id of a report is no greater than its place in the table.
IdsBounded ==
  /\ \A i \in DOMAIN reports : reports[i].id <= Len(reports)
  /\ \A h \in Handlers : \A i \in DOMAIN ins[h].rows :
       ins[h].rows[i].id <= Len(reports) + i

\* The next id follows all there are, and leaves room for one per report.
LEMMA NextIdRight ==
  ASSUME TypeOK, IdsBounded
  PROVE  /\ NextId \in 1..(Len(reports) + 1)
         /\ \A i \in DOMAIN reports : reports[i].id < NextId
<1> DEFINE ids == {reports[i].id : i \in DOMAIN reports}
           m == Max({0} \cup ids)
<1>1. Len(reports) \in Nat /\ \A i \in DOMAIN reports : reports[i].id \in 1..MaxReports
  <2>1. reports \in Seq(Report)
    BY DEF TypeOK
  <2>2. Len(reports) \in Nat /\ \A i \in DOMAIN reports : reports[i] \in Report
    BY <2>1, LenProperties
  <2> QED
    BY <2>2 DEF Report
<1>2. {0} \cup ids \in SUBSET (0..Len(reports))
  BY <1>1, BoundsAssumption DEF IdsBounded
<1>3. m \in {0} \cup ids /\ \A y \in {0} \cup ids : y <= m
  BY <1>1, <1>2, BoundedMax
<1> HIDE DEF m
<1>4. m \in 0..Len(reports) /\ \A i \in DOMAIN reports : reports[i].id <= m
  BY <1>2, <1>3
<1>5. NextId = 1 + m
  BY DEF NextId, m
<1> QED
  BY <1>1, <1>4, <1>5, BoundsAssumption

\* The rows of a report: one per accepted key, active, as the record is now.
LEMMA RowsForRight ==
  ASSUME TypeOK, IdsBounded, NEW S \in SUBSET Keys,
         Len(reports) + Cardinality(Accepted(S)) <= MaxReports
  PROVE  /\ RowsFor(S) \in Seq(Report)
         /\ \A i \in DOMAIN RowsFor(S) :
              /\ RowsFor(S)[i].status = "active"
              /\ RowsFor(S)[i].signature = live[RowsFor(S)[i].key]
              /\ RowsFor(S)[i].id = NextId + i - 1
              /\ RowsFor(S)[i].id <= Len(reports) + i
<1> DEFINE n == Cardinality(Accepted(S))
           accepted == SetToSeq(Accepted(S))
<1>1. Accepted(S) \in SUBSET Keys /\ \A k \in Accepted(S) : live[k] \in Contents
  BY CellsAssumption DEF Accepted, TypeOK, Table
<1>2. n \in Nat /\ accepted \in [1..n -> Accepted(S)]
  BY <1>1, Listed
<1> HIDE DEF n, accepted
<1>3. RowsFor(S) = [i \in 1..n |-> [id |-> NextId + i - 1, key |-> accepted[i],
                                    signature |-> live[accepted[i]], status |-> "active"]]
  BY <1>2 DEF RowsFor, accepted
<1>4. Len(reports) \in Nat /\ Len(reports) + n <= MaxReports
  BY DEF TypeOK, n
<1>5. \A i \in 1..n : NextId + i - 1 \in 1..MaxReports /\ NextId + i - 1 <= Len(reports) + i
  BY <1>2, <1>4, NextIdRight, BoundsAssumption
<1>6. \A i \in 1..n : RowsFor(S)[i] \in Report
  BY <1>1, <1>2, <1>3, <1>5 DEF Report, Statuses
<1> QED
  BY <1>2, <1>3, <1>5, <1>6

\* One row of an UPDATE of the status.
LEMMA Resolved ==
  ASSUME NEW r \in Report, NEW status \in Statuses
  PROVE  LET t == [r EXCEPT !.status = status]
         IN /\ t \in Report /\ t.status = status
            /\ t.id = r.id /\ t.key = r.key /\ t.signature = r.signature
BY DEF Report

\* What an UPDATE of a status leaves of the reports.
LEMMA RetiredRight ==
  ASSUME NEW rows \in Seq(Report), NEW S, NEW status \in Statuses
  PROVE  /\ Retired(rows, S, status) \in Seq(Report)
         /\ Len(Retired(rows, S, status)) = Len(rows)
         /\ DOMAIN Retired(rows, S, status) = DOMAIN rows
         /\ \A i \in DOMAIN rows :
              /\ Retired(rows, S, status)[i].id = rows[i].id
              /\ Retired(rows, S, status)[i].key = rows[i].key
              /\ Retired(rows, S, status)[i].signature = rows[i].signature
              /\ Retired(rows, S, status)[i].status = IF i \in S THEN status ELSE rows[i].status
         /\ S \cap DOMAIN rows = {} => Retired(rows, S, status) = rows
<1> DEFINE n == Len(rows)
           set(i) == [rows[i] EXCEPT !.status = status]
           out == Retired(rows, S, status)
<1>1. n \in Nat /\ DOMAIN rows = 1..n /\ rows \in [1..n -> Report]
  BY LenProperties
<1>2. \A i \in 1..n : /\ set(i) \in Report /\ set(i).status = status /\ set(i).id = rows[i].id
                      /\ set(i).key = rows[i].key /\ set(i).signature = rows[i].signature
  BY <1>1, Resolved
<1> HIDE DEF n, set
<1>3. out = [i \in 1..n |-> IF i \in S THEN set(i) ELSE rows[i]]
  BY <1>1 DEF Retired, set
<1> HIDE DEF out
<1>4. out \in [1..n -> Report]
  BY <1>1, <1>2, <1>3
<1>5. out \in Seq(Report) /\ Len(out) = n /\ DOMAIN out = 1..n
  BY <1>1, <1>4
<1>6. S \cap DOMAIN rows = {} => out = rows
  BY <1>1, <1>3
<1>7. \A i \in 1..n : /\ out[i].id = rows[i].id /\ out[i].key = rows[i].key
                      /\ out[i].signature = rows[i].signature
                      /\ out[i].status = IF i \in S THEN status ELSE rows[i].status
  BY <1>2, <1>3
<1> QED
  BY <1>1, <1>5, <1>6, <1>7 DEF out, n

\* The rows a dump brings back: as they were, but for ids that follow.
LEMMA RestoredRight ==
  ASSUME TypeOK, IdsBounded, NEW d \in DOMAIN dumps,
         Len(reports) + Len(Restored(d)) <= MaxReports
  PROVE  /\ Restored(d) \in Seq(Report)
         /\ \A i \in DOMAIN Restored(d) :
              Restored(d)[i].id = NextId + i - 1 /\ Restored(d)[i].id <= Len(reports) + i
<1> DEFINE n == Len(dumps[d])
           put(i) == [dumps[d][i] EXCEPT !.id = NextId + i - 1]
<1>1. dumps[d] \in Seq(Report)
  BY LenProperties DEF TypeOK
<1>2. n \in Nat /\ DOMAIN dumps[d] = 1..n /\ dumps[d] \in [1..n -> Report]
  BY <1>1, LenProperties
<1> HIDE DEF n
<1>3. Restored(d) = [i \in 1..n |-> put(i)] /\ Len(Restored(d)) = n
  BY <1>2 DEF Restored
<1>4. Len(reports) \in Nat /\ Len(reports) + n <= MaxReports
  BY <1>3, LenProperties DEF TypeOK
<1>5. \A i \in 1..n : NextId + i - 1 \in 1..MaxReports /\ NextId + i - 1 <= Len(reports) + i
  BY <1>2, <1>4, NextIdRight, BoundsAssumption
<1>6. ASSUME NEW i \in 1..n PROVE put(i) \in Report /\ put(i).id = NextId + i - 1
  <2>1. dumps[d][i] \in Report
    BY <1>2
  <2> QED
    BY <1>5, <2>1 DEF Report
<1> HIDE DEF put
<1>7. Restored(d) \in [1..n -> Report]
  BY <1>3, <1>6
<1>8. Restored(d) \in Seq(Report) /\ DOMAIN Restored(d) = 1..n
  BY <1>2, <1>7
<1> QED
  BY <1>3, <1>5, <1>6, <1>8

-------------------------------------------------------------------------------
\* What the scenario keeps apart is apart, and a transaction that is not open
\* holds nothing.
Exclusive ==
  /\ "report-refresh" \notin scenario => ~(Reporting /\ ref.open)
  /\ "mapping-refresh" \notin scenario => ~(swap.open /\ ref.open)
  /\ \A h \in Handlers : ~ins[h].open => ins[h].rows = <<>>
  /\ swap.open => mapping < MaxSwaps

\* An import leaves nothing open, and serves what a recompute finds.
LEMMA TypeInit == Init => TypeOK /\ IdsBounded /\ Exclusive
<1> SUFFICES ASSUME Init PROVE TypeOK /\ IdsBounded /\ Exclusive
  OBVIOUS
<1>1. \A c \in Cells : Unmatched(c) \subseteq Keys \X Contents \X (0..MaxSwaps)
  BY ImportedAssumption, CellsAssumption, BoundsAssumption DEF Init, Unmatched, In, Table
<1>2. TypeOK
  BY <1>1, ImportedAssumption, BoundsAssumption
     DEF Init, TypeOK, NoInsert, NoRefresh, NoSwap
<1> QED
  BY <1>2 DEF Init, IdsBounded, Exclusive, NoInsert, NoRefresh, NoSwap, Reporting

\* What a recompute finds is what the column holds.
LEMMA UnmatchedType ==
  ASSUME TypeOK, NEW c \in Cells
  PROVE  Unmatched(c) \subseteq Keys \X Contents \X (0..MaxSwaps)
BY CellsAssumption DEF TypeOK, Unmatched, In, Table

\* The cells of typed rows are cells.
LEMMA CellsOfType ==
  ASSUME NEW rows \in Seq(Report), NEW S \in SUBSET DOMAIN rows
  PROVE  CellsOf(rows, S) \subseteq Cells
<1>1. \A i \in S : rows[i] \in Report
  BY LenProperties
<1>2. \A i \in S : rows[i].signature \in Contents
  BY <1>1 DEF Report
<1> QED
  BY <1>2, CellsAssumption DEF CellsOf

\* What is looked for among rows is among them.
LEMMA RowsOf ==
  ASSUME NEW rows, NEW table
  PROVE  /\ Active(rows) \subseteq DOMAIN rows
         /\ Missing(rows, table) \subseteq DOMAIN rows
         /\ Changed(rows, table) \subseteq DOMAIN rows
         /\ Stale(rows, table) \subseteq DOMAIN rows
BY DEF Active, Missing, Changed, Stale

\* What rows at the end of the table and what their writer saw leave there.
LEMMA StoreRight ==
  ASSUME TypeOK, NEW rows \in Seq(Report), NEW saw \in Nat, Store(rows, saw)
  PROVE  /\ reports' \in Seq(Report) /\ Len(reports') = Len(reports) + Len(rows)
         /\ visible' \in Seq(SUBSET Nat) /\ Len(visible') = Len(reports')
         /\ \A j \in 1..Len(reports') :
              visible'[j] = IF j <= Len(reports) THEN visible[j]
                            ELSE (1..saw) \cup ((Len(reports) + 1)..(j - 1))
<1> DEFINE n == Len(reports)
           m == Len(rows)
           seen == [i \in 1..m |-> (1..saw) \cup ((n + 1)..(n + i - 1))]
<1>1. /\ n \in Nat /\ m \in Nat /\ DOMAIN rows = 1..m
      /\ reports \in Seq(Report) /\ visible \in Seq(SUBSET Nat) /\ Len(visible) = n
  BY LenProperties DEF TypeOK
<1> HIDE DEF n, m
<1>2. reports' = reports \o rows /\ visible' = visible \o seen
  BY <1>1 DEF Store, n
<1>3. \A i \in 1..m : (1..saw) \cup ((n + 1)..(n + i - 1)) \in SUBSET Nat
  BY <1>1
<1>4. seen \in [1..m -> SUBSET Nat]
  BY <1>3
<1>5. seen \in Seq(SUBSET Nat) /\ Len(seen) = m
  BY <1>1, <1>4
<1>6. reports' \in Seq(Report) /\ Len(reports') = n + m
  BY <1>1, <1>2, ConcatProperties DEF n, m
<1> HIDE DEF seen
<1>7. /\ visible' \in Seq(SUBSET Nat) /\ Len(visible') = n + m
      /\ \A j \in 1..(n + m) : visible'[j] = IF j <= n THEN visible[j] ELSE seen[j - n]
  BY <1>1, <1>2, <1>5, ConcatProperties
<1>8. ASSUME NEW j \in 1..(n + m), ~(j <= n)
      PROVE  seen[j - n] = (1..saw) \cup ((n + 1)..(j - 1))
  <2>1. j - n \in 1..m /\ n + (j - n) - 1 = j - 1
    BY <1>1, <1>8
  <2>2. seen[j - n] = (1..saw) \cup ((n + 1)..(n + (j - n) - 1))
    BY <2>1 DEF seen
  <2> QED
    BY <2>1, <2>2
<1> QED
  BY <1>6, <1>7, <1>8 DEF n, m

\* The steps of a report keep the types: new rows are rows.
LEMMA TypeReports ==
  ASSUME TypeOK, IdsBounded, NEW h \in Handlers,
         BeginReport(h) \/ CommitReport(h) \/ AbortReport(h)
  PROVE  TypeOK'
<1>1. CASE BeginReport(h)
  <2>1. PICK S \in SUBSET Keys \ {{}} :
          /\ Len(reports) + Cardinality(Accepted(S)) <= MaxReports
          /\ ins' = [ins EXCEPT ![h] = [open |-> TRUE, rows |-> RowsFor(S), saw |-> Len(reports)]]
    BY <1>1 DEF BeginReport
  <2>2. RowsFor(S) \in Seq(Report)
    BY <2>1, RowsForRight
  <2>3. ins' \in [Handlers -> [open : BOOLEAN, rows : Seq(Report), saw : Nat]]
    BY <2>1, <2>2 DEF TypeOK
  <2> QED
    BY <1>1, <2>3 DEF BeginReport, TypeOK, EnqueueNothing, inputs, counts
<1>2. CASE CommitReport(h)
  <2>1. ins[h].rows \in Seq(Report) /\ ins[h].saw \in Nat
    BY DEF TypeOK
  <2>2. /\ reports' \in Seq(Report) /\ Len(reports') <= MaxReports
        /\ visible' \in Seq(SUBSET Nat) /\ Len(visible') = Len(reports')
    BY <1>2, <2>1, StoreRight DEF CommitReport
  <2>3. CellsOf(ins[h].rows, DOMAIN ins[h].rows) \subseteq Cells
    BY <2>1, CellsOfType
  <2>4. ins' \in [Handlers -> [open : BOOLEAN, rows : Seq(Report), saw : Nat]]
    BY <1>2 DEF CommitReport, NoInsert, TypeOK
  <2> QED
    BY <1>2, <2>2, <2>3, <2>4 DEF CommitReport, Enqueue, TypeOK, counts
<1>3. CASE AbortReport(h)
  BY <1>3 DEF AbortReport, TypeOK, NoInsert, EnqueueNothing, inputs, counts
<1> QED
  BY <1>1, <1>2, <1>3

\* The steps of a refresh keep the types: the staged table is one.
LEMMA TypeRefresh ==
  ASSUME TypeOK, BeginRefresh \/ CommitRefresh \/ AbortRefresh
  PROVE  TypeOK'
<1>1. CASE BeginRefresh
  BY <1>1, BoundsAssumption DEF BeginRefresh, TypeOK, EnqueueNothing, inputs
<1>2. CASE CommitRefresh
  <2>1. PICK new \in Table :
          LET outdated == Stale(ref.seen, new) IN
          /\ live' = new
          /\ reports' = Retired(reports, outdated, "expired")
          /\ Enqueue(ChangedCells(live, new) \cup CellsOf(ref.seen, outdated))
    BY <1>2 DEF CommitRefresh
  <2> DEFINE outdated == Stale(ref.seen, new)
  <2>2. reports' \in Seq(Report) /\ Len(reports') <= MaxReports /\ Len(reports') = Len(reports)
    BY <2>1, RetiredRight DEF TypeOK, Statuses
  <2>3. ref.seen \in Seq(Report)
    BY DEF TypeOK
  <2>4. CellsOf(ref.seen, outdated) \subseteq Cells
    BY <2>3, RowsOf, CellsOfType
  <2>5. ChangedCells(live, new) \subseteq Cells
    BY CellsAssumption DEF ChangedCells, TypeOK, Table
  <2>6. ref' \in [open : BOOLEAN, seen : Seq(Report)]
    BY <1>2 DEF CommitRefresh, NoRefresh
  <2> QED
    BY <1>2, <2>1, <2>2, <2>4, <2>5, <2>6 DEF CommitRefresh, Enqueue, TypeOK, counts
<1>3. CASE AbortRefresh
  BY <1>3 DEF AbortRefresh, NoRefresh, TypeOK, EnqueueNothing, inputs, counts
<1> QED
  BY <1>1, <1>2, <1>3

\* The steps of a mapping swap keep the types.
LEMMA TypeSwap ==
  ASSUME TypeOK, Exclusive, BeginSwap \/ CommitSwap \/ AbortSwap
  PROVE  TypeOK'
<1>1. CASE BeginSwap
  BY <1>1 DEF BeginSwap, TypeOK, EnqueueNothing, inputs, counts
<1>2. CASE CommitSwap
  <2>1. mapping' \in 0..MaxSwaps
    BY <1>2, BoundsAssumption DEF CommitSwap, Exclusive, TypeOK
  <2> QED
    BY <1>2, <2>1 DEF CommitSwap, Enqueue, NoSwap, TypeOK, counts
<1>3. CASE AbortSwap
  BY <1>3 DEF AbortSwap, NoSwap, TypeOK, EnqueueNothing, inputs, counts
<1> QED
  BY <1>1, <1>2, <1>3

\* The steps of reports_reconcile keep the types.
LEMMA TypeJob ==
  ASSUME TypeOK, Reconcile \/ JobFails
  PROVE  TypeOK'
<1>1. CASE JobEnqueue
  <2>1. CellsOf(reports, Stale(reports, live)) \subseteq Cells
    BY RowsOf, CellsOfType DEF TypeOK
  <2> QED
    BY <1>1, <2>1 DEF JobEnqueue, TypeOK, counts, inputs
<1>2. CASE JobEnqueueTiles
  <2>1. CellsOf(reports, Stale(reports, live)) \subseteq Cells
    BY RowsOf, CellsOfType DEF TypeOK
  <2> QED
    BY <1>2, <2>1 DEF JobEnqueueTiles, TypeOK, counts, inputs
<1>3. CASE JobRetireMissing
  <2>1. reports' \in Seq(Report) /\ Len(reports') <= MaxReports /\ Len(reports') = Len(reports)
    BY <1>3, RetiredRight DEF JobRetireMissing, TypeOK, Statuses
  <2> QED
    BY <1>3, <2>1 DEF JobRetireMissing, TypeOK, EnqueueNothing, counts
<1>4. CASE JobRetireChanged
  <2>1. reports' \in Seq(Report) /\ Len(reports') <= MaxReports /\ Len(reports') = Len(reports)
    BY <1>4, RetiredRight DEF JobRetireChanged, TypeOK, Statuses
  <2> QED
    BY <1>4, <2>1 DEF JobRetireChanged, TypeOK, EnqueueNothing, counts
<1>5. CASE JobFails
  BY <1>5, BoundsAssumption DEF JobFails, Fault, TypeOK, EnqueueNothing, inputs
<1> QED
  BY <1>1, <1>2, <1>3, <1>4, <1>5 DEF Reconcile

\* Revoke, backup, restore and a drain keep the types.
LEMMA TypeOthers ==
  ASSUME TypeOK, IdsBounded,
         Revoke \/ BackUp \/ Restore \/ (\E c \in Cells : Drain(c)) \/ UNCHANGED vars
  PROVE  TypeOK'
<1>1. CASE Revoke
  <2>1. PICK S \in SUBSET Active(reports) :
          reports' = Retired(reports, S, "revoked") /\ Enqueue(CellsOf(reports, S))
    BY <1>1 DEF Revoke
  <2>2. reports' \in Seq(Report) /\ Len(reports') <= MaxReports /\ Len(reports') = Len(reports)
    BY <2>1, RetiredRight DEF TypeOK, Statuses
  <2>3. CellsOf(reports, S) \subseteq Cells
    BY <2>1, RowsOf, CellsOfType DEF TypeOK
  <2> QED
    BY <1>1, <2>1, <2>2, <2>3 DEF Revoke, Enqueue, TypeOK, counts
<1>2. CASE BackUp
  <2> DEFINE text == Reverse(reports)
             files == IF dumps # <<>> /\ Last(dumps) = text THEN dumps ELSE Append(dumps, text)
  <2>1. text \in Seq(Report)
    <3>1. Len(reports) \in Nat /\ reports \in [1..Len(reports) -> Report]
      BY LenProperties DEF TypeOK
    <3>2. \A i \in 1..Len(reports) : (Len(reports) - i) + 1 \in 1..Len(reports)
      BY <3>1
    <3>3. text \in [1..Len(reports) -> Report]
      BY <3>1, <3>2 DEF Reverse
    <3> QED
      BY <3>1, <3>3
  <2>2. files \in Seq(Seq(Report))
    BY <2>1, AppendProperties DEF TypeOK
  <2> HIDE DEF files
  <2>3. PICK oldest \in DOMAIN files :
          Len(files) - oldest < MaxDumps /\ dumps' = SubSeq(files, oldest, Len(files))
    BY <1>2 DEF BackUp, files
  <2>4. Len(files) \in Nat /\ DOMAIN files = 1..Len(files) /\ \A i \in DOMAIN files : files[i] \in Seq(Report)
    BY <2>2, LenProperties
  <2>5. dumps' \in Seq(Seq(Report)) /\ Len(dumps') = Len(files) - oldest + 1
    BY <2>3, <2>4, SubSeqProperties
  <2>6. Len(dumps') <= MaxDumps
    BY <2>3, <2>4, <2>5, BoundsAssumption
  <2> QED
    BY <1>2, <2>5, <2>6 DEF BackUp, TypeOK, EnqueueNothing, inputs, counts
<1>3. CASE Restore
  <2>1. PICK d \in DOMAIN dumps :
          /\ Len(reports) + Len(Restored(d)) <= MaxReports
          /\ Store(Restored(d), Len(reports))
          /\ Enqueue(CellsOf(Restored(d), Active(Restored(d))))
    BY <1>3 DEF Restore
  <2>2. Restored(d) \in Seq(Report)
    BY <2>1, RestoredRight
  <2>3. /\ reports' \in Seq(Report) /\ Len(reports') <= MaxReports
        /\ visible' \in Seq(SUBSET Nat) /\ Len(visible') = Len(reports')
    <3>1. Len(reports) \in Nat
      BY DEF TypeOK
    <3> QED
      BY <2>1, <2>2, <3>1, StoreRight
  <2>4. CellsOf(Restored(d), Active(Restored(d))) \subseteq Cells
    BY <2>2, RowsOf, CellsOfType
  <2> QED
    BY <1>3, <2>1, <2>3, <2>4 DEF Restore, Enqueue, TypeOK, counts
<1>4. CASE \E c \in Cells : Drain(c)
  <2>1. PICK c \in Cells : Drain(c)
    BY <1>4
  <2>2. served' \in [Cells -> SUBSET (Keys \X Contents \X (0..MaxSwaps))]
    BY <2>1, UnmatchedType DEF Drain, TypeOK
  <2> QED
    BY <2>1, <2>2 DEF Drain, TypeOK, inputs, counts
<1>5. CASE UNCHANGED vars
  BY <1>5 DEF vars, inputs, counts, TypeOK
<1> QED
  BY <1>1, <1>2, <1>3, <1>4, <1>5

\* New rows at the end keep ids within their places.
LEMMA Appended ==
  ASSUME TypeOK, IdsBounded, NEW rows \in Seq(Report), reports' = reports \o rows,
         \A i \in DOMAIN rows : rows[i].id <= Len(reports) + i
  PROVE  /\ Len(reports') \in Nat /\ Len(reports) <= Len(reports')
         /\ DOMAIN reports' = 1..Len(reports')
         /\ Len(reports') = Len(reports) + Len(rows)
         /\ \A i \in DOMAIN reports' :
              /\ reports'[i].id <= Len(reports')
              /\ \/ i \in DOMAIN reports /\ reports'[i] = reports[i]
                 \/ /\ i > Len(reports) /\ i - Len(reports) \in DOMAIN rows
                    /\ reports'[i] = rows[i - Len(reports)]
<1>1. Len(reports) \in Nat /\ DOMAIN reports = 1..Len(reports) /\ reports \in Seq(Report)
  BY LenProperties DEF TypeOK
<1>2. /\ Len(rows) \in Nat /\ DOMAIN rows = 1..Len(rows)
      /\ reports' \in Seq(Report) /\ Len(reports') = Len(reports) + Len(rows)
      /\ DOMAIN reports' = 1..Len(reports')
      /\ \A i \in DOMAIN reports' :
           reports'[i] = IF i <= Len(reports) THEN reports[i] ELSE rows[i - Len(reports)]
  BY <1>1, ConcatProperties, LenProperties
<1>3. ASSUME NEW i \in DOMAIN reports'
      PROVE  /\ reports'[i].id <= Len(reports')
             /\ \/ i \in DOMAIN reports /\ reports'[i] = reports[i]
                \/ /\ i > Len(reports) /\ i - Len(reports) \in DOMAIN rows
                   /\ reports'[i] = rows[i - Len(reports)]
  <2>1. reports'[i].id \in Nat
    <3>1. reports'[i] \in Report
      BY <1>2, LenProperties
    <3>2. reports'[i].id \in 1..MaxReports
      BY <3>1 DEF Report
    <3>3. MaxReports \in Nat
      BY BoundsAssumption
    <3> QED
      BY <3>2, <3>3
  <2>2. CASE i <= Len(reports)
    <3>1. reports'[i] = reports[i] /\ i \in DOMAIN reports
      BY <1>1, <1>2, <2>2
    <3>2. reports[i].id <= Len(reports)
      BY <3>1 DEF IdsBounded
    <3>3. Len(rows) \in Nat /\ Len(reports') = Len(reports) + Len(rows)
      BY <1>2
    <3>4. reports'[i].id <= Len(reports')
      BY <1>1, <2>1, <3>1, <3>2, <3>3
    <3> QED
      BY <3>1, <3>4
  <2>3. CASE ~(i <= Len(reports))
    <3>1. reports'[i] = rows[i - Len(reports)] /\ i - Len(reports) \in DOMAIN rows /\ i > Len(reports)
      BY <1>1, <1>2, <2>3
    <3>2. reports'[i].id <= Len(reports) + (i - Len(reports))
      BY <3>1
    <3> QED
      BY <1>1, <1>2, <2>1, <3>1, <3>2
  <2> QED
    BY <2>2, <2>3
<1> QED
  BY <1>1, <1>2, <1>3

\* The steps of a report keep the ids within their places.
LEMMA IdsReports ==
  ASSUME TypeOK, IdsBounded, NEW h \in Handlers, Exclusive,
         BeginReport(h) \/ CommitReport(h) \/ AbortReport(h)
  PROVE  IdsBounded' /\ Exclusive'
<1>0. Len(reports) \in Nat /\ DOMAIN reports = 1..Len(reports)
      /\ \A g \in Handlers : ins[g].rows \in Seq(Report)
  BY LenProperties DEF TypeOK
<1>1. CASE BeginReport(h)
  <2>1. PICK S \in SUBSET Keys \ {{}} :
          /\ Len(reports) + Cardinality(Accepted(S)) <= MaxReports
          /\ ins' = [ins EXCEPT ![h] = [open |-> TRUE, rows |-> RowsFor(S), saw |-> Len(reports)]]
    BY <1>1 DEF BeginReport
  <2>2. \A i \in DOMAIN RowsFor(S) : RowsFor(S)[i].id <= Len(reports) + i
    BY <2>1, RowsForRight
  <2>3. /\ ins'[h] = [open |-> TRUE, rows |-> RowsFor(S), saw |-> Len(reports)]
        /\ \A g \in Handlers \ {h} : ins'[g] = ins[g]
        /\ reports' = reports /\ ref' = ref /\ swap' = swap /\ mapping' = mapping
        /\ scenario' = scenario
    BY <1>1, <2>1 DEF TypeOK, BeginReport, inputs
  <2>4. IdsBounded'
    BY <2>2, <2>3 DEF IdsBounded
  <2>5. Exclusive'
    BY <1>1, <2>3 DEF BeginReport, Exclusive, Reporting
  <2> QED
    BY <2>4, <2>5
<1>2. CASE CommitReport(h) \/ AbortReport(h)
  <2>1. /\ ins'[h] = NoInsert /\ \A g \in Handlers \ {h} : ins'[g] = ins[g]
        /\ ref' = ref /\ swap' = swap /\ mapping' = mapping /\ scenario' = scenario
    BY <1>2 DEF TypeOK, CommitReport, AbortReport, inputs
  <2>2. /\ Len(reports) <= Len(reports') /\ Len(reports') \in Nat
        /\ \A i \in DOMAIN reports' : reports'[i].id <= Len(reports')
    <3>1. CASE CommitReport(h)
      <4>1. reports' = reports \o ins[h].rows /\ \A i \in DOMAIN ins[h].rows : ins[h].rows[i].id <= Len(reports) + i
        BY <3>1 DEF CommitReport, Store, IdsBounded
      <4> QED
        BY <1>0, <4>1, Appended
    <3>2. CASE AbortReport(h)
      BY <1>0, <3>2 DEF AbortReport, inputs, IdsBounded
    <3> QED
      BY <1>2, <3>1, <3>2
  <2>3. ASSUME NEW g \in Handlers, NEW i \in DOMAIN ins'[g].rows
        PROVE  ins'[g].rows[i].id <= Len(reports') + i
    <3>1. g # h
      BY <2>1 DEF NoInsert
    <3>2. ins'[g] = ins[g] /\ i \in DOMAIN ins[g].rows
      BY <2>1, <3>1
    <3>3. ins[g].rows[i] \in Report /\ i \in Nat
      BY <1>0, <3>2, LenProperties
    <3>4. ins[g].rows[i].id \in Nat /\ ins[g].rows[i].id <= Len(reports) + i
      BY <3>2, <3>3, BoundsAssumption DEF IdsBounded, Report
    <3> QED
      BY <1>0, <2>2, <3>2, <3>3, <3>4
  <2>4. Exclusive'
    BY <2>1 DEF Exclusive, Reporting, NoInsert
  <2> QED
    BY <2>2, <2>3, <2>4 DEF IdsBounded
<1> QED
  BY <1>1, <1>2

\* A step that begins and ends no report, and renumbers none.
LEMMA IdsKept ==
  ASSUME TypeOK, IdsBounded, Exclusive, ins' = ins,
         \/ reports' = reports
         \/ \E S \in SUBSET DOMAIN reports, t \in Statuses : reports' = Retired(reports, S, t)
  PROVE  IdsBounded'
<1>1. Len(reports') = Len(reports) /\ DOMAIN reports' = DOMAIN reports
      /\ \A i \in DOMAIN reports : reports'[i].id = reports[i].id
  BY RetiredRight DEF TypeOK
<1> QED
  BY <1>1 DEF IdsBounded

\* Every other step keeps the ids within their places and apart what is apart.
LEMMA OthersKeepIds ==
  ASSUME TypeOK, IdsBounded, Exclusive,
         \/ BeginRefresh \/ CommitRefresh \/ AbortRefresh
         \/ BeginSwap \/ CommitSwap \/ AbortSwap
         \/ Reconcile \/ JobFails \/ Revoke \/ BackUp \/ Restore
         \/ (\E c \in Cells : Drain(c)) \/ UNCHANGED vars
  PROVE  IdsBounded' /\ Exclusive'
<1>1. CASE BeginRefresh \/ AbortRefresh \/ BeginSwap \/ CommitSwap \/ AbortSwap
  <2>1. ins' = ins /\ reports' = reports /\ scenario' = scenario
    BY <1>1 DEF BeginRefresh, AbortRefresh, BeginSwap, CommitSwap, AbortSwap, inputs
  <2>2. Exclusive'
    BY <1>1, <2>1 DEF BeginRefresh, AbortRefresh, BeginSwap, CommitSwap, AbortSwap,
         inputs, Exclusive, Reporting, NoRefresh, NoSwap
  <2> QED
    BY <2>1, <2>2, IdsKept
<1>2. CASE CommitRefresh
  <2>1. PICK new \in Table : reports' = Retired(reports, Stale(ref.seen, new), "expired")
    BY <1>2 DEF CommitRefresh
  <2>2. Len(reports') = Len(reports) /\ DOMAIN reports' = DOMAIN reports
        /\ \A i \in DOMAIN reports : reports'[i].id = reports[i].id
    BY <2>1, RetiredRight DEF TypeOK, Statuses
  <2> QED
    BY <1>2, <2>2 DEF CommitRefresh, IdsBounded, Exclusive, Reporting, NoRefresh
<1>3. CASE Reconcile \/ JobFails \/ Revoke \/ BackUp
  <2>1. \/ reports' = reports
        \/ \E S \in SUBSET DOMAIN reports, t \in Statuses : reports' = Retired(reports, S, t)
    BY <1>3, RowsOf DEF Reconcile, JobEnqueue, JobEnqueueTiles, JobRetireMissing, JobRetireChanged,
         JobFails, Revoke, BackUp, inputs, Statuses
  <2>2. UNCHANGED <<ins, ref, swap, mapping, scenario>>
    BY <1>3 DEF Reconcile, JobEnqueue, JobEnqueueTiles, JobRetireMissing, JobRetireChanged,
         JobFails, Revoke, BackUp, inputs
  <2> QED
    BY <2>1, <2>2, IdsKept DEF Exclusive, Reporting
<1>4. CASE Restore
  <2>1. PICK d \in DOMAIN dumps :
          /\ Len(reports) + Len(Restored(d)) <= MaxReports
          /\ reports' = reports \o Restored(d)
    BY <1>4 DEF Restore, Store
  <2>2. UNCHANGED <<ins, ref, swap, mapping, scenario>> /\ ~Reporting
    BY <1>4 DEF Restore, Alone
  <2>3. \A i \in DOMAIN reports' : reports'[i].id <= Len(reports')
    BY <2>1, RestoredRight, Appended
  <2>4. \A h \in Handlers : DOMAIN ins[h].rows = {}
    BY <2>2 DEF Exclusive, Reporting
  <2> QED
    BY <2>2, <2>3, <2>4 DEF IdsBounded, Exclusive, Reporting
<1>5. CASE (\E c \in Cells : Drain(c)) \/ UNCHANGED vars
  <2>1. UNCHANGED <<ins, ref, swap, mapping, scenario, reports>>
    BY <1>5 DEF Drain, vars, inputs
  <2> QED
    BY <2>1 DEF IdsBounded, Exclusive, Reporting
<1> QED
  BY <1>1, <1>2, <1>3, <1>4, <1>5

\* Every step keeps the types, the ids within bounds and apart what is apart.
LEMMA TypeNext ==
  TypeOK /\ IdsBounded /\ Exclusive /\ [Next]_vars => (TypeOK /\ IdsBounded /\ Exclusive)'
<1> SUFFICES ASSUME TypeOK, IdsBounded, Exclusive, [Next]_vars
             PROVE  (TypeOK /\ IdsBounded /\ Exclusive)'
  OBVIOUS
<1>1. CASE \E h \in Handlers : BeginReport(h) \/ CommitReport(h) \/ AbortReport(h)
  BY <1>1, TypeReports, IdsReports
<1>2. CASE BeginRefresh \/ CommitRefresh \/ AbortRefresh
  BY <1>2, TypeRefresh, OthersKeepIds
<1>3. CASE BeginSwap \/ CommitSwap \/ AbortSwap
  BY <1>3, TypeSwap, OthersKeepIds
<1>4. CASE Reconcile \/ JobFails
  BY <1>4, TypeJob, OthersKeepIds
<1>5. CASE Revoke \/ BackUp \/ Restore \/ (\E c \in Cells : Drain(c)) \/ UNCHANGED vars
  BY <1>5, TypeOthers, OthersKeepIds
<1> QED
  BY <1>1, <1>2, <1>3, <1>4, <1>5 DEF Next

\* Rows, ids, transactions and queues are what they should be.
THEOREM TypeCorrect == Spec => [](TypeOK /\ IdsBounded /\ Exclusive)
BY TypeInit, TypeNext, PTL DEF Spec

-------------------------------------------------------------------------------
(* Report ids                                                              *)

\* The ids of rows to come rise, from above those of the first rows of the table.
Follows(rows, saw) ==
  /\ saw <= Len(reports)
  /\ \A i \in DOMAIN rows :
       /\ \A j \in 1..saw : reports[j].id < rows[i].id
       /\ \A j \in DOMAIN rows : j < i => rows[j].id < rows[i].id

\* A stored id is greater than all its writer saw.
Risen ==
  \A j \in DOMAIN reports : \A i \in visible[j] :
    i < j /\ i \in DOMAIN reports /\ reports[i].id < reports[j].id

\* So it is, and what an open report holds will be.
Numbered == Risen /\ \A h \in Handlers : Follows(ins[h].rows, ins[h].saw)

\* Rows that follow what their writer saw, at the end, whatever was stored since.
LEMMA RisenStored ==
  ASSUME TypeOK, IdsBounded, Risen, NEW rows \in Seq(Report), NEW saw \in Nat,
         Follows(rows, saw), Store(rows, saw),
         \A i \in DOMAIN rows : rows[i].id <= Len(reports) + i
  PROVE  Risen'
<1> SUFFICES ASSUME NEW j \in DOMAIN reports', NEW i \in visible'[j]
             PROVE  i < j /\ i \in DOMAIN reports' /\ reports'[i].id < reports'[j].id
  BY DEF Risen
<1> DEFINE n == Len(reports)
<1>1. /\ n \in Nat /\ DOMAIN reports = 1..n /\ saw <= n
      /\ DOMAIN rows = 1..Len(rows) /\ Len(rows) \in Nat
      /\ DOMAIN reports' = 1..(n + Len(rows))
      /\ visible'[j] = IF j <= n THEN visible[j] ELSE (1..saw) \cup ((n + 1)..(j - 1))
  BY StoreRight, LenProperties DEF TypeOK, Follows
<1>2. /\ \A k \in 1..n : reports'[k] = reports[k]
      /\ \A k \in (n + 1)..(n + Len(rows)) : reports'[k] = rows[k - n]
  BY <1>1, ConcatProperties DEF Store, TypeOK
<1> HIDE DEF n
<1>3. CASE j <= n
  <2>1. j \in DOMAIN reports /\ i \in visible[j]
    BY <1>1, <1>3
  <2>2. i < j /\ i \in DOMAIN reports /\ reports[i].id < reports[j].id
    BY <2>1 DEF Risen
  <2> QED
    BY <1>1, <1>2, <2>1, <2>2
<1>4. CASE ~(j <= n)
  <2>1. j - n \in DOMAIN rows /\ reports'[j] = rows[j - n]
    BY <1>1, <1>2, <1>4
  <2>2. CASE i \in 1..saw
    <3>1. i \in 1..n /\ i < j
      BY <1>1, <1>4, <2>2
    <3>2. reports[i].id < rows[j - n].id
      BY <2>1, <2>2 DEF Follows
    <3> QED
      BY <1>1, <1>2, <2>1, <3>1, <3>2
  <2>3. CASE i \in (n + 1)..(j - 1)
    <3>1. i < j /\ i \in DOMAIN reports' /\ i - n \in DOMAIN rows /\ i - n < j - n
          /\ reports'[i] = rows[i - n]
      BY <1>1, <1>2, <1>4, <2>3
    <3>2. rows[i - n].id < rows[j - n].id
      BY <2>1, <3>1 DEF Follows
    <3> QED
      BY <2>1, <3>1, <3>2
  <2> QED
    BY <1>1, <1>4, <2>2, <2>3
<1> QED
  BY <1>3, <1>4

\* Ids that count on from the next one follow the whole table.
LEMMA NextFollows ==
  ASSUME TypeOK, IdsBounded, NEW rows \in Seq(Report),
         \A i \in DOMAIN rows : rows[i].id = NextId + i - 1
  PROVE  Follows(rows, Len(reports))
<1>1. /\ Len(reports) \in Nat /\ DOMAIN reports = 1..Len(reports)
      /\ \A k \in DOMAIN reports : reports[k] \in Report
      /\ \A i \in DOMAIN rows : i \in Nat /\ i >= 1
  BY LenProperties DEF TypeOK
<1>2. \A k \in DOMAIN reports : reports[k].id \in Int
  BY <1>1, BoundsAssumption DEF Report
<1>3. NextId \in Nat /\ \A k \in DOMAIN reports : reports[k].id < NextId
  BY <1>1, NextIdRight
<1>4. ASSUME NEW i \in DOMAIN rows, NEW j \in 1..Len(reports) PROVE reports[j].id < rows[i].id
  BY <1>1, <1>2, <1>3
<1>5. ASSUME NEW i \in DOMAIN rows, NEW j \in DOMAIN rows, j < i PROVE rows[j].id < rows[i].id
  <2>1. rows[i].id = NextId + i - 1 /\ rows[j].id = NextId + j - 1 /\ i \in Nat /\ j \in Nat
    BY <1>1
  <2> QED
    BY <1>3, <1>5, <2>1
<1> QED
  BY <1>1, <1>4, <1>5 DEF Follows

\* Every step keeps the ids of stored and coming reports in order.
LEMMA NumberedNext ==
  TypeOK /\ IdsBounded /\ Exclusive /\ Numbered /\ [Next]_vars => Numbered'
<1> SUFFICES ASSUME TypeOK, IdsBounded, Exclusive, Numbered, [Next]_vars PROVE Numbered'
  OBVIOUS
<1>0. /\ Len(reports) \in Nat /\ DOMAIN reports = 1..Len(reports)
      /\ \A h \in Handlers : ins[h].rows \in Seq(Report) /\ ins[h].saw \in Nat
      /\ Risen /\ \A h \in Handlers : Follows(ins[h].rows, ins[h].saw)
  BY LenProperties DEF TypeOK, Numbered
<1>1. ASSUME NEW h \in Handlers, BeginReport(h) PROVE Numbered'
  <2>1. PICK S \in SUBSET Keys \ {{}} :
          /\ Len(reports) + Cardinality(Accepted(S)) <= MaxReports
          /\ ins' = [ins EXCEPT ![h] = [open |-> TRUE, rows |-> RowsFor(S), saw |-> Len(reports)]]
    BY <1>1 DEF BeginReport
  <2>2. Follows(RowsFor(S), Len(reports))
    BY <2>1, RowsForRight, NextFollows
  <2>3. /\ ins'[h].rows = RowsFor(S) /\ ins'[h].saw = Len(reports)
        /\ \A g \in Handlers \ {h} : ins'[g] = ins[g]
        /\ reports' = reports /\ visible' = visible
    BY <1>1, <2>1 DEF TypeOK, BeginReport, inputs
  <2>4. Risen'
    BY <1>0, <2>3 DEF Risen
  <2>5. ASSUME NEW g \in Handlers PROVE Follows(ins[g].rows, ins[g].saw)'
    BY <1>0, <2>2, <2>3 DEF Follows
  <2> QED
    BY <2>4, <2>5 DEF Numbered
<1>2. ASSUME NEW h \in Handlers, CommitReport(h) PROVE Numbered'
  <2>1. /\ Store(ins[h].rows, ins[h].saw) /\ ins'[h] = NoInsert
        /\ \A g \in Handlers \ {h} : ins'[g] = ins[g]
    BY <1>2 DEF CommitReport, TypeOK
  <2>2. Risen'
    BY <1>0, <2>1, RisenStored DEF IdsBounded
  <2>3. /\ Len(reports') \in Nat /\ Len(reports) <= Len(reports')
        /\ \A j \in DOMAIN reports : reports'[j].id = reports[j].id
    <3>1. Len(ins[h].rows) \in Nat /\ reports \in Seq(Report) /\ ins[h].rows \in Seq(Report)
      BY <1>0, LenProperties DEF TypeOK
    <3> QED
      BY <1>0, <2>1, <3>1, ConcatProperties DEF Store
  <2>4. ASSUME NEW g \in Handlers PROVE Follows(ins[g].rows, ins[g].saw)'
    <3>1. CASE g = h
      BY <2>1, <2>3, <3>1 DEF Follows, NoInsert
    <3>2. CASE g # h
      <4> DEFINE rows == ins[g].rows
                 saw == ins[g].saw
      <4>1. rows' = rows /\ saw' = saw
        BY <2>1, <3>2
      <4>2. /\ saw <= Len(reports') /\ \A j \in 1..saw : j \in DOMAIN reports
            /\ \A i \in DOMAIN rows :
                 /\ \A j \in 1..saw : reports[j].id < rows[i].id
                 /\ \A j \in DOMAIN rows : j < i => rows[j].id < rows[i].id
        BY <1>0, <2>3 DEF Follows
      <4> HIDE DEF rows, saw
      <4>3. Follows(rows, saw)'
        BY <2>3, <4>1, <4>2 DEF Follows
      <4> QED
        BY <4>3 DEF rows, saw
    <3> QED
      BY <3>1, <3>2
  <2> QED
    BY <2>2, <2>4 DEF Numbered
<1>3. ASSUME NEW h \in Handlers, AbortReport(h) PROVE Numbered'
  <2>1. /\ reports' = reports /\ visible' = visible /\ ins'[h] = NoInsert
        /\ \A g \in Handlers \ {h} : ins'[g] = ins[g]
    BY <1>3 DEF AbortReport, TypeOK, inputs
  <2>2. Risen'
    BY <1>0, <2>1 DEF Risen
  <2>3. ASSUME NEW g \in Handlers PROVE Follows(ins[g].rows, ins[g].saw)'
    BY <1>0, <2>1 DEF Follows, NoInsert
  <2> QED
    BY <2>2, <2>3 DEF Numbered
<1>4. CASE Restore
  <2>1. PICK d \in DOMAIN dumps :
          /\ Len(reports) + Len(Restored(d)) <= MaxReports
          /\ Store(Restored(d), Len(reports))
    BY <1>4 DEF Restore
  <2>2. /\ Restored(d) \in Seq(Report)
        /\ \A i \in DOMAIN Restored(d) :
             Restored(d)[i].id = NextId + i - 1 /\ Restored(d)[i].id <= Len(reports) + i
    BY <2>1, RestoredRight
  <2>3. Risen'
    <3> DEFINE rows == Restored(d)
    <3>1. rows \in Seq(Report) /\ Store(rows, Len(reports)) /\ Follows(rows, Len(reports))
          /\ \A i \in DOMAIN rows : rows[i].id <= Len(reports) + i
      BY <2>1, <2>2, NextFollows
    <3> HIDE DEF rows
    <3> QED
      BY <1>0, <3>1, RisenStored
  <2>4. ins' = ins /\ \A g \in Handlers : ins[g].rows = <<>>
    BY <1>4 DEF Restore, Alone, Reporting, Exclusive
  <2>5. Len(reports') \in Nat /\ Len(reports) <= Len(reports')
    <3>1. Len(Restored(d)) \in Nat /\ Len(reports') = Len(reports) + Len(Restored(d))
      BY <1>0, <2>1, <2>2, StoreRight, LenProperties
    <3> QED
      BY <1>0, <3>1
  <2>6. ASSUME NEW g \in Handlers PROVE Follows(ins[g].rows, ins[g].saw)'
    <3>1. ins'[g].rows = <<>> /\ ins'[g].saw = ins[g].saw /\ ins[g].saw <= Len(reports)
      BY <1>0, <2>4 DEF Follows
    <3> QED
      BY <1>0, <2>5, <3>1 DEF Follows
  <2> QED
    BY <2>3, <2>6 DEF Numbered
<1>5. CASE CommitRefresh \/ Reconcile \/ JobFails \/ Revoke
  <2>1. reports' = reports \/ \E S : \E t \in Statuses : reports' = Retired(reports, S, t)
    <3>1. CASE CommitRefresh
      <4>1. PICK new \in Table : reports' = Retired(reports, Stale(ref.seen, new), "expired")
        BY <3>1 DEF CommitRefresh
      <4> QED
        BY <4>1 DEF Statuses
    <3>2. CASE JobEnqueue \/ JobEnqueueTiles \/ JobFails
      BY <3>2 DEF JobEnqueue, JobEnqueueTiles, JobFails, inputs
    <3>3. CASE JobRetireMissing
      BY <3>3 DEF JobRetireMissing, Statuses
    <3>4. CASE JobRetireChanged
      BY <3>4 DEF JobRetireChanged, Statuses
    <3>5. CASE Revoke
      <4>1. \E S : reports' = Retired(reports, S, "revoked")
        BY <3>5 DEF Revoke
      <4> QED
        BY <4>1 DEF Statuses
    <3> QED
      BY <1>5, <3>1, <3>2, <3>3, <3>4, <3>5 DEF Reconcile
  <2>2. /\ DOMAIN reports' = DOMAIN reports /\ Len(reports') = Len(reports)
        /\ \A i \in DOMAIN reports : reports'[i].id = reports[i].id
    BY <2>1, RetiredRight DEF TypeOK
  <2>3. ins' = ins /\ visible' = visible
    BY <1>5 DEF CommitRefresh, Reconcile, JobEnqueue, JobEnqueueTiles, JobRetireMissing,
         JobRetireChanged, JobFails, Revoke
  <2>4. Risen'
    BY <1>0, <2>2, <2>3 DEF Risen
  <2>5. ASSUME NEW g \in Handlers PROVE Follows(ins[g].rows, ins[g].saw)'
    <3>1. /\ ins[g].saw <= Len(reports) /\ \A j \in 1..ins[g].saw : j \in DOMAIN reports
      BY <1>0 DEF Follows
    <3> QED
      BY <1>0, <2>2, <2>3, <3>1 DEF Follows
  <2> QED
    BY <2>4, <2>5 DEF Numbered
<1>6. CASE \/ BeginRefresh \/ AbortRefresh \/ BeginSwap \/ CommitSwap \/ AbortSwap \/ BackUp
           \/ (\E c \in Cells : Drain(c)) \/ UNCHANGED vars
  <2>1. ins' = ins /\ reports' = reports /\ visible' = visible
    BY <1>6 DEF BeginRefresh, AbortRefresh, BeginSwap, CommitSwap, AbortSwap, BackUp, Drain, vars, inputs
  <2> QED
    BY <1>0, <2>1 DEF Numbered, Risen, Follows
<1> QED
  BY <1>1, <1>2, <1>3, <1>4, <1>5, <1>6 DEF Next

\* Two rows have one id only where the later one's writer could not see the
\* earlier one (reports/mod.rs:91-125, 668-676).
THEOREM ClashesUnseen == Spec => []ClashOnlyUnseen
<1>1. Init => Numbered
  BY DEF Init, Numbered, Risen, Follows, NoInsert
<1>2. Spec => []Numbered
  BY <1>1, TypeCorrect, NumberedNext, PTL DEF Spec
<1>3. TypeOK /\ Numbered => ClashOnlyUnseen
  <2> SUFFICES ASSUME TypeOK, Risen, NEW i \in DOMAIN reports, NEW j \in DOMAIN reports,
                      i \in visible[j]
               PROVE  reports[i].id # reports[j].id
    BY DEF Numbered, ClashOnlyUnseen
  <2>1. reports[i].id < reports[j].id
    BY DEF Risen
  <2>2. reports[i] \in Report
    BY LenProperties DEF TypeOK
  <2>3. reports[i].id \in Int
    BY <2>2, BoundsAssumption DEF Report
  <2> QED
    BY <2>1, <2>3
<1> QED
  BY <1>2, <1>3, TypeCorrect, PTL

-------------------------------------------------------------------------------
(* No active report is outdated                                            *)

\* The active rows among these are about what the table says.
About(rows, table) ==
  \A i \in DOMAIN rows : rows[i].status = "active" => table[rows[i].key] = rows[i].signature

\* So are those stored and those being stored, and an open refresh has seen
\* the reports as they are.
Current ==
  scenario \cap {"report-refresh", "old-dump"} = {} =>
    /\ About(reports, live)
    /\ \A h \in Handlers : About(ins[h].rows, live)
    /\ ref.open => ref.seen = reports

\* Reports that are about what the table says are not to be retired.
LEMMA NothingStale ==
  ASSUME NEW rows \in Seq(Report), NEW table, About(rows, table)
  PROVE  Stale(rows, table) = {} /\ Missing(rows, table) = {} /\ Changed(rows, table) = {}
<1>1. \A i \in DOMAIN rows : rows[i] \in Report
  BY LenProperties
<1>2. \A i \in Active(rows) : table[rows[i].key] = rows[i].signature /\ rows[i].signature \in Contents
  BY <1>1 DEF Active, About, Report
<1> QED
  BY <1>2, CellsAssumption DEF Stale, Missing, Changed

\* Retiring what a table makes stale leaves reports about what it says.
LEMMA AboutRetired ==
  ASSUME NEW rows \in Seq(Report), NEW table
  PROVE  About(Retired(rows, Stale(rows, table), "expired"), table)
<1> DEFINE out == Retired(rows, Stale(rows, table), "expired")
<1>1. /\ DOMAIN out = DOMAIN rows
      /\ \A i \in DOMAIN rows :
           /\ out[i].key = rows[i].key /\ out[i].signature = rows[i].signature
           /\ out[i].status = IF i \in Stale(rows, table) THEN "expired" ELSE rows[i].status
  BY RetiredRight DEF Statuses
<1> HIDE DEF out
<1>2. ASSUME NEW i \in DOMAIN rows, out[i].status = "active"
      PROVE  table[rows[i].key] = rows[i].signature
  <2>1. i \notin Stale(rows, table) /\ rows[i].status = "active"
    BY <1>1, <1>2
  <2> QED
    BY <2>1 DEF Stale, Missing, Changed, Active
<1> QED
  BY <1>1, <1>2 DEF About, out

\* Reports put after reports.
LEMMA AboutAppended ==
  ASSUME NEW r \in Seq(Report), NEW s \in Seq(Report), NEW table,
         About(r, table), About(s, table)
  PROVE  About(r \o s, table)
<1>1. /\ Len(r) \in Nat /\ DOMAIN r = 1..Len(r) /\ Len(s) \in Nat /\ DOMAIN s = 1..Len(s)
      /\ DOMAIN (r \o s) = 1..(Len(r) + Len(s))
      /\ \A i \in 1..(Len(r) + Len(s)) : (r \o s)[i] = IF i <= Len(r) THEN r[i] ELSE s[i - Len(r)]
  BY LenProperties, ConcatProperties
<1>2. \A i \in 1..(Len(r) + Len(s)) : i \in DOMAIN r \/ i - Len(r) \in DOMAIN s
  BY <1>1
<1> QED
  BY <1>1, <1>2 DEF About

\* The rows a dump brings back are about what the table says if they are not
\* stale.
LEMMA AboutRestored ==
  ASSUME TypeOK, IdsBounded, NEW d \in DOMAIN dumps,
         Len(reports) + Len(Restored(d)) <= MaxReports,
         Stale(Restored(d), live) = {}
  PROVE  About(Restored(d), live)
<1>1. Restored(d) \in Seq(Report)
  BY RestoredRight
<1> QED
  BY <1>1 DEF About, Stale, Missing, Changed, Active

\* Every step keeps the reports about what their records say.
LEMMA CurrentNext ==
  TypeOK /\ IdsBounded /\ Exclusive /\ Current /\ [Next]_vars => Current'
<1> SUFFICES ASSUME TypeOK, IdsBounded, Exclusive, Current, [Next]_vars,
                    scenario' \cap {"report-refresh", "old-dump"} = {}
             PROVE  /\ About(reports', live')
                    /\ \A h \in Handlers : About(ins'[h].rows, live')
                    /\ ref'.open => ref'.seen = reports'
  BY DEF Current, About
<1>0. scenario' = scenario
  BY DEF Next, BeginReport, CommitReport, AbortReport, BeginRefresh, CommitRefresh, AbortRefresh,
    BeginSwap, CommitSwap, AbortSwap, Reconcile, JobEnqueue, JobEnqueueTiles, JobRetireMissing,
    JobRetireChanged, JobFails, Revoke, BackUp, Restore, Drain, vars
<1>1. /\ About(reports, live)
      /\ \A h \in Handlers : About(ins[h].rows, live)
      /\ ref.open => ref.seen = reports
  BY <1>0 DEF Current
<1>2. reports \in Seq(Report) /\ \A h \in Handlers : ins[h].rows \in Seq(Report)
  BY DEF TypeOK
<1>3. About(<<>>, live)
  BY DEF About
<1>4. ASSUME NEW h \in Handlers, BeginReport(h) PROVE \A g \in Handlers : About(ins'[g].rows, live)
  <2>1. PICK S \in SUBSET Keys \ {{}} :
          /\ Len(reports) + Cardinality(Accepted(S)) <= MaxReports
          /\ ins' = [ins EXCEPT ![h] = [open |-> TRUE, rows |-> RowsFor(S), saw |-> Len(reports)]]
    BY <1>4 DEF BeginReport
  <2>2. About(RowsFor(S), live)
    BY <2>1, RowsForRight DEF About
  <2>3. ins'[h].rows = RowsFor(S) /\ \A g \in Handlers \ {h} : ins'[g] = ins[g]
    BY <2>1 DEF TypeOK
  <2> QED
    BY <1>1, <2>2, <2>3
<1>5. ASSUME NEW h \in Handlers, BeginReport(h) \/ CommitReport(h) \/ AbortReport(h)
      PROVE  /\ About(reports', live')
             /\ \A g \in Handlers : About(ins'[g].rows, live')
             /\ ref'.open => ref'.seen = reports'
  <2>1. live' = live /\ ref' = ref
    BY <1>5 DEF BeginReport, CommitReport, AbortReport, inputs
  <2>2. CASE BeginReport(h)
    BY <1>1, <1>4, <2>1, <2>2 DEF BeginReport, inputs
  <2>3. CASE CommitReport(h)
    <3>1. /\ reports' = reports \o ins[h].rows /\ ins'[h].rows = <<>>
          /\ \A g \in Handlers \ {h} : ins'[g] = ins[g]
      BY <2>3 DEF CommitReport, TypeOK, NoInsert, Store
    <3>2. About(reports', live)
      BY <1>1, <1>2, <3>1, AboutAppended
    <3>3. ~ref.open
      BY <1>0, <2>3 DEF CommitReport, Exclusive, Reporting
    <3>4. \A g \in Handlers : About(ins'[g].rows, live)
      BY <1>1, <1>3, <3>1
    <3> QED
      BY <2>1, <3>2, <3>3, <3>4
  <2>4. CASE AbortReport(h)
    <3>1. /\ reports' = reports /\ ins'[h].rows = <<>>
          /\ \A g \in Handlers \ {h} : ins'[g] = ins[g]
      BY <2>4 DEF AbortReport, TypeOK, NoInsert, inputs
    <3> QED
      BY <1>1, <1>3, <2>1, <3>1
  <2> QED
    BY <1>5, <2>2, <2>3, <2>4
<1>6. CASE CommitRefresh
  <2>1. PICK new \in Table : live' = new /\ reports' = Retired(reports, Stale(ref.seen, new), "expired")
    BY <1>6 DEF CommitRefresh
  <2>2. ref.seen = reports /\ ref'.open = FALSE /\ ins' = ins
    BY <1>1, <1>6 DEF CommitRefresh, NoRefresh
  <2>3. About(reports', live')
    BY <1>2, <2>1, <2>2, AboutRetired
  <2>4. \A h \in Handlers : ins[h].rows = <<>>
    BY <1>0, <1>6 DEF CommitRefresh, Exclusive, Reporting
  <2> QED
    BY <2>2, <2>3, <2>4 DEF About
<1>7. CASE Reconcile \/ JobFails
  <2>1. Missing(reports, live) \cap DOMAIN reports = {} /\ Changed(reports, live) \cap DOMAIN reports = {}
    BY <1>1, <1>2, NothingStale
  <2>2. reports' = reports
    BY <1>2, <1>7, <2>1, RetiredRight
       DEF Reconcile, JobEnqueue, JobEnqueueTiles, JobRetireMissing, JobRetireChanged, JobFails, inputs, Statuses
  <2>3. live' = live /\ ins' = ins /\ ref' = ref
    BY <1>7 DEF Reconcile, JobEnqueue, JobEnqueueTiles, JobRetireMissing, JobRetireChanged, JobFails, inputs
  <2> QED
    BY <1>1, <2>2, <2>3
<1>8. CASE Revoke
  <2>1. PICK S : reports' = Retired(reports, S, "revoked")
    BY <1>8 DEF Revoke
  <2>2. About(reports', live)
    <3>1. /\ DOMAIN reports' = DOMAIN reports
          /\ \A i \in DOMAIN reports :
               /\ reports'[i].key = reports[i].key /\ reports'[i].signature = reports[i].signature
               /\ reports'[i].status = "active" => reports[i].status = "active"
      BY <1>2, <2>1, RetiredRight DEF Statuses
    <3> QED
      BY <1>1, <3>1 DEF About
  <2>3. live' = live /\ ins' = ins /\ ref' = ref /\ ~ref.open
    BY <1>8 DEF Revoke, Alone
  <2> QED
    BY <1>1, <2>2, <2>3
<1>9. CASE Restore
  <2>1. PICK d \in DOMAIN dumps :
          /\ Len(reports) + Len(Restored(d)) <= MaxReports
          /\ "old-dump" \in scenario \/ Stale(Restored(d), live) = {}
          /\ reports' = reports \o Restored(d)
    BY <1>9 DEF Restore, Store
  <2>2. About(Restored(d), live) /\ Restored(d) \in Seq(Report)
    BY <1>0, <2>1, AboutRestored, RestoredRight
  <2>3. About(reports', live)
    BY <1>1, <1>2, <2>1, <2>2, AboutAppended
  <2>4. live' = live /\ ins' = ins /\ ref' = ref /\ ~ref.open
    BY <1>9 DEF Restore, Alone
  <2> QED
    BY <1>1, <2>3, <2>4
<1>10. CASE BeginRefresh \/ AbortRefresh
  <2>1. live' = live /\ ins' = ins /\ reports' = reports
    BY <1>10 DEF BeginRefresh, AbortRefresh, inputs
  <2>2. ref'.open => ref'.seen = reports'
    BY <1>10, <2>1 DEF BeginRefresh, AbortRefresh, NoRefresh
  <2> QED
    BY <1>1, <2>1, <2>2
<1>11. CASE \/ BeginSwap \/ CommitSwap \/ AbortSwap \/ BackUp
            \/ (\E c \in Cells : Drain(c)) \/ UNCHANGED vars
  <2>1. live' = live /\ ins' = ins /\ reports' = reports /\ ref' = ref
    BY <1>11 DEF BeginSwap, CommitSwap, AbortSwap, BackUp, Drain, vars, inputs
  <2> QED
    BY <1>1, <2>1
<1> QED
  BY <1>5, <1>6, <1>7, <1>8, <1>9, <1>10, <1>11 DEF Next

\* As long as no report is stored while a refresh is applied and no old dump is
\* restored, an active report is about what its record says (dataset.rs:205-209).
THEOREM NeverOutdated == Spec => []NoStaleActive
<1>1. Init => Current
  BY DEF Init, Current, About, NoInsert, NoRefresh
<1>2. Spec => []Current
  BY <1>1, TypeCorrect, CurrentNext, PTL DEF Spec
<1>3. Current => NoStaleActive
  BY DEF Current, About, NoStaleActive, ActiveIsCurrent, Outdated, Active
<1> QED
  BY <1>2, <1>3, PTL

-------------------------------------------------------------------------------
(* No producer forgets a cell                                              *)

\* A mapping swap holds every cell with a record.
SwapCovers ==
  "mapping-refresh" \notin scenario /\ swap.open => \A c \in Cells : In(c) # {} => c \in swap.cells

\* No record moves while a mapping swap is open.
LEMMA SwapCoversNext ==
  TypeOK /\ Exclusive /\ SwapCovers /\ [Next]_vars => SwapCovers'
<1> SUFFICES ASSUME TypeOK, Exclusive, SwapCovers, [Next]_vars,
                    "mapping-refresh" \notin scenario', swap'.open, NEW c \in Cells, In(c)' # {}
             PROVE  c \in swap'.cells
  BY DEF SwapCovers
<1>0. scenario' = scenario
  BY DEF Next, BeginReport, CommitReport, AbortReport, BeginRefresh, CommitRefresh, AbortRefresh,
    BeginSwap, CommitSwap, AbortSwap, Reconcile, JobEnqueue, JobEnqueueTiles, JobRetireMissing,
    JobRetireChanged, JobFails, Revoke, BackUp, Restore, Drain, vars
<1>1. CASE BeginSwap
  BY <1>1 DEF BeginSwap, inputs, In
<1>2. CASE CommitSwap \/ AbortSwap
  BY <1>2 DEF CommitSwap, AbortSwap, NoSwap
<1>3. CASE CommitRefresh
  <2>1. swap.open /\ ref.open
    BY <1>3 DEF CommitRefresh
  <2> QED
    BY <1>0, <2>1 DEF Exclusive
<1>4. CASE \/ \E h \in Handlers : BeginReport(h) \/ CommitReport(h) \/ AbortReport(h)
           \/ BeginRefresh \/ AbortRefresh \/ Reconcile \/ JobFails \/ Revoke \/ BackUp \/ Restore
           \/ (\E d \in Cells : Drain(d)) \/ UNCHANGED vars
  <2>1. live' = live /\ swap' = swap
    BY <1>4 DEF BeginReport, CommitReport, AbortReport, BeginRefresh, AbortRefresh, Reconcile,
      JobEnqueue, JobEnqueueTiles, JobRetireMissing, JobRetireChanged, JobFails, Revoke, BackUp,
      Restore, Drain, vars, inputs
  <2> QED
    BY <1>0, <2>1 DEF SwapCovers, In
<1> QED
  BY <1>1, <1>2, <1>3, <1>4 DEF Next

\* A step leaves what a cell renders and what a recompute of it finds alone.
Same(c) == Unmatched(c)' = Unmatched(c) /\ Rendered(c)' = Rendered(c)

\* It does if it leaves its records, their reports and the mapping alone.
LEMMA SameCell ==
  ASSUME NEW c \in Cells, In(c)' = In(c),
         \A k \in In(c) : live'[k] = live[k] /\ (Reported(k)' <=> Reported(k)),
         mapping' = mapping
  PROVE  Same(c)
<1>1. \A k \in In(c) : Reported(k)' = Reported(k)
  BY DEF Reported
<1>2. Unmatched(c)' = Unmatched(c)
  BY <1>1 DEF Unmatched
<1>3. Rendered(c)' = Rendered(c)
  BY <1>1 DEF Rendered
<1> QED
  BY <1>2, <1>3 DEF Same

\* Reports are added: what is in the cells of the active ones is reported.
LEMMA AddedQueued ==
  ASSUME TypeOK, NEW rows \in Seq(Report), About(rows, live), reports' = reports \o rows,
         live' = live, mapping' = mapping,
         NEW c \in Cells, c \notin CellsOf(rows, Active(rows))
  PROVE  Same(c)
<1>1. /\ Len(reports) \in Nat /\ DOMAIN reports = 1..Len(reports)
      /\ Len(rows) \in Nat /\ DOMAIN rows = 1..Len(rows)
      /\ DOMAIN reports' = 1..(Len(reports) + Len(rows))
      /\ \A i \in DOMAIN reports' :
           reports'[i] = IF i <= Len(reports) THEN reports[i] ELSE rows[i - Len(reports)]
  BY LenProperties, ConcatProperties DEF TypeOK
<1>2. In(c)' = In(c)
  BY DEF In
<1>3. ASSUME NEW k \in In(c), Reported(k) PROVE Reported(k)'
  <2>1. PICK i \in DOMAIN reports : reports[i].status = "active" /\ reports[i].key = k
    BY <1>3 DEF Reported, Active
  <2>2. i \in DOMAIN reports' /\ reports'[i] = reports[i]
    BY <1>1
  <2> QED
    BY <2>1, <2>2 DEF Reported, Active
<1>4. ASSUME NEW k \in In(c), Reported(k)' PROVE Reported(k)
  <2>1. PICK i \in DOMAIN reports' : reports'[i].status = "active" /\ reports'[i].key = k
    BY <1>4 DEF Reported, Active
  <2>2. CASE i <= Len(reports)
    <3>1. i \in DOMAIN reports /\ reports'[i] = reports[i]
      BY <1>1, <2>2
    <3> QED
      BY <2>1, <3>1 DEF Reported, Active
  <2>3. CASE ~(i <= Len(reports))
    <3> DEFINE j == i - Len(reports)
    <3>1. j \in DOMAIN rows /\ reports'[i] = rows[j]
      BY <1>1, <2>3
    <3> HIDE DEF j
    <3>2. j \in Active(rows) /\ rows[j].key = k /\ live[k] = rows[j].signature
      BY <2>1, <3>1 DEF Active, About
    <3>3. CellOf[rows[j].signature] = c
      BY <3>2 DEF In
    <3> QED
      BY <3>2, <3>3 DEF CellsOf
  <2> QED
    BY <2>2, <2>3
<1> QED
  BY <1>2, <1>3, <1>4, SameCell

\* Reports are retired: only what is in their cells can be reported no more.
LEMMA RetiredQueued ==
  ASSUME TypeOK, About(reports, live), NEW S, NEW status \in {"expired", "revoked"},
         reports' = Retired(reports, S, status),
         NEW k \in Keys, live[k] # Gone,
         \A i \in S \cap Active(reports) : CellOf[reports[i].signature] # CellOf[live[k]]
  PROVE  Reported(k)' <=> Reported(k)
<1>1. /\ DOMAIN reports' = DOMAIN reports
      /\ \A i \in DOMAIN reports :
           /\ reports'[i].key = reports[i].key
           /\ reports'[i].status = IF i \in S THEN status ELSE reports[i].status
  BY RetiredRight DEF TypeOK, Statuses
<1>2. ASSUME Reported(k)' PROVE Reported(k)
  BY <1>1, <1>2 DEF Reported, Active
<1>3. ASSUME Reported(k) PROVE Reported(k)'
  <2>1. PICK i \in Active(reports) : reports[i].key = k
    BY <1>3 DEF Reported
  <2>2. reports[i].signature = live[k]
    BY <2>1 DEF About, Active
  <2>3. i \notin S
    BY <2>1, <2>2
  <2> QED
    BY <1>1, <2>1, <2>3 DEF Reported, Active
<1> QED
  BY <1>2, <1>3

\* A step that changes what a cell renders, or what a recompute of it would
\* find, queues the cell for both.
LEMMA Announced ==
  ASSUME TypeOK, IdsBounded, Exclusive, Current, SwapCovers, Orderly, [Next]_vars, NEW c \in Cells
  PROVE  Same(c) \/ (c \in queue' /\ c \in tileRows')
<1>0. /\ scenario \cap {"report-refresh", "old-dump"} = {} /\ "mapping-refresh" \notin scenario
      /\ reports \in Seq(Report) /\ \A h \in Handlers : ins[h].rows \in Seq(Report)
  BY DEF Orderly, Overlaps, TypeOK
<1>1. /\ About(reports, live)
      /\ \A h \in Handlers : About(ins[h].rows, live)
      /\ ref.open => ref.seen = reports
  BY <1>0 DEF Current
<1>2. ASSUME inputs' = inputs PROVE Same(c)
  BY <1>2 DEF Same, inputs, Unmatched, Rendered, Reported, In, Active
<1>3. ASSUME NEW h \in Handlers, CommitReport(h) PROVE Same(c) \/ (c \in queue' /\ c \in tileRows')
  <2>1. /\ reports' = reports \o ins[h].rows /\ live' = live /\ mapping' = mapping
        /\ Enqueue(CellsOf(ins[h].rows, DOMAIN ins[h].rows))
    BY <1>3 DEF CommitReport, Store
  <2>2. c \notin CellsOf(ins[h].rows, Active(ins[h].rows)) => Same(c)
    BY <1>0, <1>1, <2>1, AddedQueued
  <2>3. CellsOf(ins[h].rows, Active(ins[h].rows)) \subseteq CellsOf(ins[h].rows, DOMAIN ins[h].rows)
    BY DEF CellsOf, Active
  <2> QED
    BY <2>1, <2>2, <2>3 DEF Enqueue
<1>4. CASE Restore
  <2>1. PICK d \in DOMAIN dumps :
          /\ Len(reports) + Len(Restored(d)) <= MaxReports
          /\ "old-dump" \in scenario \/ Stale(Restored(d), live) = {}
          /\ reports' = reports \o Restored(d) /\ live' = live /\ mapping' = mapping
          /\ Enqueue(CellsOf(Restored(d), Active(Restored(d))))
    BY <1>4 DEF Restore, Store
  <2>2. About(Restored(d), live) /\ Restored(d) \in Seq(Report)
    BY <1>0, <2>1, AboutRestored, RestoredRight
  <2>3. c \notin CellsOf(Restored(d), Active(Restored(d))) => Same(c)
    BY <2>1, <2>2, AddedQueued
  <2> QED
    BY <2>1, <2>3 DEF Enqueue
<1>5. CASE Revoke
  <2>1. PICK S \in SUBSET Active(reports) :
          /\ reports' = Retired(reports, S, "revoked") /\ live' = live /\ mapping' = mapping
          /\ Enqueue(CellsOf(reports, S))
    BY <1>5 DEF Revoke
  <2>2. ASSUME c \notin CellsOf(reports, S) PROVE Same(c)
    <3>1. In(c)' = In(c)
      BY <2>1 DEF In
    <3>2. \A i \in S \cap Active(reports) : CellOf[reports[i].signature] # c
      BY <2>2 DEF CellsOf
    <3>3. \A k \in In(c) : Reported(k)' <=> Reported(k)
      BY <1>1, <2>1, <3>2, RetiredQueued DEF In
    <3> QED
      BY <2>1, <3>1, <3>3, SameCell
  <2> QED
    BY <2>1, <2>2 DEF Enqueue
<1>6. CASE CommitRefresh
  <2>1. PICK new \in Table :
          /\ live' = new /\ mapping' = mapping
          /\ reports' = Retired(reports, Stale(reports, new), "expired")
          /\ Enqueue(ChangedCells(live, new) \cup CellsOf(reports, Stale(reports, new)))
    BY <1>1, <1>6 DEF CommitRefresh
  <2>2. ASSUME c \notin ChangedCells(live, new), c \notin CellsOf(reports, Stale(reports, new))
        PROVE  Same(c)
    <3>1. ASSUME NEW k \in Keys, live[k] # new[k]
          PROVE  (live[k] # Gone => CellOf[live[k]] # c) /\ (new[k] # Gone => CellOf[new[k]] # c)
      BY <2>2, <3>1 DEF ChangedCells
    <3>2. In(c)' = In(c) /\ \A k \in In(c) : live'[k] = live[k]
      BY <2>1, <3>1 DEF In
    <3>3. \A i \in Stale(reports, new) \cap Active(reports) : CellOf[reports[i].signature] # c
      BY <2>2 DEF CellsOf
    <3>4. \A k \in In(c) : Reported(k)' <=> Reported(k)
      BY <1>1, <2>1, <3>3, RetiredQueued DEF In
    <3> QED
      BY <2>1, <3>2, <3>4, SameCell
  <2> QED
    BY <2>1, <2>2 DEF Enqueue
<1>7. CASE CommitSwap
  <2>1. In(c) # {} => c \in swap.cells
    BY <1>0, <1>7 DEF CommitSwap, SwapCovers
  <2>2. ASSUME In(c) = {} PROVE Same(c)
    <3>1. In(c)' = {}
      BY <1>7, <2>2 DEF CommitSwap, In
    <3> QED
      BY <2>2, <3>1 DEF Same, Unmatched, Rendered
  <2> QED
    BY <1>7, <2>1, <2>2 DEF CommitSwap, Enqueue
<1>8. CASE Reconcile \/ JobFails
  <2>1. Missing(reports, live) \cap DOMAIN reports = {} /\ Changed(reports, live) \cap DOMAIN reports = {}
    BY <1>0, <1>1, NothingStale
  <2>2. reports' = reports
    BY <1>0, <1>8, <2>1, RetiredRight
       DEF Reconcile, JobEnqueue, JobEnqueueTiles, JobRetireMissing, JobRetireChanged, JobFails, inputs, Statuses
  <2>3. live' = live /\ mapping' = mapping
    BY <1>8 DEF Reconcile, JobEnqueue, JobEnqueueTiles, JobRetireMissing, JobRetireChanged, JobFails, inputs
  <2> QED
    BY <1>2, <2>2, <2>3 DEF inputs
<1>9. CASE \/ \E h \in Handlers : BeginReport(h) \/ AbortReport(h)
           \/ BeginRefresh \/ AbortRefresh \/ BeginSwap \/ AbortSwap \/ BackUp
           \/ (\E d \in Cells : Drain(d)) \/ UNCHANGED vars
  <2>1. inputs' = inputs
    BY <1>9 DEF BeginReport, AbortReport, BeginRefresh, AbortRefresh, BeginSwap, AbortSwap, BackUp,
      Drain, vars, inputs
  <2> QED
    BY <1>2, <2>1
<1> QED
  BY <1>3, <1>4, <1>5, <1>6, <1>7, <1>8, <1>9 DEF Next

\* What is served changes with a drain of the cell, and a cell leaves the queue
\* with one.
LEMMA Drained ==
  ASSUME TypeOK, [Next]_vars, NEW c \in Cells
  PROVE  \/ Drain(c)
         \/ served'[c] = served[c] /\ (c \in queue => c \in queue')
<1>1. CASE \E d \in Cells : Drain(d)
  BY <1>1 DEF Drain, TypeOK
<1>2. CASE ~\E d \in Cells : Drain(d)
  <2>1. served' = served
    BY <1>2 DEF Next, BeginReport, CommitReport, AbortReport, BeginRefresh, CommitRefresh, AbortRefresh,
      BeginSwap, CommitSwap, AbortSwap, Reconcile, JobEnqueue, JobEnqueueTiles, JobRetireMissing,
      JobRetireChanged, JobFails, Revoke, BackUp, Restore, vars
  <2>2. queue \subseteq queue'
    BY <1>2 DEF Next, BeginReport, CommitReport, AbortReport, BeginRefresh, CommitRefresh, AbortRefresh,
      BeginSwap, CommitSwap, AbortSwap, Reconcile, JobEnqueue, JobEnqueueTiles, JobRetireMissing,
      JobRetireChanged, JobFails, Revoke, BackUp, Restore, vars, Enqueue, EnqueueNothing
  <2> QED
    BY <2>1, <2>2
<1> QED
  BY <1>1, <1>2

\* The invariant of every step.
Inv == TypeOK /\ IdsBounded /\ Exclusive /\ Current /\ SwapCovers /\ ServedOrQueued

\* A drain brings a cell up to date and changes nothing a recompute reads; what
\* any other step changes, it queues.
LEMMA ServedNext == Inv /\ [Next]_vars => ServedOrQueued'
<1> SUFFICES ASSUME Inv, [Next]_vars PROVE ServedOrQueued'
  OBVIOUS
<1>1. TypeOK'
  BY TypeNext DEF Inv
<1>2. ASSUME Orderly', NEW c \in Cells, served'[c] # Unmatched(c)' PROVE c \in queue'
  <2>1. Orderly
    <3>1. scenario' = scenario
      BY DEF Next, BeginReport, CommitReport, AbortReport, BeginRefresh, CommitRefresh, AbortRefresh,
        BeginSwap, CommitSwap, AbortSwap, Reconcile, JobEnqueue, JobEnqueueTiles, JobRetireMissing,
        JobRetireChanged, JobFails, Revoke, BackUp, Restore, Drain, vars
    <3> QED
      BY <1>2, <3>1 DEF Orderly
  <2>2. Same(c) \/ c \in queue'
    BY <2>1, Announced DEF Inv
  <2>3. CASE Drain(c)
    <3>1. served'[c] = Unmatched(c)
      BY <2>3 DEF Drain, Inv, TypeOK
    <3>2. Unmatched(c)' = Unmatched(c)
      BY <2>3 DEF Drain, inputs, Unmatched, Reported, In, Active
    <3> QED
      BY <1>2, <3>1, <3>2
  <2>4. CASE served'[c] = served[c] /\ (c \in queue => c \in queue')
    BY <1>2, <2>1, <2>2, <2>4 DEF Same, Inv, ServedOrQueued
  <2> QED
    BY <2>3, <2>4, Drained DEF Inv
<1> QED
  BY <1>1, <1>2 DEF ServedOrQueued

\* All of it holds in every reachable state.
LEMMA Always == Spec => []Inv
<1>1. Init => Current /\ SwapCovers
  BY DEF Init, Current, About, NoInsert, NoRefresh, SwapCovers, NoSwap
<1>2. Init => ServedOrQueued
  BY TypeInit DEF Init, ServedOrQueued
<1>3. Inv /\ [Next]_vars => Current' /\ SwapCovers'
  BY CurrentNext, SwapCoversNext DEF Inv
<1>4. Inv /\ [Next]_vars => (TypeOK /\ IdsBounded /\ Exclusive)'
  BY TypeNext DEF Inv
<1>5. Inv /\ [Next]_vars => Inv'
  BY <1>3, <1>4, ServedNext DEF Inv
<1>6. Init => Inv
  BY <1>1, <1>2, TypeInit DEF Inv
<1> QED
  BY <1>5, <1>6, PTL DEF Spec

\* A cell that serves something else than a recompute would find is queued
\* (reports/mod.rs:29-33, changeset.rs:10-43, street_names.rs:98-119).
THEOREM NoCellForgotten == Spec => []ServedOrQueued
<1>1. Inv => ServedOrQueued
  BY DEF Inv
<1> QED
  BY <1>1, Always, PTL

\* A step that changes what a cell renders or serves gives it a row in
\* tile_dirty_cells.
THEOREM TilesTold == Spec => TileRowWithChange
<1>1. ASSUME Inv, [Next]_vars, Orderly, NEW c \in Cells,
             Rendered(c)' # Rendered(c) \/ served'[c] # served[c]
      PROVE  c \in tileRows'
  <2>1. Same(c) \/ c \in tileRows'
    BY <1>1, Announced DEF Inv
  <2>2. Drain(c) => c \in tileRows'
    BY DEF Drain
  <2>3. Drain(c) \/ served'[c] = served[c]
    BY <1>1, Drained DEF Inv
  <2> QED
    BY <1>1, <2>1, <2>2, <2>3 DEF Same
<1>2. Inv /\ [Next]_vars =>
        [Orderly => \A c \in Cells : (Rendered(c)' # Rendered(c) \/ served'[c] # served[c])
                                       => c \in tileRows']_vars
  BY <1>1
<1> QED
  BY <1>2, Always, PTL DEF Spec, TileRowWithChange
===============================================================================
