------------------------------ MODULE MatchInputs ------------------------------
(***************************************************************************)
(* The producers of the match queue, seen from what they change: a refresh *)
(* of a government dataset (update::dataset), user reports (reports), the  *)
(* reports_reconcile job and a swap of the street-name mappings            *)
(* (mappings::street_names).  MatchDrain takes from them that a change and *)
(* the queue rows of its cells become visible together; here that is what  *)
(* has to hold.                                                            *)
(*                                                                         *)
(* A transaction works on the snapshot of its BEGIN (DuckDB), so two that  *)
(* are open together do not see each other; an UPDATE fails when the row   *)
(* it wants was changed since.  The content of a government record stands  *)
(* for its compared columns: it fixes the record's signature and its cell. *)
(* The OSM side of the match is left out.                                  *)
(***************************************************************************)
EXTENDS Naturals, Sequences, SequencesExt, FiniteSetsExt

CONSTANTS
  Keys,        \* record keys of a government dataset
  Contents,    \* what a record can say
  Saying,      \* Saying[k]: what the record of key k may say
  Cells,       \* z14 cells
  CellOf,      \* CellOf[x]: the cell of a record with content x
  Gone,        \* no such record
  Handlers,    \* POST /report handlers
  Imported,    \* the table the import left
  Scenarios,   \* which sets of scenario an instance allows
  MaxReports,  \* bound: rows of object_reports
  MaxDumps,    \* bound: dumps kept, the newest among them
  MaxRefreshes, MaxSwaps, MaxFaults \* bounds

(***************************************************************************)
(* A scenario says what goes on besides reports, several at once among     *)
(* them, one refresh and one drain at a time:                              *)
(*   swaps:           mapping swaps;                                       *)
(*   reconcile:       reports_reconcile is enabled (by default it is not); *)
(*   restore:         the backup job, and the import of a dump;            *)
(* and which of the overlaps occur that the code does not exclude:         *)
(*   report-refresh:  a report is stored while a refresh is being applied; *)
(*   mapping-refresh: a mapping swap meets the apply of a refresh;         *)
(*   old-dump:        a dump is restored that has active reports about     *)
(*                    records that were changed since.                     *)
(***************************************************************************)
Activities == {"swaps", "reconcile", "restore"}
Overlaps == {"report-refresh", "mapping-refresh", "old-dump"}

ASSUME CellsAssumption ==
  /\ CellOf \in [Contents -> Cells] /\ Gone \notin Contents
  /\ Saying \in [Keys -> SUBSET Contents]
ASSUME KeysAssumption == IsFiniteSet(Keys)
ASSUME ScenariosAssumption == Scenarios \subseteq SUBSET (Activities \cup Overlaps)
ASSUME BoundsAssumption ==
  {MaxReports, MaxDumps, MaxRefreshes, MaxSwaps, MaxFaults} \subseteq Nat

VARIABLES
  scenario,  \* the scenario
  live,      \* committed: the dataset's table
  reports,   \* committed: object_reports
  dumps,     \* dated dumps of object_reports in the backup directory, newest last
  mapping,   \* committed: version of street_name_mappings
  served,    \* committed: served[c], the <source>_unmatched rows of a cell
  queue,     \* committed: cells in match_dirty_cells
  tileRows,  \* cells the last step gave a row in tile_dirty_cells
  ins,       \* ins[h]: the open transaction of a report handler
  ref,       \* the open apply transaction of a refresh
  swap,      \* the open transaction of a mapping swap
  job,       \* where reports_reconcile is
  refreshes, faults,
  visible    \* history: the places of the rows whose ids the writer of a row saw

inputs == <<live, reports, mapping>>
counts == <<refreshes, faults>>
vars == <<scenario, visible, dumps, inputs, served, queue, tileRows, ins, ref, swap, job, counts>>

Statuses == {"active", "expired", "revoked"}
Report == [id : 1..MaxReports, key : Keys, signature : Contents, status : Statuses]
Table == {t \in [Keys -> Contents \cup {Gone}] :
            /\ \A k \in Keys : t[k] \in Saying[k] \cup {Gone}
            /\ \E k \in Keys : t[k] # Gone}

ASSUME ImportedAssumption == Imported \in Table

TypeOK ==
  /\ scenario \in Scenarios
  /\ live \in Table
  /\ reports \in Seq(Report) /\ Len(reports) <= MaxReports
  /\ dumps \in Seq(Seq(Report)) /\ Len(dumps) <= MaxDumps
  /\ mapping \in 0..MaxSwaps
  /\ served \in [Cells -> SUBSET (Keys \X Contents \X (0..MaxSwaps))]
  /\ queue \subseteq Cells /\ tileRows \subseteq Cells
  /\ ins \in [Handlers -> [open : BOOLEAN, rows : Seq(Report), saw : Nat]]
  /\ ref \in [open : BOOLEAN, seen : Seq(Report)]
  /\ swap \in [open : BOOLEAN, cells : SUBSET Cells]
  /\ job \in {"idle", "tiles", "missing", "changed"}
  /\ refreshes \in 0..MaxRefreshes /\ faults \in 0..MaxFaults
  /\ visible \in Seq(SUBSET Nat) /\ Len(visible) = Len(reports)

-------------------------------------------------------------------------------
(* What is computed from the inputs                                        *)

Active(rows) == {i \in DOMAIN rows : rows[i].status = "active"}

\* reported_sql: by key alone, whatever the signature says.
Reported(k) == \E i \in Active(reports) : reports[i].key = k

In(c) == {k \in Keys : live[k] # Gone /\ CellOf[live[k]] = c}

\* What a recompute of a cell would find now.
Unmatched(c) == {<<k, live[k], mapping>> : k \in {n \in In(c) : ~Reported(n)}}

\* What the tile layers over the source tables render for a cell.
Rendered(c) == {<<k, live[k], mapping, Reported(k)>> : k \in In(c)}

Missing(rows, table) == {i \in Active(rows) : table[rows[i].key] = Gone}
ChangedNever(rows, table) == {}  \* mutant: only vanished records are looked for
Changed(rows, table) ==
  {i \in Active(rows) : table[rows[i].key] \notin {Gone, rows[i].signature}}
Stale(rows, table) == Missing(rows, table) \cup Changed(rows, table)

CellsOf(rows, S) == {CellOf[rows[i].signature] : i \in S}
Retired(rows, S, status) ==
  [i \in DOMAIN rows |-> IF i \in S THEN [rows[i] EXCEPT !.status = status]
                         ELSE rows[i]]

EnqueueMatchOnly(S) ==  \* mutant: the tile half of the enqueue is forgotten
  queue' = queue \cup S /\ tileRows' = {}

\* insert_dirty_cells, enqueue_*: both queues.  What tile_refresh makes of the
\* tile rows is in module TileRefresh; here only who writes them matters.
Enqueue(S) == queue' = queue \cup S /\ tileRows' = S

EnqueueNothing == UNCHANGED queue /\ tileRows' = {}

-------------------------------------------------------------------------------
NoInsert == [open |-> FALSE, rows |-> <<>>, saw |-> 0]
NoRefresh == [open |-> FALSE, seen |-> <<>>]
NoSwap == [open |-> FALSE, cells |-> {}]

Init ==
  /\ scenario \in Scenarios
  /\ live = Imported
  /\ reports = <<>> /\ visible = <<>> /\ dumps = <<>> /\ mapping = 0
  /\ served = [c \in Cells |-> Unmatched(c)]
  /\ queue = {} /\ tileRows = {}
  /\ ins = [h \in Handlers |-> NoInsert]
  /\ ref = NoRefresh /\ swap = NoSwap /\ job = "idle"
  /\ refreshes = 0 /\ faults = 0

Fault == faults < MaxFaults /\ faults' = faults + 1
Reporting == \E h \in Handlers : ins[h].open

-------------------------------------------------------------------------------
(* POST /report: reports::insert                                           *)

Accepted(S) == {k \in S : live[k] # Gone}

NextIdActive ==  \* mutant: retired reports do not count
  1 + Max({0} \cup {reports[i].id : i \in Active(reports)})
NextId == 1 + Max({0} \cup {reports[i].id : i \in DOMAIN reports})

RowsFor(S) ==
  LET accepted == SetToSeq(Accepted(S)) IN
  [i \in DOMAIN accepted |->
     [id |-> NextId + i - 1, key |-> accepted[i],
      signature |-> live[accepted[i]], status |-> "active"]]

\* Ids and records are read in the transaction's own snapshot, whatever other
\* handlers have open.
BeginReport(h) ==
  /\ ~ins[h].open
  /\ "report-refresh" \in scenario \/ ~ref.open
  /\ \E S \in SUBSET Keys \ {{}} :
       /\ Len(reports) + Cardinality(Accepted(S)) <= MaxReports
       /\ ins' = [ins EXCEPT ![h] = [open |-> TRUE, rows |-> RowsFor(S),
                                      saw |-> Len(reports)]]
  /\ EnqueueNothing
  /\ UNCHANGED <<scenario, visible, dumps, inputs, served, ref, swap, job, counts>>

\* The rows go to the end of the table; each saw the first ones of the table
\* and those of its own batch before it.
Store(rows, saw) ==
  /\ reports' = reports \o rows
  /\ visible' = visible \o
       [i \in DOMAIN rows |-> (1..saw) \cup ((Len(reports) + 1)..(Len(reports) + i - 1))]

CommitReport(h) ==
  /\ ins[h].open
  /\ Len(reports) + Len(ins[h].rows) <= MaxReports
  /\ Store(ins[h].rows, ins[h].saw)
  /\ Enqueue(CellsOf(ins[h].rows, DOMAIN ins[h].rows))
  /\ ins' = [ins EXCEPT ![h] = NoInsert]
  /\ UNCHANGED <<scenario, dumps, live, mapping, served, ref, swap, job, counts>>

AbortReport(h) ==
  /\ ins[h].open
  /\ ins' = [ins EXCEPT ![h] = NoInsert]
  /\ EnqueueNothing
  /\ UNCHANGED <<scenario, visible, dumps, inputs, served, ref, swap, job, counts>>

-------------------------------------------------------------------------------
(* update::dataset::refresh: the apply transaction; refresh_lock keeps two *)
(* refreshes apart, so the diff computed before BEGIN is that of the       *)
(* snapshot                                                                *)

BeginRefresh ==
  /\ ~ref.open /\ refreshes < MaxRefreshes
  /\ "report-refresh" \in scenario \/ ~Reporting
  /\ "mapping-refresh" \in scenario \/ ~swap.open
  /\ ref' = [open |-> TRUE, seen |-> reports]
  /\ refreshes' = refreshes + 1
  /\ EnqueueNothing
  /\ UNCHANGED <<scenario, visible, dumps, inputs, served, ins, swap, job, faults>>

CellsEntered(old, new) ==  \* mutant: only the cell a record is in afterwards
  {CellOf[new[k]] : k \in {n \in Keys : new[n] \notin {Gone, old[n]}}}

\* create_changed_cells: the cell a record left and the cell it entered.
ChangedCells(old, new) ==
  {CellOf[x] : x \in UNION {{old[k], new[k]} \ {Gone} :
                              k \in {n \in Keys : old[n] # new[n]}}}

\* The delta, the retirement of the reports its snapshot shows and the queue
\* rows of both.  The staged table may say anything but that it is empty;
\* nobody else reads it, so it is picked here.
CommitRefresh ==
  /\ ref.open
  /\ \E new \in Table :
       LET outdated == Stale(ref.seen, new) IN
       /\ \A i \in outdated : reports[i] = ref.seen[i]
       /\ live' = new
       /\ reports' = Retired(reports, outdated, "expired")
       /\ Enqueue(ChangedCells(live, new) \cup CellsOf(ref.seen, outdated))
  /\ ref' = NoRefresh
  /\ UNCHANGED <<scenario, visible, dumps, mapping, served, ins, swap, job, counts>>

\* A statement fails, a conflict with reports_reconcile among them.
AbortRefresh ==
  /\ ref.open
  /\ ref' = NoRefresh
  /\ EnqueueNothing
  /\ UNCHANGED <<scenario, visible, dumps, inputs, served, ins, swap, job, counts>>

-------------------------------------------------------------------------------
(* mappings::street_names: validate_and_swap                               *)

BeginSwap ==
  /\ "swaps" \in scenario /\ ~swap.open /\ mapping < MaxSwaps
  /\ "mapping-refresh" \in scenario \/ ~ref.open
  /\ swap' = [open |-> TRUE, cells |-> {c \in Cells : In(c) # {}}]
  /\ EnqueueNothing
  /\ UNCHANGED <<scenario, visible, dumps, inputs, served, ins, ref, job, counts>>

CommitSwap ==
  /\ swap.open
  /\ mapping' = mapping + 1
  /\ Enqueue(swap.cells)
  /\ swap' = NoSwap
  /\ UNCHANGED <<scenario, visible, dumps, live, reports, served, ins, ref, job, counts>>

AbortSwap ==
  /\ swap.open
  /\ swap' = NoSwap
  /\ EnqueueNothing
  /\ UNCHANGED <<scenario, visible, dumps, inputs, served, ins, ref, job, counts>>

-------------------------------------------------------------------------------
(* reports_reconcile: reconcile_source without a transaction around it     *)

JobEnqueue ==
  /\ "reconcile" \in scenario /\ job = "idle"
  /\ queue' = queue \cup CellsOf(reports, Stale(reports, live))
  /\ job' = "tiles"
  /\ tileRows' = {}
  /\ UNCHANGED <<scenario, visible, dumps, inputs, served, ins, ref, swap, counts>>

JobEnqueueTiles ==
  /\ job = "tiles"
  /\ tileRows' = CellsOf(reports, Stale(reports, live))
  /\ job' = "missing"
  /\ UNCHANGED <<scenario, visible, dumps, inputs, served, queue, ins, ref, swap, counts>>

JobRetireMissing ==
  /\ job = "missing"
  /\ reports' = Retired(reports, Missing(reports, live), "expired")
  /\ job' = "changed"
  /\ EnqueueNothing
  /\ UNCHANGED <<scenario, visible, dumps, live, mapping, served, ins, ref, swap, counts>>

JobRetireMissingOnly ==  \* mutant: the second UPDATE repeats the first
  /\ job = "changed"
  /\ reports' = Retired(reports, Missing(reports, live), "expired")
  /\ job' = "idle"
  /\ EnqueueNothing
  /\ UNCHANGED <<scenario, visible, dumps, live, mapping, served, ins, ref, swap, counts>>

JobRetireChanged ==
  /\ job = "changed"
  /\ reports' = Retired(reports, Changed(reports, live), "expired")
  /\ job' = "idle"
  /\ EnqueueNothing
  /\ UNCHANGED <<scenario, visible, dumps, live, mapping, served, ins, ref, swap, counts>>

\* A statement fails, a conflict with an open refresh among them.
JobFails ==
  /\ job # "idle"
  /\ Fault
  /\ job' = "idle"
  /\ EnqueueNothing
  /\ UNCHANGED <<scenario, visible, dumps, inputs, served, ins, ref, swap, refreshes>>

-------------------------------------------------------------------------------
\* The command line opens the database alone, so nothing else is under way.
Alone == ~Reporting /\ ~ref.open /\ ~swap.open /\ job = "idle"

\* reports revoke: by id, or everything since some moment.
Revoke ==
  /\ Alone
  /\ \E first \in DOMAIN reports, last \in {1, Len(reports)} :
       LET S == {i \in Active(reports) :
                   IF last = 1 THEN reports[i].id = reports[first].id ELSE i >= first}
       IN /\ S # {}
          /\ reports' = Retired(reports, S, "revoked")
          /\ Enqueue(CellsOf(reports, S))
  /\ UNCHANGED <<scenario, visible, dumps, live, mapping, served, ins, ref, swap, job, counts>>

-------------------------------------------------------------------------------
(* Backup and restore: server::jobs::backup, reports export and import     *)

\* A dump lists the reports by falling id.  The same content again writes no
\* new file; files past their age go, the newest never.
BackUp ==
  /\ "restore" \in scenario
  /\ LET text == Reverse(reports)
         files == IF dumps # <<>> /\ Last(dumps) = text THEN dumps
                                                       ELSE Append(dumps, text)
     IN \E oldest \in DOMAIN files :
          /\ Len(files) - oldest < MaxDumps
          /\ dumps' = SubSeq(files, oldest, Len(files))
  /\ EnqueueNothing
  /\ UNCHANGED <<scenario, visible, inputs, served, ins, ref, swap, job, counts>>

\* The rows of a dump come back as they were, whatever happened to them or to
\* their records since, under new ids, on top of what is there.
Restored(d) ==
  [i \in DOMAIN dumps[d] |-> [dumps[d][i] EXCEPT !.id = NextId + i - 1]]

Restore ==
  /\ Alone
  /\ \E d \in DOMAIN dumps :
       LET rows == Restored(d) IN
       /\ rows # <<>> /\ Len(reports) + Len(rows) <= MaxReports
       /\ "old-dump" \in scenario \/ Stale(rows, live) = {}
       /\ Store(rows, Len(reports))
       /\ Enqueue(CellsOf(rows, Active(rows)))
  /\ UNCHANGED <<scenario, dumps, live, mapping, served, ins, ref, swap, job, counts>>

-------------------------------------------------------------------------------
\* match_refresh drains a cell (module MatchDrain: its rows go only with a
\* recompute that has seen what they announce).
Drain(c) ==
  /\ c \in queue
  /\ served' = [served EXCEPT ![c] = Unmatched(c)]
  /\ queue' = queue \ {c}
  /\ tileRows' = {c}
  /\ UNCHANGED <<scenario, visible, dumps, inputs, ins, ref, swap, job, counts>>

Reconcile == JobEnqueue \/ JobEnqueueTiles \/ JobRetireMissing \/ JobRetireChanged

Next ==
  \/ \E h \in Handlers : BeginReport(h) \/ CommitReport(h) \/ AbortReport(h)
  \/ BeginRefresh \/ CommitRefresh \/ AbortRefresh
  \/ BeginSwap \/ CommitSwap \/ AbortSwap
  \/ Reconcile \/ JobFails
  \/ Revoke \/ BackUp \/ Restore
  \/ \E c \in Cells : Drain(c)

\* A death of the process is the abort of whatever is open, one after another.
\* Where reports_reconcile is enabled it is run again and again.
Spec == Init /\ [][Next]_vars /\ WF_vars(Reconcile)

-------------------------------------------------------------------------------
(* Properties                                                              *)

\* Of the overlaps, none but that of two inserts.
Orderly == scenario \cap Overlaps = {}

\* Without an overlap that breaks it, a cell whose unmatched rows are not what
\* a recompute would find is queued: no producer forgets a cell, however
\* reports, refreshes, mapping swaps, restores and drains follow one another
\* (reports/mod.rs:29-33, changeset.rs:10-43, street_names.rs:98-119).
ServedOrQueued ==
  /\ TypeOK
  /\ Orderly =>
       \A c \in Cells : served[c] # Unmatched(c) => c \in queue

\* The tile half: a step that changes what a cell renders, or what it serves,
\* leaves the cell in tile_dirty_cells.
TileRowWithChange ==
  [][Orderly =>
       \A c \in Cells : (Rendered(c)' # Rendered(c) \/ served'[c] # served[c])
                          => c \in tileRows']_vars

\* Active reports that are about something the record no longer says.
Outdated ==
  {i \in Active(reports) : live[reports[i].key] # reports[i].signature}

\* A report vetoes the record it was made about and no other: once upstream
\* has corrected or withdrawn the record, the report is retired in the same
\* step (dataset.rs:205-209).
ActiveIsCurrent == Outdated = {}

\* ... which holds as long as no report is stored while a refresh is applied
\* and no old dump is restored,
NoStaleActive == scenario \cap {"report-refresh", "old-dump"} = {} => ActiveIsCurrent

\* ... and is repaired by reports_reconcile otherwise.
StaleRetires ==
  "reconcile" \in scenario => \A i \in 1..MaxReports :
    i \in Outdated ~> i \notin Outdated

\* Once nothing is under way and no report is outdated, revoked and expired
\* reports have let go of their objects: draining the queue makes them reappear
\* (reports/mod.rs:794-797).  Not an invariant: with report-refresh or old-dump
\* a record can have left the cell its report queues.
RevokedReappears ==
  Alone /\ ActiveIsCurrent => \A c \in Cells : served[c] # Unmatched(c) => c \in queue

\* Two rows have one id only where the later one's writer could not see the
\* earlier one, because its transaction began before the other's commit: in any
\* order, over retired rows and restored ones, an id given in sight is not given
\* again (reports/mod.rs:104-125, 669-675).
ClashOnlyUnseen ==
  \A i, j \in DOMAIN reports :
    i < j /\ reports[i].id = reports[j].id => i \notin visible[j]

\* A report id names one report, so that it can be revoked by it: two batches
\* that overlap "cannot hand out the same id" (reports/mod.rs:100-103).
ReportIdsUnique ==
  \A i, j \in DOMAIN reports : reports[i].id = reports[j].id => i = j
================================================================================
