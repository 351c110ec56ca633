# TLA+ models of osmpbudynki v2

osmpbudynki compares Polish government registers of buildings and addresses
(BDOT10k, EGiB, PRG) with OpenStreetMap and serves what OpenStreetMap lacks, as
vector tiles and as packages for JOSM. One process holds one DuckDB database and
two RocksDB directories (the OSM key-value store and the tile store), keeps them
current with background jobs and answers HTTP requests meanwhile.

Nothing the server shows is verified when it is read. A row of
`<source>_unmatched` and a stored tile are right because whoever changed
something they depend on has queued their cell, and because a job drains that
queue without ever losing a change. This development is about that promise and
the machinery around it. Source paths below are relative to `src/src/`.

## 1. The system

### Components, their state and what makes them correct

| component | state | operations | correct if |
|---|---|---|---|
| Match queue and drain (`compare/drain.rs`, `compare/incremental.rs`, `update/dirty_cells.rs`, `server/jobs/match_refresh.rs`, `match_reconcile.rs`) | tables `match_dirty_cells`, `<source>_unmatched`, `cell_totals` | enqueue (every producer), sweep, drain a batch: purge, read, groups of cells in a transaction, replay one by one after a failure | no change of a cell is lost; one bad cell does not hold up others; a recompute queues its tiles |
| Tile queue and store (`server/jobs/tile_refresh.rs`, `server/tile_store.rs`, `server/tile_dirty.rs`, `server/tiles.rs`) | table `tile_dirty_cells`, RocksDB `tiles` column family | tick: read cells, probe, render blocks, write a batch, delete rows; request: get, render, put | a stored tile that is out of date is queued, and goes in the end |
| Job scheduler and shutdown (`server/jobs/mod.rs`, `shutdown.rs`, `server/mod.rs`) | per job: flags `stop` and `cancel`, `Notify`, registry entry; global: shutdown flags | supervise, time out, count failures, shut down | no overlapping runs; shutdown reaches every job; a cancelled run hears of it |
| OSM catch-up (`update/osm.rs`, `download.rs`) | `osm_replication_sequence`, files in `download_dir`, frontier, in-flight slot | fetch loop and prefetch thread | no sequence skipped or fetched twice at once, no file left behind, the run ends |
| OSM diff application (`update/osm.rs`, `osm/kvstore.rs`, `osm/replication.rs`) | RocksDB node locations, way and relation stores and reverse indexes; `osm_*` tables | collapse a batch, apply its phases, rebuild affected ways and relations | tables and indexes describe the same OSM data, replays included |
| Dataset refresh (`update/mod.rs`, `update/dataset.rs`, `update/diff.rs`, `update/changeset.rs`, `import/prg.rs`) | live table, `dataset_refreshes`, staging and diff tables, `download_dir` | HEAD, download, stage, diff, apply, stamp | a skipped run misses nothing; delta, queue rows, retired reports and validator land together |
| User reports (`reports/mod.rs`, `server/reports.rs`, `server/jobs/reports_reconcile.rs`) | `object_reports` | insert, retire, revoke, reconcile | a report vetoes the record it was made about and no other; ids identify |
| Mapping updates (`mappings/*`, `server/jobs/street_mappings_update.rs`, `building_types_update.rs`) | `street_name_mappings`, `building_type_mappings`, validators in `metadata` | HEAD, download, validate, swap, enqueue, stamp | every affected cell is queued with the swap |
| Match rule and full compare (`compare/rule.rs`, `buildings.rs`, `addresses.rs`, `totals.rs`) | `<source>_unmatched`, `cell_totals` | SQL over a cell or a dataset; every producer's guess of what a change can reach | full compare and drain serve what the rule says, each record from one cell |
| Connection pool (`server/mod.rs`) | pooled DuckDB connections | take, return, end a leftover transaction, replace | nobody reads or writes inside somebody else's transaction |
| In-memory tile cache (`server/tile_cache.rs`) | two generations, byte budget, TTL | get, promote, insert, rotate | within its budget, never staler than a browser's own copy |
| Initial import and the command line (`import/*`, `main.rs`) | everything | `import`, `compare`, `update`, `queue`, `tiles`, `init`, `run` one after another | whatever ends early, the next command finds what it relies on |
| Tile warm-up (`server/tile_warm.rs`) | tile store | render all cells with the server stopped | what is stored shows the data |
| Backups (`server/jobs/backup.rs`, `db_copy.rs`, `reports/mod.rs`) | dated dumps of `object_reports`; a copy of the database | dump, rename, prune sparing the newest, import a dump; `db copy` | a restored report vetoes what it was about; a copy is complete or not there |
| Read-only handlers (`server/package.rs`, `stats.rs`, `updates.rs`, `josm_plugins.rs`, `http_cache.rs`, `public_config.rs`) | `package_exports` | tiles, packages, nearest building, rankings, caching headers | every reader says the same of an object; nothing keeps an answer it may not |
| Retention and health (`server/jobs/retention_prune.rs`, `health_log.rs`, `status_handler.rs`, `job_log.rs`) | logs, last runs | prune, warn, report | who looks finds all that is kept and within his window; the figures are true |
| Schema, configuration, dataset descriptions (`db.rs`, `config.rs`, `dataset.rs`, `utils.rs`, `tile_math.rs`, `osm/encoding.rs`) | none of their own | what the other components are built from | see the modules that use them |

### How they interact

```
 publishers --HEAD/GET--> download_dir --> refresh / mapping swap --\
 OSM diffs  --prefetch--> download_dir --> apply_batch --------------+--> source rows
 POST /report, revoke, import of a dump ----------------------------/      + rows of both queues,
                                                                              in one transaction
                match_dirty_cells --drain--> <source>_unmatched, cell_totals
                                       |  (same transaction)
                                       v
                tile_dirty_cells --tick--> tile store <--put after a miss-- request handlers
 supervisor: starts, times out, cancels and joins the runs of all of this
```

Every arrow into a queue is a DuckDB transaction: it works on the snapshot of
its `BEGIN`, and `now()` inside it is the time of that `BEGIN`. The drains
compare that time with a cutoff they take before they read. Nothing orders the
cutoff against transactions that are open, which is where most of the hard
behaviour comes from.

### What is hard

* *Interleaving*: rows become visible later than their time stamp says; a
  request stores a tile it rendered earlier; two threads share a directory.
* *Partial failure*: one cell of a group, one block of a tick, one file of a
  batch fails; the rest has to go on.
* *Crashes*: RocksDB is written without a WAL while DuckDB commits durably.
* *Timeouts*: a run that timed out still owns its thread.
* *Ordering*: validators are read before the content they stand for; cells
  are derived before the delta that changes them.
* *Sequences of commands*: a stamp, a validator or a stored tile that one
  command left is what the next one starts from, after an early end as well.
* *Agreement*: the match is written twice (in full, by cell), a tile is
  rendered in three ways, a building is tagged by three readers.

`PROJECT.json` lists every such hazard with its line and the properties that
would notice it going wrong; where none would, it says why.

## 2. Modules

| module | what it is | models |
|---|---|---|
| `DerivedCells` | abstract specification | what a dirty-cell queue promises, whatever drains it |
| `MatchDrain`, `MCMatchDrain` | specification | producers, sweep, `drain_batch`, `drain_group`, the replay, crashes |
| `TileRefresh`, `MCTileRefresh` | specification | tile queue, tick, request path, store with memtable and disk |
| `TileRefreshProofs` | proofs | no stale tile loses its row but by the three events of section 5 |
| `Supervisor` | specification | `supervise`, blocking threads, timeouts, shutdown |
| `OsmPrefetch` | specification | the fetch loop, the prefetch thread and their shared directory |
| `OsmApply` | specification | catch-up runs and the application of batches: collapse, phases, RocksDB writes, commit, failure |
| `OsmObjects` | operators, laws | rows and tags of one OSM object as the import and the update make them |
| `OsmStore` | operators, laws | the values in RocksDB, their merge operator, the format stamp |
| `OsmFiles`, `MCOsm` | operators, laws | OsmChange documents, `state.txt`, the PBF header, dates |
| `OsmProofs` | proofs | of `OsmApply`: store and rows converge, nothing is stale, changes are noted; of `OsmPrefetch`: every file has an owner; of `OsmStore` and `OsmObjects`: four of their laws for all inputs |
| `SourceRefresh`, `MCJobs` | specification | one external source from HEAD to stamp, for the three kinds of source |
| `JobsProofs` | proofs | of `Supervisor`: the registry is true, streaks are announced; of `SourceRefresh`: the order of stamp, table and publisher |
| `Records`, `MCRecords` | specification | what a refresh makes of the rows of a file: filters, duplicates, delta, cells, reports |
| `RecordsProofs` | proofs | of `Records`: the live table is its file, reloads are silent, reports lapse, cells are queued; of `Statistics`: rankings are determined, walks add up; of `Loads`: the axis order hint |
| `Statistics` | operators on the state of `Records` | national figures, rankings and their pages, units |
| `Loads` | operators, laws | what a load reports and refuses: row accounting, archives, axis order |
| `MatchInputs`, `MCMatchInputs` | specification | the producers with their data: refresh, reports, mapping swap, revoke, backup, restore |
| `MatchInputsProofs` | proofs | all of its safety properties |
| `MatchRule`, `MCMatchRule` | specification | the match rule, in full and by cell, and the reach of every producer |
| `MatchProofs` | proofs | of `MatchDrain`: type correctness, no lost update, refinement of `DerivedCells`; of `MatchRule`: cells serve what the rule says |
| `Serving`, `MCServing` | specification | what tiles, `/package` and the JOSM plugin answer, and what names the tiles to render again |
| `TileCache` | specification | requests of the aggregated tiles, the cache, the connection pool and the jobs that use it too |
| `ServingProofs` | proofs | of `Serving`: tiles are named, tiles and tags agree; of `TileCache`: the budget, the age and the view of what is answered; of `Responses`: four of its laws for all inputs |
| `Responses` | operators, laws | the headers of tiles and static files, the codec of stored tiles |
| `Offline`, `MCOffline` | specification | the commands of the program over one database, each able to end early |
| `DbCopy`, `Activity` | specifications | `db copy`; the export and change logs, their prune, the cache of the tiles that show them and the browsers |
| `OfflineProofs` | proofs | of `Offline`, `DbCopy` and `Activity`: all safety properties of their run |
| `Status` | operators, laws | `/status`, the lag warning, the log of last runs |

`MCJobs` (`Supervisor`, `SourceRefresh`), `MCOsm` (`OsmApply`, `OsmPrefetch`),
`MCServing` (`Serving`, `TileCache`) and `MCOffline` (`Offline`, `DbCopy`, `Activity`)
each check machines side by side that share no state: a variable, `about`, chooses in
the initial state which of them a behaviour is of, the variables of the others stay as
they are, and the fairness of each is asked only of its own behaviours.

The modules meet at named abstractions. `MatchDrain` takes a producer to be a
transaction that publishes new input and queue rows together; `MatchInputs`
shows what the producers have to do for that, and in turn takes a drain to be
the atomic step that `MatchProofs` shows it to be (`Refresh` of
`DerivedCells`). What a recompute computes is `MatchRule`, what a reader makes of
the result is `Serving`. `TileRefresh` starts from the tile rows that
`MatchDrain` (`TileRowWithRecompute`), `MatchInputs` (`TileRowWithChange`) and
`Serving` (`RerenderNoted`) show to be written. `SourceRefresh` is what happens
before the transaction of a refresh, `Records` what that transaction does to the
rows, `Loads` what came before it in the file; `Supervisor` starts and stops all
runs: the `Cancel` actions of the other modules are its `TimeOut` and
`SetCancel`. `Offline` has the commands and jobs of them all, without the
overlaps the others are about.

### Laws

A conversion has no behaviour: an encoding, a parse, a header, a count. Where
such code is modelled, the module defines it as operators and states what
relates them as *laws*, operators that take a set of inputs and are true or
false. An MC
module `ASSUME`s its laws over bounded inputs, so TLC evaluates them before every
run of that module and refuses to start if one fails. Each was seen to fail
under a plausible change of one of the operators it is about.

| hosted by | module | laws |
|---|---|---|
| `MCOsm` | `OsmObjects` | `OneLifecycleRule`, `WaysAgree`, `RelationsAgree`, `RebuildKeepsTags` |
| | `OsmStore` | `RefsComeBack`, `MergesComeBack`, `NoOtherFormat` |
| | `OsmFiles` | `EveryVersionRead`, `NoneSkipped`, `StampsAgree`, `NoSequenceInvented`, `DatesFollow`, `VarintsRead` |
| `MCRecords` | `Loads` | `RowsAccounted`, `ObjectsSurvive`, `HintHolds`, `NoTruncatedLoad`, `ConversionComesBack` |
| `MCServing` | `Responses` | `HitLikeMiss`, `RevalidatesRight`, `SharedCachesAreSafe`, `StoredValues`, `KeptFilesAreServed` |
| `MCOffline` | `Status` | `BacklogIsTrue`, `FailuresStayLocal`, `WarnsOfAStall`, `LastRunIsKept`, `NothingElsePublished` |

Some are proved for all inputs as well (section 4). Some carry a premise because the code does not do without it; section 5
lists those.

### MatchDrain

A cell is a (source, x, y) triple. What its match depends on is a version
`input[c]` that each committed change advances; `served[c]` is the version its
unmatched rows were computed from. `queue` is `match_dirty_cells`: a row has its
cell, its `enqueued_at` and the version that was published with it (a name for
the row, which the code never reads). `batchStart` is the cutoff, `snapInput` and
`snapQueue` the snapshot of the open transaction. Actions and code:
`StartBatch`, `ReadBatch` (cutoff, purge of unknown sources, oldest cells first)
are the head of `drain_batch`; `BeginGroup`, `DrainOneCell`, `GroupFails`,
`GroupCommit`, `GroupTxnFails` are `drain_group`; `RollbackGroup` and the
`Replay` actions are `replay_one_at_a_time`. Within a transaction the order of
statements matters only by what is undone together, so the recomputes, the
DELETEs and the tile rows of a group take effect at its COMMIT.

### TileRefresh

`content[t]` is the version of what a tile would render from committed rows. The
store is `mem` laid over `disk`: writes have no WAL, so a crash loses `mem`.
`enqueued_at` is only ever compared with the cutoff of the running tick, so the
queue is two sets of cells, `early` and `late`. The phases of a tick are its
autocommit statements: `StartTick`, `ReadCells`, `Probe` (`may_exist` has false
positives), `RenderBlock`, `FlushIfFull`, `WriteBatch`, `DeleteRows`. `Miss`,
`Render`, `Put` are `serve_persisted_tile`.

The code leaves three races open, and each can leave a stale tile without a row
(section 5). The model has all of them. A history variable, `raced`, marks a tile
at the step that can lose it: when the tick deletes a row that came under its
cutoff after the probe (`overtaken`), when a request stores what it rendered
earlier, and when a process dies with the tile in its memtable; the mark goes when
the tile is current again or a change names it anew. So `StaleTileQueued` says that
these three steps are the only ones that lose a tile, and `NoTileLost` is the promise
of the comments: `tile_late_row` and section 5 refute it.

### Supervisor

`loop[j]` walks through the loop of `supervise`; `waiter` and `woken` are the
`Notified` future (tokio's `notify_waiters` reaches only those registered);
`threads[j]` counts blocking threads, which outlive everything that does not
await them. `server` walks through the shutdown of `server::run` and
`Scheduler::shutdown`; the flags of different jobs are set one at a time.

### OsmPrefetch

The two threads access the frontier, the in-flight slot under its mutex, the stop
flag and the directory; each access is a step. A file is a sequence number: it
appears complete, by rename. A batch commits as a whole.

### OsmApply

`kv` is RocksDB: nodes, ways, relations and the two reverse indexes. `rows` are
the served rows and `base` the data at the stamped sequence; `feed` is what
upstream has published since, each diff with the data after it. `StartRun`, `BeginBatch`, `EndRun` are the loop of
`update()`; the sequences of a batch are collapsed at its start. `TakeNode`,
`TakeWay`, `TakeRelation` are the loops over the changes of a phase: each
computes the KV writes of one change, and `KvWrite` makes them one by one.
`EndNodes`, `EndWays`, `EndRelations`, `RebuildWays`, `RebuildRelations` are the
SQL of the phases, which touches only the transaction (`txnRows`, `dirty`).
`FailBatch` may come after any of these steps: it drops the transaction and keeps
`kv`. `ahead` counts the sequences a failed batch has already put into `kv`.

An object has one row, which stands for its rows in the three OSM tables; its
geometry is the list of coordinates it resolves to. What the repair of a
geometry drops, and the border of the extract (references to objects the feed
never had), are left out: upstream publishes referentially complete data.
`ImportedStore` and `ImportedRows` say what `import osm` would leave for given
data; the same functions are the reference that the updates are held against.

The data that this leaves abstract is in three modules beside it. `OsmObjects` is
the geometry and the tags of one object, by the import (whole extract at hand) and by
the update (from the key-value store). `OsmStore` is the bytes: varints and
deltas of references, the merge operator that adds and removes references of a
reverse index, and the stamp that refuses a store of another format. `OsmFiles` is
what arrives: the XML events of a diff in the order the parser takes them, with
documents that end early or fail in the middle.

### SourceRefresh

A publication is a number, and so is its ETag. The `kind` decides the path: a
dataset or PRG run goes through stage, diff and apply and removes its file
whatever happened; a mapping run loads and removes the file only when the load
succeeded. Whatever lies in `download_dir` when a run starts stays there, and the
run takes it for the download; nobody tidies up. The history variables `own` (the
file of this run is its own download) and `found` (the live table was loaded from a
file that was there before) tell the two apart.

### Records, Statistics and Loads

A row is its key, version, compared attributes, unit and geometry; a geometry
is a cell and a defect. `Refresh` is one step from a file to a new live table:
filter, choose among the rows of a key, compare by key and content, apply the
delta, queue the cells the old and the new rows stand in, retire reports. A
`spec` is chosen at the start and says whether version or geometry is compared
(`DatasetSpec`). SQL leaves a choice when two rows tie, so a load is a set of
tables it may produce, and `NoPhantom` asks that the choice makes no
difference. `Statistics` reads the same tables with the ordering and paging of
`/stats`; a walk through the pages is a sequence of statements. `Loads` has what
comes before: which rows of a file are kept, what each dropped row is counted as,
what an archive that ends early leaves in the raw table, when the axis order of
points is refused.

### MatchInputs

The content of a record stands for its compared columns: it fixes signature and
cell. The mapping table is a version number. A transaction is a begin with what
it read from its snapshot, and a commit. `served[c]` is the set of unmatched rows
of a cell, so that it can be compared with what a recompute would find. A
*scenario* says which optional activities and which overlaps of transactions an
instance has; properties that an overlap breaks say so in their premise. Inserts of
reports overlap one another in every scenario with more than one handler: each
takes its ids from its own snapshot, and `visible[i]` remembers which rows the
writer of row `i` could see.

### MatchRule

The map is a line: every bound of the code is a test of one axis, and the axes
are tested alike. An object is an interval, an address a point. `FullCompare`
goes by grid cells (buildings) or grid keys (addresses), `Drain` by match
cells, and each change of an OSM object or a record queues what the code thinks
it can reach: the cells it covers, with a buffer, up to
`MAX_ENQUEUE_CELLS_PER_ROW`. Two histories record what the code leaves: `inFull`,
the cells last filled by a full compare, and `skipped`, the cells that a change of
OSM reached without queueing them, because the object was wider than the limit or
because it only touches their edge (`Touches`: both queries take the closed box of
a cell, the enqueue takes floors). The property says what the rule means without
any grid.

### Serving

The readers are operators on the state: a point tile, a building tile, an
aggregated tile with its bins, a package, the JOSM search. `RenderTile` is one
tile alone, `RenderBlock` a block of them as the warm-up and the refresh do.
The actions are the transactions that change what they show (refresh, OSM diff,
drain, report, building-type swap, street-name swap), each with the cells it
writes into `tile_dirty_cells`.

### TileCache and Responses

Requests come, look up, take a connection, render in a transaction of their own,
give the connection back and insert. Jobs take connections of the same pool and
may leave a transaction open; `Return` ends it or drops the connection. The
cache has two generations with a running total. Time passes in units of which
`Ttl` is a few. `Responses` is the rest of the handlers: which tier, what
status, which encoding, which validator, who may keep the answer.

### Offline, DbCopy, Activity, Status

A command is a list of steps (`todo`), and one process runs at a time. A step
happens, fails, or is interrupted; except in a compare, which is one
transaction, what a step wrote stays. Data is a publication number: `osm`,
`raw`, the rows, totals and tile say which publication they stand for. `run` is a
command too, whose steps are the jobs. `DbCopy` and `Activity` share no state with
it: `MCOffline` chooses by `about` which of the three machines a behaviour is of,
and keeps the variables of the others fixed.

`DbCopy` has the partial file and its WAL, the copy by tables and indexes, the
verification, the rename, failures, failing clean-up, a kill, and stray files of
others, which come at any time. `Activity` has `package_exports` and
`dataset_change_areas`, those who write them, the prune, renders of a z5..z11 tile
that read one of them and may overtake each other on their way to the tile cache, the
cache entry with its age, and a browser that keeps a page for its `max-age`. Only the
age of the entry is here; the budget and the generations of the cache are in
`TileCache`.
`Status` is what `/status` says of the queues, stamps and jobs.

## 3. What is checked

| run | properties | distinct states |
|---|---|---|
| `match_drain` | `NewerInputQueued`, `QueueSettles`, `TileRowWithRecompute`, `ServingSpec` | 695,722 |
| `tile_refresh` | `StaleTileQueued`, `StaleTileRefreshed` | 1,002,413 |
| `jobs` | `RegistryIsTrue`, `AnnouncedIffLong`, `ShutdownReachesAll`; `SkipIsSound`, `CatchesUp` | 681,065 |
| `osm` | `Converged`, `NothingStale`, `ChangesNoted`; `FilesAccounted`, `RunEnds` | 3,318,690 |
| `records` | `LiveIsFile`, `NoPhantom`, `CellServedOrQueued`, `ReportsLapseWithRecord`, `WalksAddUp` | 30,491 |
| `match_inputs` | `ServedOrQueued`, `NoStaleActive`, `ClashOnlyUnseen`, `TileRowWithChange`, `StaleRetires` | 1,567,126 |
| `match_rule` | `ServedByTheRule`, `ServedOnce` | 1,022,664 |
| `serving` | `RerenderNoted`, `TilesAgree`, `TaggedAlike`; `WithinBudget`, `NoStalerThanABrowser`, `RendersSeeCommits` | 354,486 |
| `offline` | `StampIsEarned`, `ComparedStaysServed`, `TilesFresh`, `NeverBlanked`; `DestIsComplete`; `WindowsShown` | 2,221,433 |

All of them hold. Three more runs each check one promise of a comment that the code
does not keep, and TLC finds it violated (section 5): `tile_late_row` (`NoTileLost`),
`mapping_refused` (`NeverStuck`) and `report_ids` (`ReportIdsUnique`).
The properties in words, each with the code it is about, stand
above their definitions. In short:

* `NewerInputQueued`: every version of a cell newer than what it serves still has
  its own queue row. It is stronger than "a lagging cell is queued", because it
  speaks of the row of each change: it fails when a DELETE takes a row whose
  change the recompute did not see, even if some other row remains.
  `ServingSpec` is the refinement: the queue behaves like `DerivedCells`.
* `QueueSettles`: a change of a cell that can be recomputed is served in the
  end, though another cell of its batch fails every time, and though runs are
  cancelled, time out or die; and rows of unknown sources go.
* `StaleTileQueued`, `StaleTileRefreshed`: the same two promises for stored
  tiles, with failed renders, failed writes, cancelled ticks and deaths: nothing
  but the three events of section 5 loses one.
* `RegistryIsTrue`: never two runs of a job, and "idle" means that no thread of
  it is left, one that timed out included. `ShutdownReachesAll`: no notification
  is lost between a check and a wait. A supervisor must not depend on its next
  tick, which may be a day away.
* `FilesAccounted`: the handshake of the two threads, in every way in which it was
  designed to go wrong: one sequence downloaded twice at once, a file unlinked
  that is wanted, a file nothing will read again, a run that leaves files behind.
* `Converged`, `NothingStale`: after any number of diffs, failures between any two
  RocksDB writes and replays, the served rows and the store are those of a fresh
  import of the data at the stamped sequence. If a failed batch is replayed in
  smaller ones, a row can be lost but none is stale.
* `ChangesNoted`: a batch queues the cells a row left as well as those it now
  covers, for every row it changed, directly or through the indexes.
* `SkipIsSound`, `CatchesUp`: a skipped run misses nothing, and the last loadable
  publication gets in, whatever was published, refused, cut short or left behind
  before. Two leftovers are named in them and are all that can prevent it: one that
  was loaded under the validator of a newer publication (`Hidden`), and one that is
  refused and stays (`Stuck`).
* `LiveIsFile`, `NoPhantom`: after any sequence of files the table is what the
  last one says, and loading it again changes nothing, though duplicates tie and
  key columns are missing. `ReportsLapseWithRecord`, `CellServedOrQueued`: exactly
  the reports whose record changed retire, and their cells wait.
* `WalksAddUp`: the pages of a ranking show every area once, and their totals are
  the national figure.
* `ServedOrQueued`, `TileRowWithChange`: no producer forgets a cell in either
  queue, whatever the order of reports, refreshes, swaps, restores and drains.
* `ClashOnlyUnseen`: an id is given twice only by a transaction that began before
  the other one was committed, whatever was retired, revoked or restored in between.
* `NoStaleActive`, `StaleRetires`: a report is retired with the record it is
  about, and by `reports_reconcile` when a refresh missed it.
* `ServedByTheRule`, `ServedOnce`: a cell not queued serves what the rule says,
  whichever of the two queries filled it, and no record is in two cells.
* `RerenderNoted`: a transaction that changes a stored tile names a cell of it.
  `TilesAgree`: rendered alone or in a block, and on every zoom, each object is
  drawn once. `TaggedAlike`: the map, `/package` and JOSM agree about its tags.
* `WithinBudget`, `NoStalerThanABrowser`, `RendersSeeCommits`: promotion,
  replacement and expiry keep the running total right; a promoted tile is no
  staler than a browser's copy; a leaked transaction pins nobody's view.
* `StampIsEarned`, `ComparedStaysServed`, `TilesFresh`, `NeverBlanked`: what a
  sequence of commands leaves, whatever ended early.
* `DestIsComplete`: a copied database is complete, without a WAL that would be
  replayed into it, and no file of others is taken for one. `WindowsShown` has two
  halves. `ExportsShown`: `/updates` lacks no export of its window and the retention,
  though answers are cached and failures happen at every step. `RefreshesShown`: a
  z5..z11 tile lacks only refreshes committed after it was read, and no tile is handed
  out that was read more than a render and a TTL ago (`tile_cache.rs:67-75`).

### Bounds, and why they are enough

* `match_drain`: two cells, of which one always fails; groups of two, so that a
  failed group has a healthy member; two changes per cell, so that a change can
  arrive before and after a snapshot; two clock values, so that a row can be
  older or newer than the cutoff; one producer, since two producers differ only
  in the rows they add; one sweep; one transient failure, cancellation or crash.
* `tile_refresh`: two cells that share a tile and differ in another, so that a
  cell can be held back by the block of its neighbour; batches of one, so that
  the shared tile is settled for one cell and not read for the other; two
  producers, one request, two changes, one fault, so that each of the three races
  happens. `tile_late_row` has neither requests nor faults.
* `jobs`: `Supervisor` has two jobs, one of them failing; `WarnAt` 2 and the counter
  capped at 3 so that it is below, at and above the threshold. `SourceRefresh` has
  three publications, one refused by the load, one without bytes; two faults, so that
  a run that dies and leaves its file can be followed by one that fails, and that by
  another. `mapping_refused`: two publications, no faults.
* `osm`: two nodes, two ways, one relation, and diffs that move, re-tag,
  delete and bring back each of them; a way may be untagged and carry a tagged
  relation. Four sequences, batches of two and a threshold of two, so that a
  run can be batched or not and the remainder of a batched run can fall under the
  threshold; one failure. `OsmPrefetch`: five sequences in batches of two with two
  prefetched ahead: batches with a full and a cut end, a window within a batch and
  across its end; one crash. The laws: eight lists of references, six ways, two
  lifecycle keys, member lists of two; 4-bit ids in groups of two bits, merges of
  four operands; documents of two blocks of two elements with every prefix, four
  bad elements, headers of three of seven fields; the dates of 1898-1901 and
  1967-2106, which have all kinds of leap years.
* `records`: files of up to three of nine rows, so that two rows can tie while
  a third is newer; one report; specs with version and with geometry compared;
  three gminy of two powiaty, pages of one area. `Loads`: files of up to four of
  nine or ten rows, archives of two of six entries; one row in three may lie
  outside, so that a file can be on either side of the limit.
* `match_inputs`: two records of which one can move between two cells. Either one
  handler and two reports, or two handlers at once and three reports less a swap or a
  dump, so that a third insert can follow a clash, and one refresh (the one that
  begins first of two handlers that are free is the same one always). One swap; of
  refreshes, dumps and failures of the job two together. `report_ids`: two reports.
* `match_rule`: three cells of width 4, a grid of 6 whose edges fall within
  them, keys of 3; one record and one OSM object of every shape, one of which is
  wider than `MaxReach` and one of which begins on the left edge of a cell.
* `serving`: four cells, 6 to 9, of width 4, which lie on both sides of tile
  borders at z11, z12 and z13 and of a block; four records, of which one is
  reported. `TileCache`: three keys, two requests, two connections, tiles of size one to
  three and a budget of eight, so that the largest is refused and two to four
  of the others fill a generation; `Ttl` 2, one commit; two jobs at once only while no
  more than one tile is kept. Requests, keys and connections are symmetric.
  `Responses`: three renders, lists of two in `Accept-Encoding` and
  `If-None-Match`, zooms 4, 5 and 11 to 15.
* `offline`: one source of buildings and one of addresses, a cell that
  publications change and one they do not, two publications, three commands, an
  OSM import of two passes: a command can follow one that ended early and precede
  one that relies on it. `DbCopy`: tables of two rows and one, two indexes,
  three faults. `Activity`: exports are kept shorter (1) than `/updates` looks back (2),
  changes longer (3) than the tiles do (2), so both cut; ages of one and two; two
  requests until time three; refreshes until time four, so that a tile can be
  read, overtaken, cached, expire and leave the window. `Status`: queues of two rows, logs of three.

Deadlock is checked where the system goes on for ever. It is not in
`osm` (the feed ends), `match_inputs` (reports and refreshes are used up,
as when nobody changes anything), `offline` (the commands are) and `jobs`
(the process ends). That the threads of a catch-up never wait for each other is
`RunEnds`; that no run of a source gets stuck is `CatchesUp`.

### Fairness

* `MatchDrain`: the drain, because the supervisor starts runs for ever and a run
  only waits for DuckDB. Producers and time are not fair.
* `TileRefresh`: the tick, for the same reason; open transactions and open
  requests end.
* `Supervisor`: the supervisor tasks (tokio polls what is woken), the shutdown
  sequence, and the return of a thread *once it is cancelled* - every job
  polls its flag. A tick of the interval is not promised.
* `OsmPrefetch`: both threads; a download ends in success or failure, since the
  HTTP client has timeouts and a bounded number of attempts.
* `SourceRefresh`: runs, which the scheduler repeats. Nothing tidies up.
* `MatchInputs`: the steps of `reports_reconcile`, which the scheduler repeats
  where it is enabled.

`OsmApply`, `Records`, `MatchRule`, `Serving`, `TileCache` and `Offline` state
safety only and assume none.

## 4. What is proved

TLAPS checks the following for all constants that satisfy the modules'
assumptions: any number of cells, producers, publications, faults and so on. Each
theorem names the property of a run, where there is one; the run shows it on a
small instance and, by its mutant, that the code could break it.

| module | theorem | states |
|---|---|---|
| `MatchProofs` | `TypeCorrect`, `NothingLost`, `TilesEnqueued`, `ImplementsDerivedCells`, `StaleIsQueued` | `MatchDrain`: `TypeOK`, `NewerInputQueued`, `TileRowWithRecompute`, `ServingSpec`, a cell that lags is queued |
| | `RuleServed`, `RuleServesOnce` | `MatchRule`: `ServedByTheRule`, `ServedOnce` |
| `TileRefreshProofs` | `InvHolds`, `StaleTileNeverLost` | `TileRefresh`: `Inv`, `StaleTileQueued` |
| `JobsProofs` | `RegistryNeverLies`, `StreaksAnnounced` | `Supervisor`: `RegistryIsTrue`, `AnnouncedIffLong` |
| | `TypeCorrect`, `OrderKept`, `SkipsAreSound` | `SourceRefresh`: `TypeOK`, `Order`, `SkipIsSound` |
| `OsmProofs` | `StoreConverges`, `NeverStale`, `ChangesAreNoted` | `OsmApply`: `Converged`, `NothingStale`, `ChangesNoted` |
| | `EveryFileAccounted` | `OsmPrefetch`: `FilesAccounted` |
| | `MergesInOrder`, `NoFormatMisread` | `OsmStore`: a merge appends to what is read, folds and compactions change nothing of it; `NoOtherFormat` |
| | `WaysMadeAlike`, `RowsKeepTags` | `OsmObjects`: `WaysAgree` (given `OneLifecycleRule`), `RebuildKeepsTags` |
| `RecordsProofs` | `TypeCorrect`, `LiveTableIsItsFile`, `ReloadsAreSilent`, `ReportsLapse`, `CellsServedOrQueued` | `LiveIsFile`, `NoPhantom`, `ReportsLapseWithRecord`, `CellServedOrQueued` |
| | `WalksAlwaysAddUp`, `RankingsDetermined` | `Statistics`: `WalksAddUp`, a query has exactly one ranking |
| | `HintsAreRight` | `Loads`: `HintHolds`, for finite files |
| `MatchInputsProofs` | `TypeCorrect`, `ClashesUnseen`, `NeverOutdated`, `NoCellForgotten`, `TilesTold` | `ClashOnlyUnseen`, `NoStaleActive`, `ServedOrQueued`, `TileRowWithChange` |
| `ServingProofs` | `NeverOverBudget`, `ServedIsYoung`, `RendersAreRecent` | `TileCache`: `WithinBudget`, `NoStalerThanABrowser`, `RendersSeeCommits` |
| | `TilesRerendered`, `TilesAlike`, `TagsAgree` | `Serving`: `RerenderNoted`, `TilesAgree`, `TaggedAlike` |
| | `StoredLikeRendered`, `RevalidatesWhatIsNamed`, `SharedCachesServeAll`, `StoredValuesHold` | `Responses`: `HitLikeMiss`, `RevalidatesRight`, `SharedCachesAreSafe`, `StoredValues` |
| `OfflineProofs` | `StampEarned`, `ServedOrQueued`, `StoredTilesFresh`, `NothingBlanked` | `Offline`: `StampIsEarned`, `ComparedStaysServed`, `TilesFresh`, `NeverBlanked` |
| | `CopyIsWhole`, `WindowsAreWhole` | `DbCopy`: `DestIsComplete`; `Activity`: `WindowsShown` |

### The match queue (MatchProofs)

`NewerInputQueued` is not inductive: it says nothing about a transaction that is
half done. The invariant `NoLostUpdate` adds that `served[c] <= input[c]`, that
no row names a version that has not been published, and that *while a
transaction is open* `served[c] <= snapInput[c] <= input[c]` and no row of its
snapshot names a version newer than `snapInput[c]`. The DELETE of a group
removes only rows of the snapshot, and the recompute brings `served` up to
`snapInput`; so what is deleted is no newer than what the recompute has read. Note
what this argument does not use: the cutoff. Row time stamps order the reads; that
nothing is lost is the work of the snapshot alone, which is what the comment at
`mappings/street_names.rs:112-119` claims, and why the same cutoff without a
transaction around it (`TileRefresh`) fails. For the refinement, a group's
commit is a `Refresh`, a producer's commit and a sweep are a `Change`, and
everything else stutters, the purge of foreign rows included.

### The match rule (MatchProofs)

`RuleInv` is `RuleTypeOK` with three parts: rows of a cell that is not queued are
of records in it (`RowsPlaced`), such a cell has the rows the rule proposes
(`RowsRight`), and no cell has more rows than its total (`RowsCounted`, of queued
cells as well, since a total may only be raised with the rows). Two facts about
arithmetic carry it. What a recompute reads of OSM around a cell is enough for
every record in it, because no distance of the rule exceeds the buffer or the
grid key (`DistancesAssumption`, which are two unit tests of the code); and an
object that does not reach a cell changes the rule for no record there
(`UnreachedSpares`), where *reach* is what the enqueue computes, with floors, and
what touches its edge. Without `Touches` the second is false.

### TileRefreshProofs

`StaleTileQueued` needs to know that what the tick may delete is no longer needed:
while a tick renders or deletes, each tile of one of its cells that is no longer
unsettled shows what it would render, or has changed since the tick began and is
under a row that the deletes leave (`late`) or whose deletion is one of the three
events (`overtaken`), or another event has hit it (`Settled`). The batch that is not
yet written counts as stored for that (`Pending`), and holds what is current or was
when it was rendered (`BatchCurrent`). No event is assumed away: each appears where
it takes effect, as the third disjunct of `StoredQueued` and `Settled`, and the proof
shows that no other step needs it.

### JobsProofs

`RegistryIsTrue` follows from `RunsAccounted`: a job has at most one thread, and
if it has one its supervisor waits for it, in a run or in the grace after it, or
has given up with the registry left at "running". `AnnouncedIffLong` is inductive
once the count of failures is known to be a number, the threshold being at least
one. `OrderKept` is the invariant `stamp <= live <= upstream`, and from the download
to the end of a run `etag <= body <= upstream`. `SkipIsSound` alone is not inductive,
since it says nothing of a validator the run holds in its hands; the proof uses that
the HEAD precedes the GET. That holds of the file this run downloaded (`own`) and of a
table that was loaded from one (`~found`); of a file that was there before, all that
holds is that the publisher has been ahead of it.

### OsmProofs

For any objects, any data, any diffs that keep it complete, any batch sizes and
any number of failures between any two writes. The invariant is

    IInv == Batched /\ StoreOK /\ Covered /\ RowsTrue /\ Staged /\ Typed /\ Noted /\ Counted

A failed batch leaves the objects it changed in doubt. `Dirtied` is what is in
doubt or changed by the running batch, `Later` what will still be in doubt after
it, `Applied` what the batch has reached. The batch says of each of its objects
what the data after it says (`Batched`). The store is right about what is not in
doubt or was applied, but for the object whose writes are being made, and its
reverse indexes never hold what the forward ones do not (`StoreOK`): a replay
that takes an object also leaves the lists its old references name, whichever part
of them the failed batch had written. What rests on an applied object will be
rebuilt (`Covered`), since the reverse indexes were right about it when it was
read. The rows are true but for what rests on something in doubt (`RowsTrue`),
the rows of the transaction phase by phase (`Staged`), and the cells of those that
differ are in `dirty` (`Noted`). When nothing is in doubt, `StoreOK` and
`RowsTrue` say that store and rows are those of an import (`Converged`), or, if a
failed batch was replayed in smaller ones, that a row is right or missing
(`NothingStale`).

`FilesAccounted` rests on three facts about the two threads: they split the
sequences at the claim (`Ahead`), nothing behind the loop is still claimed
(`NoneBehind`), and every file in the directory is owned by the loop, by the
thread or by an earlier run (`Owned`).

*The values.* RocksDB folds the operands of a key in any grouping. What a reader
gets of an entry is the list of its value and then `FlattenSeq` of its operands
(`ReadAre`), and `FlattenSeq` of two lists one after the other is that of the one and
then of the other (`FlattenConcat`), so a fold changes nothing (`FoldFlattens`) and a
merge appends. `MergesInOrder` says this of one step from any entry, hence of any
steps in any order, where `MergesComeBack` tries two folds and a compaction.

*The rows.* `WaysMadeAlike` takes `OneLifecycleRule` as a premise, which TLC checks:
then the two paths want the same rows, and the closed rings of the import and of the
update are the same unless two nodes are at one place. `RowsKeepTags` goes table by
table (`RebuiltRows`): a row that is there carries the tags that ask for it.

### RecordsProofs

A new live table is the old one less what left plus what came, compared by key
and content. The invariant needs `KeysUnique` (a key is live once, and none of its
columns is NULL), since the delta joins by key, and `Mirrors`: the live table is,
key by key and content by content, a table its file may be loaded as. The lemma
`LoadsAgree` says that all loads of a file agree in what is compared, because a
tie goes by the signature; so the delta of a reload is empty. `ReportsCurrent` says
that a report is about a live record as it is, and stored with its cell: the cells
of the delta are then also those in which a report retires.

*The statistics.* `WalksAddUp` follows from `CellServedOrQueued` and `Counted`: both
tables are finite, an unmatched row lies in the cell it is served for, and every row
has a unit and a settlement. Files are finite sets (`Files`), since `Cardinality` says
nothing of the others. The pages of a walk are queries of their own, so the first
question is whether they cut the same list. They do, because the `ORDER BY` of
`areas_sql` is a strict order in which no two areas tie: ratios are compared by cross
products (`RatiosOrdered`), and the key columns decide what is left (`KeysOrdered`,
`AreasOrdered`). A list that is sorted by a strict order exists and is unique
(`SortedSomehow`, `SortedOnce`: at the first place where two differed each of the two
areas would have to come before the other). The pages meet (`PagesMeet`) and so give
the list back (`PagesFlatten`). The counts add up because the areas share out the rows
(`AreasShareOut`), and a sum of cardinalities of disjoint parts is the cardinality of
the whole (`PartsAdd`). `FlattenSeq` and `MapThenSumSet` are recursive; instead of an
induction, the function they stand for is given, it satisfies the recursion, and no
other does: there would be a least page, or a smallest set, at which the other differs
(`LeastNumber`, and that strict inclusion of finite sets is well founded).

*The axis order.* Rows of one `srsName` are all read as easting first or all as
northing first, and either order exchanges the points of the other
(`OrdersExchange`); so the share outside Poland that the refusal computes for the
exchanged points is the one that the other order would be tested with (`CheckedAs`).

### MatchInputsProofs

Types come with `IdsBounded` (an id is no greater than the place of its row, since
ids are `MAX + 1` of a snapshot) and `Exclusive` (what the scenario keeps apart).
`ClashesUnseen` follows from `Numbered`: the ids of an open insert follow all those
that its snapshot shows (`Follows`), and the ids of stored rows those of the rows their
writer could see (`Risen`). Which rows the table has gained since does not matter, so
inserts and restores may overlap in any way. `NeverOutdated` follows from `Current`: stored reports and those about to be
stored are about what their record says, and an open refresh has seen all of them.
For `NoCellForgotten` and `TilesTold` the cell a report is stored with is the cell
its record is in (`Current`), and a mapping swap holds every cell with a record
(`SwapCovers`); so a step queues the cells in which a record, its report or the
mapping changed (`Announced`), and only a drain changes what is served
(`Drained`).

### ServingProofs

*The cache.* `RendersAreRecent` follows from `Pool` (only the connection of a job
is in a transaction) and `Reading` (what a request has read is no older than it is).
`NeverOverBudget` needs that the running total is the sum of the sizes, and a sum
over a set is a fold. It is proved by counting instead: `Bytes` of a generation is
the number of pairs of a tile and one of its bytes, and what an entry adds, takes
away or replaces is a fact about cardinalities (`BytesOfPut`, `BytesOfWithout`).
`Budgeted` is the invariant: both generations within half the budget, the total
right, no tile in both, and a promoted entry as old as before (`NoStalerThanABrowser`).

*The answers.* `AnswersInv` says that a copy in `*_unmatched` is its record's row
or its cell waits for the match (`CopiesTrue`), and that a mapping table has one
row of a kind (`TypesRight`, `StreetsRight`), which is what `validate_and_swap`
checks for. For `TilesRerendered`, a row no wider than a cell is drawn, or counted
as a neighbour, only by the z14 tile of its cell or one beside it (`NearRows`),
which are those that `tiles_for_cell` names; `StepNames` says what a transaction
changes outside the cells it names, which is nothing. `TilesAlike` is that a tile
reads of a block's scan what it reads of its own (`BlockReads`, since the hull
spans every box) and that a floor of a floor is a floor (`UnderTile`). `TagsAgree`
is that no two rows of a table can both come first (`OneChosen`), and that the
frontend's precedence of columns is the export's order of writing
(`ColumnsOutrank`).

*The headers.* All of it rests on the codec: a value is its header, its etag and its
payload, one after the other (`ValueShape`), so the version that wrote it decodes it
to the render, and any other version to nothing (`DecodeEncoded`). `HeldIsRender` is
then that a stored tile is what `prepare` makes of the render, and a hit is put
together from the same parts as a miss. A value cut inside its gzip stream is the
value of a shorter stream (`StoredValuesHold`), which is the stream of no render.
For shared caches, the list of codings on which `accepts_gzip` and RFC 9110 differ is
excluded by `ClearAboutGzip`; for all others consent is consent (`ConsentIsRead`), and
`Vary` is on every body that depends on it.

The assumption on widths is the one that the code does not justify in full:
`filter_oversized_geometry` drops rows as wide as a cell, and `FootprintsAssumption`
takes a row with the adjacency buffer (0.0005 degrees beside the 0.022 of a cell)
to be no wider than one. Buildings are far below it.

### OfflineProofs

Of a command it is enough to know which step may follow which (`Legal`), that a
command which touches rows ends by emptying the tile store (`Marks`), and what a
step may find when it is taken (`AtOsm`, `AtTable`, `AtCompare`): whatever is left
of a program after any number of steps is legal again (`CommandsArePrograms`,
and one lemma per step). For `DbCopy`, a partial file that goes on to the
rename has been verified to be the source (`CopyShape`). For `Activity`, what the
prune may not have taken yet is in the log (`KeptInLog`), what a render got of a time
is what was committed by then and lay in the window (`ReadThen`), which no later
refresh changes (`ReadForGood`) and which the cache keeps with the time it is of
(`RendersAreTrue`), and what a reader was shown of a page he keeps was settled when it
was built (`PageIsSettled`). Windows and retentions are any numbers: where the
retention is the shorter, it is what the properties promise (`Shorter`). The one
assumption on them is that the TTL is a number.

### Only model-checked

* Liveness: `QueueSettles`, `StaleTileRefreshed`, `ShutdownReachesAll`, `RunEnds`,
  `CatchesUp`, `StaleRetires`. TLAPS does not reason about fairness or `ENABLED`.
* The laws of section 2 that section 4 does not list. Most compute by recursion
  (varints, dates, the PBF header, sums), and those of `OsmObjects` about relations
  and the lifecycle keys go through `SelectSeq`, of which the prover knows nothing.

## 5. Where the code and its documentation disagree

The first three are runs of their own, in which TLC finds the promise violated. The
others of the first list are reached from a run by the change that is given, and TLC
then shows a trace; those of the second from a law.

### By a run

1. `server/jobs/tile_refresh.rs:322` (`tile_late_row`): the tick deletes rows by
   their time stamp, and a transaction that was open when the tick started commits
   rows that are older than the cutoff. Committed after the render, such a row is
   deleted unseen, although `tile_refresh.rs:197-200` says that a cell re-dirtied
   while the tick runs "must survive the paired delete", and the tile stays stale.
2. `server/jobs/street_mappings_update.rs:78` (`mapping_refused`): a CSV that the load
   refuses is never removed, and every later run reads it again instead of what has
   been published since. The comment at `82-87` has that only where clean-up is off.
3. `reports/mod.rs:104` (`report_ids`): two inserts that overlap read the same
   `MAX(report_id)` from their snapshots and commit the same id, since the table has no
   key; a revoke by id then retires both. The comment at `100-103` expects DuckDB to
   block the second. `ClashOnlyUnseen` says that nothing else gives an id twice.
4. `server/tiles.rs:1131` (`tile_late_row` with `Requests <- MCRequests` and
   `MaxChanges = 1`): a handler renders, a change and its whole tick pass, and the
   handler stores the old tile, although `tile_store.rs:24-25` has it that a miss costs
   "never a wrong answer".
5. `server/jobs/tile_refresh.rs:308` (`tile_late_row` with `MaxFaults = 1` and
   `MaxChanges = 1`): a tick deletes its rows "with this tick's writes durable" while
   the tiles they stand for are in a memtable without a WAL, and the process dies.
6. `update/mod.rs:245` (`mapping_refused` with `Kinds = {"prg"}`, `Rejected = {}`,
   `MaxFaults = 1` and `NeverHidden`): a process dies between download and
   clean-up, and the publisher moves on. The next run takes the file it finds for the
   download and stores the validator of the newer publication with it; later runs
   skip, until the next publication. `config.rs:105-111` speaks of such re-use only
   where clean-up is turned off.
7. `db_copy.rs:152` (`offline` with `NeverOverwritten`): the destination is looked at
   once, before the copy, and the rename at its end replaces what has come there since
   ("Never overwrite anything", `206`).
8. `update/osm.rs:336` (`osm` with `CrashSafe` as an invariant): a run
   decides by the number of pending sequences whether it batches. A batch that
   fails late in a catch-up is replayed one sequence at a time once the remainder
   is no longer above the threshold, against a store that already holds the whole
   batch. If the batch took a node out of a way and deleted it, an earlier
   sequence that moves another node of the way drops the row of the way's
   relation, tags included. `update/osm.rs:714-736` says that a batch is replayed
   whole.
9. `server/jobs/mod.rs:471` (`jobs` with `CancelReachesRuns` as an
   invariant): a shutdown between the stop check and the reset of `cancel` is
   overwritten, and a run starts that nobody cancels.
10. `update/dataset.rs:205` (`match_inputs` with `Scenarios <- MCOverlaps` and
   `ActiveIsCurrent`): a report stored during the apply of a refresh is not in
   the snapshot that the refresh retires from. With the same scenarios
   `RevokedReappears` fails: retiring, revoking and restoring a report queue the
   cell stored with it, not the cell its record is in now.
11. `import/osm.rs:193-202` (`offline` with `StampMeansComplete`): a second import
   that ends early leaves the stamp of the first, since the reset of the OSM tables
   does not delete it; so does an import of a file without a replication header.

### By a law

Each law has a premise or a disjunct without which it is false.

* `WaysAgree`: the import takes a ring to be closed by its references
  (`import/osm.rs:470`), the update by its coordinates (`update/osm.rs:1531`).
* `RelationsAgree`: a role that is neither outer nor inner becomes outer in the
  update (`osm/encoding.rs:233-247`, `update/osm.rs:1657`) and is ignored by the
  import (`import/osm.rs:573, 684`); and a relation of which a member does not
  resolve is dropped by the update (`update/osm.rs:1398`; an address row keeps a
  NULL geometry, `1853`).
* `HintHolds`: the axis-order hint is only right when the file has one `srsName`.
* `SharedCachesAreSafe`: `gzip;q=0, *` is taken for consent
  (`server/http_cache.rs:137-158`).
* `StoredValues` says what is so: a stored tile cut within its gzip stream passes
  for the tile (`tile_store.rs`, `decode_value`), and only a client without gzip
  is told.
* `LastRunIsKept` says what is so: `job_log.rs` records with two autocommit
  statements, and a crash or a read between them finds no last run.
* `NoneSkipped` and `EveryVersionRead` say which documents are read: one that ends
  early is accepted, `<nd ...></nd>` written as a pair is ignored, a missing
  id or coordinate is zero.

### Met while modelling

* The tile store is emptied after a `compare` or an `import`, since warmed tiles
  would be "stale forever" otherwise (`main.rs:178-186`), but not when the command
  ends early after it has written; `TilesFresh` has the premise `~cut` for it.
* `update X --file` with an older file, and `import` of one, leave the validator of
  a newer (`update/mod.rs:143-147`, `160-168`): later runs are skipped.
* `compare/mod.rs:181-184` calls the two compares row-identical; a building
  whose only covering OSM polygon lies in the neighbouring cell is not, as
  `buildings.rs:59-63` admits (`AcrossAnEdge` in `ServedByTheRule`). Deleting such
  a polygon queues only its own cell.
* `update/dirty_cells.rs:146`: the cells an OSM object covers are the floors of its
  bounds, but the recompute of a cell reads OSM with `ST_Intersects` and the closed
  box of the cell. An object that begins exactly on the left edge of a cell counts
  for the cell before as well, which is not queued when it changes (`Touches`,
  `skipped`).
* `compare/rule.rs:212`: suppressed records are counted over the whole extent and
  unmatched ones per grid cell, so the total that is logged can be off.
* `server/tile_cache.rs` says that every access happens inside `spawn_blocking`;
  `serve_tile_agg` looks up in the async function (`server/tiles.rs:1523`).
* `server/http_cache.rs:176` says of the weak ETag that no ORDER BY backs it;
  `server/tiles.rs:155` orders the features.
* `server/josm_plugins.rs:29-31` promises identical tags however a building is
  exported; that holds only when both windows hold all its neighbours (`SeesAll`).
* A `db copy` whose ATTACH fails can leave `<dest>.partial` behind, which stops
  the next copy (`db_copy.rs:94-107`, `166-168`).
* The advice of `FORMAT_MISMATCH_MESSAGE` cannot be followed: the command it names
  opens the store first (`osm/kvstore.rs:60-64`, `main.rs:55-68`).
* `import/prg.rs:501` says that `teryt_gmina` and `gmina` have no reader; `server/stats.rs:316`
  reads them, and `dataset.rs:419-447` does not compare them, so a moved border
  reaches the statistics only with another change of the address.
* Nothing checks that retention is not shorter than the windows it serves
  (`config.rs:221`; `example_config.toml:191` asks for it). The instance of `Activity`
  has it shorter for exports, and `ExportsShown` then promises the retention.
* `status_handler.rs:76-84`: the comment about the staleness of the match stands on
  the tile function; one read that panics turns all figures into defaults.
* A PRG import writes no job log, other imports do.
* `server/jobs/dataset_update.rs:61-62` says that the lock around the dataset
  refreshes guards memory, not shared state; it also keeps an EGiB load out of
  the time in which BDOT10k's has turned the geometry conversion off.

Known limits: with `batch_size` or more cells that fail for good, the oldest-first
read returns nothing else (`QueueSettles` needs fewer); a mapping swap that overlaps a refresh, and the steps of
`reports_reconcile`, which runs without a transaction, can leave a cell that is
neither right nor queued (`ServedOrQueued` excludes both); a restored dump brings
back reports that are outdated until a reconcile.

## 6. Plan

Done: the two queues, the scheduler, the catch-up with the application of its
batches and the data under it, the sources and their rows, the producers, the
match rule, the readers and their caches, the commands, backups, logs and
status. Every safety property that a passing run checks is a theorem, and so is the one
refinement.

What is left:

1. The hazards without a property (`reports/mod.rs:290`,
   `mappings/street_names.rs:98`, `import/bdot10k.rs:77`).
2. A second axis for `MatchRule`, where an object can reach a cell across a corner.

`TileRefresh` is not made an implementation of `DerivedCells`: a tick that reads
before a request renders may store its older tile over the request's newer one, which
a later row covers, but what is derived then goes back, and an evicted tile is derived
from no version. What it promises instead is `StaleTileQueued`.

Bounds are to stay such that a run takes at most a few minutes with two workers.

## 7. What is not modelled, and why

* The engines: what SQL makes of a query beyond what its operator says, MVT
  encoding, RocksDB's own files. DuckDB's snapshot isolation with first-writer-wins
  conflicts, and a RocksDB write batch that is atomic in the memtable, are taken
  as given; so are renames.
* Parsers that are libraries: PBF blocks, GML, GeoParquet, XML events.
* The GeoJSON and OSM XML writers, and the fetch of the TERYT register: pure
  input and output.
* The parsing and validation of the configuration, and the memory figures of
  `/status` and `utils`.
* The batches and threads of the warm-up: it runs with the server stopped and
  `Serving` says that a block renders what single tiles do.
* Text normalisation, code tables and the second axis of the match rule: what it
  compares is equal, unequal or NULL here.
