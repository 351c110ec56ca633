------------------------------ MODULE TileRefresh ------------------------------
(***************************************************************************)
(* The persistent tile store and what keeps it fresh: producers that       *)
(* change what a tile renders and queue the changed cells in               *)
(* tile_dirty_cells, the tile_refresh job that re-renders stored tiles     *)
(* from that queue (server::jobs::tile_refresh::tick), and the request     *)
(* path that fills the store on a miss (server::tiles).                    *)
(*                                                                         *)
(* A tile is abstracted to the version of what it would render now, which  *)
(* every committed change to one of its cells advances, and a stored tile  *)
(* to the version it was rendered from.  enqueued_at is only ever compared *)
(* with the batch_start of the running tick, so the queue is kept as the   *)
(* cells with a row at or before it and those with a row after it.         *)
(*                                                                         *)
(* Two variables the code does not keep record what can take a stale tile  *)
(* out of its sight: a transaction that was open when a tick took          *)
(* batch_start queues rows under that cutoff (they carry now(), the time   *)
(* of its BEGIN), and the tick deletes them unseen when they come after    *)
(* its renders; a request stores a render older than the last change; and  *)
(* a dead process loses the memtable, all that was not flushed without a   *)
(* WAL, while the rows it answered are durably gone.                       *)
(***************************************************************************)
EXTENDS Naturals, FiniteSets

CONSTANTS
  Cells,      \* z14 cells
  Tiles,      \* z12..z14 tile keys
  TilesOf,    \* TilesOf[c]: tiles_for_cell
  BlockOf,    \* BlockOf[t]: the render block of a tile
  Producers,  \* connections that change served rows
  Requests,   \* request handlers in flight
  Absent,     \* "no stored value"; in the memtable, a tombstone
  NoEntry,    \* "no entry in the memtable"
  BatchSize,  \* [jobs.tile_refresh] batch_size
  MaxChanges, \* bound: producer transactions
  MaxFaults   \* bound: failures, cancellations and crashes

ASSUME TilesAssumption == TilesOf \in [Cells -> SUBSET Tiles]
ASSUME StoreAssumption ==
  /\ Absent \notin Nat /\ NoEntry \notin Nat /\ Absent # NoEntry
  /\ BatchSize \in Nat \ {0} /\ MaxChanges \in Nat /\ MaxFaults \in Nat

VARIABLES
  content,   \* content[t]: version of what t renders from committed rows
  early,     \* cells with a tile_dirty_cells row, enqueued_at <= batch_start
  late,      \* cells with a row newer than that
  prod,      \* open producer transactions
  mem, disk, \* the tiles column family: memtable, and what has been flushed
  phase,     \* where the tick is
  cells,     \* tick: cells read, rows not yet deleted
  todo,      \* tick: resident keys whose block is not rendered
  unsettled, \* tick: resident keys the store does not yet answer for
  batch,     \* tick: the unwritten TileBatch
  cancel,    \* the run's cancel flag
  req,       \* request handlers
  overtaken, \* history: cells queued under the cutoff since the tick has probed
  raced,     \* history: tiles one of the three events has hit since they changed
  changes, faults

queueVars == <<early, late>>
storeVars == <<mem, disk>>
tickVars  == <<phase, cells, todo, unsettled, batch, cancel>>
history == <<overtaken, raced>>
vars == <<content, queueVars, prod, storeVars, tickVars, req, history, changes, faults>>

Version == Nat \cup {Absent}
Entry == Version \cup {NoEntry}
Empty == [t \in Tiles |-> NoEntry]
NoTxn == [open |-> FALSE, early |-> FALSE, cells |-> {}]
NoReq == [at |-> "idle", tile |-> Absent, version |-> Absent]

TypeOK ==
  /\ content \in [Tiles -> Nat]
  /\ early \subseteq Cells /\ late \subseteq Cells
  /\ prod \in [Producers -> [open : BOOLEAN, early : BOOLEAN, cells : SUBSET Cells]]
  /\ mem \in [Tiles -> Entry] /\ disk \in [Tiles -> Version]
  /\ phase \in {"idle", "read", "probe", "render", "delete"}
  /\ cells \subseteq Cells
  /\ unsettled \subseteq Tiles /\ todo \subseteq unsettled
  /\ batch \in [Tiles -> Entry]
  /\ cancel \in BOOLEAN
  /\ req \in [Requests -> [at : {"idle", "missed", "rendered"},
                           tile : Tiles \cup {Absent}, version : Version]]
  /\ overtaken \subseteq early /\ raced \subseteq Tiles
  /\ changes \in 0..MaxChanges /\ faults \in 0..MaxFaults

Init ==
  /\ content = [t \in Tiles |-> 0]
  /\ early = {} /\ late = {}
  /\ prod = [p \in Producers |-> NoTxn]
  /\ mem = Empty
  /\ disk \in [Tiles -> {0, Absent}]
  /\ phase = "idle" /\ cells = {} /\ todo = {} /\ unsettled = {}
  /\ batch = Empty /\ cancel = FALSE
  /\ req = [r \in Requests |-> NoReq]
  /\ overtaken = {} /\ raced = {}
  /\ changes = 0 /\ faults = 0

Fault == faults < MaxFaults /\ faults' = faults + 1

\* W laid over M: the later write wins, NoEntry writes nothing.
Over(W, M) == [t \in Tiles |-> IF W[t] = NoEntry THEN M[t] ELSE W[t]]

\* What TileStore::get finds.
Stored == Over(mem, disk)
Stale(t) == Stored[t] \notin {Absent, content[t]}
Queued == early \cup late
Covered(t, S) == \E c \in S : t \in TilesOf[c]

\* The step hits the tiles of S; who is not stale after it has been put right.
Hits(S) == raced' = {t \in raced \cup S : Stale(t)'}

-------------------------------------------------------------------------------
(* Producers: the match drain, a dataset refresh, a mapping swap            *)

TilesFor(S) == UNION {TilesOf[c] : c \in S}

BeginChange(p) ==
  /\ ~prod[p].open /\ changes < MaxChanges
  /\ \E S \in SUBSET Cells \ {{}} :
       prod' = [prod EXCEPT ![p] = [open |-> TRUE, early |-> FALSE, cells |-> S]]
  /\ changes' = changes + 1
  /\ UNCHANGED <<content, queueVars, storeVars, tickVars, req, history, faults>>

\* The changed cells are queued with what they change: an event before that is
\* answered by the new rows.
CommitChange(p) ==
  /\ prod[p].open
  /\ content' = [t \in Tiles |->
       IF t \in TilesFor(prod[p].cells) THEN content[t] + 1 ELSE content[t]]
  /\ IF prod[p].early
       THEN early' = early \cup prod[p].cells /\ UNCHANGED late
       ELSE late' = late \cup prod[p].cells /\ UNCHANGED early
  /\ prod' = [prod EXCEPT ![p] = NoTxn]
  /\ overtaken' = IF prod[p].early /\ phase \in {"render", "delete"}
                    THEN overtaken \cup prod[p].cells ELSE overtaken
  /\ raced' = raced \ TilesFor(prod[p].cells)
  /\ UNCHANGED <<storeVars, tickVars, req, changes, faults>>

-------------------------------------------------------------------------------
(* tile_refresh::tick                                                      *)

StartTickOldCutoff ==  \* mutant: batch_start is not taken anew
  /\ phase = "idle"
  /\ phase' = "read" /\ cancel' = FALSE
  /\ UNCHANGED <<content, queueVars, prod, storeVars, cells, todo, unsettled,
                 batch, req, history, changes, faults>>

\* batch_start: every row there is now falls under it, and so will the rows of
\* every transaction that has begun.
StartTick ==
  /\ phase = "idle"
  /\ early' = Queued /\ late' = {}
  /\ prod' = [p \in Producers |-> [prod[p] EXCEPT !.early = prod[p].open]]
  /\ phase' = "read" /\ cancel' = FALSE
  /\ UNCHANGED <<content, storeVars, cells, todo, unsettled, batch, req, history,
                 changes, faults>>

\* Up to BatchSize cells; the order among them is left open.
ReadCells ==
  /\ phase = "read"
  /\ \E B \in SUBSET early :
       /\ Cardinality(B) = IF Cardinality(early) < BatchSize
                             THEN Cardinality(early) ELSE BatchSize
       /\ cells' = B
       /\ phase' = IF B = {} THEN "idle" ELSE "probe"
  /\ UNCHANGED <<content, queueVars, prod, storeVars, todo, unsettled, batch,
                 cancel, req, history, changes, faults>>

\* may_exist on every key: no false negatives, any false positives.
Resident(keys) ==
  {R \in SUBSET keys : {t \in keys : Stored[t] # Absent} \subseteq R}

Probe ==
  /\ phase = "probe"
  /\ \E R \in Resident(TilesFor(cells)) : todo' = R /\ unsettled' = R
  /\ phase' = "render"
  /\ UNCHANGED <<content, queueVars, prod, storeVars, cells, batch, cancel, req,
                 history, changes, faults>>

\* One block: tiles that render go into the batch, the others of the block are
\* evicted.
RenderBlock ==
  /\ phase = "render" /\ ~cancel
  /\ \E b \in {BlockOf[t] : t \in todo} :
       LET block == {t \in todo : BlockOf[t] = b} IN
       \E ok \in SUBSET block :
         /\ IF ok = block THEN UNCHANGED faults ELSE Fault
         /\ batch' = [t \in Tiles |-> IF t \in ok THEN content[t]
                                      ELSE IF t \in block THEN Absent
                                      ELSE batch[t]]
         /\ todo' = todo \ block
         /\ unsettled' = unsettled \ block
  /\ UNCHANGED <<content, queueVars, prod, storeVars, phase, cells, cancel, req,
                 history, changes>>

\* flush_if_full: some of the batch is written before the tick is done.
FlushIfFull ==
  /\ phase = "render"
  /\ \E F \in SUBSET {t \in Tiles : batch[t] # NoEntry} \ {{}} :
       /\ mem' = [t \in Tiles |-> IF t \in F THEN batch[t] ELSE mem[t]]
       /\ batch' = [t \in Tiles |-> IF t \in F THEN NoEntry ELSE batch[t]]
  /\ UNCHANGED <<content, queueVars, prod, disk, phase, cells, todo, unsettled,
                 cancel, req, overtaken, changes, faults>>
  /\ Hits({})

RenderingEnds == phase = "render" /\ (todo = {} \/ cancel)

WriteBatch ==
  /\ RenderingEnds
  /\ mem' = Over(batch, mem)
  /\ batch' = Empty
  /\ phase' = "delete"
  /\ UNCHANGED <<content, queueVars, prod, disk, cells, todo, unsettled, cancel,
                 req, overtaken, changes, faults>>
  /\ Hits({})

DeletedEager(c) == {c}  \* mutant: unsettled tiles do not hold the rows back

\* The rows of one cell, unless some tile of it is unsettled; an autocommit
\* DELETE under batch_start, so it takes every early row there is by now.
Deleted(c) == IF TilesOf[c] \cap unsettled = {} THEN {c} ELSE {}

Return ==
  /\ phase' = "idle" /\ cells' = {} /\ todo' = {} /\ unsettled' = {}
  /\ batch' = Empty /\ overtaken' = {}

DeleteRows ==
  /\ phase = "delete"
  /\ \E c \in cells :
       /\ early' = early \ Deleted(c)
       /\ IF cells = {c}
            THEN Return
            ELSE /\ cells' = cells \ {c} /\ overtaken' = overtaken \ Deleted(c)
                 /\ UNCHANGED <<phase, todo, unsettled, batch>>
       /\ UNCHANGED <<content, late, prod, storeVars, cancel, req, changes, faults>>
       /\ Hits(TilesFor(Deleted(c) \cap overtaken))

\* A statement or a store write fails: the tick returns the error.
TickFails ==
  /\ phase # "idle"
  /\ Fault
  /\ Return
  /\ UNCHANGED <<content, queueVars, prod, storeVars, cancel, req, raced, changes>>

Cancel ==
  /\ phase # "idle" /\ ~cancel
  /\ Fault
  /\ cancel' = TRUE
  /\ UNCHANGED <<content, queueVars, prod, storeVars, phase, cells, todo,
                 unsettled, batch, req, history, changes>>

-------------------------------------------------------------------------------
(* The request path: serve_persisted_tile                                  *)

Miss(r) ==
  /\ req[r].at = "idle"
  /\ \E t \in Tiles :
       /\ Stored[t] = Absent
       /\ req' = [req EXCEPT ![r] = [at |-> "missed", tile |-> t, version |-> Absent]]
  /\ UNCHANGED <<content, queueVars, prod, storeVars, tickVars, history, changes,
                 faults>>

Render(r) ==
  /\ req[r].at = "missed"
  /\ req' = [req EXCEPT ![r].at = "rendered", ![r].version = content[req[r].tile]]
  /\ UNCHANGED <<content, queueVars, prod, storeVars, tickVars, history, changes,
                 faults>>

\* RocksDB may decline the write (no_slowdown), or the render fail.
Put(r) ==
  /\ req[r].at = "rendered"
  /\ req' = [req EXCEPT ![r] = NoReq]
  /\ UNCHANGED <<content, queueVars, prod, disk, tickVars, overtaken, changes, faults>>
  /\ \/ mem' = [mem EXCEPT ![req[r].tile] = req[r].version] /\ Hits({req[r].tile})
     \/ UNCHANGED <<mem, raced>>

-------------------------------------------------------------------------------
(* The store and the process                                               *)

\* RocksDB flushes the memtable on its own, and when it is closed.
FlushMemtable ==
  /\ mem # Empty
  /\ disk' = Stored /\ mem' = Empty
  /\ UNCHANGED <<content, queueVars, prod, tickVars, req, history, changes, faults>>

Crash ==
  /\ Fault
  /\ mem' = Empty
  /\ Return /\ cancel' = FALSE
  /\ prod' = [p \in Producers |-> NoTxn]
  /\ req' = [r \in Requests |-> NoReq]
  /\ UNCHANGED <<content, queueVars, disk, changes>>
  /\ Hits({t \in Tiles : mem[t] # NoEntry})

Tick ==
  \/ StartTick \/ ReadCells \/ Probe \/ RenderBlock \/ WriteBatch \/ DeleteRows

Next ==
  \/ \E p \in Producers : BeginChange(p) \/ CommitChange(p)
  \/ Tick
  \/ FlushIfFull \/ TickFails \/ Cancel
  \/ \E r \in Requests : Miss(r) \/ Render(r) \/ Put(r)
  \/ FlushMemtable \/ Crash

\* A transaction ends, the supervisor keeps starting ticks and a tick goes on.
Spec ==
  /\ Init /\ [][Next]_vars
  /\ WF_vars(Tick)
  /\ \A p \in Producers : WF_vars(CommitChange(p))
  /\ \A r \in Requests : WF_vars(Render(r) \/ Put(r))

-------------------------------------------------------------------------------
(* Properties                                                              *)

\* A stored tile that no longer shows what it would render is covered by a
\* queue row of one of its cells, or one of the three events has hit it since it
\* last changed: nothing else the code does, no failed or partial write, no
\* failed render, no cancelled or failed tick, no deferred cell, loses a tile.
\* The store is served without any check at read time, so a stale tile without a
\* row stays stale (tile_store.rs:12-20, tile_refresh.rs:193-205 and 308-311).
StaleTileQueued ==
  /\ TypeOK
  /\ \A t \in Tiles : Stale(t) => Covered(t, Queued) \/ t \in raced

\* A stale tile is refreshed or evicted in the end, through failed renders,
\* failed writes, cancelled ticks and restarts, unless one of the three events
\* leaves it without a row.
StaleTileRefreshed ==
  \A t \in Tiles : Stale(t) ~> ~Stale(t) \/ (t \in raced /\ ~Covered(t, Queued))

\* What the comments promise without exception: a stale tile has a row, always.
\* A cell "re-dirtied *after* batch_start ... must survive the paired delete"
\* (tile_refresh.rs:197-200), a miss costs "never a wrong answer"
\* (tile_store.rs:24-25) and the rows are deleted "with this tick's writes
\* durable" (tile_refresh.rs:308).  The code breaks each of the three.
NoTileLost == \A t \in Tiles : Stale(t) => Covered(t, Queued)
===============================================================================
