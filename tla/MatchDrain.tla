------------------------------ MODULE MatchDrain ------------------------------
(***************************************************************************)
(* The match queue: producers that change what the match rule reads and    *)
(* enqueue the cells they touched (update::osm, update::dataset, mappings, *)
(* reports), and the match_refresh job that recomputes those cells         *)
(* (compare::drain).                                                       *)
(*                                                                         *)
(* DuckDB runs every transaction against the snapshot taken at its BEGIN;  *)
(* now() inside a transaction is the time of that BEGIN.  A cell stands    *)
(* for a (source, x, y) triple.  The rows a cell's match depends on are    *)
(* abstracted to a version that each committed change advances, and its    *)
(* <source>_unmatched and cell_totals rows to the version they were        *)
(* computed from.                                                          *)
(***************************************************************************)
EXTENDS Naturals, FiniteSets

CONSTANTS
  Cells,          \* (source, x, y) triples of real datasets
  Foreign,        \* triples whose source names no dataset (must never occur)
  Producers,      \* connections that run producer transactions
  Flaky,          \* cells whose recompute may fail, every time it is tried
  BatchSize,      \* [jobs.match_refresh] batch_size
  CellsPerCommit, \* CELLS_PER_COMMIT
  MaxClock,       \* bound: distinct now() values
  MaxInput,       \* bound: changes per cell
  MaxSweeps,      \* bound: reconcile sweeps
  MaxFaults       \* bound: transient failures, cancellations and crashes

ASSUME CellsAssumption == IsFiniteSet(Cells) /\ Cells \cap Foreign = {}
ASSUME FlakyAssumption == Flaky \subseteq Cells
ASSUME SizesAssumption ==
  /\ BatchSize \in Nat /\ CellsPerCommit \in Nat \ {0}
  /\ MaxClock \in Nat /\ MaxInput \in Nat
  /\ MaxSweeps \in Nat /\ MaxFaults \in Nat

VARIABLES
  clock,      \* the wall clock behind now()
  input,      \* committed: version of everything the match of a cell reads
  served,     \* committed: version its unmatched rows were computed from
  queue,      \* committed: match_dirty_cells
  tileQueue,  \* committed: cells with a row in tile_dirty_cells
  prod,       \* prod[p]: the open transaction of producer p
  phase,      \* where drain_batch is
  batchStart, \* drain_batch: the cutoff
  todo,       \* drain_batch: cells read and not yet handed to a group
  age,        \* drain_batch: MIN(enqueued_at) of a cell when it was read
  group,      \* drain_group: the cells of the open transaction's group
  left,       \* cells of the group the loop has not reached
  done,       \* cells recomputed in the open transaction
  snapInput,  \* the open transaction's snapshot of input
  snapQueue,  \* the open transaction's snapshot of queue
  cancel,     \* the run's cancel flag
  sweeps,     \* reconcile sweeps so far
  faults      \* faults used up so far

committed == <<input, served, queue, tileQueue>>
batchVars == <<batchStart, todo, age>>
txnVars   == <<group, left, done, snapInput, snapQueue>>
vars == <<clock, input, served, queue, tileQueue, prod, phase, batchStart,
          todo, age, group, left, done, snapInput, snapQueue, cancel, sweeps,
          faults>>

\* One match_dirty_cells row.  ver is the version of the cell's input that
\* was published together with the row, 0 if the row came without a change;
\* it tells duplicate rows apart.
Row == [cell : Cells \cup Foreign, at : Nat, ver : Nat]

NoTxn == [open |-> FALSE, at |-> 0, cells |-> {}]
Txn == [open : BOOLEAN, at : Nat, cells : SUBSET Cells]
Phases == {"idle", "read", "next", "cells", "failed", "replay", "one"}
Zero == [c \in Cells |-> 0]

TypeOK ==
  /\ clock \in Nat /\ batchStart \in Nat  /\ sweeps \in Nat /\ faults \in Nat
  /\ input \in [Cells -> Nat] /\ served \in [Cells -> Nat]
  /\ snapInput \in [Cells -> Nat]
  /\ age \in [Cells -> Nat]
  /\ queue \subseteq Row /\ snapQueue \subseteq Row
  /\ tileQueue \subseteq Cells /\ todo \subseteq Cells
  /\ group \subseteq Cells /\ left \subseteq Cells /\ done \subseteq Cells
  /\ prod \in [Producers -> Txn]
  /\ phase \in Phases /\ cancel \in BOOLEAN

-------------------------------------------------------------------------------
Init ==
  /\ clock = 0 /\ batchStart = 0 /\ sweeps = 0 /\ faults = 0
  /\ input = Zero /\ served = Zero
  /\ queue = {[cell |-> c, at |-> 0, ver |-> 0] : c \in Foreign}
  /\ tileQueue = {}
  /\ prod = [p \in Producers |-> NoTxn]
  /\ phase = "idle" /\ cancel = FALSE
  /\ todo = {} /\ age = Zero
  /\ group = {} /\ left = {} /\ done = {}
  /\ snapInput = Zero /\ snapQueue = {}

Fault == faults < MaxFaults /\ faults' = faults + 1

\* now() need not differ between two transactions, so time may stand still.
Tick ==
  /\ clock < MaxClock
  /\ clock' = clock + 1
  /\ UNCHANGED <<sweeps, committed, prod, phase, batchVars, txnVars, cancel, faults>>

-------------------------------------------------------------------------------
(* Producers: an OSM batch, a dataset refresh, a mapping swap, a report.   *)

BeginChange(p) ==
  /\ ~prod[p].open
  /\ \E S \in SUBSET Cells \ {{}} :
       /\ \A c \in S : input[c] < MaxInput
       /\ prod' = [prod EXCEPT ![p] = [open |-> TRUE, at |-> clock, cells |-> S]]
  /\ UNCHANGED <<clock, sweeps, committed, phase, batchVars, txnVars, cancel, faults>>

\* The rows a transaction begun at time t publishes along with new inputs.
RowsOf(S, t, newInput) ==
  {[cell |-> c, at |-> t, ver |-> newInput[c]] : c \in S}

\* The change and its queue rows become visible together, stamped with the
\* time the transaction began.
CommitChange(p) ==
  /\ prod[p].open
  /\ input' = [c \in Cells |->
                 IF c \in prod[p].cells THEN input[c] + 1 ELSE input[c]]
  /\ queue' = queue \cup RowsOf(prod[p].cells, prod[p].at, input')
  /\ prod' = [prod EXCEPT ![p] = NoTxn]
  /\ UNCHANGED <<clock, sweeps, served, tileQueue, phase, batchVars, txnVars,
                 cancel, faults>>

AbortChange(p) ==
  /\ prod[p].open
  /\ prod' = [prod EXCEPT ![p] = NoTxn]
  /\ UNCHANGED <<clock, sweeps, committed, phase, batchVars, txnVars, cancel, faults>>

\* match_reconcile / queue reconcile: every live cell of a source, no change.
EnqueueAll ==
  /\ sweeps < MaxSweeps
  /\ sweeps' = sweeps + 1
  /\ queue' = queue \cup RowsOf(Cells, clock, Zero)
  /\ UNCHANGED <<clock, input, served, tileQueue, prod, phase, batchVars,
                 txnVars, cancel, faults>>

-------------------------------------------------------------------------------
(* drain_batch                                                             *)

\* The selections of the n cells of S that come first when ordered by f.
Firsts(S, f, n) ==
  {F \in SUBSET S :
     /\ Cardinality(F) = IF Cardinality(S) < n THEN Cardinality(S) ELSE n
     /\ \A a \in F, b \in S \ F : f[a] <= f[b]}

EnqueuedAt(c) == {r.at : r \in {q \in queue : q.cell = c /\ q.at <= batchStart}}
Waiting == {c \in Cells : EnqueuedAt(c) # {}}
OldestOf(c) == CHOOSE t \in EnqueuedAt(c) : \A u \in EnqueuedAt(c) : t <= u

StartBatch ==
  /\ phase = "idle"
  /\ batchStart' = clock
  /\ cancel' = FALSE
  /\ phase' = "read"
  /\ UNCHANGED <<clock, sweeps, committed, prod, todo, age, txnVars, faults>>

\* Rows of unknown sources, purged under the same cutoff.
Purged == {r \in queue : r.cell \in Foreign /\ r.at <= batchStart}

\* Purge, then read the oldest cells.
ReadBatch ==
  /\ phase = "read"
  /\ age' = [c \in Cells |-> IF c \in Waiting THEN OldestOf(c) ELSE 0]
  /\ \E B \in Firsts(Waiting, age', BatchSize) :
       /\ todo' = B
       /\ phase' = IF B = {} THEN "idle" ELSE "next"
  /\ queue' = queue \ Purged
  /\ UNCHANGED <<clock, sweeps, input, served, tileQueue, prod, batchStart,
                 txnVars, cancel, faults>>

ClearTxn ==
  /\ group' = {} /\ left' = {} /\ done' = {}
  /\ snapInput' = Zero /\ snapQueue' = {}

\* Leave drain_batch; the transaction, if any, is gone.
Return ==
  /\ phase' = "idle"
  /\ todo' = {} /\ age' = Zero
  /\ ClearTxn

-------------------------------------------------------------------------------
(* drain_group: one transaction for a group of cells                       *)

Snapshot == snapInput' = input /\ snapQueue' = queue

BeginGroup ==
  /\ phase = "next"
  /\ \E G \in Firsts(todo, age, CellsPerCommit) : group' = G /\ left' = G
  /\ done' = {}
  /\ Snapshot
  /\ phase' = "cells"
  /\ UNCHANGED <<clock, sweeps, committed, prod, batchVars, cancel, faults>>

DrainOneCell ==
  /\ phase = "cells" /\ ~cancel
  /\ \E c \in left :
       /\ {c} \in Firsts(left, age, 1)
       /\ left' = left \ {c}
       /\ done' = done \cup {c}
  /\ UNCHANGED <<clock, sweeps, committed, prod, phase, batchVars, group,
                 snapInput, snapQueue, cancel, faults>>

\* A statement of the group fails: a recompute, a queue delete or the tile
\* enqueue.
GroupFails ==
  /\ phase = "cells"
  /\ \/ /\ ~cancel
        /\ \E c \in left \cap Flaky : {c} \in Firsts(left, age, 1)
        /\ UNCHANGED faults
     \/ Fault
  /\ phase' = "failed"
  /\ UNCHANGED <<clock, sweeps, committed, prod, batchVars, txnVars, cancel>>

DeletedLive(S) == {r \in queue : r.cell \in S}  \* mutant: no cutoff, no snapshot

\* The queue rows the open transaction's DELETEs remove for the cells of S:
\* rows of its own snapshot, under the batch's cutoff.
Deleted(S) == {r \in snapQueue : r.cell \in S /\ r.at <= batchStart}

\* The versions a recompute inside the open transaction reads.
Recomputed(S) ==
  [c \in Cells |-> IF c \in S THEN snapInput[c] ELSE served[c]]

EnqueueTilesInBatch(S) ==  \* mutant: the replay path forgets the enqueue
  IF phase = "one" THEN tileQueue ELSE tileQueue \cup S

\* The tile rows enqueued in the same transaction.
EnqueueTiles(S) == tileQueue \cup S

CommitCells(S) ==
  /\ served' = Recomputed(S)
  /\ queue' = queue \ Deleted(S)
  /\ tileQueue' = EnqueueTiles(S)
  /\ UNCHANGED input

\* The loop ran to its end, or saw the cancel flag: commit what is finished.
GroupCommit ==
  /\ phase = "cells"
  /\ left = {} \/ cancel
  /\ CommitCells(done)
  /\ IF (cancel /\ left # {}) \/ todo \ group = {}
       THEN Return
       ELSE /\ todo' = todo \ group
            /\ phase' = "next"
            /\ ClearTxn
            /\ UNCHANGED age
  /\ UNCHANGED <<clock, sweeps, prod, batchStart, cancel, faults>>

\* BEGIN or COMMIT of a group fails: drain_batch returns the error.
GroupTxnFails ==
  /\ phase = "next" \/ (phase = "cells" /\ (left = {} \/ cancel))
  /\ Fault
  /\ Return
  /\ UNCHANGED <<clock, sweeps, committed, prod, batchStart, cancel>>

-------------------------------------------------------------------------------
(* replay_one_at_a_time: a failed group again, one transaction per cell    *)

RollbackOnly ==  \* mutant: a failed group is rolled back and left for later
  /\ phase = "failed"
  /\ phase' = "replay"
  /\ left' = {}
  /\ todo' = todo \ group
  /\ group' = {} /\ done' = {} /\ snapInput' = Zero /\ snapQueue' = {}
  /\ UNCHANGED <<clock, sweeps, committed, prod, batchStart, age, cancel, faults>>

RollbackGroup ==
  /\ phase = "failed"
  /\ phase' = "replay"
  /\ left' = group
  /\ todo' = todo \ group
  /\ group' = {} /\ done' = {} /\ snapInput' = Zero /\ snapQueue' = {}
  /\ UNCHANGED <<clock, sweeps, committed, prod, batchStart, age, cancel, faults>>

ReplayBegin ==
  /\ phase = "replay" /\ ~cancel
  /\ \E c \in left :
       /\ {c} \in Firsts(left, age, 1)
       /\ left' = left \ {c}
       /\ group' = {c} /\ done' = {c}
  /\ Snapshot
  /\ phase' = "one"
  /\ UNCHANGED <<clock, sweeps, committed, prod, batchVars, cancel, faults>>

ReplayCommit ==
  /\ phase = "one"
  /\ CommitCells(done)
  /\ phase' = "replay"
  /\ group' = {} /\ done' = {} /\ snapInput' = Zero /\ snapQueue' = {}
  /\ UNCHANGED <<clock, sweeps, prod, batchVars, left, cancel, faults>>

\* The cell fails again, or its COMMIT does: it stays queued.
ReplayFails ==
  /\ phase = "one"
  /\ (done \subseteq Flaky /\ UNCHANGED faults) \/ Fault
  /\ phase' = "replay"
  /\ group' = {} /\ done' = {} /\ snapInput' = Zero /\ snapQueue' = {}
  /\ UNCHANGED <<clock, sweeps, committed, prod, batchVars, left, cancel>>

\* Every cell tried, the run cancelled, or a BEGIN failed.
ReplayEnd ==
  /\ phase = "replay"
  /\ ((left = {} \/ cancel) /\ UNCHANGED faults) \/ Fault
  /\ IF cancel \/ todo = {}
       THEN Return
       ELSE /\ phase' = "next"
            /\ ClearTxn
            /\ UNCHANGED <<todo, age>>
  /\ UNCHANGED <<clock, sweeps, committed, prod, batchStart, cancel>>

-------------------------------------------------------------------------------
(* The surroundings                                                        *)

\* The supervisor's timeout or a shutdown.
Cancel ==
  /\ phase # "idle" /\ ~cancel
  /\ Fault
  /\ cancel' = TRUE
  /\ UNCHANGED <<clock, sweeps, committed, prod, phase, batchVars, txnVars>>

\* The process dies, or DuckDB was invalidated and the server restarts:
\* open transactions are lost, committed rows are not.
Crash ==
  /\ Fault
  /\ Return
  /\ prod' = [p \in Producers |-> NoTxn]
  /\ UNCHANGED <<clock, sweeps, committed, batchStart, cancel>>

\* tile_refresh is done with the tiles of a queued cell (module TileRefresh
\* has the steps).
RefreshTiles ==
  /\ \E c \in tileQueue : tileQueue' = tileQueue \ {c}
  /\ UNCHANGED <<clock, sweeps, input, served, queue, prod, phase, batchVars,
                 txnVars, cancel, faults>>

Drain ==
  \/ StartBatch \/ ReadBatch \/ BeginGroup \/ DrainOneCell \/ GroupFails
  \/ GroupCommit \/ GroupTxnFails \/ RollbackGroup \/ ReplayBegin
  \/ ReplayCommit \/ ReplayFails \/ ReplayEnd

Next ==
  \/ Tick
  \/ \E p \in Producers : BeginChange(p) \/ CommitChange(p) \/ AbortChange(p)
  \/ EnqueueAll
  \/ Drain
  \/ Cancel \/ Crash \/ RefreshTiles

\* The supervisor keeps starting runs, and a run keeps going.
Spec == Init /\ [][Next]_vars /\ WF_vars(Drain)

-------------------------------------------------------------------------------
(* Properties                                                              *)

\* Every version of a cell's input newer than the one its unmatched rows were
\* computed from still has its queue row: no interleaving deletes a row
\* without the recompute that row asked for (mappings::street_names:112-119
\* and compare::drain:57-62 argue this about the cutoff and the snapshot).
NewerInputQueued ==
  \A c \in Cells : \A v \in (served[c] + 1)..input[c] :
    \E r \in queue : r.cell = c /\ r.ver = v

\* A committed recompute never loses its tile enqueue, on the batch path or on
\* the replay path: a step that changes what a cell serves leaves the cell in
\* tile_dirty_cells (drain.rs:269-271: a lost one is a permanently stale tile).
TileRowWithRecompute ==
  [][\A c \in Cells : served'[c] # served[c] => c \in tileQueue']_vars

\* Every change to a cell that can be recomputed reaches its unmatched rows,
\* though other cells of its batch keep failing and runs get cut short.
HealthyCellsServed ==
  \A c \in Cells \ Flaky : \A v \in 1..MaxInput :
    (input[c] >= v) ~> (served[c] >= v)

\* Nor do rows naming an unknown source sit in the queue for ever.
QueueSettles == HealthyCellsServed /\ <>[](\A r \in queue : r.cell \in Cells)

\* The match queue keeps the promise of a dirty-cell queue.
Serving == INSTANCE DerivedCells
  WITH derived <- served, pending <- {c \in Cells : \E r \in queue : r.cell = c}

ServingSpec == Serving!Spec
===============================================================================
