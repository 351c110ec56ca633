------------------------------- MODULE Offline -------------------------------
(***************************************************************************)
(* The commands of the program and the one database they share (main.rs):  *)
(* import, update, compare, queue, init, tiles and run.  A command is a    *)
(* program of steps; one process runs at a time, for the database admits   *)
(* one.  What a step writes is kept, except inside a compare, where it is  *)
(* a transaction.  A step may fail, be interrupted by Ctrl+C (polled       *)
(* between steps, and interrupting the statement in flight) or die with    *)
(* the process: the command ends there, the rest of it undone for good.    *)
(*                                                                         *)
(* Data is a publication number: feed is what upstream publishes now, and  *)
(* a file at hand may be older.  A served row stands for all rows of its   *)
(* source and cell, by what they were compared from.  The server's jobs    *)
(* are steps without the overlaps of MatchDrain, TileRefresh and Supervisor. *)
(***************************************************************************)
EXTENDS Naturals, Sequences, SequencesExt

CONSTANTS
  Order,        \* the government sources, in the order import and compare take
  Buildings,    \* those compared on a grid, cell by cell
  Cells,        \* match cells
  Quiet,        \* cells no publication changes
  Absent,       \* no rows, no table, no tile
  Passes,       \* passes in which import osm loads the extract
  MaxPub,       \* bound: publications
  MaxCommands   \* bound: commands run

Sources == ToSet(Order)

ASSUME SourcesAssumption ==
  Order \in Seq(Sources) /\ Buildings \subseteq Sources /\ Quiet \subseteq Cells
ASSUME AbsentAssumption ==
  /\ Absent \notin Nat
  /\ Absent \notin [pub : Nat, finished : BOOLEAN]
  /\ Absent \notin [raw : Nat, osm : Nat, done : Nat]
ASSUME BoundsAssumption ==
  Passes \in Nat \ {0} /\ MaxPub \in Nat \ {0} /\ MaxCommands \in Nat

VARIABLES
  feed,      \* upstream: the newest publication
  osm,       \* osm_* tables and key-value store: publication, passes loaded
  stamp,     \* metadata osm_replication_sequence, 0 for none
  raw,       \* each source's live table: publication, finished; or Absent
  etag,      \* newest validator in dataset_refreshes, 0 for none
  rows,      \* *_unmatched, by source and cell: what it was compared from
  totals,    \* cell_totals, by source and cell: the publication counted
  queue,     \* match_dirty_cells
  tileQueue, \* tile_dirty_cells names the tile
  tile,      \* the stored tile: the data it shows
  txn,       \* rows and totals written by a compare not yet committed
  todo,      \* steps the running command has left
  ran,       \* commands started
  over,      \* history: this OSM import replaced a stamped one, not yet restamped
  compared,  \* history: sources compared since their table was last rebuilt
  cut        \* history: a command that would have emptied the store ended first

disk == <<osm, stamp, raw, etag, rows, totals, queue, tileQueue, tile>>
history == <<over, compared, cut>>
vars == <<feed, disk, txn, todo, ran, history>>

NoTxn == [src |-> Absent, rows |-> <<>>]

\* Data of a cell as of a publication: quiet cells never change.
At(c, pub) == IF c \in Quiet THEN 1 ELSE pub
\* What a comparison of a source's cell would write now.
Content(s, c) ==
  [raw |-> At(c, raw[s].pub), osm |-> At(c, osm.pub), done |-> osm.done]
\* What the tile shows: the served rows, joined with the records themselves.
Picture ==
  [rows |-> rows,
   raw |-> [s \in Sources |-> IF raw[s] = Absent THEN Absent ELSE raw[s].pub]]

Pubs == 0 .. MaxPub
Contents == [raw : Pubs, osm : Pubs, done : 0 .. Passes] \cup {Absent}

TypeOK ==
  /\ feed \in 1 .. MaxPub
  /\ osm \in [pub : Pubs, done : 0 .. Passes]
  /\ stamp \in Pubs /\ etag \in [Sources -> Pubs]
  /\ raw \in [Sources -> [pub : Pubs, finished : BOOLEAN] \cup {Absent}]
  /\ rows \in [Sources -> [Cells -> Contents]]
  /\ totals \in [Sources -> [Cells -> Pubs \cup {Absent}]]
  /\ queue \subseteq Sources \X Cells
  /\ tileQueue \in BOOLEAN
  /\ tile = Absent \/ tile.rows \in [Sources -> [Cells -> Contents]]
  /\ txn.src \in Sources \cup {Absent}
  /\ ran \in 0 .. MaxCommands
  /\ over \in BOOLEAN /\ cut \in BOOLEAN /\ compared \subseteq Sources

Init ==
  /\ feed = 1
  /\ osm = [pub |-> 0, done |-> 0] /\ stamp = 0
  /\ raw = [s \in Sources |-> Absent] /\ etag = [s \in Sources |-> 0]
  /\ rows = [s \in Sources |-> [c \in Cells |-> Absent]] /\ totals = rows
  /\ queue = {} /\ tileQueue = FALSE /\ tile = Absent
  /\ txn = NoTxn /\ todo = <<>> /\ ran = 0
  /\ over = FALSE /\ compared = {} /\ cut = FALSE

-------------------------------------------------------------------------------
(* The commands as programs.                                               *)

Step(op, s) == [op |-> op, src |-> s]
Plain(ops) == [i \in 1 .. Len(ops) |-> Step(ops[i], Absent)]
\* The n steps of P for one source after another.
ForEach(n, P(_)) ==
  [i \in 1 .. n * Len(Order) |-> P(Order[(i - 1) \div n + 1])[((i - 1) % n) + 1]]

ImportOsmStampFirst ==  \* mutant: stamped up front, as it once was
  Plain(<<"dropOsm", "clearStore", "unstamp", "stamp", "load", "index">>)
ImportOsm ==
  Plain(<<"dropOsm", "clearStore", "load", "index", "unstamp", "stamp">>)
ImportSource(s) == <<Step("drop", s), Step("create", s), Step("finish", s)>>
ImportFull == ImportOsm \o ForEach(3, ImportSource)
CompareSource(s) == <<Step("begin", s), Step("write", s), Step("count", s), Step("commit", s)>>
CompareFull == ForEach(4, CompareSource)
EnqueueAll == [i \in 1 .. Len(Order) |-> Step("enqueue", Order[i])]
InitAll == ImportFull \o Plain(<<"updateOsm">>) \o CompareFull \o Plain(<<"drain">>)

ClearingFull ==  \* mutant: import full and compare full only
  {ImportFull \o Plain(<<"clearTiles">>), CompareFull \o Plain(<<"clearTiles">>)}
  \cup {ImportSource(s) : s \in Sources} \cup {CompareSource(s) : s \in Sources}
\* dispatch in main.rs: these empty the tile store once they have succeeded.
Clearing ==
  {p \o Plain(<<"clearTiles">>) :
     p \in {ImportOsm, ImportFull, CompareFull, InitAll}
           \cup {ImportSource(s) : s \in Sources} \cup {CompareSource(s) : s \in Sources}}
Commands ==
  Clearing
  \cup {Plain(<<op>>) : op \in {"updateOsm", "drain", "warm", "clearTiles", "serve"}}
  \cup {<<Step(op, s)>> : op \in {"update", "updateFile"}, s \in Sources}
  \cup {EnqueueAll}

Begin(p) ==
  /\ todo = <<>> /\ ran < MaxCommands
  /\ todo' = p /\ ran' = ran + 1
  /\ UNCHANGED <<feed, disk, txn, history>>

Doing(op) == todo # <<>> /\ Head(todo).op = op
Src == Head(todo).src
Serving == Doing("serve")
\* The step is done; the server goes on.
Done == todo' = IF Serving THEN todo ELSE Tail(todo)
OwesClear == todo # <<>> /\ Last(todo).op = "clearTiles"

\* A step fails, the command is stopped or the process dies: an open
\* transaction is rolled back and the remaining steps are not taken.
EndEarly ==
  /\ todo # <<>>
  /\ todo' = <<>> /\ txn' = NoTxn
  /\ cut' = (cut \/ (OwesClear /\ tile # Absent))
  /\ UNCHANGED <<feed, disk, ran, over, compared>>

-------------------------------------------------------------------------------
(* import osm (import/osm.rs).                                             *)

\* The file, downloaded now or at hand, is opened and its header read first.
DropOsm ==
  /\ Doing("dropOsm") /\ Done
  /\ \E f \in 1 .. feed : osm' = [pub |-> f, done |-> 0]
  /\ over' = (stamp # 0)
  /\ compared' = {}
  /\ UNCHANGED <<feed, stamp, raw, etag, rows, totals, queue, tileQueue, tile, txn, ran, cut>>

\* kvstore::clear drops every column family, the tile store among them.
ClearStore ==
  /\ Doing("clearStore") /\ Done
  /\ tile' = Absent /\ cut' = FALSE
  /\ UNCHANGED <<feed, osm, stamp, raw, etag, rows, totals, queue, tileQueue, txn, ran,
                 over, compared>>

LastPass == osm.done + 1 = Passes
\* One pass over the extract.
Load ==
  /\ Doing("load")
  /\ osm' = [osm EXCEPT !.done = @ + 1]
  /\ todo' = IF LastPass THEN Tail(todo) ELSE todo
  /\ UNCHANGED <<feed, stamp, raw, etag, rows, totals, queue, tileQueue, tile, txn, ran, history>>

Index ==
  /\ Doing("index") /\ Done
  /\ UNCHANGED <<feed, disk, txn, ran, history>>

\* DELETE and INSERT are statements of their own; an extract whose header
\* names no sequence leaves the stamp there was.
Unstamp ==
  /\ Doing("unstamp")
  /\ \/ stamp' = 0 /\ over' = FALSE /\ Done
     \/ todo' = Tail(Tail(todo)) /\ UNCHANGED <<stamp, over>>
  /\ UNCHANGED <<feed, osm, raw, etag, rows, totals, queue, tileQueue, tile, txn, ran,
                 compared, cut>>
Stamp ==
  /\ Doing("stamp") /\ Done
  /\ stamp' = osm.pub
  /\ UNCHANGED <<feed, osm, raw, etag, rows, totals, queue, tileQueue, tile, txn, ran, history>>

-------------------------------------------------------------------------------
(* import of a government source (load_into, materialize_into): the table  *)
(* is dropped and created, then filtered, made unique and indexed in place. *)

DropTable ==
  /\ Doing("drop") /\ Done
  /\ raw' = [raw EXCEPT ![Src] = Absent]
  /\ compared' = compared \ {Src}
  /\ UNCHANGED <<feed, osm, stamp, etag, rows, totals, queue, tileQueue, tile, txn, ran, over, cut>>

CreateTable ==
  /\ Doing("create") /\ Done
  /\ \E f \in 1 .. feed : raw' = [raw EXCEPT ![Src] = [pub |-> f, finished |-> FALSE]]
  /\ UNCHANGED <<feed, osm, stamp, etag, rows, totals, queue, tileQueue, tile, txn, ran, history>>

FinishTable ==
  /\ Doing("finish") /\ Done
  /\ raw' = [raw EXCEPT ![Src].finished = TRUE]
  /\ UNCHANGED <<feed, osm, stamp, etag, rows, totals, queue, tileQueue, tile, txn, ran, history>>

-------------------------------------------------------------------------------
(* compare <source> (compare_buildings, compare_addresses, in_transaction). *)

BeginCompareAutocommit ==  \* mutant: the DELETE commits on its own
  /\ Doing("begin") /\ raw[Src] # Absent /\ Done
  /\ txn' = [src |-> Src, rows |-> [c \in Cells |-> Absent]]
  /\ rows' = [rows EXCEPT ![Src] = [c \in Cells |-> Absent]]
  /\ UNCHANGED <<feed, osm, stamp, raw, etag, totals, queue, tileQueue, tile, ran, history>>
BeginCompare ==
  /\ Doing("begin") /\ raw[Src] # Absent /\ Done
  /\ txn' = [src |-> Src, rows |-> [c \in Cells |-> Absent]]   \* DELETE FROM dest
  /\ UNCHANGED <<feed, disk, ran, history>>

\* Buildings go one cell of the grid at a time, addresses in one INSERT.
WriteRows ==
  /\ Doing("write")
  /\ \E C \in IF Src \in Buildings THEN {{c} : c \in Cells} ELSE {Cells} :
       /\ \A c \in C : txn.rows[c] = Absent
       /\ txn' = [txn EXCEPT !.rows =
                    [c \in Cells |-> IF c \in C THEN Content(Src, c) ELSE txn.rows[c]]]
       /\ todo' = IF \E c \in Cells \ C : txn.rows[c] = Absent THEN todo ELSE Tail(todo)
  /\ UNCHANGED <<feed, disk, ran, history>>

RebuildTotals ==
  /\ Doing("count") /\ Done
  /\ UNCHANGED <<feed, disk, txn, ran, history>>

CommitCompare ==
  /\ Doing("commit") /\ Done
  /\ rows' = [rows EXCEPT ![Src] = txn.rows]
  /\ totals' = [totals EXCEPT ![Src] = [c \in Cells |-> At(c, raw[Src].pub)]]
  /\ compared' = compared \cup {Src}
  /\ txn' = NoTxn
  /\ UNCHANGED <<feed, osm, stamp, raw, etag, queue, tileQueue, tile, ran, over, cut>>

-------------------------------------------------------------------------------
(* update, from the command line or the server's jobs.                     *)

\* The queue entries a publication's changes leave.
Changed(S) == S \X (Cells \ Quiet)
AllTables == \A s \in Sources : raw[s] # Absent
MayUpdate(op) == Doing(op) \/ (Serving /\ AllTables)

UpdateOsm ==
  /\ MayUpdate("updateOsm") /\ stamp # 0 /\ Done
  /\ osm' = IF stamp < feed THEN [osm EXCEPT !.pub = feed] ELSE osm
  /\ stamp' = feed
  /\ queue' = IF stamp < feed THEN queue \cup Changed(Sources) ELSE queue
  /\ UNCHANGED <<feed, raw, etag, rows, totals, tileQueue, tile, txn, ran, history>>

RefreshNoDirtyCells(s, f) ==  \* mutant: only the change areas are recorded
  /\ raw[s] # Absent
  /\ raw' = [raw EXCEPT ![s].pub = f]
  /\ UNCHANGED <<feed, osm, stamp, rows, totals, queue, tileQueue, tile, txn, ran, history>>
\* dataset::refresh of snapshot f: the delta, its dirty cells and tiles.
Refresh(s, f) ==
  /\ raw[s] # Absent
  /\ raw' = [raw EXCEPT ![s].pub = f]
  /\ LET delta == raw[s].pub # f
     IN /\ queue' = IF delta THEN queue \cup Changed({s}) ELSE queue
        /\ tileQueue' = (tileQueue \/ delta)
  /\ UNCHANGED <<feed, osm, stamp, rows, totals, tile, txn, ran, history>>

Update(s) ==
  /\ MayUpdate("update") /\ (Serving \/ Src = s) /\ Done
  /\ IF etag[s] = feed                                       \* source_unchanged
     THEN UNCHANGED <<feed, disk, txn, ran, history>>
     ELSE Refresh(s, feed) /\ etag' = [etag EXCEPT ![s] = feed]

\* --file: no validator is recorded, and source_unchanged looks past the row.
UpdateFile ==
  /\ Doing("updateFile") /\ Done
  /\ \E f \in 1 .. feed : Refresh(Src, f)
  /\ UNCHANGED etag

-------------------------------------------------------------------------------
(* queue, tiles and run.                                                   *)

\* queue reconcile: each source's cells, committed source by source.
Enqueue ==
  /\ Doing("enqueue") /\ raw[Src] # Absent /\ Done
  /\ queue' = queue \cup ({Src} \X Cells)
  /\ UNCHANGED <<feed, osm, stamp, raw, etag, rows, totals, tileQueue, tile, txn, ran, history>>

\* drain_batch: a cell's rows, its total, the tile row and the queue delete.
RecomputeCell(s, c) ==
  /\ Doing("drain") \/ (Serving /\ AllTables)
  /\ <<s, c>> \in queue /\ raw[s] # Absent
  /\ rows' = [rows EXCEPT ![s][c] = Content(s, c)]
  /\ totals' = [totals EXCEPT ![s][c] = At(c, raw[s].pub)]
  /\ queue' = queue \ {<<s, c>>}
  /\ tileQueue' = TRUE
  /\ UNCHANGED <<feed, osm, stamp, raw, etag, tile, txn, todo, ran, history>>

\* The queue is empty, or every cell of a batch failed.
DrainEnds ==
  /\ Doing("drain") /\ Done
  /\ UNCHANGED <<feed, disk, txn, ran, history>>

\* tiles warm, and a request to the server: what is not stored is rendered.
StoreTile ==
  /\ Doing("warm") \/ Serving
  /\ Done
  /\ tile = Absent /\ AllTables /\ tile' = Picture
  /\ UNCHANGED <<feed, osm, stamp, raw, etag, rows, totals, queue, tileQueue, txn, ran, history>>

NothingToWarm ==
  /\ Doing("warm") /\ Done
  /\ tile # Absent \/ \A s \in Sources, c \in Cells : totals[s][c] = Absent
  /\ UNCHANGED <<feed, disk, txn, ran, history>>

RefreshTile ==
  /\ Serving /\ AllTables /\ tileQueue
  /\ tileQueue' = FALSE /\ tile' = Picture
  /\ UNCHANGED <<feed, osm, stamp, raw, etag, rows, totals, queue, txn, todo, ran, history>>

\* clear_tile_store, and tiles clear.
ClearTiles ==
  /\ Doing("clearTiles") /\ Done
  /\ tile' = Absent /\ cut' = FALSE
  /\ UNCHANGED <<feed, osm, stamp, raw, etag, rows, totals, queue, tileQueue, txn, ran,
                 over, compared>>

Publish ==
  /\ feed < MaxPub /\ feed' = feed + 1
  /\ UNCHANGED <<disk, txn, todo, ran, history>>

Import == DropOsm \/ ClearStore \/ Load \/ Index \/ Unstamp \/ Stamp
          \/ DropTable \/ CreateTable \/ FinishTable
Compare == BeginCompare \/ WriteRows \/ RebuildTotals \/ CommitCompare
Incremental ==
  \/ UpdateOsm \/ UpdateFile \/ (\E s \in Sources : Update(s))
  \/ Enqueue \/ DrainEnds \/ (\E s \in Sources, c \in Cells : RecomputeCell(s, c))
Tiles == StoreTile \/ NothingToWarm \/ RefreshTile \/ ClearTiles

Next == \/ Publish \/ (\E p \in Commands : Begin(p)) \/ EndEarly
        \/ Import \/ Compare \/ Incremental \/ Tiles

Spec == Init /\ [][Next]_vars

-------------------------------------------------------------------------------
(* Properties.                                                             *)

\* An OSM import that replaced no stamped one leaves no stamp until all its
\* passes are loaded, and a stamp never runs ahead of the data: update osm
\* cannot go on from a sequence the tables do not hold (import/osm.rs:193).
StampIsEarned == ~over /\ stamp # 0 => osm.done = Passes /\ stamp <= osm.pub

\* A served cell is never taken away: whatever fails or is interrupted, a
\* compare leaves the rows there were (compare::in_transaction).
NeverBlanked ==
  [][\A s \in Sources, c \in Cells : rows[s][c] # Absent => rows'[s][c] # Absent]_vars

\* Once compared in full, a source stays served from its newest records and
\* the newest OSM data, or its cell waits in the queue: by whichever command
\* or job the data moved (update, run), until a table is imported anew.  A
\* cell's rows and its total come from the same records, whichever wrote them.
ComparedStaysServed ==
  /\ TypeOK
  /\ \A s \in compared, c \in Cells : rows[s][c] = Content(s, c) \/ <<s, c>> \in queue
  /\ \A s \in Sources, c \in Cells :
       /\ (rows[s][c] = Absent) <=> (totals[s][c] = Absent)
       /\ rows[s][c] # Absent => rows[s][c].raw = totals[s][c]

\* A stored tile shows the data, or its row waits in the tile queue, or the
\* running command will empty the store, or one that would have ended first
\* (main.rs, clear_tile_store).
TilesFresh ==
  tile # Absent /\ ~tileQueue /\ ~OwesClear /\ ~cut => tile = Picture

\* Not an invariant.  What import/osm.rs:193 says of the stamp: never visible for
\* an import that did not finish.  A second import that ends early leaves the
\* first's.
StampMeansComplete == stamp # 0 /\ todo = <<>> => osm.done = Passes
===============================================================================
