------------------------------- MODULE OsmApply -------------------------------
(***************************************************************************)
(* How update osm applies the replication feed (update::osm).  Node        *)
(* coordinates, way refs, relation members and the two reverse indexes     *)
(* live in RocksDB, where every write is kept at once; the served rows,    *)
(* the queue of dirty cells and the sequence stamp live in DuckDB, where   *)
(* a batch is one transaction.  A batch that fails, or a process that      *)
(* dies, keeps the RocksDB writes made so far and loses the rest.          *)
(*                                                                         *)
(* Tags are not stored: an object rebuilt because something under it       *)
(* moved takes them from the row it has.  A position stands for its cell;  *)
(* an object has one row, standing for those it has in osm_buildings,      *)
(* osm_former_buildings and osm_addresses; a way that resolves to          *)
(* coordinates has a geometry.  The upstream data is referentially         *)
(* complete after every sequence.                                          *)
(***************************************************************************)
EXTENDS Naturals, Sequences, SequencesExt

CONSTANTS
  Nodes, Ways, Relations,  \* object ids
  Positions,               \* coordinates
  Tags,                    \* tags that give a row
  Untagged,                \* tags that give none
  Gone,                    \* the object does not exist
  World0,                  \* what import osm read
  Diffs,                   \* the diffs upstream may publish
  BatchCommitThreshold,    \* [jobs.osm_update] batch_commit_threshold
  BatchSize,               \* [jobs.osm_update] batch_size
  MaxSequences,            \* bound: sequences published
  MaxFailures              \* bound: failed batches and crashes

Objects == Nodes \cup Ways \cup Relations

\* An object: refs are a way's nodes, of which it has one at least, and a
\* relation's way members, which may be none, in order.
NodeValue == [at : Positions, tags : Tags \cup {Untagged}]
Value(o) ==
  CASE o \in Nodes -> NodeValue
    [] o \in Ways -> [refs : Seq(Nodes) \ {<<>>}, tags : Tags \cup {Untagged}]
    [] o \in Relations -> [refs : Seq(Ways), tags : Tags \cup {Untagged}]

\* Every object that is referenced exists.
Complete(w) ==
  \A o \in Ways \cup Relations :
    w[o] # Gone => \A i \in DOMAIN w[o].refs : w[w[o].refs[i]] # Gone

ASSUME IdsAssumption ==
  /\ IsFiniteSet(Ways)
  /\ Nodes \cap Ways = {} /\ Nodes \cap Relations = {} /\ Ways \cap Relations = {}
ASSUME GoneAssumption == Gone \notin Positions /\ Gone \notin Seq(Nodes) /\ Gone \notin Seq(Ways)
ASSUME WorldAssumption ==
  /\ World0 = [o \in Objects |-> World0[o]] /\ Complete(World0)
  /\ \A o \in Objects : World0[o] = Gone \/ World0[o] \in Value(o)
ASSUME DiffsAssumption ==
  \A d \in Diffs : /\ DOMAIN d \subseteq Objects
                   /\ \A o \in DOMAIN d : d[o] = Gone \/ d[o] \in Value(o)
ASSUME SizesAssumption ==
  /\ BatchCommitThreshold \in Nat /\ BatchSize \in Nat \ {0}
  /\ MaxSequences \in Nat /\ MaxFailures \in Nat

VARIABLES
  world,    \* upstream: the data after every published sequence
  feed,     \* published sequences after the stamped one: the diff, and the data after it
  stamp,    \* committed: osm_replication_sequence
  base,     \* committed: the data as of that sequence
  kv,       \* RocksDB
  rows,     \* committed: the served rows
  enqueued, \* committed: the cells the last batch put in match_dirty_cells
  phase,    \* what apply_collapsed_phases is doing
  run,      \* this run of update: its chunk size and the sequences it has left
  batch,    \* the collapsed batch
  size,     \* how many sequences it holds
  todo,     \* changes of the phase not yet reached
  writes,   \* KV writes of the change being applied
  ways,     \* affected_way_ids
  rels,     \* affected_relation_ids
  txnRows,  \* the transaction's served rows
  dirty,    \* DirtyCells
  ahead,    \* sequences after the stamp that a failed batch has touched
  split,    \* history: a failed batch was followed by a smaller one
  failures  \* failed batches so far

upstream == <<world, feed>>
committed == <<stamp, base, rows, enqueued>>
txnVars == <<batch, size, todo, writes, ways, rels, txnRows, dirty>>
history == <<ahead, split, failures>>
vars == <<upstream, committed, kv, phase, run, txnVars, history>>

NoRow == [tags |-> Untagged, at |-> <<>>]
\* A served row: its tags and, for each part of its geometry, coordinates.
Row == [tags : Tags \cup {Untagged}, at : Seq(Seq(Positions))]
Cells(row) == UNION {ToSet(row.at[i]) : i \in DOMAIN row.at}

Phases == {"off", "between", "nodes", "ways", "relations", "rebuildWays",
           "rebuildRelations", "commit"}

TypeOK ==
  /\ \A o \in Objects : world[o] = Gone \/ world[o] \in Value(o)
  /\ \A o \in Objects : base[o] = Gone \/ base[o] \in Value(o)
  /\ \A i \in DOMAIN feed : feed[i].diff \in Diffs
  /\ kv.nodes \in [Nodes -> Positions \cup {Gone}]
  /\ \A w \in Ways : kv.ways[w] = Gone \/ kv.ways[w] \in Seq(Nodes)
  /\ \A r \in Relations : kv.relations[r] = Gone \/ kv.relations[r] \in Seq(Ways)
  /\ kv.nodeToWays \in [Nodes -> SUBSET Ways]
  /\ kv.wayToRelations \in [Ways -> SUBSET Relations]
  /\ \A o \in Objects : rows[o] \in Row /\ txnRows[o] \in Row
  /\ enqueued \subseteq Positions /\ dirty \subseteq Positions
  /\ phase \in Phases
  /\ stamp \in Nat /\ run.chunk \in Nat /\ run.left \in Nat /\ size \in Nat /\ ahead \in Nat
  /\ ways \subseteq Ways /\ rels \subseteq Relations /\ todo \subseteq Objects
  /\ split \in BOOLEAN /\ failures \in Nat

-------------------------------------------------------------------------------
(* import osm: the state it leaves for a given extract.                    *)

ImportedStore(w) ==
  LET Present(S) == {o \in S : w[o] # Gone}
      Refs(o) == IF w[o] = Gone THEN {} ELSE ToSet(w[o].refs)
  IN [nodes |-> [n \in Nodes |-> IF w[n] = Gone THEN Gone ELSE w[n].at],
      ways |-> [o \in Ways |-> IF w[o] = Gone THEN Gone ELSE w[o].refs],
      relations |-> [o \in Relations |-> IF w[o] = Gone THEN Gone ELSE w[o].refs],
      nodeToWays |-> [n \in Nodes |-> {o \in Ways : n \in Refs(o)}],
      wayToRelations |-> [o \in Ways |-> {r \in Relations : o \in Refs(r)}]]

ImportedRows(w) ==
  LET Line(o) == [i \in DOMAIN w[o].refs |-> w[w[o].refs[i]].at]
      Geometry(o) ==
        CASE o \in Nodes -> <<<<w[o].at>>>>
          [] o \in Ways -> <<Line(o)>>
          [] o \in Relations -> [i \in DOMAIN w[o].refs |-> Line(w[o].refs[i])]
      \* A relation that has no way members encloses nothing.
      Shown(o) == /\ w[o] # Gone /\ w[o].tags # Untagged
                  /\ o \in Relations => w[o].refs # <<>>
  IN [o \in Objects |-> IF Shown(o) THEN [tags |-> w[o].tags, at |-> Geometry(o)] ELSE NoRow]

NoRun == [chunk |-> 1, left |-> 0]
NoBatch == [o \in {} |-> Gone]

Init ==
  /\ world = World0 /\ base = World0 /\ feed = <<>> /\ stamp = 0
  /\ kv = ImportedStore(World0) /\ rows = ImportedRows(World0)
  /\ enqueued = {}
  /\ phase = "off" /\ run = NoRun
  /\ batch = NoBatch /\ size = 0 /\ todo = {} /\ writes = <<>>
  /\ ways = {} /\ rels = {} /\ txnRows = rows /\ dirty = {}
  /\ ahead = 0 /\ split = FALSE /\ failures = 0

\* The data after a diff.
Patch(w, d) == [o \in Objects |-> IF o \in DOMAIN d THEN d[o] ELSE w[o]]

\* Upstream publishes a sequence.  A run takes the head once, when it starts,
\* so only what is published between runs makes a difference.
Publish ==
  /\ phase = "off" /\ stamp + Len(feed) < MaxSequences
  /\ \E d \in Diffs :
       /\ Complete(Patch(world, d)) /\ Patch(world, d) # world
       /\ world' = Patch(world, d)
       /\ feed' = Append(feed, [diff |-> d, data |-> world'])
  /\ UNCHANGED <<committed, kv, phase, run, txnVars, history>>

-------------------------------------------------------------------------------
(* update: one run takes the feed up to the head, a batch at a time.       *)

Least(m, n) == IF m < n THEN m ELSE n

\* catch_up_chunk_size.
ChunkSize(pending) == IF pending > BatchCommitThreshold THEN BatchSize ELSE 1

StartRun ==
  /\ phase = "off" /\ feed # <<>>
  /\ run' = [chunk |-> ChunkSize(Len(feed)), left |-> Len(feed)]
  /\ phase' = "between"
  /\ UNCHANGED <<upstream, committed, kv, txnVars, history>>

\* The head is reached, the run is cancelled, or a diff cannot be fetched.
EndRun ==
  /\ phase = "between"
  /\ phase' = "off" /\ run' = NoRun
  /\ UNCHANGED <<upstream, committed, kv, txnVars, history>>

\* batch_end_for.
BatchLength == Least(run.chunk, run.left)

\* Mutant: the first version of an object wins.
CollapseFirst(diffs) ==
  LET Touching(o) == {i \in DOMAIN diffs : o \in DOMAIN diffs[i]}
      First(o) == CHOOSE i \in Touching(o) : \A j \in Touching(o) : j >= i
  IN [o \in UNION {DOMAIN diffs[i] : i \in DOMAIN diffs} |-> diffs[First(o)][o]]

\* OsmChange::collapse: one change per object, its latest version.
Collapse(diffs) ==
  LET Touching(o) == {i \in DOMAIN diffs : o \in DOMAIN diffs[i]}
      Latest(o) == CHOOSE i \in Touching(o) : \A j \in Touching(o) : j <= i
  IN [o \in UNION {DOMAIN diffs[i] : i \in DOMAIN diffs} |-> diffs[Latest(o)][o]]

Changed(S) == S \cap DOMAIN batch

\* apply_batch: BEGIN, and the changes collapsed.
BeginBatch ==
  /\ phase = "between" /\ run.left > 0
  /\ size' = BatchLength
  /\ batch' = Collapse([i \in 1 .. size' |-> feed[i].diff])
  /\ todo' = Nodes \cap DOMAIN batch'
  /\ phase' = "nodes"
  /\ writes' = <<>> /\ ways' = {} /\ rels' = {} /\ txnRows' = rows /\ dirty' = {}
  /\ split' = (split \/ size' < ahead)
  /\ UNCHANGED <<upstream, committed, kv, run, ahead, failures>>

-------------------------------------------------------------------------------
(* The KV writes of one change, in the order the code makes them.          *)

\* A write of store's key; the reverse indexes are written one member at a
\* time, by reading the list, adding or removing the member and putting it.
Store(store, key, value) == [store |-> store, op |-> "put", key |-> key, value |-> value]
Erase(store, key) == Store(store, key, Gone)
Join(store, key, member) == [store |-> store, op |-> "add", key |-> key, value |-> member]
Leave(store, key, member) ==
  [store |-> store, op |-> "remove", key |-> key, value |-> member]

Written(w) ==
  CASE w.op = "put" -> w.value
    [] w.op = "add" -> kv[w.store][w.key] \cup {w.value}
    [] w.op = "remove" -> kv[w.store][w.key] \ {w.value}

OnEach(seq, W(_)) == [i \in DOMAIN seq |-> W(seq[i])]

NodeWrites(n) ==
  IF batch[n] = Gone
  THEN LET removed(w) == Leave("nodeToWays", n, w)
       IN OnEach(SetToSeq(kv.nodeToWays[n]), removed) \o <<Erase("nodes", n)>>
  ELSE <<Store("nodes", n, batch[n].at)>>

\* A way leaves the nodes of the refs stored for it and joins those it gets.
WayWrites(w) ==
  LET old == IF kv.ways[w] = Gone THEN <<>> ELSE kv.ways[w]
      removed(n) == Leave("nodeToWays", n, w)
      added(n) == Join("nodeToWays", n, w)
  IN OnEach(old, removed) \o
     IF batch[w] = Gone THEN <<Erase("ways", w)>>
     ELSE <<Store("ways", w, batch[w].refs)>> \o OnEach(batch[w].refs, added)

RelationWrites(r) ==
  LET old == IF kv.relations[r] = Gone THEN <<>> ELSE kv.relations[r]
      removed(w) == Leave("wayToRelations", w, r)
      added(w) == Join("wayToRelations", w, r)
  IN OnEach(old, removed) \o
     IF batch[r] = Gone THEN <<Erase("relations", r)>>
     ELSE <<Store("relations", r, batch[r].refs)>> \o OnEach(batch[r].refs, added)

KvWrite ==
  /\ writes # <<>>
  /\ LET w == Head(writes) IN kv' = [kv EXCEPT ![w.store][w.key] = Written(w)]
  /\ writes' = Tail(writes)
  /\ UNCHANGED <<upstream, committed, phase, run, batch, size, todo, ways, rels,
                 txnRows, dirty, history>>

\* What a change makes a later phase rebuild, read before its writes.
\* Mutant of NodeAffects: only a delete affects the node's ways.
NodeAffectsIfDeleted(n) == IF batch[n] = Gone THEN kv.nodeToWays[n] ELSE {}
NodeAffects(n) == kv.nodeToWays[n]
WayAffects(w) == kv.wayToRelations[w]

TakeNode ==
  /\ phase = "nodes" /\ writes = <<>>
  /\ \E n \in todo :
       /\ todo' = todo \ {n}
       /\ writes' = NodeWrites(n)
       /\ ways' = ways \cup NodeAffects(n)
  /\ UNCHANGED <<upstream, committed, kv, phase, run, batch, size, rels, txnRows,
                 dirty, history>>

TakeWay ==
  /\ phase = "ways" /\ writes = <<>>
  /\ \E w \in todo :
       /\ todo' = todo \ {w}
       /\ writes' = WayWrites(w)
       /\ rels' = rels \cup WayAffects(w)
       /\ ways' = IF batch[w] = Gone THEN ways ELSE ways \cup {w}
  /\ UNCHANGED <<upstream, committed, kv, phase, run, batch, size, txnRows, dirty,
                 history>>

TakeRelation ==
  /\ phase = "relations" /\ writes = <<>>
  /\ \E r \in todo :
       /\ todo' = todo \ {r}
       /\ writes' = RelationWrites(r)
       /\ rels' = IF batch[r] = Gone THEN rels ELSE rels \cup {r}
  /\ UNCHANGED <<upstream, committed, kv, phase, run, batch, size, ways, txnRows,
                 dirty, history>>

-------------------------------------------------------------------------------
(* The SQL of each phase, run for all its objects after its KV writes.     *)

\* The cells noted for a set of objects: those of the rows they have, before
\* they are deleted, and those of the rows they get.
\* Mutant of NoteOld: a row's old cells are not noted.
NoteOldNone(S) == {}
NoteOld(S) == UNION {Cells(txnRows[o]) : o \in S}
NoteNew(new) == UNION {Cells(new[o]) : o \in DOMAIN new}

\* Delete the rows of new's objects and insert those new gives them.
ReplaceRows(new) ==
  /\ txnRows' = [o \in Objects |-> IF o \in DOMAIN new THEN new[o] ELSE txnRows[o]]
  /\ dirty' = dirty \cup NoteOld(DOMAIN new) \cup NoteNew(new)

PhaseDone(p) == phase = p /\ todo = {} /\ writes = <<>>

\* An address row for each changed node that carries a housenumber.
EndNodes ==
  LET AddressRow(n) == IF batch[n] = Gone \/ batch[n].tags = Untagged THEN NoRow
                       ELSE [tags |-> batch[n].tags, at |-> <<<<batch[n].at>>>>]
  IN
  /\ PhaseDone("nodes")
  /\ ReplaceRows([n \in Changed(Nodes) |-> AddressRow(n)])
  /\ phase' = "ways" /\ todo' = Changed(Ways)
  /\ UNCHANGED <<upstream, committed, kv, run, batch, size, writes, ways, rels,
                 history>>

EndWays ==
  /\ PhaseDone("ways")
  /\ ReplaceRows([w \in {w \in Changed(Ways) : batch[w] = Gone} |-> NoRow])
  /\ phase' = "relations" /\ todo' = Changed(Relations)
  /\ UNCHANGED <<upstream, committed, kv, run, batch, size, writes, ways, rels,
                 history>>

EndRelations ==
  /\ PhaseDone("relations")
  /\ ReplaceRows([r \in {r \in Changed(Relations) : batch[r] = Gone} |-> NoRow])
  /\ phase' = "rebuildWays"
  /\ UNCHANGED <<upstream, committed, kv, run, batch, size, todo, writes, ways,
                 rels, history>>

\* resolve_way_coords, and unresolved_way_members for one way.
Line(w) == [i \in DOMAIN kv.ways[w] |-> kv.nodes[kv.ways[w][i]]]
Resolves(w) ==
  kv.ways[w] # Gone /\ \A i \in DOMAIN kv.ways[w] : kv.nodes[kv.ways[w][i]] # Gone

\* stored_rebuild_tags: an object the batch did not change keeps the tags of
\* its row.
StoredTags(o) == txnRows[o].tags
RebuildTags(o) == IF o \in DOMAIN batch THEN batch[o].tags ELSE StoredTags(o)

\* Of the objects to rebuild, those that were changed or have a row.
Targets(S) == {o \in S : o \in DOMAIN batch \/ txnRows[o] # NoRow}

RebuildWays ==
  LET present == {w \in ways : kv.ways[w] # Gone}
      Rebuilt(w) == IF RebuildTags(w) = Untagged \/ ~Resolves(w) THEN NoRow
                    ELSE [tags |-> RebuildTags(w), at |-> <<Line(w)>>]
  IN
  /\ phase = "rebuildWays"
  /\ ReplaceRows([w \in Targets(present) |-> Rebuilt(w)])
  /\ phase' = "rebuildRelations"
  /\ UNCHANGED <<upstream, committed, kv, run, batch, size, todo, writes, ways,
                 rels, history>>

\* The way-to-relation cascade: relations a rebuilt way is a member of.
Cascade == UNION {kv.wayToRelations[w] : w \in ways}

RebuildRelations ==
  LET present == {r \in rels \cup Cascade : kv.relations[r] # Gone}
      Members(r) == kv.relations[r]
      Rebuilt(r) ==
        IF \/ RebuildTags(r) = Untagged \/ Members(r) = <<>>
           \/ \E i \in DOMAIN Members(r) : ~Resolves(Members(r)[i])
        THEN NoRow
        ELSE [tags |-> RebuildTags(r),
              at |-> [i \in DOMAIN Members(r) |-> Line(Members(r)[i])]]
  IN
  /\ phase = "rebuildRelations"
  /\ ReplaceRows([r \in Targets(present) |-> Rebuilt(r)])
  /\ phase' = "commit"
  /\ UNCHANGED <<upstream, committed, kv, run, batch, size, todo, writes, ways,
                 rels, history>>

\* DirtyCells::flush, the stamp and COMMIT.
CommitBatch ==
  /\ phase = "commit"
  /\ rows' = txnRows /\ enqueued' = dirty /\ stamp' = stamp + size
  /\ base' = feed[size].data
  /\ feed' = SubSeq(feed, size + 1, Len(feed))
  /\ ahead' = ahead - Least(ahead, size)
  /\ run' = [run EXCEPT !.left = @ - size]
  /\ phase' = "between"
  /\ batch' = NoBatch /\ size' = 0 /\ ways' = {} /\ rels' = {} /\ dirty' = {}
  /\ UNCHANGED <<world, kv, todo, writes, txnRows, split, failures>>

\* A statement or a KV call fails and the transaction is rolled back, or the
\* process dies.  What was written to RocksDB stays.
FailBatch ==
  /\ phase \notin {"off", "between"} /\ failures < MaxFailures
  /\ failures' = failures + 1
  /\ ahead' = IF size > ahead THEN size ELSE ahead
  /\ phase' = "off" /\ run' = NoRun
  /\ batch' = NoBatch /\ size' = 0 /\ todo' = {} /\ writes' = <<>>
  /\ ways' = {} /\ rels' = {} /\ txnRows' = rows /\ dirty' = {}
  /\ UNCHANGED <<upstream, committed, kv, split>>

Next ==
  \/ Publish \/ StartRun \/ EndRun \/ BeginBatch
  \/ TakeNode \/ TakeWay \/ TakeRelation \/ KvWrite
  \/ EndNodes \/ EndWays \/ EndRelations \/ RebuildWays \/ RebuildRelations
  \/ CommitBatch \/ FailBatch

Spec == Init /\ [][Next]_vars

-------------------------------------------------------------------------------
\* Between batches, no part of a failed batch waits to be replayed.
Settled == phase \in {"off", "between"} /\ ahead = 0

\* The RocksDB store, reverse indexes included, is that of a fresh import of the
\* data at the stamped sequence, whatever failed on the way.  So are the rows,
\* as long as a failed batch is replayed whole (apply_batch: "replaying the
\* entire batch on top of whatever prefix a crash left in RocksDB converges to
\* the same state").
Converged ==
  /\ TypeOK
  /\ Settled => kv = ImportedStore(base)
  /\ Settled /\ ~split => rows = ImportedRows(base)

\* An object that is served is served with its current tags and geometry,
\* even when a failed batch was replayed in smaller ones: what such a replay
\* can do is lose a row, never leave a stale one.
NothingStale ==
  Settled => \A o \in Objects : rows[o] \in {NoRow, ImportedRows(base)[o]}

\* A batch enqueues the cells of every row it removes, moves or adds: those
\* the row left and those it now covers.
ChangesNoted ==
  [][\A o \in Objects :
       rows'[o] # rows[o] => Cells(rows[o]) \cup Cells(rows'[o]) \subseteq enqueued']_vars

\* Not an invariant.  What apply_batch's documentation says without a condition: a failed batch
\* is replayed "rather than a partial one", and the replay converges.
CrashSafe == Settled => rows = ImportedRows(base)
===============================================================================
