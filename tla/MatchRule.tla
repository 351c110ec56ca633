------------------------------ MODULE MatchRule ------------------------------
(***************************************************************************)
(* The match rule and the two ways it is run (compare/): in full, on a     *)
(* coarse grid for buildings and by grid keys for addresses, and one match *)
(* cell at a time for the drain; with the producers of dirty cells, each   *)
(* of which guesses what a change of the data can reach.                   *)
(*                                                                         *)
(* The map is a line: each of the code's bounds is a test of an axis, and  *)
(* the axes are tested alike.  An object is an interval of it, a point if  *)
(* it is an address; a distance is a length, an area too.  Units stand for *)
(* degrees and metres both, in the order the code's constants have.        *)
(*                                                                         *)
(* A batch of changes is one step here, and so is a compare: MatchDrain,   *)
(* OsmApply and Offline have their interleavings and what ends them early. *)
(***************************************************************************)
EXTENDS Integers, FiniteSets, FiniteSetsExt

CONSTANTS
  Layers,       \* "buildings" or "addresses": the source that is compared
  Ids,          \* records of the source
  OsmIds,       \* OSM objects
  Records,      \* what a record of a layer may be
  OsmObjects,   \* what an OSM object may be, for a layer
  Absent,       \* no such record or object
  Null,         \* SQL NULL
  Empty,        \* the empty string
  MatchCells,   \* match cells
  CellSize,     \* width of a match cell
  GridStep,     \* GRID_STEP: width of a cell of the full building compare
  GridKey,      \* GRID_KEY_DEG: width of a key of the full address compare
  Near,         \* MATCH_DISTANCE_METERS
  NameNear,     \* NAME_MATCH_DISTANCE_METERS
  Buffer,       \* OSM_MATCH_BUFFER_DEG
  MinOverlap,   \* one in MinOverlap of a footprint covered is enough
  MaxReach      \* MAX_ENQUEUE_CELLS_PER_ROW

ASSUME MatchCellsAssumption == IsFiniteSet(Ids) /\ MatchCells \subseteq Int
ASSUME WidthsAssumption == {CellSize, GridStep, GridKey, MinOverlap, MaxReach} \subseteq Nat \ {0}
\* osm_match_buffer_covers_the_widest_match_distance and
\* grid_key_cell_is_wider_than_the_widest_match_distance, tests of the code.
ASSUME DistancesAssumption ==
  /\ {Near, NameNear, Buffer} \subseteq Nat
  /\ Near <= NameNear /\ NameNear <= Buffer /\ NameNear <= GridKey

VARIABLES
  layer,    \* the source compared
  gov,      \* its live table
  osm,      \* osm_buildings and osm_former_buildings, or osm_addresses
  reported, \* records with an active report
  rows,     \* *_unmatched: record and cell tag
  totals,   \* cell_totals
  dirty,    \* match_dirty_cells
  inFull,   \* history: cells last computed by a full compare
  skipped   \* history: cells a change of OSM reached without queueing them

history == <<inFull, skipped>>
ruleVars == <<layer, gov, osm, reported, rows, totals, dirty, history>>

-------------------------------------------------------------------------------
(* Geometry.                                                               *)

Lo(o) == o.geom[1]
Hi(o) == o.geom[2]
\* The centroid, which is the address itself for an address.
Point(g) == (Lo(g) + Hi(g)) \div 2
CellAt(x) == x \div CellSize

\* An object is an interval, an address a point; a record lies in a match cell.
Extent(o) == o.geom \in Int \X Int /\ Lo(o) <= Hi(o)
ASSUME ObjectsAssumption ==
  /\ Layers \subseteq {"buildings", "addresses"}
  /\ \A l \in Layers : \A g \in Records[l] :
       /\ g # Absent /\ Extent(g) /\ CellAt(Point(g)) \in MatchCells
       /\ l = "addresses" => Lo(g) = Hi(g)
  /\ \A l \in Layers : \A o \in OsmObjects[l] :
       /\ o # Absent /\ Extent(o)
       /\ o.kind \in IF l = "buildings" THEN {"building", "former"} ELSE {"address"}
       /\ l = "addresses" => Lo(o) = Hi(o)

Box(lo, hi) == [lo |-> lo, hi |-> hi]
BoxOf(c) == Box(c * CellSize, (c + 1) * CellSize)
Buffered(box) == Box(box.lo - Buffer, box.hi + Buffer)
\* ST_Intersects: a touch is enough.
Meets(o, box) == Lo(o) <= box.hi /\ box.lo <= Hi(o)
Overlap(o, g) ==
  Max({0, Min({Hi(o), Hi(g)}) - Max({Lo(o), Lo(g)})})

\* lower(trim()) with the empty string for NULL.
NormalizedName(v) == IF v = Empty THEN Null ELSE v
\* SQL's =, never true of a NULL.
SqlEq(v, w) == v = w /\ v # Null

-------------------------------------------------------------------------------
(* The rule (compare/rule.rs).  box is what the query reads OSM from.      *)

Live == {i \in Ids : gov[i] # Absent}
Osm(kind, box) == {o \in {osm[j] : j \in OsmIds} \ {Absent} : o.kind = kind /\ Meets(o, box)}

Covers(o, g) == Overlap(o, g) * MinOverlap >= Hi(g) - Lo(g) /\ Meets(o, Box(Lo(g), Hi(g)))
OsmBuildingCovers(i, box) == \E o \in Osm("building", box) : Covers(o, gov[i])
FormerBuildingCovers(i, box) == \E o \in Osm("former", box) : Covers(o, gov[i])

\* BDOT10K_EKSPLOATOWANY_FILTER: buildings in use.
Comparable(i) == i \in Live /\ (layer = "buildings" => gov[i].inUse)

UnmatchedBuildings(box) ==
  {i \in Live :
     /\ Comparable(i) /\ Point(gov[i]) \in box.lo .. box.hi
     /\ ~OsmBuildingCovers(i, box) /\ ~FormerBuildingCovers(i, box)
     /\ i \notin reported}

Distance(o, g) == IF Lo(o) < Lo(g) THEN Lo(g) - Lo(o) ELSE Lo(o) - Lo(g)
\* By proximity; by street; by locality, if neither has a street.
AddressMatches(o, g) ==
  LET named == NormalizedName(g.street)
      osmNamed == NormalizedName(o.street)
  IN /\ SqlEq(o.number, g.number)
     /\ \/ Distance(o, g) <= Near
        \/ /\ Distance(o, g) <= NameNear
           /\ \/ SqlEq(named, osmNamed)
              \/ /\ named = Null /\ osmNamed = Null
                 /\ SqlEq(NormalizedName(g.place), NormalizedName(o.city))

UnmatchedAddressesInCell(write, read) ==
  {i \in Live :
     /\ Point(gov[i]) \in write.lo .. write.hi
     /\ i \notin reported
     /\ ~\E o \in Osm("address", read) : AddressMatches(o, gov[i])}

-------------------------------------------------------------------------------
(* One cell (compare/incremental.rs, compare/totals.rs).                   *)

\* Both queries take the edges of the cell with it.
CandidatesOfCell(c) ==
  IF layer = "buildings" THEN UnmatchedBuildings(BoxOf(c))
                         ELSE UnmatchedAddressesInCell(BoxOf(c), Buffered(BoxOf(c)))

RowsOfCellClosed(c) ==  \* mutant: the edges of a cell belong to both sides
  {<<i, c>> : i \in CandidatesOfCell(c)}
\* The cell tag says which of two neighbours writes an object on their edge.
RowsOfCell(c) ==
  {<<i, c>> : i \in {i \in CandidatesOfCell(c) : CellAt(Point(gov[i])) = c}}
TotalOfCell(c) == Cardinality({i \in Live : Comparable(i) /\ CellAt(Point(gov[i])) = c})

Recompute(c) ==
  /\ c \in dirty
  /\ dirty' = dirty \ {c}
  /\ rows' = {r \in rows : r[2] # c} \cup RowsOfCell(c)
  /\ totals' = [totals EXCEPT ![c] = TotalOfCell(c)]
  /\ inFull' = inFull \ {c} /\ skipped' = skipped \ {c}
  /\ UNCHANGED <<layer, gov, osm, reported>>

-------------------------------------------------------------------------------
(* The full compare (compare/buildings.rs, compare/addresses.rs).          *)

\* source_grid_extent: whole grid cells, one past the last.
SourceGridExtent ==
  Min({Lo(gov[i]) : i \in Live}) \div GridStep .. Max({Hi(gov[i]) : i \in Live}) \div GridStep
\* A row is written by the grid cell that holds its centroid, right edge out.
CompareBuildings ==
  IF Live = {} THEN {}
  ELSE UNION {LET x == k * GridStep
              IN {i \in UnmatchedBuildings(Box(x, x + GridStep)) :
                    x <= Point(gov[i]) /\ Point(gov[i]) < x + GridStep} : k \in SourceGridExtent}

\* The addresses of the same key and of the keys next to it are joined.
CompareAddresses ==
  LET Key(o) == Lo(o) \div GridKey
  IN {i \in Live :
        /\ ~\E j \in OsmIds :
              /\ osm[j] # Absent
              /\ Key(osm[j]) - Key(gov[i]) \in -1 .. 1
              /\ AddressMatches(osm[j], gov[i])
        /\ i \notin reported}

Compare ==
  /\ rows' = {<<i, CellAt(Point(gov[i]))>> :
                i \in IF layer = "buildings" THEN CompareBuildings ELSE CompareAddresses}
  /\ totals' = [c \in MatchCells |-> TotalOfCell(c)]
  /\ inFull' = MatchCells /\ skipped' = {}
  /\ UNCHANGED <<layer, gov, osm, reported, dirty>>

-------------------------------------------------------------------------------
(* The producers of dirty cells.                                           *)

LayerBufferNone == 0  \* mutant: an address reaches its own cell only
\* layer_buffer_deg: addresses are read from beyond a cell, buildings are not.
LayerBuffer == IF layer = "buildings" THEN 0 ELSE Buffer
\* note_existing, note_point: every cell the object's box reaches.
Reach(o) ==
  IF o = Absent THEN {}
  ELSE CellAt(Lo(o) - LayerBuffer) .. CellAt(Hi(o) + LayerBuffer)
NotTooWide(o) == Cardinality(Reach(o)) <= MaxReach
\* A building that starts on an edge touches the cell before it too, which
\* reads it (the envelopes are closed) and is not in its reach (a floor is).
Touches(o) ==
  IF o # Absent /\ layer = "buildings" /\ Lo(o) % CellSize = 0 THEN {CellAt(Lo(o)) - 1} ELSE {}

\* apply_batch rebuilds an object: where it was, then where it is.
OsmChange(j, o) ==
  /\ o # osm[j]
  /\ osm' = [osm EXCEPT ![j] = o]
  /\ LET queued == UNION {Reach(p) : p \in {p \in {osm[j], o} : NotTooWide(p)}}
         affected == UNION {Reach(p) \cup Touches(p) : p \in {osm[j], o}}
     IN /\ dirty' = dirty \cup (MatchCells \cap queued)
        /\ skipped' = skipped \cup (MatchCells \cap (affected \ queued))
  /\ UNCHANGED <<layer, gov, reported, rows, totals, inFull>>

\* A refresh changes a record: the cells of its centroid, before and after.
GovChange(i, g) ==
  /\ g # gov[i]
  /\ gov' = [gov EXCEPT ![i] = g]
  /\ dirty' = dirty \cup {CellAt(Point(h)) : h \in {gov[i], g} \ {Absent}}
  /\ reported' = reported \ {i}   \* reconcile_source
  /\ UNCHANGED <<layer, osm, rows, totals, history>>

\* reports::insert and revoke.
Report(i) ==
  /\ i \in Live
  /\ reported' = IF i \in reported THEN reported \ {i} ELSE reported \cup {i}
  /\ dirty' = dirty \cup {CellAt(Point(gov[i]))}
  /\ UNCHANGED <<layer, gov, osm, rows, totals, history>>

\* queue reconcile: every cell that holds a record.
Reconcile ==
  /\ dirty' = dirty \cup {CellAt(Point(gov[i])) : i \in Live}
  /\ skipped' = {}
  /\ UNCHANGED <<layer, gov, osm, reported, rows, totals, inFull>>

RuleInit ==
  /\ layer \in Layers
  /\ gov = [i \in Ids |-> Absent] /\ osm = [j \in OsmIds |-> Absent]
  /\ reported = {} /\ rows = {} /\ totals = [c \in MatchCells |-> 0]
  /\ dirty = {} /\ inFull = {} /\ skipped = {}

RuleNext ==
  \/ \E c \in MatchCells : Recompute(c)
  \/ Compare \/ Reconcile
  \/ \E j \in OsmIds, o \in OsmObjects[layer] \cup {Absent} : OsmChange(j, o)
  \/ \E i \in Ids, g \in Records[layer] \cup {Absent} : GovChange(i, g)
  \/ \E i \in Ids : Report(i)

RuleSpec == RuleInit /\ [][RuleNext]_ruleVars

-------------------------------------------------------------------------------
(* Properties.                                                             *)

RuleTypeOK ==
  /\ layer \in Layers
  /\ gov \in [Ids -> Records[layer] \cup {Absent}]
  /\ osm \in [OsmIds -> OsmObjects[layer] \cup {Absent}]
  /\ reported \subseteq Live
  /\ rows \subseteq Ids \X MatchCells /\ totals \in [MatchCells -> Nat]
  /\ dirty \subseteq MatchCells /\ inFull \subseteq MatchCells /\ skipped \subseteq MatchCells

\* What the rule says of a record, whichever queries evaluate it: for an
\* address, all of OSM; for a building, what reaches the cell it is in.
Proposed(i) ==
  /\ Comparable(i) /\ i \notin reported
  /\ \A j \in OsmIds :
       osm[j] # Absent =>
         IF layer = "addresses" THEN ~AddressMatches(osm[j], gov[i])
         ELSE Meets(osm[j], BoxOf(CellAt(Point(gov[i])))) => ~Covers(osm[j], gov[i])

Within(g, width) == Lo(g) \div width = Point(g) \div width /\ Hi(g) <= (Point(g) \div width + 1) * width
\* A building across an edge of its cell or of the grid: the full compare
\* may read more or less of OSM for it than the drain (buildings.rs:59).
AcrossAnEdge(i) == ~Within(gov[i], CellSize) \/ ~Within(gov[i], GridStep)

\* A record is served exactly when the rule proposes it, or its cell waits in
\* the queue, or for the reconcile that a change too wide or only touching it
\* leaves it to:
\* buffers, grid keys and edges lose nothing, and the full compare and the
\* drain agree (compare::full_compare_and_reconcile_drain_agree).
ServedByTheRule ==
  \A c \in MatchCells \ (dirty \cup skipped) :
    \A i \in Ids :
      IF i \notin Live \/ CellAt(Point(gov[i])) # c THEN <<i, c>> \notin rows
      ELSE \/ c \in inFull /\ AcrossAnEdge(i)
           \/ <<i, c>> \in rows <=> Proposed(i)

\* An object is served from one cell: the closed edges of two neighbours, or
\* of two cells of the grid, do not both write it.  And no cell serves more
\* objects than its total counts: the ratio the low zooms draw stays within one
\* (compare/totals.rs).
ServedOnce ==
  /\ RuleTypeOK
  /\ \A r, q \in rows : r[1] = q[1] /\ r # q => {r[2], q[2]} \cap dirty # {}
  /\ \A c \in MatchCells : Cardinality({r \in rows : r[2] = c}) <= totals[c]
===============================================================================
