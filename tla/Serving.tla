------------------------------- MODULE Serving -------------------------------
(***************************************************************************)
(* What the server answers from the committed tables: the tiles of the     *)
(* three tiers (server/tiles.rs), /package (server/package.rs) and the     *)
(* JOSM plugin's nearest building (server/josm_plugins.rs); and, since     *)
(* tiles are stored, whether every transaction that changes an answer also *)
(* names the cells to render again (server/tile_dirty.rs, the loads of     *)
(* mappings/, and the producers that MatchInputs interleaves).             *)
(*                                                                         *)
(* The map is a line, as in MatchRule.  A row is an interval with its      *)
(* representative point in it; a tile is what its layers show, a set of    *)
(* features.  Transactions are one step each; the readers are operators on *)
(* the state, each reading one snapshot.                                   *)
(***************************************************************************)
EXTENDS Integers, Sequences, FiniteSets, FiniteSetsExt, TLC

CONSTANTS
  Objects,      \* records of the government datasets
  SourceOf,     \* SourceOf[o]: its dataset
  RowsOf,       \* RowsOf[o]: what its row may say
  Imported,     \* Imported[o]: its row after the import
  InOsm,        \* records OSM has: no compare ever finds them unmatched
  Names,        \* strings: class keys and street names
  Norm,         \* Norm[v]: lower(trim(v))
  Null,         \* SQL NULL
  Blank,        \* the empty string
  AdjacencyKey, \* the class of a source whose neighbours are counted
  TypeFiles,    \* TypeFiles[s]: the CSVs the building-type URL may serve
  StreetFiles,  \* the CSVs the street-name URL may serve
  Areas,        \* what /package is asked for: sets of intervals
  Places,       \* where the JOSM plugin asks for a building
  Distances,    \* its search_distance
  Batches,      \* sets of tiles rendered together
  CellSize,     \* width of a z14 cell
  Cells,        \* the cells in which there is anything
  Buffer,       \* ADJACENCY_READ_BUFFER_DEG
  MaxArea,      \* package.max_area_sq_deg
  MaxHalfWidth, \* MAX_SEARCH_HALF_WIDTH_DEG
  Reportable    \* bound: records anyone reports

BuildingSources == {"bdot10k", "egib"}
Sources == BuildingSources \cup {"prg"}
CellZoom == 14
MinPersistedZoom == 12
RenderBlockShift == 3
RingRadius == 1
NoValue == -1

Rows == UNION {RowsOf[o] : o \in Objects}

ASSUME WidthsAssumption ==
  CellSize \in Nat \ {0} /\ {Buffer, MaxArea, MaxHalfWidth} \subseteq Nat /\ Buffer < CellSize
\* filter_oversized_geometry drops a row as wide as a cell; that the adjacency
\* read fits in as well is taken (README, section 4).  What is left has an area
\* (filter_undersized_geometry), and its centroid inside, or is a point.
ASSUME FootprintsAssumption ==
  \A r \in Rows : /\ {r.lo, r.at, r.hi} \subseteq Nat /\ r.lo <= r.at /\ r.at <= r.hi
                  /\ r.lo = r.hi \/ r.at < r.hi
                  /\ r.hi - r.lo + Buffer <= CellSize
ASSUME NamesAssumption ==
  /\ Norm \in [Names \cup {Null, Blank} -> Names \cup {Null, Blank}]
  /\ \A v \in DOMAIN Norm : Norm[Norm[v]] = Norm[v] /\ (Norm[v] = Null <=> v = Null)
ASSUME ObjectsAssumption ==
  /\ SourceOf \in [Objects -> Sources] /\ Blank # Null
  /\ Imported = [o \in Objects |-> Imported[o]]
  /\ \A o \in Objects : Null \notin RowsOf[o] /\ Imported[o] \in RowsOf[o] \cup {Null}
  /\ \A o \in Objects : \A r \in RowsOf[o] :
       IF SourceOf[o] = "prg" THEN r.street \in DOMAIN Norm
       ELSE {r.t1, r.t2} \subseteq DOMAIN Norm /\ r.levels \in Int
ASSUME ReportableAssumption == Reportable \subseteq Objects
ASSUME FilesAssumption ==
  /\ \A s \in BuildingSources : \A file \in TypeFiles[s] : \A i \in DOMAIN file :
       /\ DOMAIN file \subseteq Nat
       /\ DOMAIN file[i] = {"tier", "key", "min", "max", "near", "tags"}
       /\ file[i].key \in DOMAIN Norm
  /\ \A file \in StreetFiles : \A i \in DOMAIN file :
       /\ DOMAIN file \subseteq Nat
       /\ DOMAIN file[i] = {"simc", "prg", "osm"} /\ file[i].prg \in DOMAIN Norm
ASSUME TilesAssumption ==
  /\ Cells \subseteq 0 .. 2^CellZoom - 1 /\ \A r \in Rows : r.at \div CellSize \in Cells
  /\ \A keys \in Batches : IsFiniteSet(keys) /\ keys \subseteq (MinPersistedZoom .. CellZoom) \X Nat

VARIABLES
  src,       \* src[o]: its row in the source table, or Null
  unmatched, \* *_unmatched: copies of rows, with the record they are of
  types,     \* types[s]: the *_building_types table
  streets,   \* street_name_mappings
  reported,  \* records with an active report
  totals,    \* cell_totals, of the cells that have any
  matchQ,    \* cells in match_dirty_cells
  tileRows   \* cells the last step gave a row in tile_dirty_cells

tables == <<src, unmatched, types, streets, reported, totals>>
answersVars == <<tables, matchQ, tileRows>>

-------------------------------------------------------------------------------
(* Geometry and tiles (tile_math.rs, server/tile_dirty.rs).                *)

Span(lo, hi) == [lo |-> lo, hi |-> hi]
\* ST_Intersects: a touch is enough.
Meets(r, w) == r.lo <= w.hi /\ w.lo <= r.hi
Grown(w) == Span(w.lo - Buffer, w.hi + Buffer)
Hull(ws) == Span(Min({w.lo : w \in ws}), Max({w.hi : w \in ws}))

CellAt(x) == x \div CellSize
CellOf(r) == CellAt(r.at)
Shl(x, k) == x * 2^k
Shr(x, k) == x \div 2^k

\* tile_to_bbox
Box(z, x) == LET w == CellSize * 2^(CellZoom - z) IN Span(x * w, (x + 1) * w)

\* tiles_for_cell
TilesOf(c) ==
  {<<CellZoom, x>> : x \in (c - RingRadius .. c + RingRadius) \cap (0 .. 2^CellZoom - 1)}
  \cup {<<z, Shr(c, CellZoom - z)>> : z \in MinPersistedZoom .. CellZoom - 1}

Persisted == {<<z, Shr(c, CellZoom - z)>> : z \in MinPersistedZoom .. CellZoom, c \in Cells}

-------------------------------------------------------------------------------
(* Rows, classes and street names (mappings/).                             *)

SqlEq(v, w) == v = w /\ v # Null
Is(o, s) == SourceOf[o] = s
Live(s) == {o \in Objects : Is(o, s) /\ src[o] # Null}
Copies(s) == {u \in unmatched : Is(u.of, s)}

\* EGiB's class is rodzaj_kod, computed at the load; BDOT10k's are text.
ClassKey(s, raw) == IF s = "egib" THEN raw ELSE Norm[raw]
Tiers(s) == IF s = "bdot10k" THEN {1, 2} ELSE {1}

\* The count of max_neighbours: rows of the one class that touch b, by their
\* centroids not b itself, as far as they reach into every window read.
Neighbours(s, b, windows) ==
  {o \in Live(s) : LET nb == src[o] IN
     /\ SqlEq(ClassKey(s, nb.t1), AdjacencyKey[s])
     /\ nb.at # b.at /\ Meets(nb, b)
     /\ \A w \in windows : Meets(nb, w)}

Applies(s, m, b, count) ==
  /\ \/ m.tier = 1 /\ SqlEq(m.key, ClassKey(s, b.t1))
     \/ m.tier = 2 /\ 2 \in Tiers(s) /\ SqlEq(m.key, ClassKey(s, b.t2))
  /\ m.min = NoValue \/ (b.levels # NoValue /\ b.levels >= m.min)
  /\ m.max = NoValue \/ (b.levels # NoValue /\ b.levels <= m.max)
  /\ m.near = NoValue \/ count <= m.near
Specificity(m) == Cardinality({f \in {"min", "max", "near"} : m[f] # NoValue})

\* ORDER BY tier, specificity DESC LIMIT 1: with a tie, whichever comes first.
Chosen(s, b, count) ==
  LET fit == {m \in types[s] : Applies(s, m, b, count)} IN
  {m \in fit : \A k \in fit : \/ m.tier < k.tier
                              \/ m.tier = k.tier /\ Specificity(m) >= Specificity(k)}

With(tags, key, v) == [k \in DOMAIN tags \cup {key} |-> IF k = key THEN v ELSE tags[k]]
Yes == [building |-> "yes"]

\* The street an address is served with: the row of its settlement, then the
\* global one, then its own; more than one if a table had two of either.
ResolvedStreets(a) ==
  LET Rowed(simc) == {m.osm : m \in {k \in streets : SqlEq(Norm[k.prg], Norm[a.street])
                                                     /\ k.simc = simc}}
      local == IF a.simc = Null THEN {} ELSE Rowed(a.simc)
  IN CASE local # {} -> local
       [] local = {} /\ Rowed(Null) # {} -> Rowed(Null)
       [] OTHER -> {a.street}
Present(v) == v \notin {Null, Blank}

-------------------------------------------------------------------------------
(* The tiles of z14 (tiles.rs).  A scope is how a layer's query is bound:  *)
(* to one tile, by its scan alone; or to a batch, by one scan of them all  *)
(* and a join with each.                                                   *)

Single(x) == [scan |-> Box(CellZoom, x), joined |-> {}]
Batched(x, tiles) == [scan |-> Hull({Box(CellZoom, t) : t \in tiles}),
                      joined |-> {Box(CellZoom, x)}]

Drawn(r, scope) == Meets(r, scope.scan) /\ \A w \in scope.joined : Meets(r, w)
NearWindowsOfScan(scope) ==  \* mutant: neighbours are read for the whole batch
  {Grown(scope.scan)}
NearWindows(scope) == {Grown(scope.scan)} \cup {Grown(w) : w \in scope.joined}

\* The addresses layer, with the tags the map previews.
TileAddressTags(a, street) ==
  [street |-> IF Present(street) THEN street ELSE Null,
   city   |-> IF Present(street) /\ Present(a.place) THEN a.place ELSE Null,
   place  |-> IF ~Present(street) /\ Present(a.place) THEN a.place ELSE Null]
AddressesLayer(scope) ==
  {<<u.of, u.row, {TileAddressTags(u.row, v) : v \in ResolvedStreets(u.row)}>> :
     u \in {k \in Copies("prg") : Drawn(k.row, scope)}}

SourceTag == [bdot10k |-> "BDOT", egib |-> "EGiB"]
\* The mapping's tags, and two columns the frontend lets outrank them.
Columns(s, b) ==
  [k \in {"source:building"} \cup (IF b.levels >= 1 THEN {"building:levels"} ELSE {}) |->
     IF k = "source:building" THEN SourceTag[s] ELSE ToString(b.levels)]
Outranked(columns, tags) ==
  [k \in DOMAIN columns \cup DOMAIN tags |-> IF k \in DOMAIN columns THEN columns[k] ELSE tags[k]]
TileBuildingTags(s, b, scope) ==
  LET chosen == Chosen(s, b, Cardinality(Neighbours(s, b, NearWindows(scope))))
  IN {Outranked(Columns(s, b), t) : t \in IF chosen = {} THEN {Yes} ELSE {m.tags : m \in chosen}}
BuildingsLayer(scope) ==
  {<<u.of, u.row, TileBuildingTags(SourceOf[u.of], u.row, scope)>> :
     u \in {k \in unmatched : SourceOf[k.of] \in BuildingSources /\ Drawn(k.row, scope)}}

\* The legend layers: the source tables, and which records are reported.
AllLayer(sources, scope) ==
  {<<o, src[o], o \in reported>> :
     o \in {k \in Objects : SourceOf[k] \in sources /\ src[k] # Null /\ Drawn(src[k], scope)}}

Z14Tile(scope) ==
  <<AddressesLayer(scope), BuildingsLayer(scope),
    AllLayer({"prg"}, scope), AllLayer(BuildingSources, scope)>>

-------------------------------------------------------------------------------
(* The tiles of z12 and z13: points, by cell.  The scan is the cell range  *)
(* of the batch, the join is by the tile.                                  *)

PointsTile(z, x, tiles) ==
  LET shift == CellZoom - z
      lo == Shl(Min(tiles), shift)
      hi == Shl(Max(tiles) + 1, shift) - 1
  IN {<<u.of, SourceOf[u.of], u.row.at>> :
        u \in {k \in unmatched : CellOf(k.row) \in lo..hi /\ Shr(CellOf(k.row), shift) = x}}

\* render_tile; render_block, for a block of tiles of one zoom.
RenderTile(t) ==
  IF t[1] = CellZoom THEN Z14Tile(Single(t[2])) ELSE PointsTile(t[1], t[2], {t[2]})
RenderBlock(z, tiles) ==
  [x \in tiles |-> IF z = CellZoom THEN Z14Tile(Batched(x, tiles))
                   ELSE PointsTile(z, x, tiles)]

\* render_blocks: the keys under one ancestor, RenderBlockShift up.
BlockOf(t) == <<t[1], Shr(t[2], RenderBlockShift)>>
RenderBlocks(keys) ==
  {[z |-> b[1], tiles |-> {t[2] : t \in {k \in keys : BlockOf(k) = b}}] :
     b \in {BlockOf(k) : k \in keys}}

-------------------------------------------------------------------------------
(* The tiles of z5 to z11: counts in bins, with what they are out of.      *)

AggZooms == 5..11
BinShift(z) == CellZoom - Min({z + 5, CellZoom})
AggRange(z, x) == LET shift == CellZoom - z IN Shl(x, shift) .. Shl(x + 1, shift) - 1
RatioUnknown == <<-1, 1>>
Ratio(n, t) == IF t > 0 THEN <<Min({n, t}), t>> ELSE RatioUnknown
InBin(z, x, bin) ==
  {u \in unmatched : CellOf(u.row) \in AggRange(z, x) /\ Shr(CellOf(u.row), BinShift(z)) = bin}
TotalInBin(z, x, bin, s) ==
  MapThenSumSet(LAMBDA c : totals[c][s],
    {c \in DOMAIN totals : c \in AggRange(z, x) /\ Shr(c, BinShift(z)) = bin})
\* A bin with rows or totals; its envelope is that of a tile BinShift above z14.
AggTile(z, x) ==
  {[bin |-> bin, box |-> Box(CellZoom - BinShift(z), bin),
    counts |-> [s \in Sources |-> Cardinality({u \in InBin(z, x, bin) : Is(u.of, s)})],
    ratio  |-> [s \in Sources |->
                  Ratio(Cardinality({u \in InBin(z, x, bin) : Is(u.of, s)}),
                        TotalInBin(z, x, bin, s))]] :
     bin \in {Shr(c, BinShift(z)) : c \in AggRange(z, x) \cap
                ({CellOf(u.row) : u \in unmatched} \cup DOMAIN totals)}}

-------------------------------------------------------------------------------
(* /package (package.rs).                                                  *)

ParsedDatasets(names) == IF names = {} \/ "all" \in names THEN Sources ELSE names
\* parse_polygon_body and check_area.  An area that GEOS cannot repair to one
\* with an inside is not among Areas.
Accepted(area) ==
  /\ area # {} /\ \A w \in area : w.lo <= w.hi
  /\ LET h == Hull(area) IN h.lo < h.hi /\ h.hi - h.lo <= MaxArea

Packaged(area, datasets) ==
  {u \in unmatched : /\ SourceOf[u.of] \in ParsedDatasets(datasets)
                     /\ Meets(u.row, Hull(area))
                     /\ \E w \in area : Meets(u.row, w)}

\* building_tags, then with_building_levels.
BuildingTags(s, resolved) == With(resolved, "source:building", SourceTag[s])
WithBuildingLevels(tags, levels) ==
  IF levels # NoValue /\ levels >= 1 THEN With(tags, "building:levels", ToString(levels))
  ELSE tags
\* egib_building_tags_sql and bdot10k_building_tags_sql, near being the window
\* of the neighbours.
ExportBuildingTags(s, b, near) ==
  LET chosen == Chosen(s, b, Cardinality(Neighbours(s, b, {near}))) IN
  {WithBuildingLevels(BuildingTags(s, t), b.levels) :
     t \in IF chosen = {} THEN {Yes} ELSE {m.tags : m \in chosen}}
\* address_tags
AddressTags(a, street) ==
  LET city == IF Present(a.place) THEN a.place ELSE Null IN
  IF Present(street) THEN [street |-> street, city |-> city, place |-> Null]
  ELSE [street |-> Null, city |-> Null, place |-> city]

-------------------------------------------------------------------------------
(* The JOSM plugin (josm_plugins.rs): any building of the source, the      *)
(* nearest one strictly within the distance, the smaller key at a tie.     *)

DistanceTo(r, p) == Max({0, r.lo - p, p - r.hi})
SearchBox(p, d) == LET half == Min({d, MaxHalfWidth}) IN Span(p - half, p + half)
Nearest(s, p, d) ==
  LET near == {o \in Live(s) : Meets(src[o], SearchBox(p, d)) /\ DistanceTo(src[o], p) < d} IN
  {o \in near : \A k \in near \ {o} :
     \/ DistanceTo(src[o], p) < DistanceTo(src[k], p)
     \/ DistanceTo(src[o], p) = DistanceTo(src[k], p) /\ o < k}

-------------------------------------------------------------------------------
(* What changes the tables.  EnqueueBoth is what the producers do; a drain *)
(* and a swap of building types only have tiles to redo.                   *)

EnqueueBoth(cs) == matchQ' = matchQ \cup cs /\ tileRows' = cs

\* update::dataset's apply: the cells left and the cells entered, and the
\* reports of what changed retire.
Refresh(s) ==
  \E loaded \in [{o \in Objects : Is(o, s)} -> Rows \cup {Null}] :
    LET new == [o \in Objects |-> IF Is(o, s) THEN loaded[o] ELSE src[o]]
        changed == {o \in Objects : new[o] # src[o]}
    IN
    /\ \A o \in DOMAIN loaded : loaded[o] \in RowsOf[o] \cup {Null}
    /\ changed # {} /\ \E o \in Objects : Is(o, s) /\ new[o] # Null
    /\ src' = new
    /\ reported' = reported \ changed
    /\ EnqueueBoth({CellOf(r) : r \in ({src[o] : o \in changed} \cup {new[o] : o \in changed})
                                        \ {Null}})
    /\ UNCHANGED <<unmatched, types, streets, totals>>

\* POST /report, and the revocation of a report.
Report(o) ==
  /\ src[o] # Null /\ o \notin reported
  /\ reported' = reported \cup {o}
  /\ EnqueueBoth({CellOf(src[o])})
  /\ UNCHANGED <<src, unmatched, types, streets, totals>>
Revoke(o) ==
  /\ o \in reported
  /\ reported' = reported \ {o}
  /\ EnqueueBoth({CellOf(src[o])})
  /\ UNCHANGED <<src, unmatched, types, streets, totals>>

\* A batch of OSM diffs: it moves what OSM has, and no tile until the drain.
OsmDiff(c) ==
  /\ c \notin matchQ /\ \E o \in Objects : src[o] # Null /\ CellOf(src[o]) = c
  /\ matchQ' = matchQ \cup {c} /\ tileRows' = {}
  /\ UNCHANGED tables

\* The recompute of a cell: any of its records may be unmatched, but those of
\* InOsm and the reported ones.
Drain(c) ==
  LET inCell == {o \in Objects : src[o] # Null /\ CellOf(src[o]) = c} IN
  /\ c \in matchQ
  /\ \E found \in SUBSET (inCell \ (InOsm \cup reported)) :
       unmatched' = {u \in unmatched : CellOf(u.row) # c}
                    \cup {[of |-> o, row |-> src[o]] : o \in found}
  /\ totals' = [k \in (DOMAIN totals \ {c}) \cup (IF inCell = {} THEN {} ELSE {c}) |->
                  IF k = c THEN [s \in Sources |-> Cardinality({o \in inCell : Is(o, s)})]
                  ELSE totals[k]]
  /\ matchQ' = matchQ \ {c} /\ tileRows' = {c}
  /\ UNCHANGED <<src, types, streets, reported>>

-------------------------------------------------------------------------------
(* mappings::building_types: a file is loaded whole or not at all.         *)

SetOf(file) == {file[i] : i \in DOMAIN file}
Cleaned(file) == [i \in DOMAIN file |-> [file[i] EXCEPT !.key = Norm[@]]]
ValidType(s, m) ==
  /\ m.tier \in Tiers(s) /\ Present(m.key) /\ "building" \in DOMAIN m.tags
  /\ m.min # NoValue /\ m.max # NoValue => m.min <= m.max
  /\ m.near # NoValue => m.near >= 0 /\ m.tier = 1 /\ m.key = AdjacencyKey[s]
TiesRowsOnly(file) ==  \* mutant: only rows with equal bounds are duplicates
  \E i, j \in DOMAIN file : i < j /\ file[i] = file[j]
Ties(file) ==
  \E i, j \in DOMAIN file :
    /\ i < j /\ file[i].tier = file[j].tier /\ file[i].key = file[j].key
    /\ Specificity(file[i]) = Specificity(file[j])
ValidTypes(s, file) == (\A m \in SetOf(file) : ValidType(s, m)) /\ ~Ties(file)

ChangedByNew(old, new) ==  \* mutant: the rows that only the old table has are forgotten
  new \ old
\* The symmetric difference, which the two EXCEPTs have to be parenthesized for.
Changed(old, new) == (old \ new) \cup (new \ old)

\* enqueue_mapping_delta_cells: the source rows of a class whose rows changed.
TypeDeltaCells(s, new) ==
  LET classes == {<<m.tier, m.key>> : m \in Changed(types[s], new)} IN
  {CellOf(src[o]) : o \in {k \in Live(s) :
     \E c \in classes : \/ c[1] = 1 /\ SqlEq(Norm[src[k].t1], c[2])
                        \/ c[1] = 2 /\ 2 \in Tiers(s) /\ SqlEq(Norm[src[k].t2], c[2])}}

SwapTypes(s) ==
  \E file \in TypeFiles[s] :
    LET new == SetOf(Cleaned(file)) IN
    /\ ValidTypes(s, Cleaned(file)) /\ new # types[s]
    /\ types' = [types EXCEPT ![s] = new]
    /\ tileRows' = TypeDeltaCells(s, new)
    /\ UNCHANGED <<src, unmatched, streets, reported, totals, matchQ>>

-------------------------------------------------------------------------------
(* mappings::street_names, which is an input of the match as well.         *)

ValidStreets(file) ==
  /\ \A m \in SetOf(file) : Present(m.prg) /\ Present(m.osm)
  /\ \A i, j \in DOMAIN file :
       i # j => <<Norm[file[i].prg], file[i].simc>> # <<Norm[file[j].prg], file[j].simc>>
Triples(table) == {[m EXCEPT !.prg = Norm[@]] : m \in table}
StreetDeltaCells(new) ==
  LET names == {m.prg : m \in Changed(Triples(streets), Triples(new))} IN
  {CellOf(src[o]) : o \in {k \in Live("prg") : Norm[src[k].street] \in names}}

SwapStreets ==
  \E file \in StreetFiles :
    LET new == SetOf(file) IN
    /\ ValidStreets(file) /\ new # streets
    /\ streets' = new
    /\ EnqueueBoth(StreetDeltaCells(new))
    /\ UNCHANGED <<src, unmatched, types, reported, totals>>

-------------------------------------------------------------------------------
AnswersInit ==
  /\ src = Imported
  /\ unmatched = {[of |-> o, row |-> Imported[o]] : o \in {k \in Objects \ InOsm : Imported[k] # Null}}
  /\ types = [s \in BuildingSources |-> {}] /\ streets = {}
  /\ reported = {}
  /\ totals = [c \in {CellOf(Imported[o]) : o \in {k \in Objects : Imported[k] # Null}} |->
                [s \in Sources |-> Cardinality({o \in Objects :
                   Is(o, s) /\ Imported[o] # Null /\ CellOf(Imported[o]) = c})]]
  /\ matchQ = {} /\ tileRows = {}

AnswersNext ==
  \/ \E s \in Sources : Refresh(s)
  \/ \E o \in Reportable : Report(o) \/ Revoke(o)
  \/ \E c \in Cells : OsmDiff(c) \/ Drain(c)
  \/ \E s \in BuildingSources : SwapTypes(s)
  \/ SwapStreets

AnswersSpec == AnswersInit /\ [][AnswersNext]_answersVars

-------------------------------------------------------------------------------
(* Properties                                                              *)

\* The tables hold rows of the right shape, and the queues cells.
AnswersTypeOK ==
  /\ src \in [Objects -> Rows \cup {Null}]
  /\ unmatched \subseteq [of : Objects, row : Rows]
  /\ DOMAIN types = BuildingSources
  /\ reported \subseteq {o \in Objects : src[o] # Null}
  /\ DOMAIN totals \subseteq Cells /\ matchQ \subseteq Cells /\ tileRows \subseteq Cells

\* A transaction that changes what a stored tile shows names a cell of that
\* tile in tile_dirty_cells, or the tile is of a cell that waits for the
\* match, whose drain will name it (tile_dirty.rs; a stored tile is served
\* until it is invalidated).
RerenderNoted ==
  [][\A t \in Persisted : \/ \E c \in tileRows' \cup matchQ : t \in TilesOf(c)
                          \/ RenderTile(t)' = RenderTile(t)]_answersVars

\* A tile is the same whether a request renders it alone or the warm-up and
\* the refresh render it in a block (TileScope, render_blocks).
BatchedAsSingle ==
  \A keys \in Batches : \A b \in RenderBlocks(keys) : \A x \in b.tiles :
    RenderBlock(b.z, b.tiles)[x] = RenderTile(<<b.z, x>>)

Inside(p, w) == w.lo <= p /\ p < w.hi
TilesAt(z) == {Shr(c, CellZoom - z) : c \in Cells}
BinsAt(z) == {Shr(c, BinShift(z)) : c \in Cells}

\* Below z14, on every zoom, a row is in the one tile it lies in, and in the
\* one bin (agg_bin_ctes, points_mvt_sql): none is drawn twice, or nowhere.
OncePerZoom ==
  \A u \in unmatched :
    /\ \A z \in MinPersistedZoom .. CellZoom - 1 : \A x \in TilesAt(z) :
         <<u.of, SourceOf[u.of], u.row.at>> \in PointsTile(z, x, {x})
           <=> Inside(u.row.at, Box(z, x))
    /\ \A z \in AggZooms : \A x \in TilesAt(z) : \A bin \in BinsAt(z) :
         u \in InBin(z, x, bin)
           <=> Inside(u.row.at, Box(z, x)) /\ Inside(u.row.at, Box(CellZoom - BinShift(z), bin))

TilesAgree == BatchedAsSingle /\ OncePerZoom

\* What the readers say of a building, and what they know of its neighbours.
Readings(u) ==
  LET s == SourceOf[u.of]
      tiles == {x \in Cells : Drawn(u.row, Single(x))}
      areas == {a \in Areas : Accepted(a) /\ u \in Packaged(a, {})}
      josm == {q \in Places \X Distances : src[u.of] = u.row /\ Nearest(s, q[1], q[2]) = {u.of}}
      windows == {Grown(Hull(a)) : a \in areas} \cup {Grown(SearchBox(q[1], q[2])) : q \in josm}
  IN {[window |-> Grown(Box(CellZoom, x)), tags |-> TileBuildingTags(s, u.row, Single(x))] :
        x \in tiles}
     \cup {[window |-> w, tags |-> ExportBuildingTags(s, u.row, w)] : w \in windows}
SeesAll(s, b, window) == Neighbours(s, b, {}) \subseteq Neighbours(s, b, {window})

\* The map's preview, /package and the JOSM plugin say the same tags of a
\* building, if the windows they read hold all that touches it; and what each
\* says does not depend on the order the database finds rows in
\* (josm_plugins.rs: "tagged identically whichever way it is exported").
TaggedAlike ==
  \A u \in unmatched :
    IF Is(u.of, "prg")
    THEN /\ Cardinality(ResolvedStreets(u.row)) = 1
         /\ \A v \in ResolvedStreets(u.row) : TileAddressTags(u.row, v) = AddressTags(u.row, v)
    ELSE LET all == Readings(u) IN
         /\ \A r \in all : Cardinality(r.tags) = 1
         /\ \A r, q \in all :
              SeesAll(SourceOf[u.of], u.row, r.window) /\ SeesAll(SourceOf[u.of], u.row, q.window)
                => r.tags = q.tags
===============================================================================
