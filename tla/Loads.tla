--------------------------------- MODULE Loads ---------------------------------
(***************************************************************************)
(* What an operator is told of a load and what a load that fails leaves    *)
(* (import::bdot10k, egib, prg, prg_axis; dataset's filters): every row of *)
(* the file is stored or counted under one reason; a PRG archive is        *)
(* streamed entry by entry into a raw table, which a later run may find;   *)
(* points read in the wrong axis order are refused with a hint; and a      *)
(* BDOT10k load turns a setting of the whole database off and on again.    *)
(*                                                                         *)
(* What the rows of the table then are is in Records.                      *)
(***************************************************************************)
EXTENDS Integers, Sequences, FiniteSets, SequencesExt, FiniteSetsExt

CONSTANTS
  Null,          \* SQL NULL
  Absent,        \* no such table
  Poland,        \* POLAND_EXTENT: the points inside, as [e, n]
  OutsideShare,  \* one in so many rows may be outside: 1 / MAX_OUTSIDE_SHARE
  MaxExampleIds  \* MAX_EXAMPLE_IDS

ASSUME ShareAssumption == OutsideShare \in Nat \ {0} /\ MaxExampleIds \in Nat

-------------------------------------------------------------------------------
(* Filters.  A row has an id of its own, its key (a value per column), its *)
(* version, and the geometry predicates that hold of it; no predicate      *)
(* holds of a geometry that is NULL.                                       *)

HasKey(r) == \A i \in DOMAIN r.key : r.key[i] # Null     \* non_null_key_sql
LacksKey(r) == \E i \in DOMAIN r.key : r.key[i] = Null   \* null_key_sql

\* deduplicate_by_key: all but the first of a key; the signature, the id
\* here, settles a tie.
RankedBefore(q, r) ==
  LET age(x) == IF x.version = Null THEN 0 ELSE x.version
  IN age(q) > age(r) \/ (age(q) = age(r) /\ q.id < r.id)
Duplicates(T) == {r \in T : \E q \in T : q.key = r.key /\ RankedBefore(q, r)}

\* filter_invalid_geometry, filter_oversized_geometry and
\* filter_undersized_geometry, each a scan for ids and a DELETE; what the one
\* before it deleted the next does not see.  The area of an empty geometry is
\* NULL, so it is tested for by name.
Invalid(T) == {r \in T : "invalid" \in r.defects}
Oversized(T) == {r \in T : "wide" \in r.defects}
Undersized(T) == {r \in T : {"small", "empty"} \cap r.defects # {}}

GeometryReasons == <<"invalid-geometry", "oversized-geometry", "undersized-geometry">>
DroppedFor(reason, T) ==
  CASE reason = "invalid-geometry" -> Invalid(T)
    [] reason = "oversized-geometry" -> Oversized(T)
    [] reason = "undersized-geometry" -> Undersized(T)

\* A load in progress: its table, and by reason what it has dropped.
Drop(load, reason, rows) ==
  [table |-> load.table \ rows,
   skipped |-> [load.skipped EXCEPT ![reason] = rows]]

\* LoadStats, and by merge_* the one of the whole load.
Reasons == {"null-key", "missing-coordinates", "duplicate-key"} \cup Range(GeometryReasons)
NoSkips == [reason \in Reasons |-> {}]

Deduplicated(load) == Drop(load, "duplicate-key", Duplicates(load.table))

\* bdot10k::load_into and egib::load_into: the rows without a key are left
\* out by the SELECT and counted by a query of their own.
LoadPolygons(file) ==
  LET loaded == [table |-> {r \in file : HasKey(r)},
                 skipped |-> [NoSkips EXCEPT !["null-key"] = {r \in file : LacksKey(r)}]]
      sound == FoldLeft(LAMBDA load, reason : Drop(load, reason, DroppedFor(reason, load.table)),
                        loaded, GeometryReasons)
  IN Deduplicated(sound)

-------------------------------------------------------------------------------
(* Points.  A row of PRG also has the two numbers as the file writes them, *)
(* NULL or not, and its srsName.                                           *)

\* resolve_coordinate_order: the flag, else the setting; "auto" is no order.
ForcedOrder(flag, setting) == IF flag # Absent THEN flag ELSE setting

\* prg_convert: the order that is forced, else the one its srsName stands for.
PointOf(r, order) ==
  LET eastingFirst == order = "xy" \/ (order = "auto" /\ r.srsName = "EPSG:2180")
  IN IF eastingFirst THEN [e |-> r.first, n |-> r.second] ELSE [e |-> r.second, n |-> r.first]
ExchangedPoint(p) == [e |-> p.n, n |-> p.e]

HasPoint(r) == r.first # Null /\ r.second # Null
LoadedRows(T) == {r \in T : HasPoint(r) /\ HasKey(r)}

OverTolerance(outside, rows) == rows > 0 /\ outside * OutsideShare > rows

\* check_axis_order, of the rows the load keeps.
CheckAxisOrder(T, order) ==
  LET outside == {r \in T : PointOf(r, order) \notin Poland}
      exchanged == {r \in T : ExchangedPoint(PointOf(r, order)) \notin Poland}
      rows == Cardinality(T)
  IN CASE ~OverTolerance(Cardinality(outside), rows) -> "fits"
       [] OverTolerance(Cardinality(outside), rows) /\ ~OverTolerance(Cardinality(exchanged), rows) ->
            "exchanged fits"
       [] OTHER -> "neither fits"

\* The load of materialize_into, its axis order accepted.
LoadPoints(T) ==
  Deduplicated([table |-> LoadedRows(T),
                skipped |-> [NoSkips EXCEPT
                  !["null-key"] = {r \in T : LacksKey(r)},
                  !["missing-coordinates"] = {r \in T : ~HasPoint(r) /\ HasKey(r)}]])

-------------------------------------------------------------------------------
(* The message of the job log.                                             *)

\* format_skip_clause: NULL keys have no ids to show.
SkipClause(reason, rows) ==
  LET shown == IF reason = "null-key" THEN {} ELSE CHOOSE s \in SUBSET rows :
                 Cardinality(s) = (IF Cardinality(rows) < MaxExampleIds THEN Cardinality(rows)
                                   ELSE MaxExampleIds)
  IN [reason |-> reason, count |-> Cardinality(rows), shown |-> shown,
      more |-> IF shown = {} THEN 0 ELSE Cardinality(rows) - Cardinality(shown)]

\* summarize, of an import, and summarize_refresh.
ImportOrder == <<"null-key">> \o GeometryReasons \o <<"duplicate-key">>
RefreshOrder == GeometryReasons \o <<"missing-coordinates", "null-key", "duplicate-key">>
Message(order, skipped) ==
  LET told == SelectSeq(order, LAMBDA reason : skipped[reason] # {})
  IN [i \in DOMAIN told |-> SkipClause(told[i], skipped[told[i]])]

-------------------------------------------------------------------------------
(* PRG's archive: entries with a name, the rows that are read before the   *)
(* entry ends and how it ends.  The database has the raw table and the     *)
(* target.                                                                 *)

\* collect_gml_indices: the legacy .xml entries are not read.
GmlEntries(zip) == SelectSeq(zip, LAMBDA entry : entry.name = "gml")

\* One entry: its batches are appended, the table made with the first one;
\* a shutdown or an error ends the load where it is.
StreamEntry(load, entry) ==
  IF ~load.ok THEN load
  ELSE [ok |-> entry.ends = "read",
        raw |-> IF entry.rows = {} THEN load.raw
                ELSE (IF load.raw = Absent THEN {} ELSE load.raw) \cup entry.rows]

\* stream_gml_into
Stream(db, zip) ==
  LET entries == GmlEntries(zip)
      streamed == FoldLeft(StreamEntry, [ok |-> TRUE, raw |-> Absent], entries)
  IN IF entries = <<>> THEN [ok |-> FALSE, db |-> db]
     ELSE [ok |-> streamed.ok /\ streamed.raw # Absent, db |-> [db EXCEPT !.raw = streamed.raw]]

\* materialize_into
Materialize(db, order) ==
  IF CheckAxisOrder(LoadedRows(db.raw), order) # "fits"
  THEN [ok |-> FALSE, db |-> [db EXCEPT !.raw = Absent]]
  ELSE [ok |-> TRUE, db |-> [raw |-> Absent, target |-> LoadPoints(db.raw).table]]

\* import, and update_prg up to the staging table.
LoadArchive(db, zip, order) ==
  LET streamed == Stream(db, zip)
  IN IF streamed.ok THEN Materialize(streamed.db, order) ELSE streamed

-------------------------------------------------------------------------------
(* BDOT10k's window.  enable_geoparquet_conversion is one for the whole    *)
(* database; EGIB's load_into needs it on.                                 *)

\* A load of which one step may fail: a failed read is put off until the
\* setting is back.
BdotLoad(failing) ==
  IF failing = "off" THEN <<>> ELSE SelectSeq(<<"off", "on">>, LAMBDA s : s # failing)
ConversionAfter(steps) == FoldLeft(LAMBDA on, s : s = "on", TRUE, steps)

-------------------------------------------------------------------------------
SkippedCount(skipped) == MapThenSumSet(LAMBDA reason : Cardinality(skipped[reason]), Reasons)

(* Every row of a file is stored or dropped for one reason, and the job    *)
(* log names each reason with the number of its rows, in the message of an *)
(* import and in that of a refresh (PRG's import writes none).             *)
Accounted(file, load, orders) ==
  /\ load.table \cup UNION Range(load.skipped) = file
  /\ Cardinality(file)
       = Cardinality(load.table) + SkippedCount(load.skipped)
  /\ \A i \in DOMAIN orders :
       LET told == Message(orders[i], load.skipped)
       IN /\ \A reason \in Reasons : load.skipped[reason] # {} => \E j \in DOMAIN told :
               told[j].reason = reason /\ told[j].count = Cardinality(load.skipped[reason])
          /\ \A j \in DOMAIN told :
               told[j].reason # "null-key" =>
                 told[j].count = Cardinality(told[j].shown) + told[j].more

RowsAccounted(polygons, points) ==
  /\ \A file \in polygons : Accounted(file, LoadPolygons(file), <<ImportOrder, RefreshOrder>>)
  /\ \A file \in points : Accounted(file, LoadPoints(file), <<RefreshOrder>>)

(* No object is lost to its own duplicates: a key with a sound row in the  *)
(* file has one in the table, and one only.                                *)
ObjectsSurvive(polygons) ==
  \A file \in polygons :
    LET table == LoadPolygons(file).table
    IN \A r \in file : (HasKey(r) /\ r.defects = {}) =>
         Cardinality({q \in table : q.key = r.key}) = 1

(* The hint that ends a refusal is right for a file of one srsName: if it  *)
(* says so, forcing the other order loads the file, and if it does not,    *)
(* forcing either does not.                                                *)
HintHolds(points) ==
  \A file \in points, order \in {"auto", "xy", "yx"} :
    LET T == LoadedRows(file)
        names == {r.srsName : r \in T}
        easting == order = "xy" \/ (order = "auto" /\ names = {"EPSG:2180"})
        other == IF easting THEN "yx" ELSE "xy"
    IN (names # {} /\ (order = "auto" => Cardinality(names) = 1)) =>
         CASE CheckAxisOrder(T, order) = "exchanged fits" -> CheckAxisOrder(T, other) = "fits"
           [] CheckAxisOrder(T, order) = "neither fits" ->
                \A o \in {"xy", "yx"} : CheckAxisOrder(T, o) # "fits"
           [] OTHER -> TRUE

(* Two loads in a row, whatever ends the first: a target is the table it   *)
(* was before or all the rows of one whole archive, never of a part of one *)
(* and never of two, and only a load that failed leaves a raw table.       *)
NoTruncatedLoad(archives, order) ==
  LET whole(zip) ==
        LoadPoints(UNION {GmlEntries(zip)[i].rows : i \in DOMAIN GmlEntries(zip)}).table
  IN \A one, two \in archives, before \in {Absent, {}} :
       LET first == LoadArchive([raw |-> Absent, target |-> before], one, order)
           second == LoadArchive(first.db, two, order)
       IN /\ first.db.target = (IF first.ok THEN whole(one) ELSE before)
          /\ second.db.target = (IF second.ok THEN whole(two) ELSE first.db.target)
          /\ second.ok => second.db.raw = Absent
          /\ first.ok => \A i \in DOMAIN GmlEntries(one) : GmlEntries(one)[i].ends = "read"

(* The setting is on after a BDOT10k load, whichever step of it fails, but *)
(* for the one that turns it on; during one it is off, for EGIB's load too *)
(* if its job runs then, and nothing keeps the two jobs apart.             *)
ConversionComesBack ==
  LET steps == BdotLoad("none")
  IN /\ \A failing \in {"none", "off", "read"} : ConversionAfter(BdotLoad(failing))
     /\ \A n \in 0 .. Len(steps) : ConversionAfter(SubSeq(steps, 1, n)) <=> n # 1
===============================================================================
