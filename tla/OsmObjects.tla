------------------------------ MODULE OsmObjects ------------------------------
(***************************************************************************)
(* The rows an OSM way or relation has in osm_buildings,                   *)
(* osm_former_buildings and osm_addresses.  They are made twice: import    *)
(* osm makes them in SQL from the tags, refs and roles of the PBF          *)
(* (import::osm), update osm in Rust and SQL from the tags of a diff, or   *)
(* of the rows an object already has, and from what the store holds        *)
(* (update::osm).  An object must not differ by the way it arrived.        *)
(*                                                                         *)
(* Tags are the keys an object carries, each standing for its value.  A    *)
(* line is a sequence of coordinates; a ring covers the coordinates it     *)
(* runs through, and needs three of them to enclose anything.              *)
(***************************************************************************)
EXTENDS Naturals, Sequences, FiniteSets, Functions, SequencesExt

CONSTANTS
  LifecycleKeys,  \* LIFECYCLE_BUILDING_KEYS, by priority
  Coordinates,
  Nowhere,        \* a node the store does not hold
  CoordOf,        \* the coordinates of the nodes
  RefsOf,         \* the refs of the ways the store holds
  None

Vertices == DOMAIN CoordOf

ASSUME ObjectsAssumption ==
  /\ CoordOf \in [Vertices -> Coordinates \cup {Nowhere}]
  /\ Nowhere \notin Coordinates
  /\ \A w \in DOMAIN RefsOf : RefsOf[w] \in Seq(Vertices)

-------------------------------------------------------------------------------
(* Tags                                                                    *)

Has(tags, key) == IF key \in tags THEN key ELSE None

\* COALESCE(addr:city, addr:place), or_else.
City(tags) == IF "addr:city" \in tags THEN "addr:city" ELSE Has(tags, "addr:place")

\* is_former_building_sql around matched_key_sql.
MatchedKeySql(tags) ==
  LET found == SelectSeq(LifecycleKeys, LAMBDA k : k \in tags)
  IN IF found # <<>> /\ Has(tags, "building") = None THEN found[1] ELSE None

\* key_of: the first of the list that the object carries.
KeyOf(tags) ==
  LET places == {i \in DOMAIN LifecycleKeys : LifecycleKeys[i] \in tags}
  IN IF "building" \in tags \/ places = {} THEN None
     ELSE LifecycleKeys[CHOOSE i \in places : \A j \in places : i <= j]

AddressOf(tags) ==
  IF "addr:housenumber" \in tags THEN [city |-> City(tags)] ELSE None

\* change_rebuild_tags, and what the import's WHERE clauses ask for.
ChangeTags(tags) ==
  [building |-> Has(tags, "building"), former |-> KeyOf(tags), address |-> AddressOf(tags)]
ImportTags(tags) ==
  [building |-> Has(tags, "building"), former |-> MatchedKeySql(tags),
   address |-> AddressOf(tags)]

WantsAny(want) == want.building # None \/ want.address # None \/ want.former # None

-------------------------------------------------------------------------------
(* Geometry                                                                *)

\* resolve_node_coords and resolve_way_coords: NULL below two nodes, or when
\* one is missing.
LineOf(refs) ==
  IF Len(refs) < 2 \/ \E i \in DOMAIN refs : CoordOf[refs[i]] = Nowhere
  THEN None ELSE [i \in DOMAIN refs |-> CoordOf[refs[i]]]
WayLine(w) == IF w \in DOMAIN RefsOf THEN LineOf(RefsOf[w]) ELSE None

\* ST_NPoints >= 4 and ST_IsClosed.
ClosedRing(line) == line # None /\ Len(line) >= 4 /\ line[1] = line[Len(line)]

\* ST_MakePolygon, then repaired_geom_sql: only what encloses something is
\* left of it.  Nothing left is no row, by has_polygon_sql in the update and
\* the DELETE of repair_invalid_geometry in the import.
Enclosed(line) == IF Cardinality(Range(line)) < 3 THEN {} ELSE Range(line)

\* outer_polys, inner_polys and relation_polygon_sql over members [line, role].
Assembled(members) ==
  LET Rings(roles) == {i \in DOMAIN members : /\ members[i].role \in roles
                                              /\ ClosedRing(members[i].line)}
      Union(roles) == UNION {Enclosed(members[i].line) : i \in Rings(roles)}
  IN Union({"outer", ""}) \ Union({"inner"})

\* A row of each table, or None.
PolygonRow(key, area) == IF key = None \/ area = {} THEN None ELSE [key |-> key, geom |-> area]
AddressRow(address, line) == IF address = None THEN None ELSE [address |-> address, geom |-> line]
NoRows == [building |-> None, former |-> None, address |-> None]
InTables(want, area, addressRow) ==
  [building |-> PolygonRow(want.building, area), former |-> PolygonRow(want.former, area),
   address |-> addressRow]

-------------------------------------------------------------------------------
(* Ways                                                                    *)

\* import_way_buildings_and_addresses and import_way_former_buildings: a ring
\* is closed when its first and last refs are one node.
ImportedWay(tags, refs) ==
  LET line == LineOf(refs)
      ring == Len(refs) >= 4 /\ refs[1] = refs[Len(refs)] /\ line # None
      want == ImportTags(tags)
  IN InTables(want, IF ring THEN Enclosed(line) ELSE {},
             IF line = None THEN None ELSE AddressRow(want.address, line))

\* unresolved_way_members: the way or one of its nodes is not in the store.
Unresolved(refs) == \E i \in DOMAIN refs : CoordOf[refs[i]] = Nowhere

\* rebuild_way_chunk.
RebuiltWay(want, refs) ==
  LET line == LineOf(refs)
  IN IF WantsAny(want) /\ Unresolved(refs) THEN NoRows
     ELSE InTables(want, IF ClosedRing(line) THEN Enclosed(line) ELSE {},
                  IF line = None THEN None ELSE AddressRow(want.address, line))

-------------------------------------------------------------------------------
(* Relations: members are records [type, ref, role]                        *)

WayMembersOf(members) == SelectSeq(members, LAMBDA m : m.type = "way")
Lines(members) ==
  LET ways == WayMembersOf(members)
  IN SelectSeq([i \in DOMAIN ways |-> [line |-> WayLine(ways[i].ref), role |-> ways[i].role]],
               LAMBDA m : m.line # None)
LinesOnly(lines) == {lines[i].line : i \in DOMAIN lines}

\* import_relation_buildings_and_addresses and
\* import_relation_former_buildings: from the members that resolve.
ImportedRelation(tags, members) ==
  LET lines == Lines(members)
      want == ImportTags(tags)
  IN InTables(want, Assembled(lines),
             IF lines = <<>> THEN None ELSE AddressRow(want.address, LinesOnly(lines)))

\* encode_member_role and decode_member_role: a third kind of role comes back
\* as the empty one.
RoleCode(role) == CASE role \in {"outer", ""} -> 0 [] role = "inner" -> 1 [] OTHER -> 2
RoleName(code) == CASE code = 0 -> "outer" [] code = 1 -> "inner" [] OTHER -> ""
Stored(members) ==
  [i \in DOMAIN members |-> [members[i] EXCEPT !.role = RoleName(RoleCode(@))]]

\* rebuild_relation_chunk: nothing without way members, or when one does not
\* resolve; the address row is there even when no member has a line.
RebuiltRelation(want, members) ==
  LET ways == WayMembersOf(members)
      lines == Lines(Stored(members))
      missing == \E i \in DOMAIN ways :
                   \/ ways[i].ref \notin DOMAIN RefsOf
                   \/ Unresolved(RefsOf[ways[i].ref])
  IN IF ways = <<>> \/ (WantsAny(want) /\ missing) THEN NoRows
     ELSE InTables(want, Assembled(lines), AddressRow(want.address, LinesOnly(lines)))

-------------------------------------------------------------------------------
(* An object that is rebuilt because something under it moved.             *)

\* stored_rebuild_tags: what its rows say; nothing at all without a row.
StoredTagsOf(rows) ==
  [building |-> IF rows.building = None THEN None ELSE rows.building.key,
   former |-> IF rows.former = None THEN None ELSE rows.former.key,
   address |-> IF rows.address = None THEN None ELSE rows.address.address]

-------------------------------------------------------------------------------
(* What the two paths owe each other                                       *)

KnownRoles == {"outer", "inner", ""}
TagKeys ==
  {"building", "addr:housenumber", "addr:city", "addr:place"} \cup Range(LifecycleKeys)

\* The list is read in SQL by the import and in Rust by the update: both find
\* the same former building in any set of tags.
OneLifecycleRule == \A tags \in SUBSET TagKeys : MatchedKeySql(tags) = KeyOf(tags)

\* A way has the same rows whichever path made them, unless its first and last
\* refs are two nodes at one place.
WaysAgree(Refs) ==
  \A refs \in Refs, tags \in SUBSET TagKeys :
    \/ refs # <<>> /\ refs[1] # refs[Len(refs)] /\ CoordOf[refs[1]] = CoordOf[refs[Len(refs)]]
    \/ ImportedWay(tags, refs) = RebuiltWay(ChangeTags(tags), refs)

\* So has a relation whose member ways are all there, with two nodes or more,
\* and whose roles are outer, inner or empty.
RelationsAgree(MemberLists) ==
  \A members \in MemberLists, tags \in SUBSET TagKeys :
    \/ \E i \in DOMAIN members : members[i].role \notin KnownRoles
    \/ \E i \in DOMAIN members : members[i].type = "way" /\ WayLine(members[i].ref) = None
    \/ WayMembersOf(members) = <<>>
    \/ ImportedRelation(tags, members) = RebuiltRelation(ChangeTags(tags), members)

\* An object that is rebuilt from the tags of its rows, over any new geometry,
\* has in each table the row its full tags would give it there, or had no row
\* in that table to take them from.
RebuildKeepsTags(Refs) ==
  \A old \in Refs, new \in Refs, tags \in SUBSET TagKeys :
    LET before == RebuiltWay(ChangeTags(tags), old)
        full == RebuiltWay(ChangeTags(tags), new)
        after == RebuiltWay(StoredTagsOf(before), new)
    IN \A table \in DOMAIN before :
         after[table] = IF before[table] = None THEN None ELSE full[table]
===============================================================================
