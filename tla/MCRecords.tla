------------------------------ MODULE MCRecords ------------------------------
(***************************************************************************)
(* One object in every state that makes a difference, a second that shares *)
(* its cells, and a row with half a key: sources like BDOT10k (version     *)
(* compared, geometry not) and like EGIB and PRG (the other way round).    *)
(***************************************************************************)
EXTENDS Statistics, Loads

CONSTANTS here, there

Row(key, version, attrs, unit, cell, defect) ==
  [key |-> key, version |-> version, attrs |-> attrs, unit |-> unit,
   geom |-> [cell |-> cell, defect |-> defect]]

A == <<"ns", "a">>
B == <<"ns", "b">>
Flats == <<1, "flats", Nil>>  \* in settlement 1

\* Two gminy of one powiat, one of another, and a district nothing is in.
G1 == <<2, 1, 1, 3>>
G2 == <<2, 1, 2, 1>>
H1 == <<2, 2, 1, 1>>
MCTerc == {G1, G2, H1, <<14, 65, 1, 8>>}

MCRows ==
  {Row(A, 1, Flats, G1, here, "none"),
   Row(A, 1, <<1, Nil, "flats">>, G1, here, "none"), \* a tie that swaps two columns
   Row(A, 1, Flats, G2, there, "none"),              \* a tie in what is compared only
   Row(A, 2, Flats, G1, there, "none"),              \* a newer row, moved
   Row(A, 2, Flats, G1, here, "oversized"),          \* a newer row, defective
   Row(A, Nil, <<2, "shed", Nil>>, G1, here, "none"), \* undated, another settlement
   [Row(A, 2, Flats, G1, here, "none") EXCEPT !.geom = Nil],
   Row(B, 1, Flats, H1, there, "none"),
   Row(<<"ns", Nil>>, 1, Flats, G1, here, "none")}

MCWithin == {<<>>, <<2, 1>>}

MCSpecs == {[version |-> TRUE, geometry |-> FALSE], [version |-> FALSE, geometry |-> TRUE]}

(* Files of a few rows that share a key, with every pair of defects; points *)
(* on both sides of a border that is not the same for its mirror image; and *)
(* archives of up to two entries that end well, in an error or half way.    *)

FileRow(id, key, version, defects) == [id |-> id, key |-> key, version |-> version, defects |-> defects]
MCPolygonRows ==
  {FileRow(1, <<"ns", "a">>, 1, {}), FileRow(2, <<"ns", "a">>, 2, {}), FileRow(3, <<"ns", "a">>, 2, {}),
   FileRow(4, <<"ns", "a">>, 3, {"invalid", "wide"}), FileRow(5, <<"ns", "a">>, Null, {}),
   FileRow(6, <<"ns", "b">>, 1, {"wide"}), FileRow(7, <<"ns", "b">>, 1, {"small", "empty"}),
   FileRow(8, <<"ns", Null>>, 1, {}), FileRow(9, <<Null, "a">>, 2, {"invalid"})}

PointRow(id, key, first, second, srsName) ==
  [id |-> id, key |-> <<key>>, version |-> Null, first |-> first, second |-> second, srsName |-> srsName]
MCPoints ==
  {PointRow(1, "a", 1, 2, "EPSG:2180"), PointRow(2, "b", 1, 1, "EPSG:2180"),
   PointRow(3, "c", 3, 1, "EPSG:2180"), PointRow(4, "d", 3, 1, "urn"), PointRow(5, "e", 1, 3, "urn"),
   PointRow(6, "f", 1, 3, "EPSG:2180"), PointRow(7, "a", 1, 2, "EPSG:2180"), PointRow(8, Null, 3, 3, "urn"),
   PointRow(9, "g", Null, 1, "EPSG:2180"), PointRow(10, Null, Null, 1, "urn")}
MCPoland == {[e |-> 1, n |-> 1], [e |-> 1, n |-> 2], [e |-> 2, n |-> 2], [e |-> 3, n |-> 1]}

SomeOf(n, rows) == {s \in SUBSET rows : Cardinality(s) <= n}

Entry(name, rows, ends) == [name |-> name, rows |-> rows, ends |-> ends]
MCEntries ==
  {Entry("gml", {PointRow(1, "a", 1, 2, "EPSG:2180")}, "read"), Entry("gml", {}, "read"),
   Entry("gml", {PointRow(2, "a", 3, 1, "EPSG:2180")}, "stopped"), Entry("gml", {}, "failed"),
   Entry("gml", {PointRow(3, "b", 3, 3, "EPSG:2180"), PointRow(4, "c", 3, 3, "urn")}, "read"),
   Entry("xml", {PointRow(9, "z", 1, 1, "urn")}, "read")}
MCArchives == UNION {[1 .. n -> MCEntries] : n \in 0 .. 2}

ASSUME RowsAccounted(SomeOf(4, MCPolygonRows), SomeOf(4, MCPoints))
ASSUME ObjectsSurvive(SomeOf(4, MCPolygonRows))
ASSUME HintHolds(SomeOf(4, MCPoints))
ASSUME NoTruncatedLoad(MCArchives, "auto")
ASSUME ConversionComesBack
===============================================================================
