------------------------------ MODULE MCServing ------------------------------
(***************************************************************************)
(* Four cells of four units, 6 to 9: a z13 line, a z12 line, the line of   *)
(* two z11 tiles and of two render blocks are among them.  A building of   *)
(* BDOT10k (1) that moves across a cell line, its neighbour (2), which OSM *)
(* has, a building of EGiB (3) and an address (4).                         *)
(*                                                                         *)
(* The tile cache (TileCache) is checked along with the answers, with      *)
(* which it shares no state: a behaviour is of one of the two (about), and *)
(* the variables of the other keep their initial values, those of the      *)
(* answers with nothing imported.  The budget of the cache is eight: a     *)
(* quarter is two, so the largest size is refused, and two to four tiles   *)
(* fill a generation.                                                      *)
(***************************************************************************)
EXTENDS Serving, TileCache, Responses

CONSTANTS house, House, flat, m, street, Street, Ulica, simc, r1, r2, c1, c2, k1, k2, k3

VARIABLE about

MCSourceOf == <<"bdot10k", "bdot10k", "egib", "prg">>
Building(lo, hi, at, t1, t2, levels) ==
  [lo |-> lo, hi |-> hi, at |-> at, t1 |-> t1, t2 |-> t2, levels |-> levels]
Address(x, s, place) ==
  [lo |-> x, hi |-> x, at |-> x, street |-> s, simc |-> simc, place |-> place]

MCRowsOf ==
  << {Building(27, 30, 28, House, flat, 2), Building(31, 34, 32, flat, house, NoValue)},
     {Building(30, 32, 31, House, Null, 1)},
     {Building(30, 33, 31, m, Null, 0)},
     {Address(32, Street, simc)} >>
MCImported ==
  << Building(27, 30, 28, House, flat, 2), Building(30, 32, 31, House, Null, 1),
     Building(30, 33, 31, m, Null, 0), Address(32, Street, simc) >>

MCNorm == [v \in Names \cup {Null, Blank} |->
             CASE v = House -> house [] v = Street -> street [] OTHER -> v]
MCAdjacencyKey == [bdot10k |-> house, egib |-> m]

Type(tier, key, min, max, near, tags) ==
  [tier |-> tier, key |-> key, min |-> min, max |-> max, near |-> near, tags |-> tags]
Detached == "building" :> "detached" @@ "building:levels" :> "9"
House1 == "building" :> "house"
MCTypeFiles ==
  [bdot10k |->
     { << Type(1, House, NoValue, NoValue, NoValue, House1),
          Type(1, House, NoValue, NoValue, 0, Detached) >>,
       << Type(1, flat, 2, NoValue, NoValue, "building" :> "apartments"),
          Type(2, flat, NoValue, NoValue, NoValue, "building" :> "yes"),
          Type(2, house, NoValue, NoValue, NoValue, House1) >>,
       \* Refused: two rows tie for one key.
       << Type(1, house, 1, NoValue, NoValue, House1),
          Type(1, house, NoValue, 5, NoValue, Detached) >> },
   egib |-> { << Type(1, m, NoValue, NoValue, 0, Detached) >>,
              \* Refused: no second tier.
              << Type(2, m, NoValue, NoValue, NoValue, House1) >> }]
Row(sc, prg, osm) == [simc |-> sc, prg |-> prg, osm |-> osm]
MCStreetFiles ==
  { << Row(Null, street, Ulica), Row(simc, Street, street) >>,
    << Row(Null, Street, Ulica) >>,
    \* Refused: the same name in two spellings.
    << Row(Null, street, Ulica), Row(Null, Street, street) >> }

MCAreas == { {Span(28, 32)}, {Span(26, 29)}, {Span(24, 27), Span(33, 36)}, {Span(29, 29)}, {Span(24, 40)} }
Zoomed(z) == {<<z, Shr(c, CellZoom - z)>> : c \in Cells}
MCBatches == { Zoomed(14), Zoomed(13), Zoomed(12), Zoomed(14) \ {<<14, 7>>},
               {<<14, 6>>, <<14, 7>>, <<13, 4>>} }

MCKeys == {k1, k2, k3}
MCRequests == {r1, r2}
MCConns == {c1, c2}
Symmetry == Permutations(MCKeys) \cup Permutations(MCRequests) \cup Permutations(MCConns)

(* Three renders with etags of two characters; clients that accept gzip,   *)
(* refuse it, or say nothing, with the etag of each of them, a list, * and *)
(* rubbish, on each side of every border between the tiers.                *)

MCHashOf == <<<<7, 8>>, <<8, 7>>, <<7, 7>>>>
MCCodings == [coding : {"gzip", "br", "*"}, q : {0, 1}]
MCAccepts == {Nothing} \cup UNION {[1 .. n -> MCCodings] : n \in 1 .. 2}
MCTags == {[tag |-> MCHashOf[b], quoted |-> TRUE] : b \in 1 .. 3}
            \cup {[tag |-> MCHashOf[1], quoted |-> FALSE], [tag |-> Star, quoted |-> FALSE]}
MCKnown == {Nothing, Unreadable} \cup {<<t>> : t \in MCTags} \cup {<<t, u>> : t, u \in MCTags}
MCZooms == {4, 5, 11, 12, 13, 14, 15}
Asking(zooms, accepts, known) == [zoom : zooms, accept : accepts, known : known]

MCCommonAccepts == {Nothing, <<[coding |-> "gzip", q |-> 1]>>, <<[coding |-> "gzip", q |-> 0]>>}

ASSUME HitLikeMiss(Asking(MCZooms, MCCommonAccepts, MCKnown))
ASSUME RevalidatesRight(Asking(MCZooms, MCCommonAccepts, MCKnown))
ASSUME SharedCachesAreSafe(Asking({4, 11, 13}, MCAccepts, {Nothing}))
ASSUME StoredValues

\* A path reaches a file of its own directory, or, with its prefix encoded, a
\* file of any.
MCFiles ==
  {f \in [prefix : {"/fonts/", "/vendor/", "other"}, place : {"fonts", "vendor", "root"},
          status : {200, 304, 404, 405}] :
     (f.prefix = "/fonts/" => f.place = "fonts") /\ (f.prefix = "/vendor/" => f.place = "vendor")}
ASSUME KeptFilesAreServed(MCFiles)

NothingImported ==
  /\ src = [o \in Objects |-> Null] /\ unmatched = {}
  /\ types = [s \in BuildingSources |-> {}] /\ streets = {}
  /\ reported = {} /\ totals = <<>> /\ matchQ = {} /\ tileRows = {}

MCInit ==
  /\ Init
  /\ \/ about = "answers" /\ AnswersInit
     \/ about = "cache" /\ NothingImported

MCNext ==
  /\ UNCHANGED about
  /\ \/ about = "answers" /\ AnswersNext /\ UNCHANGED vars
     \/ /\ about = "cache" /\ Next /\ UNCHANGED answersVars
        \* Two jobs at once only while no more than one tile is kept.
        /\ \/ Cardinality({c \in Conns : conn'[c].user = "job"}) <= 1
           \/ Cardinality(DOMAIN cache'.hot \cup DOMAIN cache'.cold) <= 1

MCSpec == MCInit /\ [][MCNext]_<<about, answersVars, vars>>
===============================================================================
