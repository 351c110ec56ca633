----------------------------- MODULE MCMatchRule -----------------------------
(***************************************************************************)
(* Three cells of four units, a grid of six and keys of three, so that     *)
(* edges of all kinds fall inside and across objects.                      *)
(***************************************************************************)
EXTENDS MatchRule

CONSTANTS street, town

Footprints == {<<1, 3>>, <<3, 5>>, <<1, 5>>, <<4, 8>>, <<7, 9>>}
\* The third starts on an edge, the last spans more cells than MaxReach.
OsmFootprints == {<<1, 2>>, <<3, 5>>, <<4, 6>>, <<7, 9>>, <<1, 11>>}

Address(x, number, st, place) ==
  [kind |-> "address", geom |-> <<x, x>>, number |-> number, street |-> st, place |-> place,
   city |-> place, inUse |-> TRUE]
Addresses ==
  {Address(x, "1", n[1], n[2]) :
     x \in {0, 2, 3, 4, 5, 6, 8, 10},
     n \in {<<street, Null>>, <<Empty, town>>, <<Null, Null>>}}
  \cup {Address(4, Null, street, town)}

MCRecords ==
  [buildings |-> {[geom |-> f, inUse |-> u] : f \in Footprints, u \in BOOLEAN},
   addresses |-> Addresses]
MCOsmObjects ==
  [buildings |-> {[kind |-> k, geom |-> f] : k \in {"building", "former"}, f \in OsmFootprints},
   addresses |-> Addresses]
===============================================================================
