-------------------------------- MODULE MCOsm --------------------------------
(***************************************************************************)
(* Two nodes that carry the ways, a way that is a member of a relation, a  *)
(* second way, and the diffs that move, re-tag, delete and bring back each *)
(* of them, alone or with what refers to it.                               *)
(*                                                                         *)
(* The application of the diffs (OsmApply) and the download of their files *)
(* (OsmPrefetch) share no state here, the one takes from the other that a  *)
(* wanted file is there: a behaviour is of one of them (about), and the    *)
(* variables of the other keep their initial values.                       *)
(***************************************************************************)
EXTENDS OsmApply, OsmPrefetch, OsmObjects, OsmFiles, TLC

CONSTANTS n1, n2, w1, w2, r1, here, there, building, house

VARIABLE about

MCNodes == {n1, n2}
MCWays == {w1, w2}
MCRelations == {r1}
MCPositions == {here, there}
MCTags == {building, house}

Node(p, t) == [at |-> p, tags |-> t]
Refers(s, t) == [refs |-> s, tags |-> t]

MCWorld0 ==
  (n1 :> Node(here, Untagged)) @@ (n2 :> Node(there, house)) @@
  (w1 :> Refers(<<n1, n2>>, Untagged)) @@ (w2 :> Gone) @@
  (r1 :> Refers(<<w1>>, building))

MCDiffs ==
  { n1 :> Node(there, Untagged),
    n1 :> Node(here, house),
    n2 :> Node(here, Untagged),
    n2 :> Node(there, house),
    (n2 :> Gone) @@ (w1 :> Refers(<<n1>>, Untagged)),
    (n2 :> Node(here, house)) @@ (w1 :> Refers(<<n2, n1>>, building)),
    w1 :> Refers(<<n1>>, building),
    w2 :> Refers(<<n1, n1>>, building),
    (w2 :> Gone) @@ (r1 :> Gone),
    (w1 :> Gone) @@ (r1 :> Refers(<<w2>>, house)),
    r1 :> Refers(<<w2, w1>>, building),
    r1 :> Refers(<<>>, building),
    r1 :> Refers(<<w1>>, Untagged) }

(* The objects whose rows are made both ways: rings, an open line, a ring  *)
(* that encloses nothing, one that closes on two nodes, one of which a     *)
(* node is missing, a single node, and a way the store does not hold.      *)

MCLifecycleKeys == <<"demolished:building", "ruins:building">>
MCCoordOf == ("a" :> 1) @@ ("b" :> 2) @@ ("c" :> 3) @@ ("d" :> 1) @@ ("z" :> 0)
MCRefs == {<<"a", "b", "c", "a">>, <<"b", "c", "d", "b">>, <<"a", "b", "c", "d">>,
           <<"a", "b", "c">>, <<"a", "b", "a", "b", "a">>, <<"a", "b", "z", "a">>, <<"a">>, <<>>}
MCRefsOf ==
  ("ring" :> <<"a", "b", "c", "a">>) @@ ("twin" :> <<"a", "b", "c", "d">>) @@
  ("flat" :> <<"a", "b", "a", "b", "a">>) @@ ("open" :> <<"c", "b">>) @@
  ("edge" :> <<"a", "z", "a", "a">>) @@ ("dot" :> <<"a">>)
MCMembers ==
  [type : {"way"}, ref : DOMAIN MCRefsOf \cup {"gone"}, role : {"outer", "inner", "", "outline"}]
    \cup [type : {"node"}, ref : {"a"}, role : {""}]

ASSUME OneLifecycleRule
ASSUME WaysAgree(MCRefs)
ASSUME RelationsAgree(UNION {[1 .. n -> MCMembers] : n \in 1 .. 2})
ASSUME RebuildKeepsTags(MCRefs)

(* Ids of four bits in groups of two, so that differences wrap and every   *)
(* integer of more than one group occurs.                                  *)
ASSUME RefsComeBack(UNION {[1 .. n -> StoredIds] : n \in 0 .. 3})
ASSUME MergesComeBack({<<>>, <<7>>, <<7, 2>>}, UNION {[1 .. n -> {1, 2}] : n \in 1 .. 4})
ASSUME NoOtherFormat({1, 2})

(* Elements with and without parts, positions and numbers, in documents of *)
(* at most two blocks; headers and blobs of at most two fields.            *)
MCElements ==
  {[kind |-> "node", attrs |-> [id |-> 1, version |-> 2, lon |-> 3, lat |-> 4],
    parts |-> <<[name |-> "tag", attrs |-> [k |-> "name", v |-> "x"]]>>],
   [kind |-> "node", attrs |-> [id |-> 1, version |-> 3], parts |-> <<>>],
   [kind |-> "way", attrs |-> [id |-> 1, version |-> 1],
    parts |-> <<[name |-> "nd", attrs |-> [ref |-> 1]],
                [name |-> "tag", attrs |-> [k |-> "building", v |-> "yes"]],
                [name |-> "nd", attrs |-> [ref |-> 2]]>>],
   [kind |-> "relation", attrs |-> [id |-> 1, version |-> 1],
    parts |-> <<[name |-> "member", attrs |-> ("type" :> "way") @@ ("ref" :> 1)],
                [name |-> "tag", attrs |-> [k |-> "type", v |-> "multipolygon"]]>>]}
MCBadElements ==
  {[kind |-> "node", attrs |-> [id |-> 1, lat |-> Garbled], parts |-> <<>>],
   [kind |-> "way", attrs |-> [id |-> Undecodable], parts |-> <<>>],
   [kind |-> "way", attrs |-> [id |-> 1], parts |-> <<[name |-> "nd", attrs |-> [ref |-> Garbled]]>>],
   [kind |-> "relation", attrs |-> [id |-> 1],
    parts |-> <<[name |-> "tag", attrs |-> [k |-> Undecodable]]>>]}
MCBlocks ==
  [action : {"modify", "delete"}, elements : UNION {[1 .. n -> MCElements] : n \in 1 .. 2}]
MCDocuments == UNION {[1 .. n -> MCBlocks] : n \in 0 .. 2}

Field(number, wire, value) == [number |-> number, wire |-> wire, value |-> value]
MCHeaderFields ==
  {Field(1, 2, "OSMHeader"), Field(1, 2, "OSMData"), Field(1, 2, Absent), Field(2, 2, Absent),
   Field(2, 3, 0), Field(3, 0, 9), Field(3, 0, Absent)}
MCBlock == {Field(32, 0, 5), Field(33, 0, 7), Field(33, 0, Absent), Field(33, 2, 8), Field(16, 2, 0)}
MCBlocksOfFields == UNION {[1 .. n -> MCBlock] : n \in 0 .. 2}
MCBlobs ==
  {<<Field(1, 2, b)>> : b \in MCBlocksOfFields}
    \cup {<<Field(2, 0, 9), Field(3, 2, b)>> : b \in MCBlocksOfFields}
    \cup {<<Field(2, 0, Absent)>>, <<Field(3, 2, Garbled)>>, <<Field(1, 2, Absent)>>, <<>>}

ASSUME EveryVersionRead(MCDocuments)
ASSUME NoneSkipped({d \in MCDocuments : Len(d) < 2}, MCBadElements)
ASSUME StampsAgree({0, 7}, {0, 1, 86399, 86400, 951782400, 1234567890, 2147483647},
                   {<<>>, <<Field(16, 2, 0)>>, <<Field(34, 2, 0)>>})
ASSUME NoSequenceInvented(UNION {[1 .. n -> MCHeaderFields] : n \in 0 .. 3}, MCBlobs)
ASSUME DatesFollow(-26000 .. -25000 \cup -800 .. 50000)
ASSUME VarintsRead

MCInit == about \in {"rows", "files"} /\ Init /\ PrefetchInit

MCNext ==
  /\ UNCHANGED about
  /\ \/ about = "rows" /\ Next /\ UNCHANGED prefetchVars
     \/ about = "files" /\ PrefetchNext /\ UNCHANGED vars

\* The fairness of PrefetchSpec.
MCSpec ==
  /\ MCInit /\ [][MCNext]_<<about, vars, prefetchVars>>
  /\ WF_prefetchVars(about = "files" /\ Update) /\ WF_prefetchVars(about = "files" /\ Prefetch)
===============================================================================
