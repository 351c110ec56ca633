------------------------------ MODULE Statistics ------------------------------
(***************************************************************************)
(* What the statistics page reads of the tables of Records                 *)
(* (server/stats.rs): GET /stats, the national figures, GET /stats/areas,  *)
(* a page of the ranking of gminy or settlements, and GET /stats/units,    *)
(* the units a ranking can be narrowed to (import/teryt.rs).  Here the     *)
(* source is PRG: the first attribute of a row is its settlement, a        *)
(* number, and its unit the TERC code of its gmina, the sequence of its    *)
(* wojewodztwo, powiat, number and type: starts_with is IsPrefix and the   *)
(* key columns have an order.  An answer is one statement or transaction,  *)
(* so it is a value of the state it was read in; the pages of a walk are   *)
(* statements of their own.                                                *)
(***************************************************************************)
EXTENDS Records

CONSTANTS
  Terc,       \* the codes of the TERC map the load came with
  GminaTypes, \* the types of gmina kept of it
  Within,     \* the units rankings are narrowed to; <<>> is none
  PerPage     \* the per_page values

\* units_from_terc: the gminy of the kept types, and what they lie in.
UnitsFromTerc(terc) ==
  LET kept == {code \in terc : code[4] \in GminaTypes}
  IN {SubSeq(code, 1, n) : code \in kept, n \in {1, 2}} \cup kept

ASSUME TercAssumption == \A code \in Terc : code \in Seq(Nat) /\ Len(code) = 4
ASSUME WithinAssumption == Within \subseteq UnitsFromTerc(Terc) \cup {<<>>}
ASSUME PerPageAssumption == PerPage \subseteq Nat \ {0}
ASSUME UnitsAssumption ==
  \A r \in Rows : r.unit \in Terc /\ r.attrs # <<>> /\ r.attrs[1] \in Nat

Levels == {"gmina", "settlement"}
Queries == [level : Levels, sort : {"ratio", "unmatched"}, order : {"desc", "asc"},
            within : Within, per : PerPage]

\* The *_unmatched table, whatever cell its rows were computed for.
UnmatchedRows == UNION {served[c] : c \in Cells}

\* comparable_count_sql and the count of *_unmatched, in one transaction.
Summary ==
  [comparable |-> Cardinality(live), unmatched |-> Cardinality(UnmatchedRows),
   reports |-> Cardinality(reports)]

-------------------------------------------------------------------------------
(* GET /stats/areas                                                        *)

\* A settlement in two gminy is two areas.
KeyColumns(level, r) == IF level = "gmina" THEN r.unit ELSE <<r.attrs[1]>> \o r.unit

Scoped(T, within) == {r \in T : IsPrefix(within, r.unit)}
InArea(T, level, k) == {r \in T : KeyColumns(level, r) = k}

\* Both tables are narrowed and grouped alike; an area that only the unmatched
\* rows know is left out, one without unmatched rows stays.
Areas(q) ==
  LET a == Scoped(live, q.within)
      u == Scoped(UnmatchedRows, q.within)
  IN {[key |-> k, total |-> Cardinality(InArea(a, q.level, k)),
       unmatched |-> Cardinality(InArea(u, q.level, k))] :
        k \in {KeyColumns(q.level, r) : r \in a}}

\* The order of sequences of numbers, of one length.
KeyLess(k, l) ==
  \E i \in DOMAIN k : k[i] < l[i] /\ \A j \in 1 .. i - 1 : k[j] = l[j]

\* The sort keys as cross products: a total is never zero.
Less(q, x, y) ==
  IF q.sort = "ratio" THEN x.unmatched * y.total < y.unmatched * x.total
                      ELSE x.unmatched < y.unmatched
First(q, x, y) == IF q.order = "asc" THEN Less(q, x, y) ELSE Less(q, y, x)
Tied(q, x, y) == ~Less(q, x, y) /\ ~Less(q, y, x)

BeforeNoTiebreak(q, x, y) ==  \* mutant: equal ratios come in any order
  First(q, x, y) \/ Tied(q, x, y)
Before(q, x, y) == First(q, x, y) \/ (Tied(q, x, y) /\ KeyLess(x.key, y.key))

\* What a query with this ORDER BY may return, without LIMIT and OFFSET.
Rankings(q) ==
  {s \in SetToSeqs(Areas(q)) : \A i \in 2 .. Len(s) : Before(q, s[i - 1], s[i])}

Offset(q, page) == (page - 1) * q.per
PageOf(q, ranking, page) ==
  SubSeq(ranking, Offset(q, page) + 1,
         IF Offset(q, page) + q.per < Len(ranking) THEN Offset(q, page) + q.per
                                                   ELSE Len(ranking))
LastPage(q) == (Cardinality(Areas(q)) + q.per - 1) \div q.per

\* count(*) OVER (), or for a page past the end area_count_sql.
TotalItems(q, page) ==
  IF page <= LastPage(q) THEN Cardinality(Areas(q))
  ELSE Cardinality({KeyColumns(q.level, r) : r \in Scoped(live, q.within)})

-------------------------------------------------------------------------------
(* Properties.                                                             *)

\* What a walk through the pages may show when nothing is committed meanwhile.
Walks(q) ==
  {FlattenSeq([p \in 1 .. LastPage(q) |-> PageOf(q, f[p], p)]) :
     f \in [1 .. LastPage(q) -> Rankings(q)]}

\* Every walk meets every area once, though each page is a query of its own;
\* the totals add up to the national figure, at both levels and in every unit,
\* and the unmatched too once nothing waits for a recompute.  Until then an
\* area lacks rows, or has more of them than addresses, only where a cell waits.
WalksAddUp ==
  \A q \in Queries :
    LET addresses == Scoped(live, q.within)
        unmatched == Scoped(UnmatchedRows, q.within)
        Waiting(k) == \E r \in unmatched : KeyColumns(q.level, r) = k /\ r.geom.cell \in queue
    IN /\ \A walk \in Walks(q) :
            /\ Len(walk) = TotalItems(q, LastPage(q) + 1) /\ ToSet(walk) = Areas(q)
            /\ MapThenSumSet(LAMBDA i : walk[i].total, DOMAIN walk) = Cardinality(addresses)
            /\ queue = {} => MapThenSumSet(LAMBDA i : walk[i].unmatched, DOMAIN walk)
                               = Cardinality(unmatched)
       /\ q.within = <<>> => /\ Cardinality(addresses) = Summary.comparable
                             /\ Cardinality(unmatched) = Summary.unmatched
       /\ \A a \in Areas(q) : a.unmatched <= a.total \/ Waiting(a.key)
===============================================================================
