------------------------------- MODULE Records -------------------------------
(***************************************************************************)
(* What a refresh makes of a snapshot of a government source (dataset.rs,  *)
(* the loaders of import/, update/diff.rs, update/changeset.rs): the rows  *)
(* of the file are filtered, made unique by key and compared with the live *)
(* table by key and content; the delta is applied, the cells it touches    *)
(* are queued and the reports on records it changed retire, in one         *)
(* transaction.  SourceRefresh has the order of these steps and what ends  *)
(* them early; here a refresh is one step and the rows are what matters.   *)
(*                                                                         *)
(* A file is a set of rows and a row a record of its columns: the key (one *)
(* column or two), the version that orders duplicates, the compared        *)
(* attributes, the unit it lies in, which is kept and not compared, and    *)
(* the geometry.  Nil is SQL's NULL.  A geometry is the cell of its        *)
(* centroid and its defect, "none" for a sound one.                        *)
(***************************************************************************)
EXTENDS Naturals, Sequences, SequencesExt, FiniteSets, FiniteSetsExt

CONSTANTS
  Rows,      \* the rows files are made of
  Specs,     \* DatasetSpec: what of a row the source compares
  Cells,     \* match cells
  Nil,       \* SQL NULL
  MaxRows,   \* bound: rows of a file
  MaxReports \* bound: active reports

Versions == Nat \cup {Nil}
Defects == {"none", "invalid", "oversized", "undersized"}
Geometries == [cell : Cells, defect : Defects] \cup {Nil}

ASSUME RowsAssumption ==
  \A r \in Rows :
    /\ DOMAIN r = {"key", "version", "attrs", "unit", "geom"}
    /\ r.key # <<>> /\ r.version \in Versions /\ r.geom \in Geometries
ASSUME NilAssumption == Nil \notin Cells
ASSUME SpecsAssumption == Specs \subseteq [version : BOOLEAN, geometry : BOOLEAN]
ASSUME BoundsAssumption == MaxRows \in Nat \ {0} /\ MaxReports \in Nat

VARIABLES
  spec,    \* the source's DatasetSpec
  live,    \* its live table
  queue,   \* match_dirty_cells of the source
  served,  \* *_unmatched, by cell: the rows it was last computed from
  reports, \* active object_reports: record, signature and cell when reported
  loaded   \* history: the file the live table was last loaded from

vars == <<spec, live, queue, served, reports, loaded>>

\* Finite ones: Cardinality says nothing of the others.
Files == {file \in UNION {kSubset(n, Rows) : n \in 1 .. MaxRows} : IsFiniteSet(file)}

-------------------------------------------------------------------------------
(* Content: what a source compares of a row.                               *)

Content(r) ==
  [attrs   |-> r.attrs,
   version |-> IF spec.version THEN r.version ELSE Nil,
   geom    |-> IF spec.geometry THEN r.geom ELSE Nil]

\* mutant: concat skips NULLs, so a value may trade places with one
ContentSignatureSkipsNulls(r) ==
  [Content(r) EXCEPT !.attrs = SelectSeq(@, LAMBDA v : v # Nil)]
\* md5 over the columns, each with a separator and NULLs by a sentinel:
\* two signatures agree exactly when the columns do.
ContentSignature(r) == Content(r)
\* hash() of the same columns is positional and takes NULL for a value.
ContentHash(r) == Content(r)

\* JOIN ... USING (key): no NULL joins anything, itself included.
Joins(r, q) == r.key = q.key /\ ~Contains(r.key, Nil)

-------------------------------------------------------------------------------
(* load_into: the load's WHERE, the geometry filters, then one row a key.  *)

NonNullKey(T) == {r \in T : ~Contains(r.key, Nil)}
\* The three geometry filters; each of them keeps a NULL geometry.
Sound(T) == {r \in T : r.geom = Nil \/ r.geom.defect = "none"}

\* ORDER BY version DESC NULLS LAST.
Newest(S) ==
  {r \in S : \A q \in S : q.version = Nil
                          \/ (r.version # Nil /\ q.version <= r.version)}

FirstRankedNoTiebreak(S) == Newest(S)  \* mutant: ties go by the order of the scan
\* Ties go by signature: which one is first depends on nothing else.
FirstRanked(S) ==
  LET first == CHOOSE sig \in {ContentSignature(r) : r \in Newest(S)} : TRUE
  IN {r \in Newest(S) : ContentSignature(r) = first}

\* deduplicate_by_key: the tables that may be left.
Deduplicate(T) ==
  LET keys == {r.key : r \in T}
      Of(k) == {r \in T : r.key = k}
  IN {{kept[k] : k \in keys} :
        kept \in {f \in [keys -> T] : \A k \in keys : f[k] \in FirstRanked(Of(k))}}

\* A version that is not compared is dropped once the duplicates are gone.
DropOrderingColumn(T) ==
  IF spec.version THEN T ELSE {[r EXCEPT !.version = Nil] : r \in T}

LoadIntoDedupFirst(file) ==  \* mutant: duplicates go before the defective rows do
  {Sound(DropOrderingColumn(T)) : T \in Deduplicate(NonNullKey(file))}
LoadInto(file) ==
  {DropOrderingColumn(T) : T \in Deduplicate(Sound(NonNullKey(file)))}

-------------------------------------------------------------------------------
(* The refresh of the live table from a staged one.                        *)

Added(staging) == {s \in staging : \A l \in live : ~Joins(s, l)}
Removed(staging) == {l \in live : \A s \in staging : ~Joins(l, s)}
\* The modified records: as they are live, and as they are staged.
ModifiedHere(staging) ==
  {l \in live : \E s \in staging : Joins(s, l) /\ ContentHash(s) # ContentHash(l)}
ModifiedThere(staging) ==
  {s \in staging : \E l \in live : Joins(s, l) /\ ContentHash(s) # ContentHash(l)}

Delta(staging) ==
  [out |-> Removed(staging) \cup ModifiedHere(staging),
   in  |-> Added(staging) \cup ModifiedThere(staging)]

Located(T) == {r \in T : r.geom # Nil}
CellsOf(T) == {r.geom.cell : r \in Located(T)}
ChangedCellsAfterDelta(staging) ==  \* mutant: live is read once the delta is in
  CellsOf(Delta(staging).in)
\* create_changed_cells: where a record was and where it is now.
ChangedCells(staging) == CellsOf(Delta(staging).in) \cup CellsOf(Delta(staging).out)

\* reconcile_source: the reports whose record is gone from T or has changed.
Stale(T) ==
  {p \in reports : ~\E r \in T : r.key = p.key /\ ContentSignature(r) = p.signature}

RowsIn(T, reps, c) ==
  {r \in Located(T) : r.geom.cell = c /\ \A p \in reps : p.key # r.key}

\* dataset::refresh; an empty snapshot is refused, and whatever fails or
\* cancels a refresh leaves everything as it was.
Refresh ==
  \E file \in Files :
    \E staging \in LoadInto(file) :
      /\ staging # {}
      /\ live' = (live \ Delta(staging).out) \cup Delta(staging).in
      /\ LET stale == Stale(live')
         IN /\ queue' = queue \cup ChangedCells(staging)
                              \cup ({p.cell : p \in stale} \ {Nil})
            /\ reports' = reports \ stale
      /\ loaded' = file
      /\ UNCHANGED <<spec, served>>

\* reports::insert: a report on a record of the live table.
Report ==
  /\ Cardinality(reports) < MaxReports
  /\ \E r \in live :
       LET cell == IF r.geom = Nil THEN Nil ELSE r.geom.cell
       IN /\ reports' = reports \cup
               {[key |-> r.key, signature |-> ContentSignature(r), cell |-> cell]}
          /\ queue' = queue \cup ({cell} \ {Nil})
  /\ UNCHANGED <<spec, live, served, loaded>>

\* reports revoke, from the command line.
Revoke ==
  /\ \E p \in reports :
       /\ reports' = reports \ {p}
       /\ queue' = queue \cup ({p.cell} \ {Nil})
  /\ UNCHANGED <<spec, live, served, loaded>>

\* The drain recomputes a cell.
Recompute ==
  /\ \E c \in queue :
       /\ served' = [served EXCEPT ![c] = RowsIn(live, reports, c)]
       /\ queue' = queue \ {c}
  /\ UNCHANGED <<spec, live, reports, loaded>>

\* The source is imported from a first file and compared in full.
Init ==
  /\ spec \in Specs
  /\ loaded \in Files
  /\ live \in LoadInto(loaded)
  /\ queue = {} /\ reports = {}
  /\ served = [c \in Cells |-> RowsIn(live, {}, c)]

Next == Refresh \/ Report \/ Revoke \/ Recompute

Spec == Init /\ [][Next]_vars

-------------------------------------------------------------------------------
(* Properties.                                                             *)

TypeOK ==
  /\ spec \in Specs /\ loaded \in Files
  /\ \A r \in live :
       ~Contains(r.key, Nil) /\ r.version \in Versions /\ r.geom \in Geometries
  /\ queue \subseteq Cells
  /\ DOMAIN served = Cells
  /\ \A p \in reports : p.cell \in Cells \cup {Nil}

Usable(u) == ~Contains(u.key, Nil) /\ (u.geom = Nil \/ u.geom.defect = "none")
Newer(u, v) == u.version # Nil /\ (v.version = Nil \/ v.version < u.version)

\* The live table holds each object of the file once, with the content of a
\* newest usable row, and nothing else: a defective newer duplicate falls
\* back to the older row instead of losing the object (deduplicate_by_key).
LiveIsFile ==
  /\ \A r, q \in live : r.key = q.key => r = q
  /\ \A u \in loaded : Usable(u) => \E r \in live : r.key = u.key
  /\ \A r \in live :
       \E u \in loaded :
         /\ Usable(u) /\ u.key = r.key /\ r.attrs = u.attrs
         /\ spec.version => r.version = u.version
         /\ spec.geometry => r.geom = u.geom
         /\ \A v \in loaded : Usable(v) /\ v.key = u.key => ~Newer(v, u)

\* The file the table was loaded from, loaded again, changes nothing: equal
\* versions do not come out one way one week and another way the next.
NoPhantom == \A T \in LoadInto(loaded) : Delta(T).in = {} /\ Delta(T).out = {}

\* A cell is served from its records as they are, or waits in the queue,
\* whatever moved in or out, disappeared, or was reported and retired.
CellServedOrQueued == \A c \in Cells : served[c] = RowsIn(live, reports, c) \/ c \in queue

\* A report outlives a refresh exactly when its record is in the live table
\* and has kept the attributes the refresh compares (reconcile_source).
Unchanged(k) ==
  \E r \in live, q \in live' :
    /\ r.key = k /\ q.key = k /\ r.attrs = q.attrs
    /\ spec.version => r.version = q.version
    /\ spec.geometry => r.geom = q.geom
ReportsLapseWithRecord ==
  [][loaded' # loaded => \A p \in reports : p \in reports' <=> Unchanged(p.key)]_vars
===============================================================================
