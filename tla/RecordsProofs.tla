--------------------------- MODULE RecordsProofs ---------------------------
(***************************************************************************)
(* Proofs about Records and Statistics, for any rows, files, sources,      *)
(* units and page sizes.                                                   *)
(*                                                                         *)
(* Three facts carry those about Records.  A key is live once              *)
(* (KeysUnique).  The live table is, key by key and content by content, a  *)
(* table its file may be loaded as (Mirrors): what a refresh keeps has the *)
(* content of what it staged.  And the loads of one file agree on the      *)
(* content of every key (LoadsAgree), since a tie that goes by signature   *)
(* is between equals.                                                      *)
(*                                                                         *)
(* That walks add up has three parts.  The ORDER BY of a ranking is a      *)
(* strict order of its areas, so a query has exactly one ranking, whichever*)
(* page it is asked for (AreasOrdered, SortedOnce, SortedSomehow).  The    *)
(* pages meet, so a walk is that ranking (PagesMeet, PagesFlatten).  And   *)
(* the areas share out the rows of both tables, so that their counts add   *)
(* up to a cardinality (AreasShareOut, PartsAdd).  Where the library's     *)
(* operators are defined by recursion, the function they stand for is      *)
(* found by a least place at which another would differ.                   *)
(***************************************************************************)
EXTENDS Statistics, Loads, FiniteSetTheorems, SequenceTheorems, WellFoundedInduction, TLAPS

NonNull(T) == \A r \in T : ~Contains(r.key, Nil)
Unique(T) == \A r, q \in T : r.key = q.key => r = q
\* T and U have the same keys, with the same content.
Agree(T, U) ==
  /\ \A r \in T : \E q \in U : q.key = r.key /\ Content(q) = Content(r)
  /\ \A q \in U : \E r \in T : q.key = r.key /\ Content(q) = Content(r)

KeysUnique == Unique(live) /\ NonNull(live)
Mirrors == loaded \in Files /\ \E T \in LoadInto(loaded) : Agree(live, T)
\* A report is on a live record, as it is.
ReportsCurrent ==
  \A p \in reports : \E r \in live :
    /\ r.key = p.key /\ ContentSignature(r) = p.signature
    /\ p.cell = IF r.geom = Nil THEN Nil ELSE r.geom.cell

\* The row of the file that a row of a loaded table is.
Origin(t, file) ==
  \E u \in Sound(NonNullKey(file)) :
    /\ u \in FirstRanked({v \in Sound(NonNullKey(file)) : v.key = u.key})
    /\ t = IF spec.version THEN u ELSE [u EXCEPT !.version = Nil]

\* Rows are what RowsAssumption says, and files are made of them.
LEMMA FileRows ==
  ASSUME NEW file \in Files, NEW r \in file
  PROVE  /\ DOMAIN r = {"key", "version", "attrs", "unit", "geom"}
         /\ r.version \in Versions /\ r.geom \in Geometries
<1>1. r \in Rows
  BY DEF Files, kSubset
<1> QED
  BY <1>1, RowsAssumption

\* Dropping the version that is not compared leaves the rest of the row.
LEMMA Dropped ==
  ASSUME NEW file \in Files, NEW u \in file
  PROVE  LET t == [u EXCEPT !.version = Nil]
         IN t.key = u.key /\ t.attrs = u.attrs /\ t.geom = u.geom /\ t.version = Nil
BY FileRows

\* What load_into leaves has unique keys without NULLs, comes from the first
\* rows of the file's usable ones, and has the key of each of those.
LEMMA Loaded ==
  ASSUME NEW file \in Files, NEW T \in LoadInto(file)
  PROVE  /\ Unique(T) /\ NonNull(T)
         /\ \A t \in T : Origin(t, file)
         /\ \A u \in Sound(NonNullKey(file)) : \E t \in T : t.key = u.key
<1> DEFINE S == Sound(NonNullKey(file))
           keys == {r.key : r \in S}
           Of(k) == {r \in S : r.key = k}
           WithoutOrder(u) == IF spec.version THEN u ELSE [u EXCEPT !.version = Nil]
<1>1. S \subseteq file /\ \A u \in S : ~Contains(u.key, Nil)
  BY DEF Sound, NonNullKey
<1>2. PICK D \in Deduplicate(S) : T = DropOrderingColumn(D)
  BY DEF LoadInto
<1>3. PICK kept \in [keys -> S] :
        /\ \A k \in keys : kept[k] \in FirstRanked(Of(k))
        /\ D = {kept[k] : k \in keys}
  <2> DEFINE firsts == {f \in [keys -> S] : \A k \in keys : f[k] \in FirstRanked(Of(k))}
  <2>1. D \in {{f[k] : k \in keys} : f \in firsts}
    BY <1>2 DEF Deduplicate
  <2>2. PICK f \in firsts : D = {f[k] : k \in keys}
    BY <2>1
  <2> QED
    BY <2>2
<1>4. \A k \in keys : kept[k] \in S /\ kept[k].key = k
  <2> SUFFICES ASSUME NEW k \in keys PROVE kept[k] \in S /\ kept[k].key = k
    OBVIOUS
  <2>1. kept[k] \in Of(k)
    BY <1>3 DEF FirstRanked, Newest
  <2> QED
    BY <2>1
<1>5. T = {WithoutOrder(kept[k]) : k \in keys}
  BY <1>2, <1>3 DEF DropOrderingColumn
<1>6. \A k \in keys : WithoutOrder(kept[k]).key = k /\ ~Contains(k, Nil)
  BY <1>1, <1>4, Dropped
<1>7. Unique(T) /\ NonNull(T)
  <2> HIDE DEF WithoutOrder, keys
  <2> QED
    BY <1>5, <1>6 DEF Unique, NonNull
<1>8. \A t \in T : Origin(t, file)
  <2> SUFFICES ASSUME NEW k \in keys PROVE Origin(WithoutOrder(kept[k]), file)
    BY <1>5
  <2> DEFINE u == kept[k]
  <2>1. u \in S /\ u.key = k
    BY <1>4
  <2>2. u \in FirstRanked(Of(k))
    BY <1>3
  <2>3. u \in FirstRanked({v \in S : v.key = u.key})
    BY <2>1, <2>2
  <2> HIDE DEF u
  <2>4. Origin(WithoutOrder(u), file)
    BY <2>1, <2>3 DEF Origin
  <2> QED
    BY <2>4 DEF u
<1>9. \A k \in keys : \E t \in T : t.key = k
  <2> HIDE DEF WithoutOrder, keys
  <2> QED
    BY <1>5, <1>6
<1> QED
  BY <1>7, <1>8, <1>9

\* A row that is loaded has the content of the row it comes from.
LEMMA OriginContent ==
  ASSUME NEW file \in Files, NEW t, NEW u \in file,
         t = IF spec.version THEN u ELSE [u EXCEPT !.version = Nil]
  PROVE  t.key = u.key /\ Content(t) = Content(u)
BY Dropped DEF Content

\* Ties go by signature, so every load of a file has the same contents.
LEMMA LoadsAgree ==
  ASSUME NEW file \in Files, NEW T \in LoadInto(file), NEW U \in LoadInto(file)
  PROVE  Agree(T, U)
<1> DEFINE S == Sound(NonNullKey(file))
<1>1. S \subseteq file
  BY DEF Sound, NonNullKey
<1>2. ASSUME NEW V \in LoadInto(file), NEW W \in LoadInto(file), NEW v \in V
      PROVE  \E w \in W : w.key = v.key /\ Content(w) = Content(v)
  <2>1. PICK a \in S : /\ a \in FirstRanked({r \in S : r.key = a.key})
                       /\ v = IF spec.version THEN a ELSE [a EXCEPT !.version = Nil]
    <3>1. Origin(v, file)
      BY Loaded
    <3> QED
      BY <3>1 DEF Origin
  <2>2. PICK w \in W : w.key = a.key
    BY Loaded
  <2>3. PICK b \in S : /\ b \in FirstRanked({r \in S : r.key = b.key})
                       /\ w = IF spec.version THEN b ELSE [b EXCEPT !.version = Nil]
    <3>1. Origin(w, file)
      BY Loaded
    <3> QED
      BY <3>1 DEF Origin
  <2>4. v.key = a.key /\ Content(v) = Content(a)
    BY <1>1, <2>1, OriginContent
  <2>5. w.key = b.key /\ Content(w) = Content(b)
    BY <1>1, <2>3, OriginContent
  <2>6. Content(a) = Content(b)
    BY <2>1, <2>2, <2>3, <2>5 DEF FirstRanked, ContentSignature
  <2> QED
    BY <2>2, <2>4, <2>5, <2>6
<1> QED
  BY <1>2 DEF Agree

\* Agreement is of contents, and of one row with one when keys are unique.
LEMMA AgreeTransitive ==
  ASSUME NEW T, NEW U, NEW V, Agree(T, U), Agree(U, V)
  PROVE  Agree(T, V)
BY DEF Agree

\* Between tables that agree there is no delta.
LEMMA NoDelta ==
  ASSUME KeysUnique, NEW T, Unique(T), NonNull(T), Agree(live, T)
  PROVE  Delta(T).in = {} /\ Delta(T).out = {}
<1>1. \A s \in T, l \in live : s.key = l.key => Content(s) = Content(l)
  BY DEF KeysUnique, Unique, Agree
<1>2. Added(T) = {} /\ Removed(T) = {}
  BY DEF Added, Removed, Joins, KeysUnique, NonNull, Agree
<1>3. ModifiedHere(T) = {} /\ ModifiedThere(T) = {}
  BY <1>1 DEF ModifiedHere, ModifiedThere, Joins, ContentHash
<1> QED
  BY <1>2, <1>3 DEF Delta

-------------------------------------------------------------------------------
(* One refresh.                                                            *)

\* What the delta leaves is the staged table, key by key, and a record it
\* leaves with its content is the very row that was live.
LEMMA Applied ==
  ASSUME KeysUnique, NEW T, Unique(T), NonNull(T),
         NEW L, L = (live \ Delta(T).out) \cup Delta(T).in
  PROVE  /\ Unique(L) /\ NonNull(L) /\ Agree(L, T)
         /\ \A r \in live, q \in L : r.key = q.key /\ Content(r) = Content(q) => r = q
<1> USE DEF Joins, ContentHash
<1>1. \A l \in L : \/ l \in T /\ l \in Added(T) \cup ModifiedThere(T)
                   \/ l \in live /\ l \notin Removed(T) \cup ModifiedHere(T)
  BY DEF Delta, Added, ModifiedThere
<1>2. \A t \in T, l \in live : t.key = l.key =>
        Joins(t, l) /\ Joins(l, t) /\ t \notin Added(T) /\ l \notin Removed(T)
  BY DEF Added, Removed, NonNull, KeysUnique
<1>3. \A t \in T, l \in live : t.key = l.key =>
        /\ t \in ModifiedThere(T) <=> Content(t) # Content(l)
        /\ l \in ModifiedHere(T) <=> Content(t) # Content(l)
  BY DEF ModifiedHere, ModifiedThere, NonNull, Unique, KeysUnique
<1>4. Unique(L)
  <2> SUFFICES ASSUME NEW r \in L, NEW q \in L, r.key = q.key PROVE r = q
    BY DEF Unique
  <2>1. CASE r \in live /\ q \in live
    BY <2>1 DEF KeysUnique, Unique
  <2>2. CASE r \in T /\ q \in T
    BY <2>2 DEF Unique
  <2>3. CASE r \notin T \/ q \notin T
    BY <1>1, <1>2, <1>3, <2>1, <2>3
  <2>4. CASE r \notin live \/ q \notin live
    BY <1>1, <1>2, <1>3, <2>2, <2>4
  <2> QED
    BY <2>1, <2>2, <2>3, <2>4
<1>5. NonNull(L)
  BY <1>1 DEF NonNull, KeysUnique
<1>6. \A l \in L : \E t \in T : t.key = l.key /\ Content(t) = Content(l)
  <2> SUFFICES ASSUME NEW l \in L, l \in live, l \notin Removed(T) \cup ModifiedHere(T)
               PROVE  \E t \in T : t.key = l.key /\ Content(t) = Content(l)
    BY <1>1
  <2>1. PICK t \in T : t.key = l.key
    BY DEF Removed
  <2> QED
    BY <1>3, <2>1
<1>7. \A t \in T : \E l \in L : l.key = t.key /\ Content(l) = Content(t)
  <2> SUFFICES ASSUME NEW t \in T, t \notin Added(T) \cup ModifiedThere(T)
               PROVE  \E l \in L : l.key = t.key /\ Content(l) = Content(t)
    BY DEF Delta
  <2>1. PICK l \in live : l.key = t.key
    BY DEF Added
  <2>2. Content(l) = Content(t) /\ l \notin Removed(T) \cup ModifiedHere(T)
    BY <1>2, <1>3, <2>1
  <2> QED
    BY <2>1, <2>2 DEF Delta
<1>8. ASSUME NEW r \in live, NEW q \in L, r.key = q.key, Content(r) = Content(q)
      PROVE  r = q
  <2>1. CASE q \in live
    BY <1>8, <2>1 DEF KeysUnique, Unique
  <2>2. CASE q \notin live
    BY <1>1, <1>2, <1>3, <1>8, <2>2
  <2> QED
    BY <2>1, <2>2
<1> QED
  BY <1>4, <1>5, <1>6, <1>7, <1>8 DEF Agree

\* While the source is the same, so is what is compared and what is loaded.
LEMMA SpecKept ==
  ASSUME spec' = spec
  PROVE  /\ \A r : Content(r)' = Content(r) /\ ContentSignature(r)' = ContentSignature(r)
         /\ \A file : LoadInto(file)' = LoadInto(file)
<1>1. \A r : Content(r)' = Content(r)
  BY DEF Content
<1>2. \A r : ContentSignature(r)' = ContentSignature(r)
  BY <1>1 DEF ContentSignature
<1>3. \A S : FirstRanked(S)' = FirstRanked(S)
  <2> SUFFICES ASSUME NEW S PROVE FirstRanked(S)' = FirstRanked(S)
    OBVIOUS
  <2>1. {ContentSignature(r)' : r \in Newest(S)} = {ContentSignature(r) : r \in Newest(S)}
    BY <1>2
  <2> QED
    BY <1>2, <2>1 DEF FirstRanked
<1>4. \A T : Deduplicate(T)' = Deduplicate(T)
  BY <1>3 DEF Deduplicate
<1>5. \A T : DropOrderingColumn(T)' = DropOrderingColumn(T)
  BY DEF DropOrderingColumn
<1>6. \A file : LoadInto(file)' = LoadInto(file)
  BY <1>4, <1>5 DEF LoadInto
<1> QED
  BY <1>1, <1>2, <1>6

\* What a refresh does to the table, as the proofs use it.
LEMMA RefreshStep ==
  ASSUME KeysUnique, Refresh
  PROVE  /\ loaded' \in Files /\ spec' = spec /\ served' = served
         /\ \E T \in LoadInto(loaded') :
              /\ Unique(T) /\ NonNull(T)
              /\ live' = (live \ Delta(T).out) \cup Delta(T).in
              /\ CellsOf(Delta(T).in) \cup CellsOf(Delta(T).out) \subseteq queue'
              /\ Unique(live') /\ NonNull(live') /\ Agree(live', T)
         /\ \A r \in live, q \in live' : r.key = q.key /\ Content(r) = Content(q) => r = q
         /\ queue \subseteq queue' /\ reports' = reports \ Stale(live')
<1>0. PICK file \in Files : \E T \in LoadInto(file) :
        /\ live' = (live \ Delta(T).out) \cup Delta(T).in
        /\ queue' = queue \cup ChangedCells(T) \cup ({p.cell : p \in Stale(live')} \ {Nil})
        /\ reports' = reports \ Stale(live')
        /\ loaded' = file
        /\ spec' = spec /\ served' = served
  BY DEF Refresh
<1>1. PICK T \in LoadInto(file) :
        /\ live' = (live \ Delta(T).out) \cup Delta(T).in
        /\ queue' = queue \cup ChangedCells(T) \cup ({p.cell : p \in Stale(live')} \ {Nil})
        /\ reports' = reports \ Stale(live')
        /\ loaded' = file
        /\ spec' = spec /\ served' = served
  BY <1>0
<1>2. Unique(T) /\ NonNull(T)
  BY Loaded
<1>3. /\ Unique(live') /\ NonNull(live') /\ Agree(live', T)
      /\ \A r \in live, q \in live' : r.key = q.key /\ Content(r) = Content(q) => r = q
  BY <1>1, <1>2, Applied
<1> QED
  BY <1>1, <1>2, <1>3 DEF ChangedCells

\* Keys stay unique, and the table stays what its file says.
LEMMA TableInit == Init => KeysUnique /\ Mirrors
<1> SUFFICES ASSUME Init PROVE KeysUnique /\ Mirrors
  OBVIOUS
<1>1. loaded \in Files /\ live \in LoadInto(loaded)
  BY DEF Init
<1> QED
  BY <1>1, Loaded DEF KeysUnique, Mirrors, Agree

\* Every step keeps the two facts about the table.
LEMMA TableNext == KeysUnique /\ Mirrors /\ [Next]_vars => (KeysUnique /\ Mirrors)'
<1> SUFFICES ASSUME KeysUnique, Mirrors, [Next]_vars PROVE (KeysUnique /\ Mirrors)'
  OBVIOUS
<1>1. spec' = spec
  BY DEF Next, Refresh, Report, Revoke, Recompute, vars
<1>2. CASE Refresh
  <2>1. PICK T \in LoadInto(loaded') : Unique(live') /\ NonNull(live') /\ Agree(live', T)
    BY <1>2, RefreshStep
  <2>2. T \in LoadInto(loaded)' /\ Agree(live, T)'
    BY <1>1, <2>1, SpecKept DEF Agree
  <2>3. loaded' \in Files
    BY <1>2, RefreshStep
  <2> QED
    BY <2>1, <2>2, <2>3 DEF KeysUnique, Mirrors, Unique, NonNull
<1>3. CASE UNCHANGED <<live, loaded>>
  <2>1. PICK T \in LoadInto(loaded) : Agree(live, T)
    BY DEF Mirrors
  <2>2. T \in LoadInto(loaded)' /\ Agree(live, T)'
    BY <1>1, <1>3, <2>1, SpecKept DEF Agree
  <2> QED
    BY <1>3, <2>2 DEF KeysUnique, Mirrors, Unique, NonNull
<1> QED
  BY <1>2, <1>3 DEF Next, Report, Revoke, Recompute, vars

\* So they hold always.
LEMMA TableInvariance == Spec => [](KeysUnique /\ Mirrors)
BY TableInit, TableNext, PTL DEF Spec

\* What agrees with a load of its file is the file: each usable key once, with
\* the content of a newest row.
LEMMA MirrorsFile == KeysUnique /\ Mirrors => LiveIsFile
<1> SUFFICES ASSUME KeysUnique, Mirrors PROVE LiveIsFile
  OBVIOUS
<1> DEFINE S == Sound(NonNullKey(loaded))
<1>1. PICK T \in LoadInto(loaded) : Agree(live, T)
  BY DEF Mirrors
<1>2. loaded \in Files
  BY DEF Mirrors
<1>3. S = {u \in loaded : Usable(u)}
  BY DEF Sound, NonNullKey, Usable
<1>4. \A u \in loaded : Usable(u) => \E r \in live : r.key = u.key
  <2> SUFFICES ASSUME NEW u \in S PROVE \E r \in live : r.key = u.key
    BY <1>3
  <2>1. PICK t \in T : t.key = u.key
    BY <1>2, Loaded
  <2> QED
    BY <1>1, <2>1 DEF Agree
<1>5. ASSUME NEW r \in live
      PROVE  \E u \in loaded :
               /\ Usable(u) /\ u.key = r.key /\ r.attrs = u.attrs
               /\ spec.version => r.version = u.version
               /\ spec.geometry => r.geom = u.geom
               /\ \A v \in loaded : Usable(v) /\ v.key = u.key => ~Newer(v, u)
  <2>1. PICK t \in T : t.key = r.key /\ Content(t) = Content(r)
    BY <1>1 DEF Agree
  <2>2. Origin(t, loaded)
    BY <1>2, Loaded
  <2>3. PICK u \in S : /\ u \in FirstRanked({v \in S : v.key = u.key})
                       /\ t = IF spec.version THEN u ELSE [u EXCEPT !.version = Nil]
    BY <2>2 DEF Origin
  <2>4. u.key = r.key /\ Content(u) = Content(r)
    BY <1>2, <1>3, <2>1, <2>3, OriginContent
  <2>5. /\ r.attrs = u.attrs
        /\ spec.version => r.version = u.version
        /\ spec.geometry => r.geom = u.geom
    BY <2>4 DEF Content
  <2>6. ASSUME NEW v \in loaded, Usable(v), v.key = u.key PROVE ~Newer(v, u)
    <3>1. v.version = Nil \/ (u.version # Nil /\ v.version <= u.version)
      BY <1>3, <2>3, <2>6 DEF FirstRanked, Newest
    <3>2. v.version \in Versions /\ u.version \in Versions
      BY <1>2, <1>3, FileRows
    <3> QED
      BY <3>1, <3>2 DEF Newer, Versions
  <2> QED
    BY <1>3, <2>4, <2>5, <2>6
<1> QED
  BY <1>4, <1>5 DEF LiveIsFile, KeysUnique, Unique

\* The live table is its file, whatever rows the files before it had.
THEOREM LiveTableIsItsFile == Spec => []LiveIsFile
BY TableInvariance, MirrorsFile, PTL

\* A file that is loaded again makes no delta, however its ties come out.
THEOREM ReloadsAreSilent == Spec => []NoPhantom
<1>1. KeysUnique /\ Mirrors => NoPhantom
  <2> SUFFICES ASSUME KeysUnique, Mirrors, NEW T \in LoadInto(loaded)
               PROVE  Delta(T).in = {} /\ Delta(T).out = {}
    BY DEF NoPhantom
  <2>1. PICK U \in LoadInto(loaded) : Agree(live, U)
    BY DEF Mirrors
  <2>2. Agree(U, T) /\ Unique(T) /\ NonNull(T)
    BY Loaded, LoadsAgree DEF Mirrors
  <2> QED
    BY <2>1, <2>2, AgreeTransitive, NoDelta
<1> QED
  BY <1>1, TableInvariance, PTL

-------------------------------------------------------------------------------
(* Reports.                                                                *)

\* A report on a row of the live table is current.
OnRow(p, r) ==
  /\ r.key = p.key /\ ContentSignature(r) = p.signature
  /\ p.cell = IF r.geom = Nil THEN Nil ELSE r.geom.cell

\* A report that a refresh leaves is on a row the refresh left.
LEMMA ReportsRefresh ==
  ASSUME KeysUnique, ReportsCurrent, Refresh, NEW p \in reports
  PROVE  /\ p \in reports' <=> \E r \in live, q \in live' : r.key = p.key /\ q.key = p.key /\ Content(r) = Content(q)
         /\ \A r \in live : OnRow(p, r) => (p \in reports' <=> r \in live')
<1>1. PICK r \in live : OnRow(p, r)
  BY DEF ReportsCurrent, OnRow
<1>2. \A q \in live : q.key = p.key => q = r
  BY <1>1 DEF KeysUnique, Unique, OnRow
<1>3. \A q \in live' : q.key = p.key /\ Content(q) = Content(r) => q = r
  BY <1>1, RefreshStep DEF OnRow
<1>4. p \in reports' <=> \E q \in live' : q.key = p.key /\ ContentSignature(q) = p.signature
  BY RefreshStep DEF Stale
<1>5. p \in reports' <=> \E q \in live' : q.key = p.key /\ Content(q) = Content(r)
  BY <1>1, <1>4 DEF OnRow, ContentSignature
<1> QED
  BY <1>1, <1>2, <1>3, <1>5 DEF OnRow

\* Every step leaves every report on a live row.
LEMMA ReportsNext ==
  KeysUnique /\ ReportsCurrent /\ [Next]_vars => ReportsCurrent'
<1> SUFFICES ASSUME KeysUnique, ReportsCurrent, [Next]_vars PROVE ReportsCurrent'
  OBVIOUS
<1>1. spec' = spec
  BY DEF Next, Refresh, Report, Revoke, Recompute, vars
<1>2. SUFFICES \A p \in reports' : \E r \in live' : OnRow(p, r)
  BY <1>1, SpecKept DEF ReportsCurrent, OnRow
<1>3. \A p \in reports : \E r \in live : OnRow(p, r)
  BY DEF ReportsCurrent, OnRow
<1>4. CASE Refresh
  <2>1. reports' \subseteq reports
    BY <1>4, RefreshStep
  <2> QED
    BY <1>3, <1>4, <2>1, ReportsRefresh
<1>5. CASE Report
  <2>1. PICK r \in live :
          reports' = reports \cup
            {[key |-> r.key, signature |-> ContentSignature(r),
              cell |-> IF r.geom = Nil THEN Nil ELSE r.geom.cell]}
    BY <1>5 DEF Report
  <2>2. live' = live
    BY <1>5 DEF Report
  <2> QED
    BY <1>3, <2>1, <2>2 DEF OnRow
<1>6. CASE Revoke
  BY <1>3, <1>6 DEF Revoke
<1>7. CASE Recompute \/ UNCHANGED vars
  BY <1>3, <1>7 DEF Recompute, vars
<1> QED
  BY <1>4, <1>5, <1>6, <1>7 DEF Next

\* So every report always is on one.
LEMMA ReportsInvariance == Spec => [](KeysUnique /\ ReportsCurrent)
<1>1. Init => ReportsCurrent
  BY DEF Init, ReportsCurrent
<1> QED
  BY <1>1, TableInvariance, ReportsNext, PTL DEF Spec

\* A report lapses when its record leaves the table or changes, and only then.
THEOREM ReportsLapse == Spec => ReportsLapseWithRecord
<1>1. KeysUnique /\ ReportsCurrent /\ [Next]_vars
        => [loaded' # loaded => \A p \in reports : p \in reports' <=> Unchanged(p.key)]_vars
  <2> SUFFICES ASSUME KeysUnique, ReportsCurrent, [Next]_vars, loaded' # loaded, NEW p \in reports
               PROVE  p \in reports' <=> Unchanged(p.key)
    OBVIOUS
  <2>1. Refresh
    BY DEF Next, Report, Revoke, Recompute, vars
  <2>2. Unchanged(p.key) <=>
          \E r \in live, q \in live' : r.key = p.key /\ q.key = p.key /\ Content(r) = Content(q)
    BY DEF Unchanged, Content
  <2> QED
    BY <2>1, <2>2, ReportsRefresh
<1> QED
  BY <1>1, ReportsInvariance, PTL DEF Spec, ReportsLapseWithRecord

-------------------------------------------------------------------------------
(* Cells.                                                                  *)

\* A refresh leaves the rows of a cell alone, or queues the cell.
LEMMA RefreshServes ==
  ASSUME KeysUnique, ReportsCurrent, Refresh, NEW c, c \notin queue'
  PROVE  RowsIn(live', reports', c) = RowsIn(live, reports, c)
<1>1. PICK T : /\ live' = (live \ Delta(T).out) \cup Delta(T).in
               /\ CellsOf(Delta(T).in) \cup CellsOf(Delta(T).out) \subseteq queue'
  BY RefreshStep
<1>2. \A r \in Delta(T).in \cup Delta(T).out : r.geom # Nil => r.geom.cell # c
  BY <1>1 DEF CellsOf, Located
<1>3. ASSUME NEW r, r.geom # Nil, r.geom.cell = c PROVE r \in live <=> r \in live'
  BY <1>1, <1>2, <1>3
<1>4. ASSUME NEW r \in live, r \in live', NEW p \in reports, p.key = r.key PROVE p \in reports'
  <2>1. PICK q \in live : OnRow(p, q)
    BY DEF ReportsCurrent, OnRow
  <2>2. q = r
    BY <1>4, <2>1 DEF OnRow, KeysUnique, Unique
  <2> QED
    BY <1>4, <2>1, <2>2, ReportsRefresh
<1>5. reports' \subseteq reports
  BY RefreshStep
<1> QED
  BY <1>3, <1>4, <1>5 DEF RowsIn, Located

\* A report, or the end of one, changes the rows of its own cell only.
LEMMA ReportServes ==
  ASSUME KeysUnique, NEW p, NEW r \in live, OnRow(p, r), NEW R, NEW c, c # p.cell
  PROVE  RowsIn(live, R \cup {p}, c) = RowsIn(live, R, c)
<1>1. \A q \in Located(live) : q.geom.cell = c => q.key # p.key
  BY DEF Located, OnRow, KeysUnique, Unique
<1> QED
  BY <1>1 DEF RowsIn

\* Every step leaves each cell served from its rows, or in the queue.
LEMMA CellsNext ==
  KeysUnique /\ ReportsCurrent /\ TypeOK /\ CellServedOrQueued /\ [Next]_vars => CellServedOrQueued'
<1> SUFFICES ASSUME KeysUnique, ReportsCurrent, TypeOK, CellServedOrQueued, [Next]_vars,
                    NEW c \in Cells, c \notin queue'
             PROVE  served'[c] = RowsIn(live', reports', c)
  BY DEF CellServedOrQueued, RowsIn, Located
<1>1. c \notin queue => served[c] = RowsIn(live, reports, c)
  BY DEF CellServedOrQueued
<1>2. CASE Refresh
  <2>1. c \notin queue /\ served' = served
    BY <1>2, RefreshStep
  <2> QED
    BY <1>1, <1>2, <2>1, RefreshServes
<1>3. CASE Report
  <2>1. PICK r \in live : \E p :
          /\ OnRow(p, r) /\ reports' = reports \cup {p}
          /\ queue' = queue \cup ({p.cell} \ {Nil})
    <3>1. PICK r \in live :
            LET cell == IF r.geom = Nil THEN Nil ELSE r.geom.cell
            IN /\ reports' = reports \cup
                    {[key |-> r.key, signature |-> ContentSignature(r), cell |-> cell]}
               /\ queue' = queue \cup ({cell} \ {Nil})
      BY <1>3 DEF Report
    <3>2. OnRow([key |-> r.key, signature |-> ContentSignature(r),
                 cell |-> IF r.geom = Nil THEN Nil ELSE r.geom.cell], r)
      BY DEF OnRow
    <3> QED
      BY <3>1, <3>2
  <2>2. PICK p : /\ OnRow(p, r) /\ reports' = reports \cup {p}
                 /\ queue' = queue \cup ({p.cell} \ {Nil})
    BY <2>1
  <2>3. c # p.cell
    BY <2>2, NilAssumption
  <2>4. RowsIn(live, reports \cup {p}, c) = RowsIn(live, reports, c)
    BY <2>2, <2>3, ReportServes
  <2> QED
    BY <1>1, <1>3, <2>2, <2>4 DEF Report
<1>4. CASE Revoke
  <2>1. PICK p \in reports : reports' = reports \ {p} /\ queue' = queue \cup ({p.cell} \ {Nil})
    BY <1>4 DEF Revoke
  <2>2. PICK r \in live : OnRow(p, r)
    BY DEF ReportsCurrent, OnRow
  <2>3. RowsIn(live, (reports \ {p}) \cup {p}, c) = RowsIn(live, reports \ {p}, c)
    BY <2>1, <2>2, NilAssumption, ReportServes
  <2>4. (reports \ {p}) \cup {p} = reports
    OBVIOUS
  <2> QED
    BY <1>1, <1>4, <2>1, <2>3, <2>4 DEF Revoke
<1>5. CASE Recompute
  BY <1>1, <1>5 DEF Recompute, TypeOK
<1>6. CASE UNCHANGED vars
  BY <1>1, <1>6 DEF vars
<1> QED
  BY <1>2, <1>3, <1>4, <1>5, <1>6 DEF Next

-------------------------------------------------------------------------------
(* Types, and the rest of the argument for cells.                          *)

\* Rows that are loaded have the types the file's rows have.
LEMMA LoadedTyped ==
  ASSUME NEW file \in Files, NEW T \in LoadInto(file), NEW t \in T
  PROVE  t.version \in Versions /\ t.geom \in Geometries
<1>1. PICK u \in Sound(NonNullKey(file)) :
        t = IF spec.version THEN u ELSE [u EXCEPT !.version = Nil]
  <2>1. Origin(t, file)
    BY Loaded
  <2> QED
    BY <2>1 DEF Origin
<1>2. u \in file
  BY DEF Sound, NonNullKey
<1>3. u.version \in Versions /\ u.geom \in Geometries
  BY <1>2, FileRows
<1>4. CASE spec.version
  BY <1>1, <1>3, <1>4
<1>5. CASE ~spec.version
  <2>1. t.geom = u.geom /\ t.version = Nil
    BY <1>1, <1>2, <1>5, Dropped
  <2> QED
    BY <1>3, <2>1 DEF Versions
<1> QED
  BY <1>4, <1>5

\* The cell a report is put down under is a cell, or none.
LEMMA CellOfRow ==
  ASSUME NEW r, r.geom \in Geometries
  PROVE  (IF r.geom = Nil THEN Nil ELSE r.geom.cell) \in Cells \cup {Nil}
BY DEF Geometries

\* Types hold after the first import.
LEMMA TypeInit == Init => TypeOK
<1> SUFFICES ASSUME Init PROVE TypeOK
  OBVIOUS
<1>1. loaded \in Files /\ live \in LoadInto(loaded)
  BY DEF Init
<1>2. \A r \in live : ~Contains(r.key, Nil) /\ r.version \in Versions /\ r.geom \in Geometries
  BY <1>1, Loaded, LoadedTyped DEF NonNull
<1> QED
  BY <1>1, <1>2 DEF Init, TypeOK

\* Every step keeps the types.
LEMMA TypeNext == TypeOK /\ KeysUnique /\ [Next]_vars => TypeOK'
<1> SUFFICES ASSUME TypeOK, KeysUnique, [Next]_vars PROVE TypeOK'
  OBVIOUS
<1> USE DEF TypeOK
<1>1. CASE Refresh
  <2>1. PICK file \in Files : \E T \in LoadInto(file) :
          /\ live' = (live \ Delta(T).out) \cup Delta(T).in
          /\ queue' = queue \cup ChangedCells(T) \cup ({p.cell : p \in Stale(live')} \ {Nil})
          /\ reports' = reports \ Stale(live')
          /\ loaded' = file /\ UNCHANGED <<spec, served>>
    BY <1>1 DEF Refresh
  <2>2. PICK T \in LoadInto(file) :
          /\ live' = (live \ Delta(T).out) \cup Delta(T).in
          /\ queue' = queue \cup ChangedCells(T) \cup ({p.cell : p \in Stale(live')} \ {Nil})
          /\ reports' = reports \ Stale(live')
          /\ loaded' = file /\ UNCHANGED <<spec, served>>
    BY <2>1
  <2>3. Delta(T).in \subseteq T /\ Delta(T).out \subseteq live
    BY DEF Delta, Added, Removed, ModifiedHere, ModifiedThere
  <2>4. \A r \in T : ~Contains(r.key, Nil) /\ r.version \in Versions /\ r.geom \in Geometries
    BY <2>2, Loaded, LoadedTyped DEF NonNull
  <2>5. ChangedCells(T) \subseteq Cells
    BY <2>3, <2>4 DEF ChangedCells, CellsOf, Located, Geometries
  <2>6. {p.cell : p \in Stale(live')} \ {Nil} \subseteq Cells
    BY DEF Stale
  <2> QED
    BY <2>2, <2>3, <2>4, <2>5, <2>6
<1>2. CASE Report
  <2>1. PICK r \in live :
          LET cell == IF r.geom = Nil THEN Nil ELSE r.geom.cell
          IN /\ reports' = reports \cup
                  {[key |-> r.key, signature |-> ContentSignature(r), cell |-> cell]}
             /\ queue' = queue \cup ({cell} \ {Nil})
    BY <1>2 DEF Report
  <2>2. (IF r.geom = Nil THEN Nil ELSE r.geom.cell) \in Cells \cup {Nil}
    BY CellOfRow
  <2> QED
    BY <1>2, <2>1, <2>2 DEF Report
<1>3. CASE Revoke
  BY <1>3 DEF Revoke
<1>4. CASE Recompute
  BY <1>4 DEF Recompute
<1>5. CASE UNCHANGED vars
  BY <1>5 DEF vars
<1> QED
  BY <1>1, <1>2, <1>3, <1>4, <1>5 DEF Next

\* Every variable keeps its type, and no live record has half a key.
THEOREM TypeCorrect == Spec => []TypeOK
BY TypeInit, TypeNext, TableInvariance, PTL DEF Spec

\* No change of the table, no report and no end of one leaves a cell served
\* from other rows without queueing it.
THEOREM CellsServedOrQueued == Spec => []CellServedOrQueued
<1>1. Init => CellServedOrQueued
  BY DEF Init, CellServedOrQueued
<1> QED
  BY <1>1, CellsNext, TypeCorrect, ReportsInvariance, PTL DEF Spec

-------------------------------------------------------------------------------
(* Orders, and the order of the areas.                                     *)

\* Numbers keep their order when both are multiplied.
LEMMA TimesKeepsOrder ==
  ASSUME NEW x \in Nat, NEW y \in Nat, NEW z \in Nat \ {0}
  PROVE  x * z \in Nat /\ (x <= y <=> x * z <= y * z) /\ (x < y <=> x * z < y * z)
<1>1. ASSUME NEW a \in Nat, NEW b \in Nat, a < b PROVE a * z < b * z
  <2>1. PICK d \in Nat \ {0} : b = a + d
    <3>1. b - a \in Nat \ {0} /\ b = a + (b - a)
      BY <1>1
    <3> QED
      BY <3>1
  <2>2. b * z = a * z + d * z
    BY <2>1
  <2>3. d * z > 0 /\ a * z \in Nat
    OBVIOUS
  <2> QED
    BY <2>2, <2>3
<1>2. x * z \in Nat /\ y * z \in Nat
  OBVIOUS
<1>3. CASE x < y
  BY <1>1, <1>2, <1>3
<1>4. CASE y < x
  <2>1. y * z < x * z
    BY <1>1, <1>4
  <2> QED
    BY <1>2, <1>4, <2>1
<1>5. CASE x = y
  BY <1>2, <1>5
<1> QED
  BY <1>3, <1>4, <1>5

\* Ratios compared by their cross products are ordered: a / p is at most b / q,
\* and that at most c / r.
LEMMA RatiosOrdered ==
  ASSUME NEW a \in Nat, NEW b \in Nat, NEW c \in Nat,
         NEW p \in Nat \ {0}, NEW q \in Nat \ {0}, NEW r \in Nat \ {0},
         a * q <= b * p, b * r <= c * q
  PROVE  a * r <= c * p
<1>1. a * q \in Nat /\ b * p \in Nat /\ b * r \in Nat /\ c * q \in Nat /\ a * r \in Nat /\ c * p \in Nat
  OBVIOUS
<1>2. (a * q) * r <= (b * p) * r /\ (b * r) * p <= (c * q) * p
  BY <1>1, TimesKeepsOrder
<1>3. /\ (a * q) * r = (a * r) * q /\ (b * p) * r = (b * r) * p
      /\ (c * q) * p = (c * p) * q
  OBVIOUS
<1>4. (a * r) * q <= (c * p) * q
  BY <1>1, <1>2, <1>3
<1> QED
  BY <1>1, <1>4, TimesKeepsOrder

\* A non-empty set of numbers has a least one.
LEMMA LeastNumber ==
  ASSUME NEW S \in SUBSET Nat, S # {}
  PROVE  \E n \in S : \A m \in S : n <= m
<1>1. \E n \in S : \A m \in S : <<m, n>> \notin OpToRel(<, Nat)
  BY WFMin, NatLessThanWellFounded
<1>2. \A n, m \in S : <<m, n>> \notin OpToRel(<, Nat) => n <= m
  BY DEF OpToRel
<1> QED
  BY <1>1, <1>2

\* The keys of one level are ordered, and no two are tied.
LEMMA KeysOrdered ==
  ASSUME NEW n \in Nat, NEW k \in [1 .. n -> Nat], NEW l \in [1 .. n -> Nat], NEW m \in [1 .. n -> Nat]
  PROVE  /\ ~KeyLess(k, k)
         /\ KeyLess(k, l) /\ KeyLess(l, m) => KeyLess(k, m)
         /\ k # l => KeyLess(k, l) \/ KeyLess(l, k)
<1>1. ~KeyLess(k, k)
  BY DEF KeyLess
<1>2. ASSUME KeyLess(k, l), KeyLess(l, m) PROVE KeyLess(k, m)
  <2>1. PICK i \in 1 .. n : k[i] < l[i] /\ \A j \in 1 .. i - 1 : k[j] = l[j]
    BY <1>2 DEF KeyLess
  <2>2. PICK h \in 1 .. n : l[h] < m[h] /\ \A j \in 1 .. h - 1 : l[j] = m[j]
    BY <1>2 DEF KeyLess
  <2>3. CASE i <= h
    <3>1. k[i] < m[i]
      BY <2>1, <2>2, <2>3
    <3>2. \A j \in 1 .. i - 1 : k[j] = m[j]
      BY <2>1, <2>2, <2>3
    <3> QED
      BY <3>1, <3>2 DEF KeyLess
  <2>4. CASE h < i
    <3>1. k[h] < m[h]
      BY <2>1, <2>2, <2>4
    <3>2. \A j \in 1 .. h - 1 : k[j] = m[j]
      BY <2>1, <2>2, <2>4
    <3> QED
      BY <3>1, <3>2 DEF KeyLess
  <2> QED
    BY <2>3, <2>4
<1>3. ASSUME k # l PROVE KeyLess(k, l) \/ KeyLess(l, k)
  <2> DEFINE D == {i \in 1 .. n : k[i] # l[i]}
  <2>0. PICK i \in 1 .. n : k[i] # l[i]
    BY <1>3
  <2>d. \A d : d \in D <=> d \in 1 .. n /\ k[d] # l[d]
    OBVIOUS
  <2> HIDE DEF D
  <2>n. i \in D
    BY <2>0, <2>d
  <2>s. D \in SUBSET Nat
    BY <2>d
  <2>2. PICK h \in D : \A j \in D : h <= j
    BY <2>n, <2>s, LeastNumber
  <2>3. h \in 1 .. n /\ \A j \in 1 .. h - 1 : k[j] = l[j]
    <3>1. h \in 1 .. n
      BY <2>2, <2>d
    <3>2. ASSUME NEW j \in 1 .. h - 1 PROVE k[j] = l[j]
      <4>1. j \in 1 .. n /\ ~(h <= j)
        BY <3>1
      <4> QED
        BY <2>2, <2>d, <4>1
    <3> QED
      BY <3>1, <3>2
  <2>4. k[h] < l[h] \/ l[h] < k[h]
    BY <2>2, <2>d
  <2> QED
    BY <2>3, <2>4 DEF KeyLess
<1> QED
  BY <1>1, <1>2, <1>3

\* Before is a strict order of S in which no two tie.
Ordered(q, S) ==
  /\ \A x \in S : ~Before(q, x, x)
  /\ \A x, y, z \in S : Before(q, x, y) /\ Before(q, y, z) => Before(q, x, z)
  /\ \A x, y \in S : x # y => Before(q, x, y) \/ Before(q, y, x)
\* S is made of areas with counts, whose keys tell them apart.
Countable(S) ==
  /\ \A x \in S : x.total \in Nat \ {0} /\ x.unmatched \in Nat
  /\ \A x, y \in S : x.key = y.key => x = y
  /\ \E n \in Nat : \A x \in S : x.key \in [1 .. n -> Nat]

\* Less is a weak order, by ratio and by number.
LEMMA LessOrders ==
  ASSUME NEW q, NEW x, NEW y, NEW z, Countable({x, y, z})
  PROVE  /\ ~Less(q, x, x)
         /\ Less(q, x, y) => ~Less(q, y, x)
         /\ ~Less(q, y, x) /\ ~Less(q, z, y) => ~Less(q, z, x)
<1> DEFINE a == x.unmatched
           b == y.unmatched
           c == z.unmatched
           p == x.total
           t == y.total
           r == z.total
<1>1. a \in Nat /\ b \in Nat /\ c \in Nat /\ p \in Nat \ {0} /\ t \in Nat \ {0} /\ r \in Nat \ {0}
  BY DEF Countable
<1>2. CASE q.sort = "ratio"
  <2>0. /\ Less(q, x, x) <=> a * p < a * p
        /\ Less(q, x, y) <=> a * t < b * p
        /\ Less(q, y, x) <=> b * p < a * t
        /\ Less(q, z, y) <=> c * t < b * r
        /\ Less(q, z, x) <=> c * p < a * r
    BY <1>2 DEF Less
  <2> HIDE DEF a, b, c, p, t, r
  <2>1. /\ a * p \in Nat /\ a * t \in Nat /\ b * p \in Nat /\ c * t \in Nat /\ b * r \in Nat
        /\ c * p \in Nat /\ a * r \in Nat
    BY <1>1
  <2>2. a * t <= b * p /\ b * r <= c * t => a * r <= c * p
    BY <1>1, RatiosOrdered
  <2> QED
    BY <2>0, <2>1, <2>2
<1>3. CASE q.sort # "ratio"
  BY <1>1, <1>3 DEF Less
<1> QED
  BY <1>2, <1>3

\* The ORDER BY of a ranking is a strict order: its last column tells areas apart.
LEMMA AreasOrdered ==
  ASSUME NEW q, NEW S, Countable(S)
  PROVE  Ordered(q, S)
<1>1. PICK n \in Nat : \A x \in S : x.key \in [1 .. n -> Nat]
  BY DEF Countable
<1>2. ASSUME NEW x \in S, NEW y \in S, NEW z \in S PROVE Countable({x, y, z})
  <2>1. \A a \in {x, y, z} : a \in S
    OBVIOUS
  <2> QED
    BY <1>1, <2>1 DEF Countable
<1>3. \A x, y, z \in S :
        /\ ~First(q, x, x)
        /\ First(q, x, y) => ~First(q, y, x)
        /\ ~First(q, y, x) /\ ~First(q, z, y) => ~First(q, z, x)
  <2> SUFFICES ASSUME NEW x \in S, NEW y \in S, NEW z \in S
               PROVE  /\ ~First(q, x, x)
                      /\ First(q, x, y) => ~First(q, y, x)
                      /\ ~First(q, y, x) /\ ~First(q, z, y) => ~First(q, z, x)
    OBVIOUS
  <2>1. Countable({x, y, z}) /\ Countable({z, y, x})
    BY <1>2
  <2>2. CASE q.order = "asc"
    BY <2>1, <2>2, LessOrders DEF First
  <2>3. CASE q.order # "asc"
    BY <2>1, <2>3, LessOrders DEF First
  <2> QED
    BY <2>2, <2>3
<1>4. \A x, y \in S : Tied(q, x, y) <=> ~First(q, x, y) /\ ~First(q, y, x)
  BY DEF Tied, First
<1>5. \A x \in S : ~Before(q, x, x)
  BY <1>1, <1>3, KeysOrdered DEF Before
<1>6. \A x, y \in S : x # y => Before(q, x, y) \/ Before(q, y, x)
  <2> SUFFICES ASSUME NEW x \in S, NEW y \in S, x # y PROVE Before(q, x, y) \/ Before(q, y, x)
    OBVIOUS
  <2>1. x.key # y.key
    BY DEF Countable
  <2>2. KeyLess(x.key, y.key) \/ KeyLess(y.key, x.key)
    BY <1>1, <2>1, KeysOrdered
  <2> QED
    BY <1>4, <2>2 DEF Before
<1>7. ASSUME NEW x \in S, NEW y \in S, NEW z \in S, Before(q, x, y), Before(q, y, z)
      PROVE  Before(q, x, z)
  <2>1. ~First(q, y, x) /\ ~First(q, z, y)
    BY <1>3, <1>4, <1>7 DEF Before
  <2>2. CASE First(q, x, z)
    BY <2>2 DEF Before
  <2>3. CASE ~First(q, x, z)
    <3>1. ~First(q, z, x)
      BY <1>3, <2>1
    <3>2. ~First(q, x, y)
      BY <1>3, <2>1, <2>3, <3>1
    <3>3. ~First(q, y, z)
      BY <1>3, <2>1, <2>3, <3>1
    <3>4. KeyLess(x.key, y.key) /\ KeyLess(y.key, z.key)
      BY <1>7, <3>2, <3>3 DEF Before
    <3>5. KeyLess(x.key, z.key)
      BY <1>1, <3>4, KeysOrdered
    <3> QED
      BY <1>4, <2>3, <3>1, <3>5 DEF Before
  <2> QED
    BY <2>2, <2>3
<1> QED
  BY <1>5, <1>6, <1>7 DEF Ordered

-------------------------------------------------------------------------------
(* Rankings.                                                               *)

\* The enumerations of S by a query's ORDER BY: Rankings are those of its areas.
SortedBy(q, S) == {s \in SetToSeqs(S) : \A i \in 2 .. Len(s) : Before(q, s[i - 1], s[i])}

\* What an enumeration of a set is, as the proofs use it.
LEMMA Enumerated ==
  ASSUME NEW S, IsFiniteSet(S), NEW s \in SetToSeqs(S)
  PROVE  LET n == Cardinality(S)
         IN  /\ n \in Nat /\ s \in [1 .. n -> S] /\ s \in Seq(S) /\ Len(s) = n
             /\ \A i, j \in 1 .. n : s[i] = s[j] => i = j
             /\ \A x \in S : \E i \in 1 .. n : s[i] = x
<1> DEFINE n == Cardinality(S)
<1>1. n \in Nat
  BY FS_CardinalityType
<1>2. s \in [1 .. n -> S] /\ \A i, j \in 1 .. n : s[i] = s[j] => i = j
  BY DEF SetToSeqs
<1>3. s \in Seq(S) /\ Len(s) = n
  BY <1>1, <1>2
<1>4. s \in Injection(1 .. n, S)
  BY <1>2 DEF Injection, IsInjective
<1>5. Cardinality(1 .. n) = n
  <2>1. 1 \in Int /\ n \in Int
    BY <1>1
  <2>2. Cardinality(1 .. n) = IF 1 > n THEN 0 ELSE n - 1 + 1
    BY <2>1, FS_Interval
  <2> QED
    BY <1>1, <2>2
<1>6. s \in Surjection(1 .. n, S)
  BY <1>4, <1>5, FS_Injection
<1>7. \A x \in S : \E i \in 1 .. n : s[i] = x
  BY <1>6 DEF Surjection
<1> QED
  BY <1>1, <1>2, <1>3, <1>7

\* Sorted by neighbours is sorted.
LEMMA SortedThroughout ==
  ASSUME NEW q, NEW S, IsFiniteSet(S), Ordered(q, S), NEW s \in SortedBy(q, S),
         NEW i \in 1 .. Cardinality(S), NEW j \in 1 .. Cardinality(S), i < j
  PROVE  Before(q, s[i], s[j])
<1> DEFINE n == Cardinality(S)
           D == {k \in 1 .. n : i < k /\ ~Before(q, s[i], s[k])}
<1>1. /\ n \in Nat /\ s \in [1 .. n -> S] /\ Len(s) = n
      /\ \A k \in 2 .. n : Before(q, s[k - 1], s[k])
  BY Enumerated DEF SortedBy
<1> HIDE DEF n
<1> SUFFICES ASSUME j \in D PROVE FALSE
  BY DEF n
<1>2. D \in SUBSET Nat /\ D # {}
  BY <1>1
<1>3. PICK k \in D : \A m \in D : k <= m
  BY <1>2, LeastNumber
<1>4. k - 1 \in 1 .. n /\ k \in 2 .. n /\ k - 1 \notin D /\ i <= k - 1
  BY <1>1, <1>3 DEF n
<1>5. Before(q, s[k - 1], s[k])
  BY <1>1, <1>4
<1>6. k - 1 = i \/ Before(q, s[i], s[k - 1])
  BY <1>4
<1>7. Before(q, s[i], s[k])
  BY <1>1, <1>4, <1>5, <1>6 DEF Ordered, n
<1> QED
  BY <1>3, <1>7

\* Two enumerations sorted alike are the same: at the first place where they
\* differ, each would have to come before the other.
LEMMA SortedOnce ==
  ASSUME NEW q, NEW S, IsFiniteSet(S), Ordered(q, S),
         NEW s \in SortedBy(q, S), NEW t \in SortedBy(q, S)
  PROVE  s = t
<1> DEFINE n == Cardinality(S)
           D == {k \in 1 .. n : s[k] # t[k]}
<1>1. s \in SetToSeqs(S) /\ t \in SetToSeqs(S)
  BY DEF SortedBy
<1>2. /\ n \in Nat /\ s \in [1 .. n -> S] /\ t \in [1 .. n -> S]
      /\ \A i, j \in 1 .. n : (s[i] = s[j] => i = j) /\ (t[i] = t[j] => i = j)
      /\ \A x \in S : (\E i \in 1 .. n : s[i] = x) /\ (\E i \in 1 .. n : t[i] = x)
  <2>1. \A u \in SetToSeqs(S) :
          /\ n \in Nat /\ u \in [1 .. n -> S]
          /\ \A i, j \in 1 .. n : u[i] = u[j] => i = j
          /\ \A x \in S : \E i \in 1 .. n : u[i] = x
    BY Enumerated
  <2> HIDE DEF n
  <2> QED
    BY <1>1, <2>1
<1>3. \A i, j \in 1 .. n : i < j => Before(q, s[i], s[j]) /\ Before(q, t[i], t[j])
  BY SortedThroughout
<1> HIDE DEF n
<1>4. ASSUME D # {} PROVE FALSE
  <2>1. D \in SUBSET Nat
    BY <1>2
  <2>2. PICK k \in D : \A m \in D : k <= m
    BY <1>4, <2>1, LeastNumber
  <2>3. k \in 1 .. n /\ s[k] # t[k] /\ \A m \in 1 .. n : m < k => s[m] = t[m]
    BY <1>2, <2>2
  <2>4. s[k] \in S /\ t[k] \in S
    BY <1>2, <2>3
  <2>5. PICK i \in 1 .. n : t[i] = s[k]
    BY <1>2, <2>4
  <2>6. PICK j \in 1 .. n : s[j] = t[k]
    BY <1>2, <2>4
  <2>7. k < i /\ k < j
    <3>1. i # k /\ j # k
      BY <2>3, <2>5, <2>6
    <3>2. ~(i < k)
      BY <1>2, <2>3, <2>5
    <3>3. ~(j < k)
      BY <1>2, <2>3, <2>6
    <3> QED
      BY <1>2, <2>3, <3>1, <3>2, <3>3
  <2>8. Before(q, t[k], s[k]) /\ Before(q, s[k], t[k])
    BY <1>3, <2>3, <2>5, <2>6, <2>7
  <2> QED
    BY <2>4, <2>8 DEF Ordered
<1>5. \A k \in 1 .. n : s[k] = t[k]
  BY <1>4
<1> QED
  BY <1>2, <1>5

\* There is one: each area goes to the place after those before it.
LEMMA SortedSomehow ==
  ASSUME NEW q, NEW S, IsFiniteSet(S), Ordered(q, S)
  PROVE  SortedBy(q, S) # {}
<1> DEFINE n == Cardinality(S)
           Below(x) == {y \in S : Before(q, y, x)}
           place == [x \in S |-> Cardinality(Below(x)) + 1]
           s == [i \in 1 .. n |-> CHOOSE x \in S : place[x] = i]
<1>1. n \in Nat
  BY FS_CardinalityType
<1>2. ASSUME NEW x \in S
      PROVE  /\ IsFiniteSet(Below(x)) /\ Cardinality(Below(x)) \in Nat
             /\ Cardinality(Below(x)) <= n - 1 /\ n # 0
  <2>1. IsFiniteSet(S \ {x}) /\ Cardinality(S \ {x}) = n - 1
    BY FS_RemoveElement
  <2>2. Below(x) \in SUBSET (S \ {x})
    BY DEF Ordered
  <2> HIDE DEF Below
  <2>3. IsFiniteSet(Below(x)) /\ Cardinality(Below(x)) <= Cardinality(S \ {x})
    BY <2>1, <2>2, FS_Subset
  <2>4. Cardinality(Below(x)) \in Nat /\ Cardinality(S \ {x}) \in Nat
    BY <2>1, <2>3, FS_CardinalityType
  <2> QED
    BY <1>1, <2>1, <2>3, <2>4
<1>3. ASSUME NEW x \in S, NEW y \in S, Before(q, x, y) PROVE place[x] < place[y]
  <2>1. Below(x) \in SUBSET Below(y) /\ x \in Below(y) /\ x \notin Below(x)
    BY <1>3 DEF Ordered
  <2>f. IsFiniteSet(Below(x)) /\ IsFiniteSet(Below(y))
        /\ Cardinality(Below(x)) \in Nat /\ Cardinality(Below(y)) \in Nat
    BY <1>2
  <2>p. place[x] = Cardinality(Below(x)) + 1 /\ place[y] = Cardinality(Below(y)) + 1
    OBVIOUS
  <2> HIDE DEF Below, place
  <2>2. /\ Cardinality(Below(x)) <= Cardinality(Below(y))
        /\ Cardinality(Below(x)) # Cardinality(Below(y))
    BY <2>1, <2>f, FS_Subset
  <2> QED
    BY <2>f, <2>p, <2>2
<1>4. \A x \in S : place[x] \in 1 .. n
  <2> SUFFICES ASSUME NEW x \in S PROVE place[x] \in 1 .. n
    OBVIOUS
  <2>1. Cardinality(Below(x)) \in Nat /\ Cardinality(Below(x)) <= n - 1
    BY <1>2
  <2>2. place[x] = Cardinality(Below(x)) + 1
    OBVIOUS
  <2> HIDE DEF Below, place, n
  <2> QED
    BY <1>1, <2>1, <2>2
<1>p. place = [x \in S |-> place[x]]
  OBVIOUS
<1> HIDE DEF place, Below
<1>5. \A x, y \in S : place[x] = place[y] => x = y
  <2> SUFFICES ASSUME NEW x \in S, NEW y \in S, place[x] = place[y], x # y PROVE FALSE
    OBVIOUS
  <2>1. place[x] < place[y] \/ place[y] < place[x]
    BY <1>3 DEF Ordered
  <2> QED
    BY <1>4, <2>1
<1>6. place \in Injection(S, 1 .. n)
  BY <1>p, <1>4, <1>5 DEF Injection, IsInjective
<1>7. \A i \in 1 .. n : \E x \in S : place[x] = i
  <2>1. 1 \in Int /\ n \in Int
    BY <1>1
  <2>2. IsFiniteSet(1 .. n) /\ Cardinality(1 .. n) = n
    <3>1. IsFiniteSet(1 .. n) /\ Cardinality(1 .. n) = IF 1 > n THEN 0 ELSE n - 1 + 1
      BY <2>1, FS_Interval
    <3> QED
      BY <1>1, <3>1
  <2>3. place \in Surjection(S, 1 .. n)
    BY <1>6, <2>2, FS_Injection
  <2> QED
    BY <2>3 DEF Surjection
<1>8. \A i \in 1 .. n : s[i] \in S /\ place[s[i]] = i
  BY <1>7
<1>t. s \in [1 .. n -> S] /\ s \in Seq(S) /\ Len(s) = n
  BY <1>1, <1>8
<1> HIDE DEF s
<1>9. s \in SetToSeqs(S)
  <2>1. \A i, j \in 1 .. n : i # j => s[i] # s[j]
    BY <1>8
  <2> QED
    BY <1>t, <2>1 DEF SetToSeqs
<1>10. \A i \in 2 .. n : Before(q, s[i - 1], s[i])
  <2> SUFFICES ASSUME NEW i \in 2 .. n, ~Before(q, s[i - 1], s[i]) PROVE FALSE
    OBVIOUS
  <2>1. i \in 1 .. n /\ i - 1 \in 1 .. n
    BY <1>1
  <2>2. s[i - 1] # s[i]
    BY <1>8, <2>1
  <2>3. Before(q, s[i], s[i - 1])
    BY <1>8, <2>1, <2>2 DEF Ordered
  <2> QED
    BY <1>3, <1>8, <2>1, <2>3
<1> QED
  BY <1>t, <1>9, <1>10 DEF SortedBy

-------------------------------------------------------------------------------
(* Pages.                                                                  *)

\* Where page p of r ends, with per rows a page.
EndOf(r, per, p) == IF p * per < Len(r) THEN p * per ELSE Len(r)
\* The first m pages.
PagesOf(r, per, m) == [p \in 1 .. m |-> SubSeq(r, (p - 1) * per + 1, EndOf(r, per, p))]

\* A page goes from the end of the one before it to its own, and the last page
\* ends with the list.
LEMMA PagesMeet ==
  ASSUME NEW S, NEW r \in Seq(S), NEW per \in Nat \ {0}, NEW m \in Nat,
         m = (Len(r) + per - 1) \div per
  PROVE  /\ EndOf(r, per, 0) = 0 /\ EndOf(r, per, m) = Len(r)
         /\ \A p \in 0 .. m : EndOf(r, per, p) \in 0 .. Len(r)
         /\ \A p \in 1 .. m :
              /\ p - 1 \in 0 .. m /\ EndOf(r, per, p - 1) = (p - 1) * per
              /\ EndOf(r, per, p - 1) <= EndOf(r, per, p)
              /\ EndOf(r, per, p) = IF (p - 1) * per + per < Len(r) THEN (p - 1) * per + per ELSE Len(r)
<1> DEFINE n == Len(r)
<1>1. n \in Nat
  BY LenProperties
<1>2. m * per <= n + per - 1 /\ n + per - 1 < m * per + per
  <2>1. \A x \in Int : (x \div per) * per <= x /\ x < (x \div per) * per + per
    BY SMT
  <2>2. n + per - 1 \in Int
    BY <1>1
  <2> QED
    BY <2>1, <2>2
<1> HIDE DEF n
<1>3. \A p \in Nat : p * per \in Nat
  OBVIOUS
<1>4. \A p \in 1 .. m : /\ p - 1 \in Nat /\ (p - 1) * per + per = p * per
                        /\ (p - 1) * per + per <= m * per
  <2> SUFFICES ASSUME NEW p \in 1 .. m
               PROVE  /\ p - 1 \in Nat /\ (p - 1) * per + per = p * per
                      /\ (p - 1) * per + per <= m * per
    OBVIOUS
  <2>1. p - 1 \in Nat /\ p \in Nat /\ p <= m
    OBVIOUS
  <2>2. (p - 1) * per + per = p * per
    BY <2>1
  <2>3. p * per <= m * per
    BY <2>1, TimesKeepsOrder
  <2> QED
    BY <2>1, <2>2, <2>3
<1>5. \A p \in Nat : EndOf(r, per, p) = IF p * per < n THEN p * per ELSE n
  BY DEF EndOf, n
<1>6. EndOf(r, per, 0) = 0 /\ EndOf(r, per, m) = n
  <2>1. EndOf(r, per, 0) = (IF 0 * per < n THEN 0 * per ELSE n) /\ 0 * per = 0
    BY <1>5
  <2>2. EndOf(r, per, m) = (IF m * per < n THEN m * per ELSE n) /\ m * per \in Nat
    BY <1>3, <1>5
  <2>3. EndOf(r, per, 0) = 0
    BY <1>1, <2>1
  <2>4. EndOf(r, per, m) = n
    <3> DEFINE c == m * per
    <3>2. n <= c
      <4>1. c \in Nat /\ n + per - 1 < c + per
        BY <1>2, <2>2
      <4> HIDE DEF c
      <4> QED
        BY <1>1, <4>1
    <3>3. EndOf(r, per, m) = (IF c < n THEN c ELSE n) /\ c \in Nat
      BY <2>2
    <3> HIDE DEF c
    <3> QED
      BY <1>1, <3>2, <3>3
  <2> QED
    BY <2>3, <2>4
<1>7. \A p \in 0 .. m : EndOf(r, per, p) \in 0 .. n
  BY <1>1, <1>3, <1>5
<1>8. ASSUME NEW p \in 1 .. m
      PROVE  /\ p - 1 \in 0 .. m /\ EndOf(r, per, p - 1) = (p - 1) * per
             /\ EndOf(r, per, p - 1) <= EndOf(r, per, p)
             /\ EndOf(r, per, p) = IF (p - 1) * per + per < n THEN (p - 1) * per + per ELSE n
  <2> DEFINE a == (p - 1) * per
             b == p * per
             c == m * per
  <2>1. a \in Nat /\ b \in Nat /\ c \in Nat /\ a + per = b /\ b <= c /\ c <= n + per - 1
    BY <1>2, <1>3, <1>4
  <2>2. EndOf(r, per, p - 1) = (IF a < n THEN a ELSE n) /\ EndOf(r, per, p) = (IF b < n THEN b ELSE n)
    <3>1. p - 1 \in Nat /\ p \in Nat
      OBVIOUS
    <3> QED
      BY <1>5, <3>1
  <2>3. p - 1 \in 0 .. m
    OBVIOUS
  <2> HIDE DEF a, b, c
  <2>4. a < n /\ (IF a < n THEN a ELSE n) <= (IF b < n THEN b ELSE n)
    BY <1>1, <2>1
  <2> QED
    BY <1>1, <2>1, <2>2, <2>3, <2>4 DEF a
<1> QED
  BY <1>6, <1>7, <1>8 DEF n

\* The pages one after the other are the list: what FlattenSeq makes of the
\* first p of them is the list up to the end of page p, since that satisfies its
\* recursion and, by the least page at which another function differed, no
\* other does.
LEMMA PagesFlatten ==
  ASSUME NEW S, NEW r \in Seq(S), NEW per \in Nat \ {0}, NEW m \in Nat,
         m = (Len(r) + per - 1) \div per
  PROVE  FlattenSeq(PagesOf(r, per, m)) = r
<1> DEFINE P == PagesOf(r, per, m)
           upTo == [p \in 1 .. m |-> SubSeq(r, 1, EndOf(r, per, p))]
           Flattens(f) == f = [p \in 1 .. m |-> IF p = 1 THEN P[p] ELSE f[p - 1] \o P[p]]
<1>0. P = [p \in 1 .. m |-> SubSeq(r, (p - 1) * per + 1, EndOf(r, per, p))]
  BY DEF PagesOf
<1> SUFFICES FlattenSeq(P) = r
  OBVIOUS
<1> HIDE DEF P
<1>1. Len(r) \in Nat /\ Len(P) = m
  BY <1>0, LenProperties
<1>2. CASE m = 0
  <2>1. Len(r) = 0
    <3>1. EndOf(r, per, 0) = 0 /\ EndOf(r, per, m) = Len(r)
      BY PagesMeet
    <3> QED
      BY <1>2, <3>1
  <2>2. r = <<>> /\ P = <<>>
    BY <1>0, <1>2, <2>1, EmptySeq
  <2> QED
    BY <1>1, <1>2, <2>2 DEF FlattenSeq
<1>3. CASE m # 0
  <2>1. FlattenSeq(P) = (CHOOSE f : Flattens(f))[m]
    BY <1>1, <1>3 DEF FlattenSeq
  <2>2. ASSUME NEW p \in 1 .. m
        PROVE  upTo[p] = IF p = 1 THEN P[p] ELSE upTo[p - 1] \o P[p]
    <3> DEFINE a == EndOf(r, per, p - 1)
               b == EndOf(r, per, p)
    <3>1. a \in 0 .. Len(r) /\ b \in a .. Len(r) /\ (p - 1) * per = a
      BY <1>1, PagesMeet
    <3>2. upTo[p] = SubSeq(r, 1, b) /\ P[p] = SubSeq(r, a + 1, b)
      BY <1>0, <3>1
    <3>3. CASE p = 1
      <4>1. a = 0
        BY <3>3, PagesMeet
      <4> HIDE DEF a, b, upTo
      <4> QED
        BY <3>2, <3>3, <4>1
    <3>4. CASE p # 1
      <4>0. p - 1 \in 1 .. m
        BY <3>4
      <4>1. upTo[p - 1] = SubSeq(r, 1, a)
        BY <4>0
      <4> HIDE DEF a, b
      <4>2. SubSeq(r, 1, a) \o SubSeq(r, a + 1, b) = SubSeq(r, 1, b)
        <5>1. 1 \in 1 .. Len(r) + 1 /\ a \in 1 - 1 .. Len(r)
          BY <1>1, <3>1
        <5> QED
          BY <3>1, <5>1, ConcatAdjacentSubSeq
      <4> QED
        BY <3>2, <3>4, <4>1, <4>2
    <3> QED
      BY <3>3, <3>4
  <2> DEFINE f == CHOOSE g : Flattens(g)
  <2>3. Flattens(f)
    <3>1. Flattens(upTo)
      BY <2>2
    <3> QED
      BY <3>1
  <2>4. \A p \in 1 .. m : f[p] = IF p = 1 THEN P[p] ELSE f[p - 1] \o P[p]
    <3> HIDE DEF f
    <3> QED
      BY <2>3
  <2> HIDE DEF f, upTo
  <2>5. \A p \in 1 .. m : f[p] = upTo[p]
    <3> DEFINE D == {p \in 1 .. m : f[p] # upTo[p]}
    <3> SUFFICES ASSUME D # {} PROVE FALSE
      OBVIOUS
    <3>1. D \in SUBSET Nat
      OBVIOUS
    <3>d. \A p : p \in D <=> p \in 1 .. m /\ f[p] # upTo[p]
      OBVIOUS
    <3> HIDE DEF D
    <3>2. PICK p \in D : \A i \in D : p <= i
      BY <3>1, LeastNumber
    <3>3. p \in 1 .. m /\ f[p] # upTo[p]
      BY <3>d
    <3>4. CASE p = 1
      BY <2>2, <2>4, <3>3, <3>4
    <3>5. CASE p # 1
      <4>1. p - 1 \in 1 .. m /\ ~(p <= p - 1)
        BY <3>3, <3>5
      <4>2. f[p - 1] = upTo[p - 1]
        BY <3>2, <3>d, <4>1
      <4>3. f[p] = f[p - 1] \o P[p] /\ upTo[p] = upTo[p - 1] \o P[p]
        BY <2>2, <2>4, <3>3, <3>5
      <4> QED
        BY <3>3, <4>2, <4>3
    <3> QED
      BY <3>4, <3>5
  <2>6. upTo[m] = r
    <3>0. m \in 1 .. m
      BY <1>3
    <3>1. upTo[m] = SubSeq(r, 1, EndOf(r, per, m))
      BY <3>0 DEF upTo
    <3>2. EndOf(r, per, m) = Len(r)
      BY PagesMeet
    <3> QED
      BY <3>1, <3>2, SubSeqFull
  <2>7. f[m] = upTo[m]
    BY <1>3, <2>5
  <2> QED
    BY <2>1, <2>6, <2>7 DEF f
<1> QED
  BY <1>2, <1>3

-------------------------------------------------------------------------------
(* Sums.                                                                   *)

\* The element a sum takes next, as MapThenSumSet chooses it.
One(s) == CHOOSE x \in s : TRUE
Whole(P, s) == UNION {P[i] : i \in s}
\* f adds up w over the subsets of D.
Adds(f, D, w) == \A s \in SUBSET D : f[s] = IF s = {} THEN 0 ELSE w[One(s)] + f[s \ {One(s)}]
\* w counts the parts, which do not overlap.
Parts(P, D, w) ==
  /\ IsFiniteSet(D)
  /\ \A i \in D : IsFiniteSet(P[i]) /\ w[i] = Cardinality(P[i])
  /\ \A i, j \in D : i # j => P[i] \cap P[j] = {}

\* One part more adds its elements.
LEMMA OnePartMore ==
  ASSUME NEW P, NEW D, NEW w, Parts(P, D, w), NEW s \in SUBSET D, NEW x \in s
  PROVE  /\ IsFiniteSet(Whole(P, s))
         /\ Cardinality(Whole(P, s)) = w[x] + Cardinality(Whole(P, s \ {x}))
<1>1. ASSUME NEW t \in SUBSET D PROVE IsFiniteSet(Whole(P, t))
  <2> DEFINE parts == {P[i] : i \in t}
             f == [i \in t |-> P[i]]
  <2>1. f \in Surjection(t, parts)
    BY DEF Surjection
  <2>2. IsFiniteSet(t)
    BY FS_Subset DEF Parts
  <2> HIDE DEF f
  <2>3. IsFiniteSet(parts)
    BY <2>1, <2>2, FS_Surjection
  <2>4. \A p \in parts : IsFiniteSet(p)
    BY DEF Parts
  <2> QED
    BY <2>3, <2>4, FS_UNION DEF Whole
<1> DEFINE A == P[x]
           B == Whole(P, s \ {x})
<1>2. Whole(P, s) = A \cup B
  BY DEF Whole
<1>3. A \cap B = {}
  <2> SUFFICES ASSUME NEW i \in s \ {x} PROVE P[x] \cap P[i] = {}
    BY DEF Whole
  <2> QED
    BY DEF Parts
<1>4. IsFiniteSet(A) /\ IsFiniteSet(B) /\ w[x] = Cardinality(A)
  <2>1. IsFiniteSet(P[x]) /\ w[x] = Cardinality(P[x])
    BY DEF Parts
  <2>2. s \ {x} \in SUBSET D
    OBVIOUS
  <2> QED
    BY <1>1, <2>1, <2>2
<1>5. IsFiniteSet(Whole(P, s))
  BY <1>1
<1>6. w[x] = Cardinality(A) /\ Whole(P, s) = A \cup B /\ A \cap B = {} /\ IsFiniteSet(A) /\ IsFiniteSet(B)
  BY <1>2, <1>3, <1>4
<1> HIDE DEF A, B
<1>7. Cardinality(A \cup B) = Cardinality(A) + Cardinality(B) - Cardinality(A \cap B)
  BY <1>6, FS_Union
<1>8. Cardinality(A) \in Nat /\ Cardinality(B) \in Nat /\ Cardinality(A \cap B) = 0
  BY <1>6, FS_CardinalityType, FS_EmptySet
<1>9. Cardinality(Whole(P, s)) = w[x] + Cardinality(B)
  BY <1>6, <1>7, <1>8
<1> QED
  BY <1>5, <1>9 DEF B

\* What adds up the counts of parts counts the whole, and so does nothing else.
LEMMA PartsAdd ==
  ASSUME NEW P, NEW D, NEW w, Parts(P, D, w)
  PROVE  /\ Adds([s \in SUBSET D |-> Cardinality(Whole(P, s))], D, w)
         /\ \A f : Adds(f, D, w) => f[D] = Cardinality(Whole(P, D))
<1> DEFINE count == [s \in SUBSET D |-> Cardinality(Whole(P, s))]
<1>o. \A s \in SUBSET D : s # {} => One(s) \in s /\ s \ {One(s)} \in SUBSET D
  BY DEF One
<1>1. Adds(count, D, w)
  <2> SUFFICES ASSUME NEW s \in SUBSET D
               PROVE  count[s] = IF s = {} THEN 0 ELSE w[One(s)] + count[s \ {One(s)}]
    BY DEF Adds
  <2>1. CASE s = {}
    <3>1. Whole(P, {}) = {}
      BY DEF Whole
    <3> QED
      BY <2>1, <3>1, FS_EmptySet
  <2>2. CASE s # {}
    <3>1. One(s) \in s /\ s \ {One(s)} \in SUBSET D
      BY <1>o, <2>2
    <3>2. Cardinality(Whole(P, s)) = w[One(s)] + Cardinality(Whole(P, s \ {One(s)}))
      BY <3>1, OnePartMore
    <3> QED
      BY <2>2, <3>1, <3>2
  <2> QED
    BY <2>1, <2>2
<1>2. ASSUME NEW f, Adds(f, D, w) PROVE f[D] = count[D]
  <2> DEFINE T == {s \in SUBSET D : f[s] # count[s]}
  <2> SUFFICES ASSUME T # {} PROVE FALSE
    OBVIOUS
  <2>1. T \in SUBSET (SUBSET D) /\ IsFiniteSet(D)
    BY DEF Parts
  <2>t. \A s : s \in T <=> s \in SUBSET D /\ f[s] # count[s]
    OBVIOUS
  <2> HIDE DEF T, count
  <2>2. PICK s \in T : \A u \in T : <<u, s>> \notin StrictSubsetOrdering(D)
    <3>1. IsWellFoundedOn(StrictSubsetOrdering(D), SUBSET D)
      BY <2>1, FS_StrictSubsetOrderingWellFounded, FS_FiniteSubsetsOfFinite
    <3> QED
      BY <2>1, <3>1, WFMin
  <2>3. s \in SUBSET D /\ f[s] # count[s]
    BY <2>t
  <2>4. /\ f[s] = IF s = {} THEN 0 ELSE w[One(s)] + f[s \ {One(s)}]
        /\ count[s] = IF s = {} THEN 0 ELSE w[One(s)] + count[s \ {One(s)}]
    BY <1>1, <1>2, <2>3 DEF Adds
  <2>5. CASE s = {}
    BY <2>3, <2>4, <2>5
  <2>6. CASE s # {}
    <3>1. One(s) \in s /\ s \ {One(s)} \in SUBSET D
      BY <1>o, <2>3, <2>6
    <3>2. s \ {One(s)} \notin T
      <4>1. <<s \ {One(s)}, s>> \in StrictSubsetOrdering(D)
        <5>1. s \ {One(s)} \subseteq s /\ s \ {One(s)} # s
          BY <3>1
        <5> QED
          BY <2>3, <3>1, <5>1 DEF StrictSubsetOrdering
      <4> QED
        BY <2>2, <4>1
    <3>3. f[s \ {One(s)}] = count[s \ {One(s)}]
      BY <2>t, <3>1, <3>2
    <3> QED
      BY <2>3, <2>4, <2>6, <3>3
  <2> QED
    BY <2>5, <2>6
<1> QED
  BY <1>1, <1>2

\* The sum of the totals of a walk counts what the totals count,
LEMMA TotalsAdd ==
  ASSUME NEW walk, NEW P, NEW D, Parts(P, D, [i \in D |-> walk[i].total])
  PROVE  MapThenSumSet(LAMBDA i : walk[i].total, D) = Cardinality(Whole(P, D))
<1> DEFINE w == [i \in D |-> walk[i].total]
           Sums(f) == f = [s \in SUBSET D |->
                             IF s = {} THEN 0 ELSE walk[One(s)].total + f[s \ {One(s)}]]
           count == [s \in SUBSET D |-> Cardinality(Whole(P, s))]
<1>1. MapThenSumSet(LAMBDA i : walk[i].total, D) = (CHOOSE f : Sums(f))[D]
  BY DEF MapThenSumSet, MapThenFoldSet, One
<1>2. \A s \in SUBSET D : s # {} => w[One(s)] = walk[One(s)].total
  BY DEF One
<1>3. Adds(count, D, w) /\ \A f : Adds(f, D, w) => f[D] = Cardinality(Whole(P, D))
  BY PartsAdd
<1> HIDE DEF w
<1>4. Sums(count)
  BY <1>2, <1>3 DEF Adds
<1> DEFINE g == CHOOSE f : Sums(f)
<1>5. Sums(g)
  BY <1>4
<1> HIDE DEF g
<1>6. Adds(g, D, w)
  BY <1>2, <1>5 DEF Adds
<1> QED
  BY <1>1, <1>3, <1>6 DEF g

\* and the sum of the unmatched what those count.
LEMMA UnmatchedAdd ==
  ASSUME NEW walk, NEW P, NEW D, Parts(P, D, [i \in D |-> walk[i].unmatched])
  PROVE  MapThenSumSet(LAMBDA i : walk[i].unmatched, D) = Cardinality(Whole(P, D))
<1> DEFINE w == [i \in D |-> walk[i].unmatched]
           Sums(f) == f = [s \in SUBSET D |->
                             IF s = {} THEN 0 ELSE walk[One(s)].unmatched + f[s \ {One(s)}]]
           count == [s \in SUBSET D |-> Cardinality(Whole(P, s))]
<1>1. MapThenSumSet(LAMBDA i : walk[i].unmatched, D) = (CHOOSE f : Sums(f))[D]
  BY DEF MapThenSumSet, MapThenFoldSet, One
<1>2. \A s \in SUBSET D : s # {} => w[One(s)] = walk[One(s)].unmatched
  BY DEF One
<1>3. Adds(count, D, w) /\ \A f : Adds(f, D, w) => f[D] = Cardinality(Whole(P, D))
  BY PartsAdd
<1> HIDE DEF w
<1>4. Sums(count)
  BY <1>2, <1>3 DEF Adds
<1> DEFINE g == CHOOSE f : Sums(f)
<1>5. Sums(g)
  BY <1>4
<1> HIDE DEF g
<1>6. Adds(g, D, w)
  BY <1>2, <1>5 DEF Adds
<1> QED
  BY <1>1, <1>3, <1>6 DEF g

-------------------------------------------------------------------------------
(* What is counted.                                                        *)

\* Both tables are finite, the unmatched rows of a cell lie in it, and every
\* row has a unit and a settlement.
Counted ==
  /\ IsFiniteSet(live) /\ IsFiniteSet(UnmatchedRows)
  /\ \A c \in Cells : \A r \in served[c] : r.geom # Nil /\ r.geom.cell = c
  /\ \A r \in live \cup UnmatchedRows : r.unit \in Terc /\ r.attrs[1] \in Nat

\* What is loaded from a file is finite, and its rows have what theirs have.
LEMMA LoadedCounted ==
  ASSUME NEW file \in Files, NEW T \in LoadInto(file)
  PROVE  IsFiniteSet(T) /\ \A t \in T : t.unit \in Terc /\ t.attrs[1] \in Nat
<1>1. ASSUME NEW t \in T
      PROVE  \E u \in file : u.key = t.key /\ u.unit = t.unit /\ u.attrs = t.attrs
  <2>1. PICK u \in Sound(NonNullKey(file)) :
          t = IF spec.version THEN u ELSE [u EXCEPT !.version = Nil]
    <3>1. Origin(t, file)
      BY Loaded
    <3> QED
      BY <3>1 DEF Origin
  <2>2. u \in file
    BY DEF Sound, NonNullKey
  <2>3. [u EXCEPT !.version = Nil].key = u.key /\ [u EXCEPT !.version = Nil].attrs = u.attrs
    BY <2>2, Dropped
  <2>4. [u EXCEPT !.version = Nil].unit = u.unit
    BY <2>2, FileRows
  <2> QED
    BY <2>1, <2>2, <2>3, <2>4
<1>2. \A t \in T : t.unit \in Terc /\ t.attrs[1] \in Nat
  <2>1. file \subseteq Rows
    BY DEF Files, kSubset
  <2> QED
    BY <1>1, <2>1, UnitsAssumption
<1> DEFINE f == [t \in T |-> CHOOSE u \in file : u.key = t.key]
<1>3. \A t \in T : f[t] \in file /\ f[t].key = t.key
  BY <1>1
<1>4. f \in Injection(T, file)
  <2>1. f \in [T -> file]
    BY <1>3
  <2>2. \A t, s \in T : f[t] = f[s] => t = s
    BY <1>3, Loaded DEF Unique
  <2> HIDE DEF f
  <2> QED
    BY <2>1, <2>2 DEF Injection, IsInjective
<1>5. IsFiniteSet(file)
  BY DEF Files
<1>6. IsFiniteSet(T)
  BY <1>4, <1>5, FS_Injection
<1> QED
  BY <1>2, <1>6

\* A cell is served rows of the live table, which lie in it.
LEMMA RowsInCell ==
  ASSUME NEW T, NEW reps, NEW c
  PROVE  RowsIn(T, reps, c) \subseteq T /\ \A r \in RowsIn(T, reps, c) : r.geom # Nil /\ r.geom.cell = c
BY DEF RowsIn, Located

\* So it is after the first import,
LEMMA CountedInit == Init => Counted
<1> SUFFICES ASSUME Init PROVE Counted
  OBVIOUS
<1>1. IsFiniteSet(live) /\ \A r \in live : r.unit \in Terc /\ r.attrs[1] \in Nat
  BY LoadedCounted DEF Init
<1>2. \A c \in Cells : served[c] = RowsIn(live, {}, c)
  BY DEF Init
<1>3. UnmatchedRows \in SUBSET live
  BY <1>2, RowsInCell DEF UnmatchedRows
<1>4. IsFiniteSet(UnmatchedRows)
  BY <1>1, <1>3, FS_Subset
<1> QED
  BY <1>1, <1>2, <1>3, <1>4, RowsInCell DEF Counted

\* and after every step.
LEMMA CountedNext == KeysUnique /\ TypeOK /\ Counted /\ [Next]_vars => Counted'
<1> SUFFICES ASSUME KeysUnique, TypeOK, Counted, [Next]_vars PROVE Counted'
  OBVIOUS
<1>1. CASE Refresh
  <2>1. PICK T \in LoadInto(loaded') : live' = (live \ Delta(T).out) \cup Delta(T).in
    BY <1>1, RefreshStep
  <2>2. loaded' \in Files /\ served' = served
    BY <1>1, RefreshStep
  <2>3. IsFiniteSet(T) /\ \A t \in T : t.unit \in Terc /\ t.attrs[1] \in Nat
    BY <2>1, <2>2, LoadedCounted
  <2>4. live' \in SUBSET (live \cup T)
    BY <2>1 DEF Delta, Added, ModifiedThere
  <2>5. IsFiniteSet(live \cup T)
    BY <2>3, FS_Union DEF Counted
  <2>6. IsFiniteSet(live')
    BY <2>4, <2>5, FS_Subset
  <2>7. UnmatchedRows' = UnmatchedRows
    BY <2>2 DEF UnmatchedRows
  <2> QED
    BY <2>2, <2>3, <2>4, <2>6, <2>7 DEF Counted
<1>2. CASE Recompute
  <2>1. PICK c \in queue : served' = [served EXCEPT ![c] = RowsIn(live, reports, c)]
    BY <1>2 DEF Recompute
  <2>2. live' = live
    BY <1>2 DEF Recompute
  <2>3. \A d \in Cells : served'[d] = IF d = c THEN RowsIn(live, reports, c) ELSE served[d]
    BY <2>1 DEF TypeOK
  <2>4. UnmatchedRows' \in SUBSET (UnmatchedRows \cup live)
    <3>1. \A d \in Cells : served'[d] \subseteq UnmatchedRows \cup live
      BY <2>3, RowsInCell DEF UnmatchedRows
    <3>2. UnmatchedRows' = UNION {served'[d] : d \in Cells}
      BY DEF UnmatchedRows
    <3> QED
      BY <3>1, <3>2
  <2>5. IsFiniteSet(UnmatchedRows \cup live)
    BY FS_Union DEF Counted
  <2>6. IsFiniteSet(UnmatchedRows')
    BY <2>4, <2>5, FS_Subset
  <2>7. \A d \in Cells : \A r \in served'[d] : r.geom # Nil /\ r.geom.cell = d
    BY <2>3, RowsInCell DEF Counted
  <2> QED
    BY <2>2, <2>4, <2>6, <2>7 DEF Counted
<1>3. CASE UNCHANGED <<live, served>>
  <2>1. UnmatchedRows' = UnmatchedRows
    BY <1>3 DEF UnmatchedRows
  <2> QED
    BY <1>3, <2>1 DEF Counted
<1> QED
  BY <1>1, <1>2, <1>3 DEF Next, Report, Revoke, vars

\* So it is always.
LEMMA CountedInvariance == Spec => [](Counted /\ CellServedOrQueued)
BY CountedInit, CountedNext, TableInvariance, TypeCorrect, CellsServedOrQueued, PTL DEF Spec

-------------------------------------------------------------------------------
(* Areas.                                                                  *)

\* The keys of the areas of a query.
Keys(q) == {KeyColumns(q.level, r) : r \in Scoped(live, q.within)}
\* The area of a key.
Area(q, k) ==
  [key |-> k, total |-> Cardinality(InArea(Scoped(live, q.within), q.level, k)),
   unmatched |-> Cardinality(InArea(Scoped(UnmatchedRows, q.within), q.level, k))]

\* A key is a row of numbers, of one length at each level.
LEMMA KeyNumbers ==
  ASSUME NEW level, NEW r, r.unit \in Terc, r.attrs[1] \in Nat
  PROVE  KeyColumns(level, r) \in [1 .. (IF level = "gmina" THEN 4 ELSE 5) -> Nat]
<1>1. r.unit \in Seq(Nat) /\ Len(r.unit) = 4
  BY TercAssumption
<1>2. r.unit \in [1 .. 4 -> Nat]
  BY <1>1, LenProperties
<1>3. <<r.attrs[1]>> \o r.unit \in [1 .. 5 -> Nat]
  <2> DEFINE s == <<r.attrs[1]>>
  <2>1. s \in Seq(Nat) /\ Len(s) = 1
    OBVIOUS
  <2> HIDE DEF s
  <2> DEFINE u == r.unit
  <2>u. u \in Seq(Nat) /\ Len(u) = 4
    BY <1>1
  <2> HIDE DEF u
  <2>2. s \o u \in Seq(Nat) /\ Len(s \o u) = 5
    <3>1. s \o u \in Seq(Nat) /\ Len(s \o u) = Len(s) + Len(u)
      BY <2>1, <2>u, ConcatProperties
    <3> QED
      BY <2>1, <2>u, <3>1
  <2>3. s \o u \in [1 .. 5 -> Nat]
    BY <2>2, LenProperties
  <2> QED
    BY <2>3 DEF s, u
<1> QED
  BY <1>2, <1>3 DEF KeyColumns

\* What is narrowed and grouped stays finite.
LEMMA GroupsFinite ==
  ASSUME Counted, NEW q, NEW k
  PROVE  LET a == Scoped(live, q.within)
             u == Scoped(UnmatchedRows, q.within)
         IN  /\ IsFiniteSet(a) /\ IsFiniteSet(u)
             /\ IsFiniteSet(InArea(a, q.level, k)) /\ IsFiniteSet(InArea(u, q.level, k))
<1> DEFINE a == Scoped(live, q.within)
           u == Scoped(UnmatchedRows, q.within)
<1>1. a \in SUBSET live /\ u \in SUBSET UnmatchedRows
  BY DEF Scoped
<1>2. IsFiniteSet(live) /\ IsFiniteSet(UnmatchedRows)
  BY DEF Counted
<1> HIDE DEF a, u
<1>3. IsFiniteSet(a) /\ IsFiniteSet(u)
  BY <1>1, <1>2, FS_Subset
<1>4. InArea(a, q.level, k) \in SUBSET a /\ InArea(u, q.level, k) \in SUBSET u
  BY DEF InArea
<1>5. IsFiniteSet(InArea(a, q.level, k)) /\ IsFiniteSet(InArea(u, q.level, k))
  BY <1>3, <1>4, FS_Subset
<1> QED
  BY <1>3, <1>5 DEF a, u

\* The areas of a query: one for each key, finitely many, and all can be ranked.
LEMMA AreasCountable ==
  ASSUME Counted, NEW q
  PROVE  /\ Areas(q) = {Area(q, k) : k \in Keys(q)} /\ IsFiniteSet(Areas(q))
         /\ Cardinality(Areas(q)) = Cardinality(Keys(q)) /\ Countable(Areas(q))
<1> DEFINE a == Scoped(live, q.within)
<1>1. Areas(q) = {Area(q, k) : k \in Keys(q)}
  BY DEF Areas, Area, Keys
<1>2. IsFiniteSet(Keys(q))
  <2> DEFINE f == [r \in a |-> KeyColumns(q.level, r)]
  <2>1. f \in Surjection(a, Keys(q))
    <3>1. f \in [a -> Keys(q)] /\ \A k \in Keys(q) : \E r \in a : f[r] = k
      BY DEF Keys
    <3> QED
      BY <3>1 DEF Surjection
  <2>2. IsFiniteSet(a)
    BY GroupsFinite
  <2> HIDE DEF f
  <2> QED
    BY <2>1, <2>2, FS_Surjection
<1>k. \A k : Area(q, k).key = k
  BY DEF Area
<1>3. IsFiniteSet(Areas(q)) /\ Cardinality(Areas(q)) = Cardinality(Keys(q))
  <2> DEFINE f == [k \in Keys(q) |-> Area(q, k)]
  <2>1. f \in [Keys(q) -> Areas(q)] /\ \A x \in Areas(q) : \E k \in Keys(q) : f[k] = x
    BY <1>1
  <2>2. \A k, l \in Keys(q) : f[k] = f[l] => k = l
    BY <1>k
  <2> HIDE DEF f
  <2>3. f \in Surjection(Keys(q), Areas(q)) /\ f \in Injection(Keys(q), Areas(q))
    BY <2>1, <2>2 DEF Surjection, Injection, IsInjective
  <2> QED
    BY <1>2, <2>3, FS_Surjection
<1>4. \A k \in Keys(q) : Area(q, k).total \in Nat \ {0} /\ Area(q, k).unmatched \in Nat
  <2> SUFFICES ASSUME NEW k \in Keys(q)
               PROVE  Area(q, k).total \in Nat \ {0} /\ Area(q, k).unmatched \in Nat
    OBVIOUS
  <2> DEFINE A == InArea(a, q.level, k)
             U == InArea(Scoped(UnmatchedRows, q.within), q.level, k)
  <2>1. IsFiniteSet(A) /\ IsFiniteSet(U)
    BY GroupsFinite
  <2>2. A # {}
    BY DEF InArea, Keys
  <2>3. Area(q, k).total = Cardinality(A) /\ Area(q, k).unmatched = Cardinality(U)
    BY DEF Area
  <2> HIDE DEF A, U
  <2>4. Cardinality(A) \in Nat \ {0} /\ Cardinality(U) \in Nat
    BY <2>1, <2>2, FS_CardinalityType, FS_EmptySet
  <2> QED
    BY <2>3, <2>4
<1>5. \E n \in Nat : \A k \in Keys(q) : k \in [1 .. n -> Nat]
  <2>1. \A r \in a : r.unit \in Terc /\ r.attrs[1] \in Nat
    BY DEF Scoped, Counted
  <2>2. \A k \in Keys(q) : k \in [1 .. (IF q.level = "gmina" THEN 4 ELSE 5) -> Nat]
    BY <2>1, KeyNumbers DEF Keys
  <2>3. (IF q.level = "gmina" THEN 4 ELSE 5) \in Nat
    OBVIOUS
  <2> QED
    BY <2>2, <2>3
<1>6. Countable(Areas(q))
  <2>1. \A x \in Areas(q) : x.key \in Keys(q) /\ x = Area(q, x.key)
    BY <1>1, <1>k
  <2>2. \A x \in Areas(q) : x.total \in Nat \ {0} /\ x.unmatched \in Nat
    BY <1>4, <2>1
  <2>3. \A x, y \in Areas(q) : x.key = y.key => x = y
    BY <2>1
  <2>4. \E n \in Nat : \A x \in Areas(q) : x.key \in [1 .. n -> Nat]
    BY <1>5, <2>1
  <2> QED
    BY <2>2, <2>3, <2>4 DEF Countable
<1> QED
  BY <1>1, <1>3, <1>6

\* A query has one ranking.
LEMMA RankedOnce ==
  ASSUME Counted, NEW q
  PROVE  \E r \in SetToSeqs(Areas(q)) : Rankings(q) = {r}
<1>1. Rankings(q) = SortedBy(q, Areas(q))
  BY DEF Rankings, SortedBy
<1>2. IsFiniteSet(Areas(q)) /\ Ordered(q, Areas(q))
  BY AreasCountable, AreasOrdered
<1>3. PICK r : r \in SortedBy(q, Areas(q))
  BY <1>2, SortedSomehow
<1>4. \A s \in SortedBy(q, Areas(q)) : s = r
  BY <1>2, <1>3, SortedOnce
<1>5. r \in SetToSeqs(Areas(q))
  BY <1>3 DEF SortedBy
<1>6. Rankings(q) = {r}
  BY <1>1, <1>3, <1>4
<1> QED
  BY <1>5, <1>6

\* A walk through its pages is that ranking.
LEMMA WalkIsRanking ==
  ASSUME Counted, NEW q \in Queries, NEW r \in SetToSeqs(Areas(q)), Rankings(q) = {r},
         NEW walk \in Walks(q)
  PROVE  walk = r
<1> DEFINE S == Areas(q)
           per == q.per
           m == LastPage(q)
           P == PagesOf(r, per, m)
<1>1. per \in Nat \ {0}
  BY PerPageAssumption DEF Queries
<1>2. /\ r \in Seq(S) /\ Len(r) = Cardinality(Areas(q)) /\ Len(r) \in Nat
  BY AreasCountable, Enumerated
<1>3. m = (Len(r) + per - 1) \div per
  BY <1>2 DEF LastPage
<1>4. m \in Nat
  <2>1. \A x \in Nat, y \in Nat \ {0} : x \div y \in Nat
    BY SMT
  <2>2. Len(r) + per - 1 \in Nat
    BY <1>1, <1>2
  <2> QED
    BY <1>1, <1>3, <2>1, <2>2
<1>5. PICK f \in [1 .. m -> Rankings(q)] :
        walk = FlattenSeq([p \in 1 .. m |-> PageOf(q, f[p], p)])
  BY DEF Walks
<1>6. /\ FlattenSeq(P) = r
      /\ \A p \in 1 .. m :
           EndOf(r, per, p) = IF (p - 1) * per + per < Len(r) THEN (p - 1) * per + per ELSE Len(r)
  <2>1. r \in Seq(S)
    BY <1>2
  <2> HIDE DEF m, S, per
  <2>2. \A p \in 1 .. m :
          EndOf(r, per, p) = IF (p - 1) * per + per < Len(r) THEN (p - 1) * per + per ELSE Len(r)
    BY <1>1, <1>3, <1>4, <2>1, PagesMeet
  <2>3. FlattenSeq(P) = r
    BY <1>1, <1>3, <1>4, <2>1, PagesFlatten
  <2> QED
    BY <2>2, <2>3
<1>7. \A p \in 1 .. m : PageOf(q, f[p], p) = P[p]
  <2> SUFFICES ASSUME NEW p \in 1 .. m PROVE PageOf(q, f[p], p) = P[p]
    OBVIOUS
  <2>1. f[p] = r
    BY <1>5
  <2> QED
    BY <1>6, <2>1 DEF PageOf, PagesOf, Offset
<1>8. [p \in 1 .. m |-> PageOf(q, f[p], p)] = P
  BY <1>7 DEF PagesOf
<1> QED
  BY <1>5, <1>6, <1>8

\* A ranking's areas share out the rows of a table whose keys they know.
LEMMA AreasShareOut ==
  ASSUME Counted, NEW q, NEW r \in SetToSeqs(Areas(q)),
         NEW T, IsFiniteSet(T), \A x \in T : KeyColumns(q.level, x) \in Keys(q),
         NEW P, P = [i \in DOMAIN r |-> InArea(T, q.level, r[i].key)]
  PROVE  Whole(P, DOMAIN r) = T /\ Parts(P, DOMAIN r, [i \in DOMAIN r |-> Cardinality(P[i])])
<1> DEFINE n == Cardinality(Areas(q))
<1>1. /\ n \in Nat /\ r \in [1 .. n -> Areas(q)]
      /\ \A i, j \in 1 .. n : r[i] = r[j] => i = j
      /\ \A x \in Areas(q) : \E i \in 1 .. n : r[i] = x
  BY AreasCountable, Enumerated
<1> HIDE DEF n
<1>2. DOMAIN r = 1 .. n
  BY <1>1
<1>3. \A i, j \in DOMAIN r : r[i].key = r[j].key => i = j
  BY <1>1, <1>2, AreasCountable DEF Countable
<1>4. \A i, j \in DOMAIN r : i # j => P[i] \cap P[j] = {}
  BY <1>3 DEF InArea
<1>5. \A i \in DOMAIN r : IsFiniteSet(P[i])
  <2>1. \A i \in DOMAIN r : P[i] \in SUBSET T
    BY DEF InArea
  <2> QED
    BY <2>1, FS_Subset
<1>6. IsFiniteSet(DOMAIN r)
  BY <1>1, <1>2, FS_Interval
<1>7. ASSUME NEW x \in T PROVE \E i \in DOMAIN r : x \in P[i]
  <2> DEFINE k == KeyColumns(q.level, x)
  <2>1. Area(q, k) \in Areas(q) /\ Area(q, k).key = k
    BY AreasCountable DEF Area
  <2>2. PICK i \in 1 .. n : r[i] = Area(q, k)
    BY <1>1, <2>1
  <2> QED
    BY <1>2, <2>1, <2>2 DEF InArea
<1>8. Whole(P, DOMAIN r) = T
  <2>1. \A i \in DOMAIN r : P[i] \subseteq T
    BY DEF InArea
  <2> QED
    BY <1>7, <2>1 DEF Whole
<1> QED
  BY <1>4, <1>5, <1>6, <1>8 DEF Parts

\* A ranking shows every area once, and its counts add up to the rows counted.
LEMMA RankingAddsUp ==
  ASSUME Counted, NEW q, NEW r \in SetToSeqs(Areas(q))
  PROVE  /\ Len(r) = Cardinality(Keys(q)) /\ ToSet(r) = Areas(q)
         /\ MapThenSumSet(LAMBDA i : r[i].total, DOMAIN r) = Cardinality(Scoped(live, q.within))
         /\ UnmatchedRows \subseteq live =>
              MapThenSumSet(LAMBDA i : r[i].unmatched, DOMAIN r)
                = Cardinality(Scoped(UnmatchedRows, q.within))
<1> DEFINE n == Cardinality(Areas(q))
           a == Scoped(live, q.within)
           u == Scoped(UnmatchedRows, q.within)
<1>1. /\ n \in Nat /\ r \in [1 .. n -> Areas(q)] /\ Len(r) = n
      /\ \A x \in Areas(q) : \E i \in 1 .. n : r[i] = x
  BY AreasCountable, Enumerated
<1> HIDE DEF n
<1>2. DOMAIN r = 1 .. n
  BY <1>1
<1>3. ToSet(r) = Areas(q)
  BY <1>1, <1>2 DEF ToSet
<1>4. Len(r) = Cardinality(Keys(q))
  BY <1>1, AreasCountable DEF n
<1>5. \A i \in DOMAIN r : /\ r[i].total = Cardinality(InArea(a, q.level, r[i].key))
                          /\ r[i].unmatched = Cardinality(InArea(u, q.level, r[i].key))
  BY <1>1, <1>2, AreasCountable DEF Area
<1>6. IsFiniteSet(a) /\ IsFiniteSet(u)
  BY GroupsFinite
<1>7. \A x \in a : KeyColumns(q.level, x) \in Keys(q)
  BY DEF Keys
<1>8. MapThenSumSet(LAMBDA i : r[i].total, DOMAIN r) = Cardinality(a)
  <2> DEFINE P == [i \in DOMAIN r |-> InArea(a, q.level, r[i].key)]
  <2> HIDE DEF a
  <2>1. Whole(P, DOMAIN r) = a /\ Parts(P, DOMAIN r, [i \in DOMAIN r |-> Cardinality(P[i])])
    BY <1>6, <1>7, AreasShareOut
  <2>2. [i \in DOMAIN r |-> Cardinality(P[i])] = [i \in DOMAIN r |-> r[i].total]
    BY <1>5
  <2> HIDE DEF P
  <2>3. Parts(P, DOMAIN r, [i \in DOMAIN r |-> r[i].total])
    BY <2>1, <2>2
  <2> QED
    BY <2>1, <2>3, TotalsAdd
<1>9. ASSUME UnmatchedRows \subseteq live
      PROVE  MapThenSumSet(LAMBDA i : r[i].unmatched, DOMAIN r) = Cardinality(u)
  <2> DEFINE P == [i \in DOMAIN r |-> InArea(u, q.level, r[i].key)]
  <2>0. \A x \in u : KeyColumns(q.level, x) \in Keys(q)
    BY <1>7, <1>9 DEF Scoped
  <2> HIDE DEF u
  <2>1. Whole(P, DOMAIN r) = u /\ Parts(P, DOMAIN r, [i \in DOMAIN r |-> Cardinality(P[i])])
    BY <1>6, <2>0, AreasShareOut
  <2>2. [i \in DOMAIN r |-> Cardinality(P[i])] = [i \in DOMAIN r |-> r[i].unmatched]
    BY <1>5
  <2> HIDE DEF P
  <2>3. Parts(P, DOMAIN r, [i \in DOMAIN r |-> r[i].unmatched])
    BY <2>1, <2>2
  <2> QED
    BY <2>1, <2>3, UnmatchedAdd
<1> QED
  BY <1>3, <1>4, <1>8, <1>9

\* The rows of cells that do not wait are live.
LEMMA ServedRowsLive ==
  ASSUME Counted, CellServedOrQueued, NEW r \in UnmatchedRows, r.geom.cell \notin queue
  PROVE  r \in live
<1>1. PICK c \in Cells : r \in served[c]
  BY DEF UnmatchedRows
<1>2. r.geom.cell = c
  BY <1>1 DEF Counted
<1>3. served[c] = RowsIn(live, reports, c)
  BY <1>2 DEF CellServedOrQueued
<1> QED
  BY <1>1, <1>3, RowsInCell

\* Nothing is left out where no unit is asked for.
LEMMA NoUnitIsAll ==
  ASSUME NEW T, \A r \in T : r.unit \in Terc
  PROVE  Scoped(T, <<>>) = T
<1>1. ASSUME NEW r \in T PROVE IsPrefix(<<>>, r.unit)
  <2>1. r.unit \in Seq(Nat) /\ Len(r.unit) = 4
    BY TercAssumption
  <2>2. SubSeq(<<>>, 1, 0) = <<>> /\ SubSeq(r.unit, 1, 0) = <<>>
    BY SubSeqEmpty
  <2>3. Len(<<>>) = 0
    OBVIOUS
  <2> QED
    BY <2>1, <2>2, <2>3 DEF IsPrefix
<1> QED
  BY <1>1 DEF Scoped

\* Where the tables are counted and no stale cell is forgotten, walks add up.
LEMMA CountsAddUp == Counted /\ CellServedOrQueued => WalksAddUp
<1> SUFFICES ASSUME Counted, CellServedOrQueued PROVE WalksAddUp
  OBVIOUS
<1> SUFFICES
      ASSUME NEW q \in Queries
      PROVE
        LET addresses == Scoped(live, q.within)
            unmatched == Scoped(UnmatchedRows, q.within)
            Waiting(k) == \E r \in unmatched : KeyColumns(q.level, r) = k /\ r.geom.cell \in queue
        IN /\ \A walk \in Walks(q) :
                /\ Len(walk) = TotalItems(q, LastPage(q) + 1) /\ ToSet(walk) = Areas(q)
                /\ MapThenSumSet(LAMBDA i : walk[i].total, DOMAIN walk) = Cardinality(addresses)
                /\ queue = {} => MapThenSumSet(LAMBDA i : walk[i].unmatched, DOMAIN walk)
                                   = Cardinality(unmatched)
           /\ q.within = <<>> => /\ Cardinality(addresses) = Summary.comparable
                                 /\ Cardinality(unmatched) = Summary.unmatched
           /\ \A a \in Areas(q) : a.unmatched <= a.total \/ Waiting(a.key)
  BY DEF WalksAddUp
<1> DEFINE addresses == Scoped(live, q.within)
           unmatched == Scoped(UnmatchedRows, q.within)
           Waiting(k) == \E r \in unmatched : KeyColumns(q.level, r) = k /\ r.geom.cell \in queue
<1>1. ASSUME NEW walk \in Walks(q)
      PROVE  /\ Len(walk) = TotalItems(q, LastPage(q) + 1) /\ ToSet(walk) = Areas(q)
             /\ MapThenSumSet(LAMBDA i : walk[i].total, DOMAIN walk) = Cardinality(addresses)
             /\ queue = {} => MapThenSumSet(LAMBDA i : walk[i].unmatched, DOMAIN walk)
                                = Cardinality(unmatched)
  <2>1. PICK r \in SetToSeqs(Areas(q)) : Rankings(q) = {r}
    BY RankedOnce
  <2>2. walk = r
    BY <2>1, WalkIsRanking
  <2>3. walk \in SetToSeqs(Areas(q))
    BY <2>1, <2>2
  <2>4. /\ Len(walk) = Cardinality(Keys(q)) /\ ToSet(walk) = Areas(q)
        /\ MapThenSumSet(LAMBDA i : walk[i].total, DOMAIN walk) = Cardinality(addresses)
        /\ UnmatchedRows \subseteq live =>
             MapThenSumSet(LAMBDA i : walk[i].unmatched, DOMAIN walk) = Cardinality(unmatched)
    BY <2>3, RankingAddsUp
  <2>5. TotalItems(q, LastPage(q) + 1) = Cardinality(Keys(q))
    BY AreasCountable DEF TotalItems, Keys
  <2>6. queue = {} => UnmatchedRows \subseteq live
    BY ServedRowsLive
  <2> QED
    BY <2>4, <2>5, <2>6
<1>2. q.within = <<>> => /\ Cardinality(addresses) = Summary.comparable
                         /\ Cardinality(unmatched) = Summary.unmatched
  <2>1. Scoped(live, <<>>) = live /\ Scoped(UnmatchedRows, <<>>) = UnmatchedRows
    BY NoUnitIsAll DEF Counted
  <2> QED
    BY <2>1 DEF Summary
<1>3. ASSUME NEW a \in Areas(q), ~Waiting(a.key) PROVE a.unmatched <= a.total
  <2> DEFINE A == InArea(addresses, q.level, a.key)
             U == InArea(unmatched, q.level, a.key)
  <2>1. a.total = Cardinality(A) /\ a.unmatched = Cardinality(U)
    BY AreasCountable DEF Area
  <2>2. U \in SUBSET A
    BY <1>3, ServedRowsLive DEF InArea, Scoped
  <2>3. IsFiniteSet(A)
    BY GroupsFinite
  <2> HIDE DEF A, U
  <2> QED
    BY <2>1, <2>2, <2>3, FS_Subset
<1> HIDE DEF addresses, unmatched, Waiting
<1> QED
  BY <1>1, <1>2, <1>3 DEF addresses, unmatched, Waiting

\* A walk through the pages of a ranking meets every area once, and the areas'
\* counts add up to the national figures, whatever refreshes, reports and
\* recomputes came before it.
THEOREM WalksAlwaysAddUp == Spec => []WalksAddUp
BY CountedInvariance, CountsAddUp, PTL

\* A query has one ranking.
OneRanking == \A q \in Queries : \E r : Rankings(q) = {r}

\* Every query has exactly one ranking: the ORDER BY of areas_sql leaves
\* nothing open, so two requests for two pages cut them from one list.
THEOREM RankingsDetermined == Spec => []OneRanking
<1>1. Counted => OneRanking
  BY RankedOnce DEF OneRanking
<1> QED
  BY <1>1, CountedInvariance, PTL

-------------------------------------------------------------------------------
(* The axis order of a file of points (Loads)                                *)

\* The two orders exchange the coordinates of every row.
LEMMA OrdersExchange ==
  ASSUME NEW r
  PROVE  /\ ExchangedPoint(PointOf(r, "xy")) = PointOf(r, "yx")
         /\ ExchangedPoint(PointOf(r, "yx")) = PointOf(r, "xy")
BY DEF ExchangedPoint, PointOf

\* check_axis_order over rows that are read in one of the two orders.
LEMMA CheckedAs ==
  ASSUME NEW T, NEW order, NEW o, NEW x, (o = "xy" /\ x = "yx") \/ (o = "yx" /\ x = "xy"),
         \A r \in T : PointOf(r, order) = PointOf(r, o)
  PROVE  /\ CheckAxisOrder(T, order) = "exchanged fits" => CheckAxisOrder(T, x) = "fits"
         /\ CheckAxisOrder(T, order) = "neither fits" =>
              CheckAxisOrder(T, o) # "fits" /\ CheckAxisOrder(T, x) # "fits"
<1> DEFINE outside(p) == {r \in T : PointOf(r, p) \notin Poland}
           exchanged(p) == {r \in T : ExchangedPoint(PointOf(r, p)) \notin Poland}
           over(S) == OverTolerance(Cardinality(S), Cardinality(T))
<1>1. outside(order) = outside(o)
  OBVIOUS
<1>2. exchanged(order) = outside(x)
  BY OrdersExchange
<1>3. \A p : CheckAxisOrder(T, p) =
        CASE ~over(outside(p)) -> "fits"
          [] over(outside(p)) /\ ~over(exchanged(p)) -> "exchanged fits"
          [] OTHER -> "neither fits"
  BY DEF CheckAxisOrder
<1> HIDE DEF outside, exchanged, over
<1>4. \A p : /\ CheckAxisOrder(T, p) = "fits" <=> ~over(outside(p))
             /\ CheckAxisOrder(T, p) = "exchanged fits" => ~over(exchanged(p))
             /\ CheckAxisOrder(T, p) = "neither fits" => over(outside(p)) /\ over(exchanged(p))
  BY <1>3
<1>5. over(outside(order)) = over(outside(o)) /\ over(exchanged(order)) = over(outside(x))
  BY <1>1, <1>2
<1> QED
  BY <1>4, <1>5

\* For any finite files and any border: the hint of a refusal is right.
THEOREM HintsAreRight ==
  ASSUME NEW points, \A file \in points : IsFiniteSet(file)
  PROVE  HintHolds(points)
<1> SUFFICES ASSUME NEW file \in points, NEW order \in {"auto", "xy", "yx"}
             PROVE  LET T == LoadedRows(file)
                        names == {r.srsName : r \in T}
                        easting == order = "xy" \/ (order = "auto" /\ names = {"EPSG:2180"})
                        other == IF easting THEN "yx" ELSE "xy"
                    IN (names # {} /\ (order = "auto" => Cardinality(names) = 1)) =>
                         CASE CheckAxisOrder(T, order) = "exchanged fits" -> CheckAxisOrder(T, other) = "fits"
                           [] CheckAxisOrder(T, order) = "neither fits" ->
                                \A o \in {"xy", "yx"} : CheckAxisOrder(T, o) # "fits"
                           [] OTHER -> TRUE
  BY Zenon DEF HintHolds
<1> DEFINE T == LoadedRows(file)
           names == {r.srsName : r \in T}
           easting == order = "xy" \/ (order = "auto" /\ names = {"EPSG:2180"})
           other == IF easting THEN "yx" ELSE "xy"
           Right == CASE CheckAxisOrder(T, order) = "exchanged fits" -> CheckAxisOrder(T, other) = "fits"
                      [] CheckAxisOrder(T, order) = "neither fits" ->
                           \A o \in {"xy", "yx"} : CheckAxisOrder(T, o) # "fits"
                      [] OTHER -> TRUE
<1> SUFFICES ASSUME names # {}, order = "auto" => Cardinality(names) = 1
             PROVE  Right
  OBVIOUS
<1>1. IsFiniteSet(names)
  <2>1. IsFiniteSet(T)
    <3>1. T \subseteq file
      BY DEF LoadedRows
    <3> QED
      BY <3>1, FS_Subset
  <2> DEFINE f == [r \in T |-> r.srsName]
  <2>2. f \in Surjection(T, names)
    <3>1. f \in [T -> names] /\ \A n \in names : \E r \in T : f[r] = n
      OBVIOUS
    <3> QED
      BY <3>1 DEF Surjection
  <2> HIDE DEF T, names, f
  <2> QED
    BY <2>1, <2>2, FS_Surjection
<1>2. order = "auto" => \E s : names = {s}
  BY <1>1, FS_Singleton
<1>3. \A r \in T : r.srsName \in names
  OBVIOUS
<1> HIDE DEF T, names
<1>4. \A r \in T : PointOf(r, order) = PointOf(r, IF easting THEN "xy" ELSE "yx")
  <2>1. CASE order = "xy"
    BY <2>1
  <2>2. CASE order = "yx"
    BY <2>2
  <2>3. CASE order = "auto"
    <3>1. PICK s : names = {s}
      BY <1>2, <2>3
    <3>2. CASE s = "EPSG:2180"
      BY <1>3, <2>3, <3>1, <3>2 DEF PointOf
    <3>3. CASE s # "EPSG:2180"
      BY <1>3, <2>3, <3>1, <3>3 DEF PointOf
    <3> QED
      BY <3>2, <3>3
  <2> QED
    BY <2>1, <2>2, <2>3
<1> DEFINE own == IF easting THEN "xy" ELSE "yx"
<1>5. ((own = "xy" /\ other = "yx") \/ (own = "yx" /\ other = "xy")) /\ {own, other} = {"xy", "yx"}
  OBVIOUS
<1>6. \A r \in T : PointOf(r, order) = PointOf(r, own)
  BY <1>4
<1>7. /\ CheckAxisOrder(T, order) = "exchanged fits" => CheckAxisOrder(T, other) = "fits"
      /\ CheckAxisOrder(T, order) = "neither fits" =>
           CheckAxisOrder(T, own) # "fits" /\ CheckAxisOrder(T, other) # "fits"
  <2> HIDE DEF own, other
  <2> QED
    BY <1>5, <1>6, CheckedAs
<1>8. CheckAxisOrder(T, order) = "neither fits" => \A o \in {"xy", "yx"} : CheckAxisOrder(T, o) # "fits"
  <2> HIDE DEF own, other
  <2> QED
    BY <1>5, <1>7
<1> QED
  BY <1>7, <1>8
=============================================================================
