---------------------------- MODULE ServingProofs ----------------------------
(***************************************************************************)
(* Proofs about what is served: the tile cache (TileCache), for any number *)
(* of tiles, requests, connections and commits and any budget; the answers *)
(* (Serving), for any records, rows, names, mapping files, areas and       *)
(* batches; and their headers (Responses), for any renders, etags, lists   *)
(* of codings and entity-tags.                                             *)
(*                                                                         *)
(* What a render sees rests on the pool: a connection is in a transaction  *)
(* only while a job has it, because has_broken ends or drops what comes    *)
(* back.  What the cache weighs rests on the running total, which the test *)
(* before an entry is placed bounds; that the total is the sum of the      *)
(* sizes is proved by counting: the sum of a generation's sizes is the     *)
(* number of pairs of a tile and one of its bytes, so that what an entry   *)
(* adds or takes is a fact about cardinalities.                            *)
(*                                                                         *)
(* What the answers say rests on AnswersInv: a copy in *_unmatched is its  *)
(* record's row or its cell waits for the match, and a mapping table, once *)
(* checked by validate_and_swap, has one row of a kind.  The rest is       *)
(* geometry: a row no wider than a cell is drawn by the tile of its cell   *)
(* or the next, and a tile reads of a block's scan what it reads alone.    *)
(*                                                                         *)
(* What the headers say rests on the codec: a value that EncodeValue wrote *)
(* is decoded to the render by the version that wrote it, and to nothing   *)
(* by another, so that a hit has the parts of which a miss is made.        *)
(***************************************************************************)
EXTENDS TileCache, Serving, Responses, FiniteSetTheorems, SequenceTheorems,
        WellFoundedInduction, TLAPS

Connection == [user : {"pool", "job", "request", "closed"}, tx : Transactions, sees : Nat]
Request == [phase : {"idle", "miss", "read", "failed", "prepare"}, key : Keys \cup {None},
            since : Nat, version : Nat, on : Conns \cup {None}]

\* Only a job's connection is in a transaction.
Pool ==
  /\ db \in Nat /\ conn \in [Conns -> Connection]
  /\ \A c \in Conns : conn[c].tx # "none" => conn[c].user = "job"
\* What a request has read is no older than it is.
Recent(q, now) ==
  /\ q.since <= now /\ q.phase # "failed"
  /\ q.phase \in {"read", "prepare"} => q.version >= q.since
  /\ q.phase = "read" => q.on \in Conns
Reading == req \in [Requests -> Request] /\ \A r \in Requests : Recent(req[r], db)

\* What has_broken and the jobs leave of a connection is a connection.
LEMMA FreeTyped == Free \in Connection /\ [Free EXCEPT !.user = "job"] \in Connection
                                        /\ [Free EXCEPT !.user = "closed"] \in Connection
BY DEF Free, Connection, Transactions

\* Whatever is done with a connection, only a job leaves it in a transaction.
LEMMA PoolNext == Pool /\ [Next]_vars => Pool'
<1> SUFFICES ASSUME Pool, [Next]_vars PROVE Pool'
  OBVIOUS
<1> USE DEF Pool
<1>1. ASSUME NEW c \in Conns, NEW v \in Connection, v.tx = "none" \/ v.user = "job",
             conn' = [conn EXCEPT ![c] = v], db' \in Nat
      PROVE  Pool'
  BY <1>1
<1>2. ASSUME NEW c \in Conns, Connect(c) \/ JobCommit(c) \/ JobRollback(c) PROVE Pool'
  <2>1. conn' \in {[conn EXCEPT ![c] = Free], [conn EXCEPT ![c] = [Free EXCEPT !.user = "job"]]}
    BY <1>2 DEF Connect, JobCommit, JobRollback
  <2>2. db' \in Nat
    BY <1>2 DEF Connect, JobCommit, JobRollback
  <2> QED
    BY <1>1, <2>1, <2>2, FreeTyped DEF Free
<1>3. ASSUME NEW c \in Conns, JobTake(c) \/ JobBegin(c) \/ JobWrite(c) PROVE Pool'
  <2> USE DEF Connection, Transactions
  <2>1. CASE JobTake(c)
    BY <2>1 DEF JobTake, Taken
  <2>2. CASE JobBegin(c)
    BY <2>2 DEF JobBegin
  <2>3. CASE JobWrite(c)
    BY <2>3 DEF JobWrite
  <2> QED
    BY <1>3, <2>1, <2>2, <2>3
<1>4. ASSUME NEW c \in Conns, NEW ended, conn' = [conn EXCEPT ![c] = Returned(c, ended)], db' = db
      PROVE  Pool'
  <2>1. Returned(c, ended) \in {Free, [Free EXCEPT !.user = "closed"]}
    BY DEF Returned
  <2> QED
    BY <1>1, <1>4, <2>1, FreeTyped DEF Free
<1>5. ASSUME NEW c \in Conns, NEW r \in Requests, Render(r, c) PROVE Pool'
  BY <1>5 DEF Render, Taken, Connection, Transactions
<1>6. ASSUME NEW r \in Requests, DropConn(r) PROVE Pool'
  <2>1. CASE req[r].on \in Conns
    BY <1>4, <1>6, <2>1 DEF DropConn
  <2>2. CASE req[r].on \notin Conns
    BY <1>6, <2>2 DEF DropConn
  <2> QED
    BY <2>1, <2>2
<1>7. CASE UNCHANGED <<db, conn>>
  BY <1>7
<1>8. \A c \in Conns : JobReturn(c) => Pool'
  BY <1>4 DEF JobReturn
<1> QED
  BY <1>2, <1>3, <1>5, <1>6, <1>7, <1>8 DEF Next, vars, TimeOut, Lookup, Answer, Tick

\* A render reads what is committed, since no free connection is in a
\* transaction, and commits only add to that.
LEMMA ReadsNext == Pool /\ Reading /\ [Next]_vars => Reading'
<1> SUFFICES ASSUME Pool, Reading, [Next]_vars PROVE Reading'
  OBVIOUS
<1> USE DEF Reading
<1>1. ASSUME NEW r \in Requests, NEW q \in Request, Recent(q, db),
             req' = [req EXCEPT ![r] = q], db' = db
      PROVE  Reading'
  BY <1>1
<1>2. NoRequest \in Request /\ Recent(NoRequest, db)
  BY DEF NoRequest, Request, Recent, Pool
<1>3. ASSUME NEW r \in Requests, NEW c \in Conns, Render(r, c) PROVE Reading'
  <2>1. conn[c].tx = "none"
    BY <1>3 DEF Render, Taken, Pool
  <2>2. req' = [req EXCEPT ![r] = [@ EXCEPT !.on = c, !.phase = "read", !.version = db]] /\ db' = db
    BY <1>3, <2>1 DEF Render
  <2>3. /\ [req[r] EXCEPT !.on = c, !.phase = "read", !.version = db] \in Request
        /\ Recent([req[r] EXCEPT !.on = c, !.phase = "read", !.version = db], db)
    BY DEF Request, Recent, Pool
  <2> QED
    BY <1>1, <2>2, <2>3
<1>4. ASSUME NEW r \in Requests, DropConn(r) PROVE Reading'
  <2>1. req[r].phase = "read"
    BY <1>4 DEF DropConn, Recent
  <2>2. req' = [req EXCEPT ![r] = [@ EXCEPT !.phase = "prepare", !.on = None]] /\ db' = db
    BY <1>4, <2>1 DEF DropConn
  <2>3. /\ [req[r] EXCEPT !.phase = "prepare", !.on = None] \in Request
        /\ Recent([req[r] EXCEPT !.phase = "prepare", !.on = None], db)
    BY <2>1 DEF Request, Recent, Pool
  <2> QED
    BY <1>1, <2>2, <2>3
<1>5. ASSUME NEW r \in Requests, NEW k \in Keys, Lookup(r, k) PROVE Reading'
  <2>1. db' = db /\ (\/ req' = req
                     \/ req' = [req EXCEPT ![r] = [NoRequest EXCEPT !.phase = "miss", !.key = k, !.since = db]])
    BY <1>5 DEF Lookup
  <2>2. ASSUME NEW q, q = [NoRequest EXCEPT !.phase = "miss", !.key = k, !.since = db]
        PROVE  q \in Request /\ Recent(q, db)
    <3>1. q \in Request
      BY <1>2, <2>2 DEF Request, Pool
    <3>2. q.phase = "miss" /\ q.since = db
      BY <1>2, <2>2 DEF Request
    <3> QED
      BY <3>1, <3>2 DEF Recent, Pool
  <2>3. CASE req' = req
    BY <2>1, <2>3
  <2> QED
    BY <1>1, <2>1, <2>2, <2>3
<1>6. ASSUME NEW r \in Requests, TimeOut(r) \/ \E size \in Sizes : Answer(r, size) PROVE Reading'
  BY <1>1, <1>2, <1>6 DEF TimeOut, Answer
<1>7. ASSUME NEW c \in Conns, JobCommit(c) PROVE Reading'
  BY <1>7 DEF JobCommit, Recent, Request, Pool
<1>8. CASE UNCHANGED <<db, req>>
  BY <1>8
<1> QED
  BY <1>3, <1>4, <1>5, <1>6, <1>7, <1>8
  DEF Next, vars, Connect, JobTake, JobBegin, JobWrite, JobRollback, JobReturn, Tick

\* No render reads from before its request, or from a transaction of a job.
THEOREM RendersAreRecent == Spec => []RendersSeeCommits
<1>1. Init => Pool /\ Reading
  BY FreeTyped DEF Init, Pool, Reading, Recent, Request, NoRequest, Free
<1>2. Pool /\ Reading => RendersSeeCommits
  BY DEF Pool, Reading, Recent, RendersSeeCommits
<1> QED
  BY <1>1, <1>2, PoolNext, ReadsNext, PTL DEF Spec

-------------------------------------------------------------------------------
(* What a generation weighs                                                *)

\* As many pairs as the tiles s of the generation have bytes.
Weight(gen, s) == {p \in s \X Nat : p[2] \in 1 .. gen[p[1]].size}
Sized(gen) == IsFiniteSet(DOMAIN gen) /\ \A k \in DOMAIN gen : gen[k].size \in Nat

\* Every subset of a finite set has a property of sets that passes to each
\* subset from its smaller ones: the least of the others is none.
LEMMA LeastSubset ==
  ASSUME NEW S, IsFiniteSet(S), NEW T \in SUBSET (SUBSET S), T # {}
  PROVE  \E s \in T : \A u \in T : u \subseteq s => u = s
<1>1. IsWellFoundedOn(StrictSubsetOrdering(S), SUBSET S)
  BY FS_StrictSubsetOrderingWellFounded, FS_FiniteSubsetsOfFinite
<1>2. PICK s \in T : \A u \in T : <<u, s>> \notin StrictSubsetOrdering(S)
  BY <1>1, WFMin
<1>3. \A u \in T : u \subseteq s => u = s
  BY <1>2 DEF StrictSubsetOrdering
<1> QED
  BY <1>3

\* The numbers up to a size are as many as the size.
LEMMA ToSize ==
  ASSUME NEW n \in Nat
  PROVE  IsFiniteSet(1 .. n) /\ Cardinality(1 .. n) = n
<1>1. n \in Int /\ 1 \in Int
  OBVIOUS
<1>2. /\ IsFiniteSet(1 .. n)
      /\ Cardinality(1 .. n) = IF 1 > n THEN 0 ELSE n - 1 + 1
  BY <1>1, FS_Interval
<1>3. (IF 1 > n THEN 0 ELSE n - 1 + 1) = n
  OBVIOUS
<1> QED
  BY <1>2, <1>3

\* One tile more adds its size.
LEMMA OneMore ==
  ASSUME NEW gen, Sized(gen), NEW s \in SUBSET DOMAIN gen, NEW x \in s
  PROVE  /\ IsFiniteSet(Weight(gen, s)) /\ Cardinality(Weight(gen, s)) \in Nat
         /\ Cardinality(Weight(gen, s)) = gen[x].size + Cardinality(Weight(gen, s \ {x}))
<1> DEFINE column(k) == {k} \X (1 .. gen[k].size)
           columns(t) == {column(k) : k \in t}
<1>1. \A k \in DOMAIN gen : IsFiniteSet(column(k)) /\ Cardinality(column(k)) = gen[k].size
  <2> SUFFICES ASSUME NEW k \in DOMAIN gen
               PROVE  IsFiniteSet(column(k)) /\ Cardinality(column(k)) = gen[k].size
    OBVIOUS
  <2>1. gen[k].size \in Nat
    BY DEF Sized
  <2>2. IsFiniteSet({k}) /\ Cardinality({k}) = 1
    BY FS_Singleton
  <2>3. IsFiniteSet(1 .. gen[k].size) /\ Cardinality(1 .. gen[k].size) = gen[k].size
    BY <2>1, ToSize
  <2>4. /\ IsFiniteSet(column(k))
        /\ Cardinality(column(k)) = Cardinality({k}) * Cardinality(1 .. gen[k].size)
    BY <2>2, <2>3, FS_Product
  <2> QED
    BY <2>1, <2>2, <2>3, <2>4
<1>2. ASSUME NEW t \in SUBSET DOMAIN gen PROVE IsFiniteSet(Weight(gen, t))
  <2> DEFINE f == [k \in t |-> column(k)]
  <2>1. f \in Surjection(t, columns(t))
    BY DEF Surjection
  <2>2. IsFiniteSet(t)
    BY FS_Subset DEF Sized
  <2> HIDE DEF f
  <2>3. IsFiniteSet(columns(t))
    BY <2>1, <2>2, FS_Surjection
  <2>4. \A c \in columns(t) : IsFiniteSet(c)
    BY <1>1
  <2>5. IsFiniteSet(UNION columns(t))
    BY <2>3, <2>4, FS_UNION
  <2>6. Weight(gen, t) \subseteq UNION columns(t)
    BY DEF Weight
  <2> QED
    BY <2>5, <2>6, FS_Subset
<1>3. /\ Weight(gen, s) = column(x) \cup Weight(gen, s \ {x})
      /\ column(x) \cap Weight(gen, s \ {x}) = {}
  BY DEF Weight, Sized
<1>4. IsFiniteSet(Weight(gen, s)) /\ IsFiniteSet(Weight(gen, s \ {x})) /\ IsFiniteSet(column(x))
  BY <1>1, <1>2
<1>5. Cardinality(Weight(gen, s)) \in Nat /\ Cardinality(Weight(gen, s \ {x})) \in Nat
  BY <1>4, FS_CardinalityType
<1>6. Cardinality(column(x) \cup Weight(gen, s \ {x}))
        = Cardinality(column(x)) + Cardinality(Weight(gen, s \ {x})) - Cardinality({})
  <2> DEFINE A == column(x)
             B == Weight(gen, s \ {x})
  <2>1. IsFiniteSet(A) /\ IsFiniteSet(B) /\ A \cap B = {}
    BY <1>3, <1>4
  <2> HIDE DEF A, B
  <2>2. Cardinality(A \cup B) = Cardinality(A) + Cardinality(B) - Cardinality(A \cap B)
    BY <2>1, FS_Union
  <2>3. Cardinality(A \cup B) = Cardinality(A) + Cardinality(B) - Cardinality({})
    BY <2>1, <2>2
  <2> QED
    BY <2>3 DEF A, B
<1> HIDE DEF column, columns
<1> QED
  BY <1>1, <1>3, <1>4, <1>5, <1>6, FS_EmptySet DEF Sized

\* No tile weighs nothing.
LEMMA WeightOfNone == \A gen : Weight(gen, {}) = {} /\ Cardinality(Weight(gen, {})) = 0
BY FS_EmptySet DEF Weight

\* The sum of the sizes is that count: it satisfies the sum's recursion, and by
\* the least set at which another function differed, no other does.
LEMMA BytesCounted ==
  ASSUME NEW gen, Sized(gen)
  PROVE  Bytes(gen) = Cardinality(Weight(gen, DOMAIN gen)) /\ Bytes(gen) \in Nat
<1> DEFINE S == DOMAIN gen
           one(s) == CHOOSE x \in s : TRUE
           Sums(g) == g = [s \in SUBSET S |->
                             IF s = {} THEN 0 ELSE gen[one(s)].size + g[s \ {one(s)}]]
           count == [s \in SUBSET S |-> Cardinality(Weight(gen, s))]
<1>1. Bytes(gen) = (CHOOSE g : Sums(g))[S]
  BY DEF Bytes, MapThenSumSet, MapThenFoldSet
<1>o. \A s \in SUBSET S : s # {} => one(s) \in s /\ s \ {one(s)} \in SUBSET S
  OBVIOUS
<1> HIDE DEF one
<1>2. Sums(count)
  <2>1. \A s \in SUBSET S : count[s] = IF s = {} THEN 0 ELSE gen[one(s)].size + count[s \ {one(s)}]
    <3> SUFFICES ASSUME NEW s \in SUBSET S
                 PROVE  count[s] = IF s = {} THEN 0 ELSE gen[one(s)].size + count[s \ {one(s)}]
      OBVIOUS
    <3>1. CASE s = {}
      BY <3>1, WeightOfNone
    <3>2. CASE s # {}
      <4>1. one(s) \in s /\ s \ {one(s)} \in SUBSET S
        BY <1>o, <3>2
      <4>2. Cardinality(Weight(gen, s)) = gen[one(s)].size + Cardinality(Weight(gen, s \ {one(s)}))
        BY <4>1, OneMore
      <4> QED
        BY <3>2, <4>1, <4>2
    <3> QED
      BY <3>1, <3>2
  <2> QED
    BY <2>1
<1> DEFINE g == CHOOSE h : Sums(h)
<1>3. Sums(g)
  BY <1>2
<1> HIDE DEF g
<1>4. \A s \in SUBSET S : g[s] = count[s]
  <2> DEFINE T == {s \in SUBSET S : g[s] # count[s]}
  <2> SUFFICES ASSUME T # {} PROVE FALSE
    OBVIOUS
  <2>1. T \in SUBSET (SUBSET S) /\ IsFiniteSet(S)
    BY DEF Sized
  <2>t. \A s : s \in T <=> s \in SUBSET S /\ g[s] # count[s]
    OBVIOUS
  <2> HIDE DEF T, S, count
  <2>2. PICK s \in T : \A u \in T : u \subseteq s => u = s
    BY <2>1, LeastSubset
  <2>3. s \in SUBSET S /\ g[s] # count[s]
    BY <2>t
  <2>4. /\ g[s] = IF s = {} THEN 0 ELSE gen[one(s)].size + g[s \ {one(s)}]
        /\ count[s] = IF s = {} THEN 0 ELSE gen[one(s)].size + count[s \ {one(s)}]
    BY <1>2, <1>3, <2>3
  <2>5. CASE s = {}
    BY <2>3, <2>4, <2>5
  <2>6. CASE s # {}
    <3>1. one(s) \in s /\ s \ {one(s)} \in SUBSET S
      BY <1>o, <2>3, <2>6
    <3>2. s \ {one(s)} \notin T
      BY <2>2, <3>1
    <3>3. g[s \ {one(s)}] = count[s \ {one(s)}]
      BY <2>t, <3>1, <3>2
    <3> QED
      BY <2>3, <2>4, <2>6, <3>3
  <2> QED
    BY <2>5, <2>6
<1>5. Bytes(gen) = Cardinality(Weight(gen, S))
  BY <1>1, <1>4 DEF g
<1>6. Cardinality(Weight(gen, S)) \in Nat
  <2>1. CASE S = {}
    BY <2>1, WeightOfNone
  <2>2. CASE S # {}
    <3>1. PICK x \in S : TRUE
      BY <2>2
    <3>2. S \in SUBSET DOMAIN gen
      OBVIOUS
    <3> QED
      BY <3>1, <3>2, OneMore
  <2> QED
    BY <2>1, <2>2
<1> QED
  BY <1>5, <1>6

\* A generation weighs nothing when it is new, what it did when it ages, and
\* what it did less what goes and with what comes.
LEMMA BytesOfNone == Sized(NoEntries) /\ Bytes(NoEntries) = 0
<1>1. DOMAIN NoEntries = {} /\ Sized(NoEntries)
  BY FS_EmptySet DEF NoEntries, Sized
<1> QED
  BY <1>1, BytesCounted, WeightOfNone

\* Dropping a key takes off the bytes it had.
LEMMA BytesOfWithout ==
  ASSUME NEW gen, Sized(gen), NEW k
  PROVE  /\ Sized(Without(gen, k)) /\ SizeIn(gen, k) \in Nat
         /\ Bytes(Without(gen, k)) = Bytes(gen) - SizeIn(gen, k)
<1> DEFINE w == Without(gen, k)
           D == DOMAIN gen
<1>1. DOMAIN w = D \ {k} /\ \A j \in D \ {k} : w[j] = gen[j]
  BY DEF Without, Restrict
<1>2. Sized(w)
  BY <1>1, FS_RemoveElement DEF Sized
<1>3. Weight(w, D \ {k}) = Weight(gen, D \ {k})
  BY <1>1 DEF Weight
<1>4. Bytes(w) = Cardinality(Weight(gen, D \ {k})) /\ Bytes(gen) = Cardinality(Weight(gen, D))
  BY <1>1, <1>2, <1>3, BytesCounted
<1>5. Bytes(w) \in Nat /\ Bytes(gen) \in Nat /\ SizeIn(gen, k) \in Nat
  BY <1>2, BytesCounted DEF SizeIn, Sized
<1>6. CASE k \in D
  <2>1. Cardinality(Weight(gen, D)) = gen[k].size + Cardinality(Weight(gen, D \ {k}))
    BY <1>6, OneMore
  <2> QED
    BY <1>2, <1>4, <1>5, <1>6, <2>1 DEF SizeIn
<1>7. CASE k \notin D
  <2>1. D \ {k} = D /\ SizeIn(gen, k) = 0
    BY <1>7 DEF SizeIn
  <2> QED
    BY <1>2, <1>4, <1>5, <2>1
<1> QED
  BY <1>6, <1>7

\* Putting an entry replaces the bytes its key had by its own.
LEMMA BytesOfPut ==
  ASSUME NEW gen, Sized(gen), NEW k, NEW e, e.size \in Nat
  PROVE  /\ Sized(Put(gen, k, e))
         /\ Bytes(Put(gen, k, e)) = Bytes(gen) - SizeIn(gen, k) + e.size
<1> DEFINE p == Put(gen, k, e)
           w == Without(gen, k)
           D == DOMAIN gen
<1>1. /\ DOMAIN p = D \cup {k} /\ p[k] = e /\ \A j \in D \ {k} : p[j] = gen[j]
      /\ DOMAIN w = D \ {k} /\ \A j \in D \ {k} : w[j] = gen[j]
  BY DEF Put, Without, Restrict
<1>2. Sized(p)
  BY <1>1, FS_AddElement DEF Sized
<1>3. Weight(p, (D \cup {k}) \ {k}) = Weight(w, D \ {k})
  BY <1>1 DEF Weight
<1>4. Cardinality(Weight(p, D \cup {k})) = p[k].size + Cardinality(Weight(p, (D \cup {k}) \ {k}))
  <2>1. D \cup {k} \in SUBSET DOMAIN p /\ k \in D \cup {k}
    BY <1>1
  <2> QED
    BY <1>2, <2>1, OneMore
<1>5. Sized(w) /\ Bytes(w) = Bytes(gen) - SizeIn(gen, k)
  BY BytesOfWithout
<1>6. Bytes(p) = Cardinality(Weight(p, D \cup {k})) /\ Bytes(w) = Cardinality(Weight(w, D \ {k}))
  BY <1>1, <1>2, <1>5, BytesCounted
<1>7. Bytes(w) \in Nat /\ Bytes(gen) \in Nat /\ SizeIn(gen, k) \in Nat
  BY <1>5, BytesCounted, BytesOfWithout
<1>8. Bytes(p) = e.size + Bytes(w)
  BY <1>1, <1>3, <1>4, <1>6
<1> HIDE DEF p, w, D
<1>9. Bytes(p) = Bytes(gen) - SizeIn(gen, k) + e.size
  BY <1>5, <1>7, <1>8
<1> QED
  BY <1>2, <1>9 DEF p

\* Growing older changes no bytes.
LEMMA BytesOfAged ==
  ASSUME NEW gen, Sized(gen), \A k \in DOMAIN gen : gen[k] \in Entry
  PROVE  Sized(Aged(gen)) /\ Bytes(Aged(gen)) = Bytes(gen)
<1>1. /\ DOMAIN Aged(gen) = DOMAIN gen
      /\ \A k \in DOMAIN gen : Aged(gen)[k].size = gen[k].size
  BY DEF Aged, Entry
<1>2. Sized(Aged(gen)) /\ Weight(Aged(gen), DOMAIN gen) = Weight(gen, DOMAIN gen)
  BY <1>1 DEF Sized, Weight
<1> QED
  BY <1>1, <1>2, BytesCounted

-------------------------------------------------------------------------------
(* The cache                                                               *)

Half == MaxBytes \div 2
\* Nothing is kept that is bigger than a quarter of the budget, and an entry is
\* as old as what was sent of it: a promotion stamps nothing again.
Kept(e) == e \in Entry /\ e.size <= MaxBytes \div 4 /\ e.age = e.sent
Keeps(gen) ==
  /\ IsFiniteSet(DOMAIN gen) /\ DOMAIN gen \subseteq Keys
  /\ \A k \in DOMAIN gen : Kept(gen[k])
Budgeted(c) ==
  /\ c = [hot |-> c.hot, bytes |-> c.bytes, cold |-> c.cold]
  /\ Keeps(c.hot) /\ Keeps(c.cold)
  /\ c.bytes = Bytes(c.hot) /\ Bytes(c.hot) <= Half /\ Bytes(c.cold) <= Half
  /\ DOMAIN c.hot \cap DOMAIN c.cold = {}

\* The generations of a cache within its budget have sizes that add up.
LEMMA KeepsSized == \A gen : Keeps(gen) => Sized(gen)
BY SizesAssumption DEF Keeps, Kept, Sized, Entry

\* Placing an entry keeps the budget: what would pass half of it turns the hot
\* generation into the cold one.
LEMMA PlacedBudgeted ==
  ASSUME NEW c, Budgeted(c), NEW k \in Keys, NEW e, Kept(e)
  PROVE  Budgeted(Placed(c, k, e))
<1> DEFINE full == c.bytes - SizeIn(c.hot, k) + e.size > MaxBytes \div 2
           hot == IF full THEN NoEntries ELSE c.hot
           old == IF full THEN c.hot ELSE c.cold
           p == Placed(c, k, e)
<1>n. /\ MaxBytes \in Nat /\ Half \in Nat /\ MaxBytes \div 4 \in Nat /\ MaxBytes \div 4 <= Half
      /\ e.size \in Nat /\ e.size <= MaxBytes \div 4
  <2>1. \A n \in Nat : n \div 2 \in Nat /\ n \div 4 \in Nat /\ n \div 4 <= n \div 2
    OBVIOUS
  <2>2. MaxBytes \in Nat
    BY BoundsAssumption
  <2>3. e.size \in Sizes /\ e.size <= MaxBytes \div 4
    BY DEF Kept, Entry
  <2> QED
    BY <2>1, <2>2, <2>3, SizesAssumption DEF Half
<1>1. p = [hot |-> Put(hot, k, e),
           bytes |-> (IF full THEN 0 ELSE c.bytes) - SizeIn(hot, k) + e.size,
           cold |-> Without(old, k)]
  BY DEF Placed
<1>2. Keeps(hot) /\ Keeps(old) /\ Bytes(old) <= Half
  BY FS_EmptySet DEF Budgeted, Keeps, NoEntries
<1>3. Sized(hot) /\ Sized(old) /\ Bytes(hot) \in Nat /\ Bytes(old) \in Nat
  BY <1>2, KeepsSized, BytesCounted
<1>4. Bytes(hot) = IF full THEN 0 ELSE c.bytes
  BY BytesOfNone DEF Budgeted
<1>5. p.bytes = Bytes(p.hot)
  BY <1>1, <1>3, <1>4, <1>n, BytesOfPut
<1>6. p.bytes <= Half
  <2>1. CASE full
    <3>1. hot = NoEntries /\ SizeIn(hot, k) = 0
      BY <2>1 DEF NoEntries, SizeIn
    <3>2. p.bytes = 0 - 0 + e.size
      BY <1>1, <2>1, <3>1
    <3> QED
      BY <1>n, <3>2
  <2>2. CASE ~full
    <3>1. p.bytes = c.bytes - SizeIn(c.hot, k) + e.size
      BY <1>1, <2>2
    <3>2. c.bytes \in Nat /\ SizeIn(c.hot, k) \in Nat
      BY <1>3, <1>4, <2>2, BytesOfWithout
    <3> QED
      BY <1>n, <2>2, <3>1, <3>2 DEF Half
  <2> QED
    BY <2>1, <2>2
<1>7. Bytes(p.cold) <= Half
  <2>1. /\ Bytes(Without(old, k)) = Bytes(old) - SizeIn(old, k) /\ SizeIn(old, k) \in Nat
    BY <1>3, BytesOfWithout
  <2> QED
    BY <1>1, <1>2, <1>3, <1>n, <2>1
<1>8. /\ DOMAIN p.hot = DOMAIN hot \cup {k} /\ p.hot[k] = e
      /\ \A j \in DOMAIN hot \ {k} : p.hot[j] = hot[j]
      /\ DOMAIN p.cold = DOMAIN old \ {k} /\ \A j \in DOMAIN old \ {k} : p.cold[j] = old[j]
  BY <1>1 DEF Put, Without, Restrict
<1>9. Keeps(p.hot) /\ Keeps(p.cold)
  <2> HIDE DEF p, hot, old
  <2>1. IsFiniteSet(DOMAIN p.hot) /\ IsFiniteSet(DOMAIN p.cold)
    BY <1>2, <1>8, FS_AddElement, FS_RemoveElement DEF Keeps
  <2>2. DOMAIN p.hot \subseteq Keys /\ DOMAIN p.cold \subseteq Keys
    BY <1>2, <1>8 DEF Keeps
  <2>3. (\A j \in DOMAIN p.hot : Kept(p.hot[j])) /\ \A j \in DOMAIN p.cold : Kept(p.cold[j])
    BY <1>2, <1>8 DEF Keeps
  <2> QED
    BY <2>1, <2>2, <2>3 DEF Keeps
<1>10. DOMAIN p.hot \cap DOMAIN p.cold = {}
  <2>1. DOMAIN hot \cap DOMAIN old = {}
    BY DEF Budgeted, NoEntries
  <2> QED
    BY <1>8, <2>1
<1>11. p = [hot |-> p.hot, bytes |-> p.bytes, cold |-> p.cold]
  BY <1>1
<1> QED
  BY <1>5, <1>6, <1>7, <1>9, <1>10, <1>11 DEF Budgeted

\* What is found has not expired, and its promotion keeps the budget.
LEMMA PromotedBudgeted ==
  ASSUME Budgeted(cache), NEW k \in Keys, NEW e \in Hit(k)
  PROVE  Budgeted(Promoted(k, e))
<1>1. CASE Fresh(cache.hot, k)
  BY <1>1 DEF Promoted
<1>2. CASE ~Fresh(cache.hot, k)
  <2> DEFINE c == [cache EXCEPT !.cold = Without(@, k)]
  <2>1. e = cache.cold[k] /\ k \in DOMAIN cache.cold
    BY <1>2 DEF Hit, Fresh
  <2>2. Kept(e)
    BY <2>1 DEF Budgeted, Keeps
  <2>3. /\ c = [hot |-> cache.hot, bytes |-> cache.bytes, cold |-> Without(cache.cold, k)]
    BY DEF Budgeted
  <2>4. /\ Keeps(Without(cache.cold, k))
        /\ DOMAIN Without(cache.cold, k) \subseteq DOMAIN cache.cold
    BY FS_RemoveElement DEF Budgeted, Keeps, Without, Restrict
  <2>5. Bytes(Without(cache.cold, k)) <= Half
    <3>1. Sized(cache.cold) /\ Bytes(cache.cold) <= Half
      BY KeepsSized DEF Budgeted
    <3>2. /\ Bytes(Without(cache.cold, k)) = Bytes(cache.cold) - SizeIn(cache.cold, k)
          /\ SizeIn(cache.cold, k) \in Nat /\ Bytes(cache.cold) \in Nat /\ Half \in Nat
      BY <3>1, BytesOfWithout, BytesCounted, BoundsAssumption DEF Half
    <3> QED
      BY <3>1, <3>2
  <2>6. Budgeted(c)
    BY <2>3, <2>4, <2>5 DEF Budgeted
  <2> HIDE DEF c
  <2>7. Budgeted(Placed(c, k, e))
    BY <2>2, <2>6, PlacedBudgeted
  <2> QED
    BY <1>2, <2>7 DEF Promoted, c
<1> QED
  BY <1>1, <1>2

\* Inserting a rendered tile keeps the budget, whatever its size.
LEMMA InsertedBudgeted ==
  ASSUME Budgeted(cache), NEW k \in Keys, NEW size \in Sizes
  PROVE  Budgeted(Inserted(k, size))
<1> DEFINE e == [age |-> 0, sent |-> 0, size |-> size]
<1>1. CASE MaxBytes = 0 \/ size > MaxBytes \div 4
  BY <1>1 DEF Inserted
<1>2. CASE ~(MaxBytes = 0 \/ size > MaxBytes \div 4)
  <2>1. Kept(e)
    BY <1>2, BoundsAssumption, SizesAssumption DEF Kept, Entry
  <2> QED
    BY <1>2, <2>1, PlacedBudgeted DEF Inserted
<1> QED
  BY <1>1, <1>2

\* Time keeps the budget.
LEMMA TickBudgeted == Budgeted(cache) /\ Tick => Budgeted(cache)'
<1> SUFFICES ASSUME Budgeted(cache), Tick PROVE Budgeted(cache)'
  OBVIOUS
<1>1. cache' = [hot |-> Aged(cache.hot), bytes |-> cache.bytes, cold |-> Aged(cache.cold)]
  BY DEF Tick, Budgeted
<1>2. ASSUME NEW gen, Keeps(gen) PROVE Keeps(Aged(gen)) /\ Bytes(Aged(gen)) = Bytes(gen)
                                        /\ DOMAIN Aged(gen) = DOMAIN gen
  <2>1. DOMAIN Aged(gen) = DOMAIN gen
    BY DEF Aged
  <2>2. \A k \in DOMAIN gen : Kept(Aged(gen)[k])
    <3> SUFFICES ASSUME NEW k \in DOMAIN gen PROVE Kept(Aged(gen)[k])
      OBVIOUS
    <3>1. gen[k] \in Entry /\ gen[k].size <= MaxBytes \div 4 /\ gen[k].age = gen[k].sent
      BY <1>2 DEF Keeps, Kept
    <3>2. Older(gen[k].age) \in 0 .. Ttl /\ Older(gen[k].age) = Older(gen[k].sent)
      BY <3>1, BoundsAssumption DEF Older, Entry
    <3>3. Aged(gen)[k] = [gen[k] EXCEPT !.age = Older(gen[k].age), !.sent = Older(gen[k].sent)]
      BY DEF Aged
    <3>4. Aged(gen)[k] = [age |-> Older(gen[k].age), sent |-> Older(gen[k].sent), size |-> gen[k].size]
      BY <3>1, <3>3 DEF Entry
    <3> QED
      BY <3>1, <3>2, <3>4 DEF Kept, Entry
  <2>3. Bytes(Aged(gen)) = Bytes(gen)
    BY <1>2, KeepsSized, BytesOfAged DEF Keeps, Kept
  <2> QED
    BY <1>2, <2>1, <2>2, <2>3 DEF Keeps
<1> QED
  BY <1>1, <1>2 DEF Budgeted

-------------------------------------------------------------------------------
(* What is served of the cache                                             *)

Connections ==
  [user : {"pool", "job", "request", "closed"}, tx : Transactions, sees : Versions]
Asked == [phase : {"idle", "miss", "read", "failed", "prepare"}, key : Keys \cup {None},
          since : Versions, version : Versions, on : Conns \cup {None}]
\* A request that is under way is for a tile.
Typed ==
  /\ db \in Versions /\ conn \in [Conns -> Connections] /\ req \in [Requests -> Asked]
  /\ \A r \in Requests : req[r].phase # "idle" => req[r].key \in Keys

\* The records that connections and requests start from have their types.
LEMMA Kinds ==
  /\ Free \in Connections /\ [Free EXCEPT !.user = "job"] \in Connections
  /\ [Free EXCEPT !.user = "closed"] \in Connections
  /\ NoRequest \in Asked /\ NoRequest.phase = "idle"
BY BoundsAssumption DEF Free, Connections, Transactions, NoRequest, Asked, Versions

\* Every action keeps the types.
LEMMA TypedNext == Typed /\ [Next]_vars => Typed'
<1> SUFFICES ASSUME Typed, [Next]_vars PROVE Typed'
  OBVIOUS
<1> USE DEF Typed
<1>1. ASSUME NEW c \in Conns, NEW v \in Connections, conn' = [conn EXCEPT ![c] = v],
             db' \in Versions, req' = req
      PROVE  Typed'
  BY <1>1
<1>2. ASSUME NEW r \in Requests, NEW q \in Asked, q.phase # "idle" => q.key \in Keys,
             req' = [req EXCEPT ![r] = q], db' = db, conn' \in [Conns -> Connections]
      PROVE  Typed'
  BY <1>2
<1>3. ASSUME NEW c \in Conns, NEW ended
      PROVE  Returned(c, ended) \in Connections
  BY Kinds DEF Returned
<1>4. ASSUME NEW c \in Conns,
             \/ Connect(c) \/ JobTake(c) \/ JobBegin(c) \/ JobWrite(c)
             \/ JobCommit(c) \/ JobRollback(c) \/ JobReturn(c)
      PROVE  Typed'
  <2>1. CASE Connect(c) \/ JobRollback(c)
    BY <1>1, <2>1, Kinds DEF Connect, JobRollback
  <2>2. CASE JobTake(c)
    BY <2>2 DEF JobTake, Taken, Connections
  <2>3. CASE JobBegin(c)
    BY <2>3 DEF JobBegin, Connections, Transactions
  <2>4. CASE JobWrite(c)
    BY <2>4 DEF JobWrite, Connections, Transactions
  <2>5. CASE JobCommit(c)
    <3>1. db' \in Versions
      BY <2>5, BoundsAssumption DEF JobCommit, Versions
    <3> QED
      BY <1>1, <2>5, <3>1, Kinds DEF JobCommit
  <2>6. CASE JobReturn(c)
    BY <1>1, <1>3, <2>6 DEF JobReturn
  <2> QED
    BY <1>4, <2>1, <2>2, <2>3, <2>4, <2>5, <2>6
<1>5. ASSUME NEW r \in Requests, NEW c \in Conns, Render(r, c) PROVE Typed'
  <2> DEFINE q == [req[r] EXCEPT !.on = c,
                                 !.phase = IF conn[c].tx = "aborted" THEN "failed" ELSE "read",
                                 !.version = IF conn[c].tx = "none" THEN db ELSE conn[c].sees]
  <2>1. req' = [req EXCEPT ![r] = q] /\ db' = db /\ req[r].phase = "miss"
    BY <1>5 DEF Render
  <2>2. q \in Asked /\ q.key = req[r].key
    <3>1. PICK v \in Versions : v = IF conn[c].tx = "none" THEN db ELSE conn[c].sees
      BY DEF Connections
    <3>2. PICK ph \in {"failed", "read"} :
               ph = IF conn[c].tx = "aborted" THEN "failed" ELSE "read"
      OBVIOUS
    <3>3. q = [req[r] EXCEPT !.on = c, !.phase = ph, !.version = v]
      BY <3>1, <3>2
    <3>4. req[r] \in Asked
      OBVIOUS
    <3> HIDE DEF q, Typed
    <3> QED
      BY <3>3, <3>4 DEF Asked
  <2>3. conn' \in [Conns -> Connections]
    BY <1>5 DEF Render, Taken, Connections
  <2> HIDE DEF q
  <2> QED
    BY <1>2, <2>1, <2>2, <2>3
<1>6. ASSUME NEW r \in Requests, TimeOut(r) PROVE Typed'
  BY <1>2, <1>6, Kinds DEF TimeOut
<1>7. ASSUME NEW r \in Requests, DropConn(r) PROVE Typed'
  <2>1. conn' \in [Conns -> Connections] /\ db' = db
    <3>1. CASE req[r].on \in Conns
      BY <1>3, <1>7, <3>1 DEF DropConn
    <3>2. CASE req[r].on \notin Conns
      BY <1>7, <3>2 DEF DropConn
    <3> QED
      BY <1>7, <3>1, <3>2 DEF DropConn
  <2>2. CASE req' = [req EXCEPT ![r] = NoRequest]
    BY <1>2, <2>1, <2>2, Kinds
  <2>3. CASE req' = [req EXCEPT ![r] = [req[r] EXCEPT !.phase = "prepare", !.on = None]]
    <3> DEFINE q == [req[r] EXCEPT !.phase = "prepare", !.on = None]
    <3>1. q \in Asked /\ q.key = req[r].key /\ req[r].phase # "idle"
      BY <1>7 DEF Asked, DropConn
    <3> QED
      BY <1>2, <2>1, <2>3, <3>1
  <2> QED
    BY <1>7, <2>2, <2>3 DEF DropConn
<1>8. ASSUME NEW r \in Requests, NEW k \in Keys, Lookup(r, k) PROVE Typed'
  <2>1. CASE req' = req
    BY <1>8, <2>1 DEF Lookup
  <2>2. CASE req' # req
    <3>1. req' = [req EXCEPT ![r] = [NoRequest EXCEPT !.phase = "miss", !.key = k, !.since = db]]
      BY <1>8, <2>2 DEF Lookup
    <3>2. db' = db /\ conn' = conn
      BY <1>8 DEF Lookup
    <3>3. ASSUME NEW q, q = [NoRequest EXCEPT !.phase = "miss", !.key = k, !.since = db]
          PROVE  q \in Asked /\ q.key = k
      BY <3>3, Kinds DEF Asked
    <3> QED
      BY <1>2, <3>1, <3>2, <3>3
  <2> QED
    BY <2>1, <2>2
<1>9. ASSUME NEW r \in Requests, NEW size \in Sizes, Answer(r, size) PROVE Typed'
  BY <1>2, <1>9, Kinds DEF Answer
<1>10. CASE UNCHANGED <<db, conn, req>>
  BY <1>10
<1> QED
  BY <1>4, <1>5, <1>6, <1>7, <1>8, <1>9, <1>10 DEF Next, vars, Tick

\* Only a hit, an answer and time touch the cache.
LEMMA CacheNext == Typed /\ Budgeted(cache) /\ [Next]_vars => Budgeted(cache)'
<1> SUFFICES ASSUME Typed, Budgeted(cache), [Next]_vars PROVE Budgeted(cache)'
  OBVIOUS
<1>0. ASSUME NEW c, Budgeted(c), cache' = c PROVE Budgeted(cache)'
  BY <1>0 DEF Budgeted
<1>1. ASSUME NEW r \in Requests, NEW k \in Keys, Lookup(r, k) PROVE Budgeted(cache)'
  <2>1. cache' = cache \/ \E e \in Hit(k) : cache' = Promoted(k, e)
    BY <1>1 DEF Lookup
  <2> QED
    BY <1>0, <2>1, PromotedBudgeted
<1>2. ASSUME NEW r \in Requests, NEW size \in Sizes, Answer(r, size) PROVE Budgeted(cache)'
  <2>1. req[r].key \in Keys /\ cache' = Inserted(req[r].key, size)
    BY <1>2 DEF Answer, Typed
  <2> QED
    BY <1>0, <2>1, InsertedBudgeted
<1>3. CASE Tick
  BY <1>3, TickBudgeted
<1>4. CASE UNCHANGED cache
  BY <1>0, <1>4
<1> QED
  BY <1>1, <1>2, <1>3, <1>4
     DEF Next, vars, Connect, JobTake, JobBegin, JobWrite, JobCommit, JobRollback, JobReturn,
         Render, TimeOut, DropConn

\* Types and budget hold together of every run.
LEMMA CacheInv == Spec => [](Typed /\ Budgeted(cache))
<1>1. Init => Typed
  BY Kinds, BoundsAssumption DEF Init, Typed, Versions
<1>2. Init => Budgeted(cache)
  <2> SUFFICES ASSUME Init PROVE Budgeted(cache)
    OBVIOUS
  <2>1. cache = [hot |-> NoEntries, bytes |-> 0, cold |-> NoEntries]
    BY DEF Init
  <2>2. Keeps(NoEntries) /\ DOMAIN NoEntries = {}
    BY FS_EmptySet DEF Keeps, NoEntries
  <2>3. 0 <= Half
    BY BoundsAssumption DEF Half
  <2> QED
    BY <2>1, <2>2, <2>3, BytesOfNone DEF Budgeted
<1> QED
  BY <1>1, <1>2, TypedNext, CacheNext, PTL DEF Spec

\* For any budget, tiles, sizes, connections and requests: the running total is
\* what the hot generation weighs, and the two generations never pass the budget.
THEOREM NeverOverBudget == Spec => []WithinBudget
<1>1. Typed /\ Budgeted(cache) => WithinBudget
  <2> SUFFICES ASSUME Typed, Budgeted(cache) PROVE WithinBudget
    OBVIOUS
  <2>1. Generation(cache.hot) /\ Generation(cache.cold)
    BY DEF Budgeted, Keeps, Kept, Generation
  <2>2. cache.bytes \in Nat
    BY KeepsSized, BytesCounted DEF Budgeted
  <2>3. TypeOK
    BY <2>1, <2>2 DEF Typed, TypeOK, Connections, Asked
  <2> QED
    BY <2>3 DEF WithinBudget, Budgeted, Half
<1> QED
  BY CacheInv, <1>1, PTL

\* However often it was promoted, what is served was sent less than a max-age ago.
THEOREM ServedIsYoung == Spec => []NoStalerThanABrowser
<1>1. Budgeted(cache) => NoStalerThanABrowser
  <2> SUFFICES ASSUME Budgeted(cache), NEW k \in Keys, NEW e \in Hit(k) PROVE e.sent < Ttl
    BY DEF NoStalerThanABrowser
  <2>1. PICK gen \in {cache.hot, cache.cold} : k \in DOMAIN gen /\ gen[k].age < Ttl /\ e = gen[k]
    BY DEF Hit, Fresh
  <2> QED
    BY <2>1 DEF Budgeted, Keeps, Kept
<1> QED
  BY CacheInv, <1>1, PTL

-------------------------------------------------------------------------------
(* The answers (Serving).                                                  *)

\* A copy is true, or its cell waits for the match.
CopiesTrue == \A u \in unmatched : src[u.of] = u.row \/ CellOf(u.row) \in matchQ
\* A class has one row of each tier and specificity, under its own key.
OneOfAKind(table) ==
  /\ \A m \in table : m.key \in DOMAIN Norm /\ Norm[m.key] = m.key
  /\ \A m, k \in table :
       m.tier = k.tier /\ m.key = k.key /\ Specificity(m) = Specificity(k) => m = k
TypesRight == types = [s \in BuildingSources |-> types[s]] /\ \A s \in BuildingSources : OneOfAKind(types[s])
\* and a street name has one row in a settlement.
StreetsRight ==
  /\ \A m \in streets : DOMAIN m = {"simc", "prg", "osm"} /\ m.prg \in DOMAIN Norm
  /\ \A m, k \in streets : Norm[m.prg] = Norm[k.prg] /\ m.simc = k.simc => m = k
RowsTyped ==
  /\ src \in [Objects -> Rows \cup {Null}]
  /\ \A o \in Objects : src[o] \in RowsOf[o] \cup {Null}
  /\ \A u \in unmatched : u.of \in Objects /\ u.row \in RowsOf[u.of] /\ u = [of |-> u.of, row |-> u.row]
  /\ \A o \in reported : o \in Objects /\ src[o] # Null
QueuesTyped == matchQ \subseteq Cells /\ tileRows \subseteq Cells /\ DOMAIN totals \subseteq Cells
AnswersInv == RowsTyped /\ QueuesTyped /\ CopiesTrue /\ TypesRight /\ StreetsRight

\* A floor divided and multiplied again: the multiple of w at or below x.
LEMMA Floor ==
  ASSUME NEW x \in Int, NEW w \in Nat \ {0}
  PROVE  /\ x \div w \in Int
         /\ (x \div w) * w <= x
         /\ x < (x \div w) * w + w
BY SMT

\* A multiple below a number is below its floor,
LEMMA FloorAtLeast ==
  ASSUME NEW x \in Int, NEW k \in Int, NEW w \in Nat \ {0}, k * w <= x
  PROVE  k <= x \div w
BY SMT

\* and one above it above.
LEMMA FloorBelow ==
  ASSUME NEW x \in Int, NEW k \in Int, NEW w \in Nat \ {0}, x < k * w
  PROVE  x \div w < k
BY SMT

\* The numbers of a row.
LEMMA RowNumbers ==
  ASSUME NEW r \in Rows
  PROVE  /\ r.lo \in Int /\ r.at \in Int /\ r.hi \in Int /\ r.lo <= r.at /\ r.at <= r.hi
         /\ r.lo = r.hi \/ r.at < r.hi
         /\ r.hi - r.lo + Buffer <= CellSize /\ CellOf(r) \in Cells
         /\ r.at \in Nat
BY FootprintsAssumption, TilesAssumption DEF CellOf, CellAt

\* A row of an object is a row, and not NULL.
LEMMA RowOfObject ==
  ASSUME NEW o \in Objects, NEW r \in RowsOf[o]
  PROVE  r \in Rows /\ r # Null
BY ObjectsAssumption DEF Rows

\* A cell is a number of z14, its own tile there.
LEMMA TheCells ==
  ASSUME NEW c \in Cells
  PROVE  c \in 0 .. 2^CellZoom - 1 /\ c \in Nat /\ Shr(c, CellZoom - CellZoom) = c
<1>1. 2^CellZoom \in Nat
  BY SMT DEF CellZoom
<1>2. 2^(CellZoom - CellZoom) = 1
  BY SMT DEF CellZoom
<1>3. c \in 0 .. 2^CellZoom - 1
  BY TilesAssumption
<1>4. c \in Nat
  BY <1>1, <1>3
<1>5. c \div 1 = c
  BY <1>4
<1> QED
  BY <1>2, <1>3, <1>4, <1>5 DEF Shr

\* The import leaves true copies and empty mappings,
LEMMA AnswersFirst == AnswersInit => AnswersInv
<1> SUFFICES ASSUME AnswersInit PROVE AnswersInv
  OBVIOUS
<1>1. \A o \in Objects : Imported[o] \in RowsOf[o] \cup {Null} /\ src[o] = Imported[o]
  BY ObjectsAssumption DEF AnswersInit
<1>2. \A o \in Objects : Imported[o] # Null => Imported[o] \in Rows /\ CellOf(Imported[o]) \in Cells
  BY <1>1, RowOfObject, RowNumbers
<1>3. \A u \in unmatched : u.of \in Objects /\ Imported[u.of] # Null /\ u = [of |-> u.of, row |-> Imported[u.of]]
  BY DEF AnswersInit
<1>4. RowsTyped
  BY <1>1, <1>2, <1>3, ObjectsAssumption DEF RowsTyped, AnswersInit
<1>5. QueuesTyped
  BY <1>2 DEF AnswersInit, QueuesTyped
<1>6. CopiesTrue
  BY <1>1, <1>3 DEF CopiesTrue
<1>7. TypesRight
  BY DEF AnswersInit, TypesRight, OneOfAKind
<1>8. StreetsRight
  BY DEF AnswersInit, StreetsRight
<1> QED
  BY <1>4, <1>5, <1>6, <1>7, <1>8 DEF AnswersInv

\* A table is replaced by one of a kind: the rows of a valid file.
LEMMA ValidTable ==
  ASSUME NEW s \in BuildingSources, NEW file \in TypeFiles[s], ValidTypes(s, Cleaned(file))
  PROVE  OneOfAKind(SetOf(Cleaned(file)))
<1> DEFINE clean == Cleaned(file)
<1>1. /\ DOMAIN clean = DOMAIN file /\ DOMAIN file \subseteq Nat
      /\ \A i \in DOMAIN file : clean[i].key = Norm[file[i].key] /\ file[i].key \in DOMAIN Norm
  BY FilesAssumption DEF Cleaned
<1>2. \A i, j \in DOMAIN clean :
        i < j => ~(/\ clean[i].tier = clean[j].tier /\ clean[i].key = clean[j].key
                   /\ Specificity(clean[i]) = Specificity(clean[j]))
  BY DEF ValidTypes, Ties
<1>3. \A m \in SetOf(clean) : \E i \in DOMAIN clean : m = clean[i]
  BY DEF SetOf
<1> HIDE DEF clean
<1>4. \A m \in SetOf(clean) : m.key \in DOMAIN Norm /\ Norm[m.key] = m.key
  <2> SUFFICES ASSUME NEW i \in DOMAIN clean
               PROVE  clean[i].key \in DOMAIN Norm /\ Norm[clean[i].key] = clean[i].key
    BY <1>3
  <2>1. Norm \in [DOMAIN Norm -> DOMAIN Norm] /\ \A v \in DOMAIN Norm : Norm[Norm[v]] = Norm[v]
    BY NamesAssumption
  <2> QED
    BY <1>1, <2>1
<1>5. ASSUME NEW m \in SetOf(clean), NEW k \in SetOf(clean),
             m.tier = k.tier, m.key = k.key, Specificity(m) = Specificity(k)
      PROVE  m = k
  <2>1. PICK i \in DOMAIN clean : m = clean[i]
    BY <1>3
  <2>2. PICK j \in DOMAIN clean : k = clean[j]
    BY <1>3
  <2>3. i = j \/ i < j \/ j < i
    BY <1>1
  <2> QED
    BY <1>2, <1>5, <2>1, <2>2, <2>3
<1> QED
  BY <1>4, <1>5 DEF OneOfAKind, clean

\* So is the table of streets.
LEMMA ValidStreetTable ==
  ASSUME NEW file \in StreetFiles, ValidStreets(file)
  PROVE  /\ \A m \in SetOf(file) : DOMAIN m = {"simc", "prg", "osm"} /\ m.prg \in DOMAIN Norm
         /\ \A m, k \in SetOf(file) : Norm[m.prg] = Norm[k.prg] /\ m.simc = k.simc => m = k
<1>1. \A m \in SetOf(file) : \E i \in DOMAIN file : m = file[i]
  BY DEF SetOf
<1>2. \A i, j \in DOMAIN file :
        Norm[file[i].prg] = Norm[file[j].prg] /\ file[i].simc = file[j].simc => i = j
  BY DEF ValidStreets
<1> QED
  BY <1>1, <1>2, FilesAssumption

\* A refresh changes rows of its source, and queues the cells they leave and enter.
LEMMA Refreshed ==
  ASSUME RowsTyped, NEW s \in Sources, Refresh(s)
  PROVE  /\ src' \in [Objects -> Rows \cup {Null}]
         /\ \A o \in Objects : src'[o] \in RowsOf[o] \cup {Null}
         /\ \A o \in Objects : src'[o] # src[o] =>
              /\ o \notin reported'
              /\ src[o] # Null => CellOf(src[o]) \in tileRows'
              /\ src'[o] # Null => CellOf(src'[o]) \in tileRows'
         /\ \A o \in Objects : src'[o] = src[o] => (o \in reported' <=> o \in reported)
         /\ reported' \subseteq reported
         /\ \A c \in tileRows' : \E r \in Rows : c = CellOf(r)
         /\ matchQ' = matchQ \cup tileRows'
         /\ UNCHANGED <<unmatched, types, streets, totals>>
<1>0. PICK loaded \in [{o \in Objects : Is(o, s)} -> Rows \cup {Null}] :
        LET new == [o \in Objects |-> IF Is(o, s) THEN loaded[o] ELSE src[o]]
            changed == {o \in Objects : new[o] # src[o]}
        IN
        /\ \A o \in DOMAIN loaded : loaded[o] \in RowsOf[o] \cup {Null}
        /\ src' = new
        /\ reported' = reported \ changed
        /\ tileRows' = {CellOf(r) : r \in ({src[o] : o \in changed} \cup {new[o] : o \in changed}) \ {Null}}
        /\ matchQ' = matchQ \cup tileRows'
        /\ UNCHANGED <<unmatched, types, streets, totals>>
  BY DEF Refresh, EnqueueBoth
<1> DEFINE new == [o \in Objects |-> IF Is(o, s) THEN loaded[o] ELSE src[o]]
<1>1. /\ src' = new
      /\ \A o \in Objects : IF Is(o, s) THEN new[o] \in RowsOf[o] \cup {Null} ELSE new[o] = src[o]
      /\ reported' = reported \ {o \in Objects : new[o] # src[o]}
      /\ tileRows' = {CellOf(r) : r \in ({src[o] : o \in {k \in Objects : new[k] # src[k]}}
                                          \cup {new[o] : o \in {k \in Objects : new[k] # src[k]}})
                                        \ {Null}}
      /\ matchQ' = matchQ \cup tileRows'
      /\ UNCHANGED <<unmatched, types, streets, totals>>
  BY <1>0
<1>6. DOMAIN new = Objects /\ new = [o \in Objects |-> new[o]]
  OBVIOUS
<1> HIDE DEF new
<1>2. \A o \in Objects : src[o] \in RowsOf[o] \cup {Null} /\ src[o] \in Rows \cup {Null}
  BY DEF RowsTyped
<1>3. \A o \in Objects : new[o] \in RowsOf[o] \cup {Null} /\ new[o] \in Rows \cup {Null}
  <2> SUFFICES ASSUME NEW o \in Objects PROVE new[o] \in RowsOf[o] \cup {Null} /\ new[o] \in Rows \cup {Null}
    OBVIOUS
  <2>1. new[o] \in RowsOf[o] \cup {Null}
    BY <1>1, <1>2
  <2> QED
    BY <2>1, RowOfObject
<1>4. \A o \in Objects : new[o] # src[o] =>
        /\ src[o] # Null => CellOf(src[o]) \in tileRows'
        /\ new[o] # Null => CellOf(new[o]) \in tileRows'
  BY <1>1
<1>5. \A c \in tileRows' : \E r \in Rows : c = CellOf(r)
  BY <1>1, <1>2, <1>3
<1>7. src' \in [Objects -> Rows \cup {Null}]
  BY <1>1, <1>3, <1>6
<1> QED
  BY <1>1, <1>3, <1>4, <1>5, <1>7

\* and every transaction keeps the invariant.
LEMMA AnswersStep == AnswersInv /\ [AnswersNext]_answersVars => AnswersInv'
<1> SUFFICES ASSUME AnswersInv, [AnswersNext]_answersVars PROVE AnswersInv'
  OBVIOUS
<1> USE DEF AnswersInv
<1>1. ASSUME NEW s \in Sources, Refresh(s) PROVE AnswersInv'
  <2>1. /\ src' \in [Objects -> Rows \cup {Null}]
        /\ \A o \in Objects : src'[o] \in RowsOf[o] \cup {Null}
        /\ \A o \in Objects : src'[o] # src[o] =>
             o \notin reported' /\ (src[o] # Null => CellOf(src[o]) \in tileRows')
        /\ reported' \subseteq reported
        /\ \A c \in tileRows' : \E r \in Rows : c = CellOf(r)
        /\ matchQ' = matchQ \cup tileRows'
        /\ UNCHANGED <<unmatched, types, streets, totals>>
    BY <1>1, Refreshed
  <2>2. RowsTyped'
    BY <2>1 DEF RowsTyped
  <2>3. QueuesTyped'
    BY <2>1, RowNumbers DEF QueuesTyped
  <2>4. CopiesTrue'
    <3> SUFFICES ASSUME NEW u \in unmatched
                 PROVE  src'[u.of] = u.row \/ CellOf(u.row) \in matchQ'
      BY <2>1 DEF CopiesTrue
    <3>1. u.of \in Objects /\ u.row # Null
      BY RowOfObject DEF RowsTyped
    <3> QED
      BY <2>1, <3>1 DEF CopiesTrue
  <2>5. TypesRight' /\ StreetsRight'
    BY <2>1 DEF TypesRight, StreetsRight
  <2> QED
    BY <2>2, <2>3, <2>4, <2>5
<1>2. ASSUME NEW o \in Reportable, Report(o) \/ Revoke(o) PROVE AnswersInv'
  <2>1. /\ UNCHANGED <<src, unmatched, types, streets, totals>>
        /\ src[o] # Null /\ tileRows' = {CellOf(src[o])} /\ matchQ' = matchQ \cup {CellOf(src[o])}
        /\ reported' \subseteq reported \cup {o}
    BY <1>2 DEF Report, Revoke, EnqueueBoth, RowsTyped
  <2>2. CellOf(src[o]) \in Cells
    BY <2>1, RowNumbers, ReportableAssumption DEF RowsTyped
  <2>3. RowsTyped'
    BY <2>1, ReportableAssumption DEF RowsTyped
  <2>4. QueuesTyped' /\ CopiesTrue' /\ TypesRight' /\ StreetsRight'
    BY <2>1, <2>2 DEF QueuesTyped, CopiesTrue, TypesRight, StreetsRight
  <2> QED
    BY <2>3, <2>4
<1>3. ASSUME NEW c \in Cells, OsmDiff(c) PROVE AnswersInv'
  BY <1>3 DEF OsmDiff, tables, RowsTyped, QueuesTyped, CopiesTrue, TypesRight, StreetsRight
<1>4. ASSUME NEW c \in Cells, Drain(c) PROVE AnswersInv'
  <2> DEFINE inCell == {o \in Objects : src[o] # Null /\ CellOf(src[o]) = c}
  <2>1. PICK found \in SUBSET inCell :
          unmatched' = {u \in unmatched : CellOf(u.row) # c} \cup {[of |-> o, row |-> src[o]] : o \in found}
    BY <1>4 DEF Drain
  <2>2. /\ DOMAIN totals' \subseteq DOMAIN totals \cup {c}
        /\ matchQ' = matchQ \ {c} /\ tileRows' = {c}
        /\ UNCHANGED <<src, types, streets, reported>>
    BY <1>4 DEF Drain
  <2>3. \A u \in unmatched' :
          \/ u \in unmatched /\ CellOf(u.row) # c
          \/ u.of \in Objects /\ src[u.of] # Null /\ u = [of |-> u.of, row |-> src[u.of]]
    BY <2>1
  <2>4. RowsTyped'
    BY <2>2, <2>3 DEF RowsTyped
  <2>5. CopiesTrue'
    BY <2>2, <2>3 DEF CopiesTrue
  <2>6. QueuesTyped' /\ TypesRight' /\ StreetsRight'
    BY <2>2 DEF QueuesTyped, TypesRight, StreetsRight
  <2> QED
    BY <2>4, <2>5, <2>6
<1>5. ASSUME NEW s \in BuildingSources, SwapTypes(s) PROVE AnswersInv'
  <2>1. PICK file \in TypeFiles[s] :
          /\ ValidTypes(s, Cleaned(file)) /\ types' = [types EXCEPT ![s] = SetOf(Cleaned(file))]
          /\ tileRows' = TypeDeltaCells(s, SetOf(Cleaned(file)))
          /\ UNCHANGED <<src, unmatched, streets, reported, totals, matchQ>>
    BY <1>5 DEF SwapTypes
  <2>2. TypesRight'
    BY <2>1, ValidTable DEF TypesRight
  <2>3. tileRows' \subseteq Cells
    BY <2>1, RowNumbers DEF TypeDeltaCells, Live, RowsTyped
  <2> QED
    BY <2>1, <2>2, <2>3 DEF RowsTyped, QueuesTyped, CopiesTrue, StreetsRight
<1>6. CASE SwapStreets
  <2>1. PICK file \in StreetFiles :
          /\ ValidStreets(file) /\ streets' = SetOf(file)
          /\ tileRows' = StreetDeltaCells(SetOf(file)) /\ matchQ' = matchQ \cup StreetDeltaCells(SetOf(file))
          /\ UNCHANGED <<src, unmatched, types, reported, totals>>
    BY <1>6 DEF SwapStreets, EnqueueBoth
  <2>2. StreetsRight'
    BY <2>1, ValidStreetTable DEF StreetsRight
  <2>3. tileRows' \subseteq Cells
    BY <2>1, RowNumbers DEF StreetDeltaCells, Live, RowsTyped
  <2> QED
    BY <2>1, <2>2, <2>3 DEF RowsTyped, QueuesTyped, CopiesTrue, TypesRight
<1>7. CASE UNCHANGED answersVars
  BY <1>7 DEF answersVars, tables, RowsTyped, QueuesTyped, CopiesTrue, TypesRight, StreetsRight
<1> QED
  BY <1>1, <1>2, <1>3, <1>4, <1>5, <1>6, <1>7 DEF AnswersNext

\* The box of a z14 tile.
LEMMA Z14Box ==
  ASSUME NEW x \in Int
  PROVE  /\ Box(CellZoom, x).lo = x * CellSize /\ Box(CellZoom, x).hi = (x + 1) * CellSize
         /\ Grown(Box(CellZoom, x)).lo = x * CellSize - Buffer
         /\ Grown(Box(CellZoom, x)).hi = (x + 1) * CellSize + Buffer
         /\ x * CellSize \in Int /\ (x + 1) * CellSize \in Int /\ (x + 1) * CellSize = x * CellSize + CellSize
<1>1. 2^(CellZoom - CellZoom) = 1
  BY SMT DEF CellZoom
<1>2. CellSize * 1 = CellSize
  BY WidthsAssumption
<1>3. Box(CellZoom, x) = [lo |-> x * CellSize, hi |-> (x + 1) * CellSize]
  BY <1>1, <1>2 DEF Box, Span
<1>4. Grown(Box(CellZoom, x)) = [lo |-> x * CellSize - Buffer, hi |-> (x + 1) * CellSize + Buffer]
  BY <1>3 DEF Grown, Span
<1>5. x * CellSize \in Int /\ (x + 1) * CellSize \in Int /\ (x + 1) * CellSize = x * CellSize + CellSize
  BY WidthsAssumption
<1> QED
  BY <1>3, <1>4, <1>5

\* What a z14 tile draws, or counts as a neighbour, is in its cell or one beside.
LEMMA NearRows ==
  ASSUME NEW r \in Rows, NEW x \in Int,
         Meets(r, Box(CellZoom, x)) \/ Meets(r, Grown(Box(CellZoom, x)))
  PROVE  CellOf(r) \in x - 1 .. x + 1
<1> DEFINE a == x * CellSize
<1>1. /\ r.lo \in Int /\ r.at \in Int /\ r.hi \in Int /\ r.lo <= r.at /\ r.at <= r.hi
      /\ r.lo = r.hi \/ r.at < r.hi
      /\ r.hi - r.lo + Buffer <= CellSize
  BY RowNumbers
<1>2. CellSize \in Nat \ {0} /\ Buffer \in Nat /\ Buffer < CellSize /\ a \in Int
  BY WidthsAssumption
<1>3. r.lo <= a + CellSize + Buffer /\ a - Buffer <= r.hi
  <2>1. /\ Box(CellZoom, x).lo = a /\ Box(CellZoom, x).hi = a + CellSize
        /\ Grown(Box(CellZoom, x)).lo = a - Buffer
        /\ Grown(Box(CellZoom, x)).hi = a + CellSize + Buffer
    BY Z14Box
  <2>2. CASE Meets(r, Box(CellZoom, x))
    <3>1. r.lo <= a + CellSize /\ a <= r.hi
      BY <2>1, <2>2 DEF Meets
    <3> HIDE DEF a
    <3> QED
      BY <1>1, <1>2, <3>1
  <2>3. CASE Meets(r, Grown(Box(CellZoom, x)))
    BY <2>1, <2>3 DEF Meets
  <2> QED
    BY <2>2, <2>3
<1>4. a - CellSize <= r.at /\ r.at < a + 2 * CellSize
  <2> HIDE DEF a
  <2> QED
    BY <1>1, <1>2, <1>3
<1>5. (x - 1) * CellSize = a - CellSize /\ (x + 2) * CellSize = a + 2 * CellSize
  BY <1>2
<1>n. x - 1 \in Int /\ x + 2 \in Int /\ r.at \in Int /\ CellSize \in Nat \ {0}
  BY <1>1, <1>2
<1>6. x - 1 <= r.at \div CellSize
  <2>1. (x - 1) * CellSize <= r.at
    BY <1>4, <1>5
  <2> QED
    BY <1>n, <2>1, FloorAtLeast
<1>7. r.at \div CellSize < x + 2
  <2>1. r.at < (x + 2) * CellSize
    BY <1>4, <1>5
  <2> QED
    BY <1>n, <2>1, FloorBelow
<1>8. r.at \div CellSize \in Int
  BY <1>1, <1>2, Floor
<1> QED
  BY <1>6, <1>7, <1>8 DEF CellOf, CellAt

\* A tile that no cell names has none of these cells.
LEMMA Unnamed ==
  ASSUME NEW x \in Cells, NEW c \in Cells, <<CellZoom, x>> \notin TilesOf(c)
  PROVE  c \notin x - 1 .. x + 1
<1>1. x \in 0 .. 2^CellZoom - 1 /\ x \in Nat /\ c \in Nat
  BY TheCells
<1>2. x \notin c - 1 .. c + 1
  BY <1>1 DEF TilesOf, RingRadius
<1> QED
  BY <1>1, <1>2

\* The persisted tiles.
LEMMA PersistedTiles ==
  ASSUME NEW t \in Persisted
  PROVE  \/ \E x \in Cells : t = <<CellZoom, x>>
         \/ \E z \in MinPersistedZoom .. CellZoom - 1 : \E x : t = <<z, x>>
<1>1. PICK z \in MinPersistedZoom .. CellZoom, c \in Cells : t = <<z, Shr(c, CellZoom - z)>>
  BY DEF Persisted
<1>2. CASE z = CellZoom
  BY <1>1, <1>2, TheCells
<1>3. CASE z # CellZoom
  BY <1>1, <1>3 DEF MinPersistedZoom, CellZoom
<1> QED
  BY <1>2, <1>3

\* What a request's tile reads: its box, and the box grown for neighbours.
LEMMA SingleScope ==
  ASSUME NEW x \in Int
  PROVE  /\ \A r : Drawn(r, Single(x)) <=> Meets(r, Box(CellZoom, x))
         /\ NearWindows(Single(x)) = {Grown(Box(CellZoom, x))}
BY DEF Drawn, Single, NearWindows

\* The neighbours of a building, if no record near the tile changes.
LEMMA SameNeighbours ==
  ASSUME RowsTyped, RowsTyped', NEW x \in Int,
         \A o \in Objects : src'[o] # src[o] =>
           /\ src[o] # Null => CellOf(src[o]) \notin x - 1 .. x + 1
           /\ src'[o] # Null => CellOf(src'[o]) \notin x - 1 .. x + 1,
         NEW s, NEW b
  PROVE  Neighbours(s, b, NearWindows(Single(x)))' = Neighbours(s, b, NearWindows(Single(x)))
<1> DEFINE W == {Grown(Box(CellZoom, x))}
<1>1. NearWindows(Single(x)) = W
  BY SingleScope
<1>2. \A o : o \in Neighbours(s, b, W) <=>
               /\ o \in Objects /\ Is(o, s) /\ src[o] # Null
               /\ SqlEq(ClassKey(s, src[o].t1), AdjacencyKey[s])
               /\ src[o].at # b.at /\ Meets(src[o], b) /\ Meets(src[o], Grown(Box(CellZoom, x)))
  BY DEF Neighbours, Live
<1>3. \A o : o \in Neighbours(s, b, W)' <=>
               /\ o \in Objects /\ Is(o, s) /\ src'[o] # Null
               /\ SqlEq(ClassKey(s, src'[o].t1), AdjacencyKey[s])
               /\ src'[o].at # b.at /\ Meets(src'[o], b) /\ Meets(src'[o], Grown(Box(CellZoom, x)))
  BY DEF Neighbours, Live
<1> HIDE DEF W
<1>4. ASSUME NEW o \in Objects, src[o] # Null, Meets(src[o], Grown(Box(CellZoom, x))) PROVE src'[o] = src[o]
  <2>1. src[o] \in Rows
    BY <1>4 DEF RowsTyped
  <2> QED
    BY <1>4, <2>1, NearRows
<1>5. ASSUME NEW o \in Objects, src'[o] # Null, Meets(src'[o], Grown(Box(CellZoom, x))) PROVE src'[o] = src[o]
  <2>1. src'[o] \in Rows
    BY <1>5 DEF RowsTyped
  <2> QED
    BY <1>5, <2>1, NearRows
<1>6. Neighbours(s, b, W)' = Neighbours(s, b, W)
  BY <1>2, <1>3, <1>4, <1>5
<1> QED
  BY <1>1, <1>6

\* The copies a tile draws, if none near it changes.
LEMMA SameCopies ==
  ASSUME RowsTyped, RowsTyped', NEW x \in Int,
         \A u \in unmatched \cup unmatched' :
           CellOf(u.row) \in x - 1 .. x + 1 => u \in unmatched /\ u \in unmatched'
  PROVE  /\ {u \in unmatched : Drawn(u.row, Single(x))}' = {u \in unmatched : Drawn(u.row, Single(x))}
         /\ \A u \in unmatched : Drawn(u.row, Single(x)) => CellOf(u.row) \in x - 1 .. x + 1
<1>1. ASSUME NEW u \in unmatched \cup unmatched', Drawn(u.row, Single(x))
      PROVE  CellOf(u.row) \in x - 1 .. x + 1
  <2>1. u.row \in Rows
    BY RowOfObject DEF RowsTyped
  <2>2. Meets(u.row, Box(CellZoom, x))
    BY <1>1, SingleScope
  <2> QED
    BY <2>1, <2>2, NearRows
<1>2. \A u : Drawn(u.row, Single(x))' = Drawn(u.row, Single(x))
  BY DEF Drawn
<1> QED
  BY <1>1, <1>2

\* The addresses of a tile, if neither they nor their streets change.
LEMMA SameAddresses ==
  ASSUME NEW sc,
         {u \in unmatched : Drawn(u.row, sc)}' = {u \in unmatched : Drawn(u.row, sc)},
         \A u \in unmatched : Is(u.of, "prg") /\ Drawn(u.row, sc) =>
           ResolvedStreets(u.row)' = ResolvedStreets(u.row)
  PROVE  AddressesLayer(sc)' = AddressesLayer(sc)
<1> DEFINE S == {k \in Copies("prg") : Drawn(k.row, sc)}
           f(u) == <<u.of, u.row, {TileAddressTags(u.row, v) : v \in ResolvedStreets(u.row)}>>
<1>1. S' = S
  BY DEF Copies
<1>2. \A u \in S : ResolvedStreets(u.row)' = ResolvedStreets(u.row)
  BY DEF Copies
<1>3. AddressesLayer(sc) = {f(u) : u \in S}
  BY DEF AddressesLayer
<1>4. AddressesLayer(sc)' = {f(u)' : u \in S'}
  BY DEF AddressesLayer
<1>5. \A u \in S : f(u)' = f(u)
  <2> TAKE u \in S
  <2>1. ResolvedStreets(u.row)' = ResolvedStreets(u.row)
    BY <1>2
  <2> QED
    BY <2>1 DEF TileAddressTags
<1> HIDE DEF f, S
<1> QED
  BY <1>1, <1>3, <1>4, <1>5

\* The buildings of a tile, if neither they nor their rows of the mapping nor
\* the number of their neighbours change.
LEMMA SameBuildings ==
  ASSUME NEW sc,
         {u \in unmatched : Drawn(u.row, sc)}' = {u \in unmatched : Drawn(u.row, sc)},
         \A u \in unmatched : SourceOf[u.of] \in BuildingSources /\ Drawn(u.row, sc) =>
           \A n : Chosen(SourceOf[u.of], u.row, n)' = Chosen(SourceOf[u.of], u.row, n),
         \A s, b : Neighbours(s, b, NearWindows(sc))' = Neighbours(s, b, NearWindows(sc))
  PROVE  BuildingsLayer(sc)' = BuildingsLayer(sc)
<1> DEFINE S == {k \in unmatched : SourceOf[k.of] \in BuildingSources /\ Drawn(k.row, sc)}
           f(u) == <<u.of, u.row, TileBuildingTags(SourceOf[u.of], u.row, sc)>>
<1>1. S' = S
  OBVIOUS
<1>2. ASSUME NEW u \in S
      PROVE  TileBuildingTags(SourceOf[u.of], u.row, sc)' = TileBuildingTags(SourceOf[u.of], u.row, sc)
  <2> DEFINE n == Cardinality(Neighbours(SourceOf[u.of], u.row, NearWindows(sc)))
  <2>1. n' = n
    BY <1>2
  <2> HIDE DEF n
  <2>2. Chosen(SourceOf[u.of], u.row, n)' = Chosen(SourceOf[u.of], u.row, n)
    BY <1>2, <2>1
  <2>3. TileBuildingTags(SourceOf[u.of], u.row, sc) =
          LET chosen == Chosen(SourceOf[u.of], u.row, n)
          IN {Outranked(Columns(SourceOf[u.of], u.row), t) : t \in IF chosen = {} THEN {Yes} ELSE {m.tags : m \in chosen}}
    BY DEF TileBuildingTags, n
  <2>4. TileBuildingTags(SourceOf[u.of], u.row, sc)' =
          LET chosen == Chosen(SourceOf[u.of], u.row, n)'
          IN {Outranked(Columns(SourceOf[u.of], u.row), t) : t \in IF chosen = {} THEN {Yes} ELSE {m.tags : m \in chosen}}
    BY DEF TileBuildingTags, n
  <2> QED
    BY <2>2, <2>3, <2>4
<1>3. BuildingsLayer(sc) = {f(u) : u \in S}
  BY DEF BuildingsLayer
<1>4. BuildingsLayer(sc)' = {f(u)' : u \in S'}
  BY DEF BuildingsLayer
<1>5. \A u \in S : f(u)' = f(u)
  <2> TAKE u \in S
  <2> QED
    BY <1>2
<1> HIDE DEF f, S
<1> QED
  BY <1>1, <1>3, <1>4, <1>5
\* The legend layers, if no record near the tile changes or is reported anew.
LEMMA SameLegend ==
  ASSUME RowsTyped, RowsTyped', NEW x \in Int,
         \A o \in Objects : src'[o] # src[o] \/ ~(o \in reported' <=> o \in reported) =>
           /\ src[o] # Null => CellOf(src[o]) \notin x - 1 .. x + 1
           /\ src'[o] # Null => CellOf(src'[o]) \notin x - 1 .. x + 1,
         NEW srcs
  PROVE  AllLayer(srcs, Single(x))' = AllLayer(srcs, Single(x))
<1> DEFINE S == {k \in Objects : SourceOf[k] \in srcs /\ src[k] # Null /\ Drawn(src[k], Single(x))}
<1>1. ASSUME NEW o \in Objects, src[o] # Null, Drawn(src[o], Single(x))
      PROVE  src'[o] = src[o] /\ (o \in reported' <=> o \in reported)
  <2>1. src[o] \in Rows /\ Meets(src[o], Box(CellZoom, x))
    BY <1>1, SingleScope DEF RowsTyped
  <2> QED
    BY <1>1, <2>1, NearRows
<1>2. ASSUME NEW o \in Objects, src'[o] # Null, Drawn(src'[o], Single(x))
      PROVE  src'[o] = src[o]
  <2>1. src'[o] \in Rows /\ Meets(src'[o], Box(CellZoom, x))
    BY <1>2, SingleScope DEF RowsTyped
  <2> QED
    BY <1>2, <2>1, NearRows
<1>3. S' = S
  <2>1. \A o \in Objects : Drawn(src[o], Single(x))' <=> Drawn(src'[o], Single(x))
    BY DEF Drawn
  <2> QED
    BY <1>1, <1>2, <2>1
<1>4. AllLayer(srcs, Single(x)) = {<<o, src[o], o \in reported>> : o \in S}
  BY DEF AllLayer
<1>5. AllLayer(srcs, Single(x))' = {<<o, src'[o], o \in reported'>> : o \in S'}
  BY DEF AllLayer
<1>6. \A o \in S : src'[o] = src[o] /\ (o \in reported') = (o \in reported)
  BY <1>1
<1>7. \A o \in S : <<o, src'[o], o \in reported'>> = <<o, src[o], o \in reported>>
  BY <1>6
<1> HIDE DEF S
<1> QED
  BY <1>3, <1>4, <1>5, <1>7

\* What a step changes: records and reports in cells it names, copies in cells
\* that waited, the mappings with the cells of their delta.
RecordsNamed ==
  \A o \in Objects : src'[o] # src[o] \/ ~(o \in reported' <=> o \in reported) =>
    /\ src[o] # Null => CellOf(src[o]) \in tileRows'
    /\ src'[o] # Null => CellOf(src'[o]) \in tileRows'
CopiesWaited ==
  \A u \in unmatched \cup unmatched' : CellOf(u.row) \notin matchQ => u \in unmatched /\ u \in unmatched'
TypesNamed ==
  \/ types' = types
  \/ \E s \in BuildingSources : /\ \A k \in BuildingSources \ {s} : types'[k] = types[k]
                                /\ OneOfAKind(types'[s]) /\ tileRows' = TypeDeltaCells(s, types'[s])
StreetsNamed == streets' = streets \/ tileRows' = StreetDeltaCells(streets')

\* A transaction changes nothing else.
LEMMA StepNames ==
  AnswersInv /\ [AnswersNext]_answersVars => RecordsNamed /\ CopiesWaited /\ TypesNamed /\ StreetsNamed
<1> SUFFICES ASSUME AnswersInv, [AnswersNext]_answersVars
             PROVE  RecordsNamed /\ CopiesWaited /\ TypesNamed /\ StreetsNamed
  OBVIOUS
<1> USE DEF AnswersInv, RecordsNamed, CopiesWaited, TypesNamed, StreetsNamed
<1>1. ASSUME NEW s \in Sources, Refresh(s) PROVE RecordsNamed /\ CopiesWaited /\ TypesNamed /\ StreetsNamed
  <2>1. /\ \A o \in Objects : src'[o] # src[o] =>
             /\ src[o] # Null => CellOf(src[o]) \in tileRows'
             /\ src'[o] # Null => CellOf(src'[o]) \in tileRows'
        /\ \A o \in Objects : src'[o] = src[o] => (o \in reported' <=> o \in reported)
        /\ UNCHANGED <<unmatched, types, streets, totals>>
    BY <1>1, Refreshed
  <2> QED
    BY <2>1
<1>2. ASSUME NEW o \in Reportable, Report(o) \/ Revoke(o)
      PROVE  RecordsNamed /\ CopiesWaited /\ TypesNamed /\ StreetsNamed
  <2>1. /\ UNCHANGED <<src, unmatched, types, streets, totals>>
        /\ tileRows' = {CellOf(src[o])}
        /\ \A k : k # o => (k \in reported' <=> k \in reported)
    BY <1>2 DEF Report, Revoke, EnqueueBoth
  <2> QED
    BY <2>1
<1>3. ASSUME NEW c \in Cells, OsmDiff(c) PROVE RecordsNamed /\ CopiesWaited /\ TypesNamed /\ StreetsNamed
  BY <1>3 DEF OsmDiff, tables
<1>4. ASSUME NEW c \in Cells, Drain(c) PROVE RecordsNamed /\ CopiesWaited /\ TypesNamed /\ StreetsNamed
  <2>1. PICK found \in SUBSET {o \in Objects : src[o] # Null /\ CellOf(src[o]) = c} :
          unmatched' = {u \in unmatched : CellOf(u.row) # c} \cup {[of |-> o, row |-> src[o]] : o \in found}
    BY <1>4 DEF Drain
  <2>2. c \in matchQ /\ UNCHANGED <<src, types, streets, reported>>
    BY <1>4 DEF Drain
  <2>3. \A u \in unmatched' : CellOf(u.row) # c => u \in unmatched
    BY <2>1
  <2>4. \A u \in unmatched : CellOf(u.row) # c => u \in unmatched'
    BY <2>1
  <2> QED
    BY <2>2, <2>3, <2>4
<1>5. ASSUME NEW s \in BuildingSources, SwapTypes(s)
      PROVE  RecordsNamed /\ CopiesWaited /\ TypesNamed /\ StreetsNamed
  <2>1. PICK file \in TypeFiles[s] :
          /\ ValidTypes(s, Cleaned(file)) /\ types' = [types EXCEPT ![s] = SetOf(Cleaned(file))]
          /\ tileRows' = TypeDeltaCells(s, SetOf(Cleaned(file)))
          /\ UNCHANGED <<src, unmatched, streets, reported, totals, matchQ>>
    BY <1>5 DEF SwapTypes
  <2>2. types'[s] = SetOf(Cleaned(file)) /\ \A k \in BuildingSources \ {s} : types'[k] = types[k]
    BY <2>1 DEF TypesRight
  <2>3. OneOfAKind(types'[s])
    BY <2>1, <2>2, ValidTable
  <2>4. TypesNamed
    BY <2>1, <2>2, <2>3
  <2> QED
    BY <2>1, <2>4
<1>6. CASE SwapStreets
  <2>1. PICK file \in StreetFiles :
          /\ streets' = SetOf(file) /\ tileRows' = StreetDeltaCells(SetOf(file))
          /\ UNCHANGED <<src, unmatched, types, reported, totals>>
    BY <1>6 DEF SwapStreets, EnqueueBoth
  <2>2. StreetsNamed
    BY <2>1
  <2> QED
    BY <2>1, <2>2
<1>7. CASE UNCHANGED answersVars
  BY <1>7 DEF answersVars, tables
<1> QED
  BY <1>1, <1>2, <1>3, <1>4, <1>5, <1>6, <1>7 DEF AnswersNext

\* A row of the mapping that is changed and applies to a true copy names its cell.
LEMMA ChosenKept ==
  ASSUME AnswersInv, TypesNamed, NEW u \in unmatched, SourceOf[u.of] \in BuildingSources,
         CellOf(u.row) \notin tileRows' \cup matchQ, NEW n
  PROVE  Chosen(SourceOf[u.of], u.row, n)' = Chosen(SourceOf[u.of], u.row, n)
<1> DEFINE s == SourceOf[u.of]
           b == u.row
<1>1. u.of \in Live(s) /\ src[u.of] = b
  <2>1. src[u.of] = b /\ u.of \in Objects /\ b # Null
    BY RowOfObject DEF AnswersInv, CopiesTrue, RowsTyped
  <2> QED
    BY <2>1 DEF Live, Is
<1>2. ASSUME NEW m \in Changed(types[s], types'[s]), OneOfAKind(types'[s]), tileRows' = TypeDeltaCells(s, types'[s])
      PROVE  ~Applies(s, m, b, n)
  <2>1. SUFFICES ASSUME Applies(s, m, b, n) PROVE FALSE
    OBVIOUS
  <2>2. m \in types[s] \/ m \in types'[s]
    BY <1>2 DEF Changed
  <2>3. m.key \in DOMAIN Norm /\ Norm[m.key] = m.key
    BY <1>2, <2>2 DEF AnswersInv, TypesRight, OneOfAKind
  <2>4. \/ m.tier = 1 /\ SqlEq(m.key, ClassKey(s, b.t1))
        \/ m.tier = 2 /\ 2 \in Tiers(s) /\ SqlEq(m.key, ClassKey(s, b.t2))
    BY <2>1 DEF Applies
  <2>5. \/ m.tier = 1 /\ SqlEq(Norm[b.t1], m.key)
        \/ m.tier = 2 /\ 2 \in Tiers(s) /\ SqlEq(Norm[b.t2], m.key)
    <3>1. CASE s = "egib"
      BY <2>3, <2>4, <3>1 DEF ClassKey, SqlEq, Tiers
    <3>2. CASE s # "egib"
      BY <2>4, <3>2 DEF ClassKey, SqlEq
    <3> QED
      BY <3>1, <3>2
  <2>6. CellOf(src[u.of]) \in TypeDeltaCells(s, types'[s])
    <3> DEFINE c == <<m.tier, m.key>>
    <3>1. c \in {<<k.tier, k.key>> : k \in Changed(types[s], types'[s])}
      BY <1>2
    <3>2. \/ c[1] = 1 /\ SqlEq(Norm[src[u.of].t1], c[2])
          \/ c[1] = 2 /\ 2 \in Tiers(s) /\ SqlEq(Norm[src[u.of].t2], c[2])
      BY <1>1, <2>5
    <3> HIDE DEF c, s, b
    <3> QED
      BY <1>1, <3>1, <3>2 DEF TypeDeltaCells
  <2> QED
    BY <1>1, <1>2, <2>6
<1>3. {m \in types'[s] : Applies(s, m, b, n)} = {m \in types[s] : Applies(s, m, b, n)}
  <2>1. CASE types'[s] = types[s]
    BY <2>1
  <2>2. CASE types'[s] # types[s]
    <3>1. OneOfAKind(types'[s]) /\ tileRows' = TypeDeltaCells(s, types'[s])
      BY <2>2 DEF TypesNamed
    <3>2. \A m \in Changed(types[s], types'[s]) : ~Applies(s, m, b, n)
      BY <1>2, <3>1
    <3> QED
      BY <3>2 DEF Changed
  <2> QED
    BY <2>1, <2>2
<1>4. {m \in types[s] : Applies(s, m, b, n)}' = {m \in types[s] : Applies(s, m, b, n)}
  BY <1>3 DEF Applies
<1> QED
  BY <1>4 DEF Chosen

\* So does a row of the street names.
LEMMA StreetsKept ==
  ASSUME AnswersInv, AnswersInv', StreetsNamed, NEW u \in unmatched, Is(u.of, "prg"),
         CellOf(u.row) \notin tileRows' \cup matchQ
  PROVE  ResolvedStreets(u.row)' = ResolvedStreets(u.row)
<1> DEFINE a == u.row
           key == Norm[u.row.street]
           rowed(table, simc) == {m.osm : m \in {k \in table : SqlEq(Norm[k.prg], key) /\ k.simc = simc}}
<1>1. u.of \in Live("prg") /\ src[u.of] = a
  <2>1. src[u.of] = a /\ u.of \in Objects /\ a # Null
    BY RowOfObject DEF AnswersInv, CopiesTrue, RowsTyped
  <2> QED
    BY <2>1 DEF Live
<1>2. ASSUME NEW simc PROVE rowed(streets', simc) = rowed(streets, simc)
  <2>1. CASE streets' = streets
    BY <2>1
  <2>2. CASE streets' # streets
    <3> DEFINE new == streets'
    <3>1. tileRows' = StreetDeltaCells(streets')
      BY <2>2 DEF StreetsNamed
    <3>2. \A t \in Changed(Triples(streets), Triples(streets')) : t.prg # key
      <4> SUFFICES ASSUME NEW t \in Changed(Triples(streets), Triples(streets')), t.prg = key PROVE FALSE
        OBVIOUS
      <4>1. CellOf(src[u.of]) \in StreetDeltaCells(streets')
        BY <1>1 DEF StreetDeltaCells
      <4> QED
        BY <1>1, <3>1, <4>1
    <3>3. ASSUME NEW table, \A m \in table : DOMAIN m = {"simc", "prg", "osm"}
          PROVE  rowed(table, simc) = {t.osm : t \in {k \in Triples(table) : SqlEq(k.prg, key) /\ k.simc = simc}}
      <4>1. \A m \in table : LET t == [m EXCEPT !.prg = Norm[@]] IN
              t.prg = Norm[m.prg] /\ t.simc = m.simc /\ t.osm = m.osm
        BY <3>3
      <4> DEFINE g(m) == [m EXCEPT !.prg = Norm[@]]
                 T == {t \in Triples(table) : SqlEq(t.prg, key) /\ t.simc = simc}
                 M == {m \in table : SqlEq(Norm[m.prg], key) /\ m.simc = simc}
      <4>2. \A m \in M : g(m) \in T /\ g(m).osm = m.osm
        BY <4>1 DEF Triples
      <4>3. \A t \in T : \E m \in M : t.osm = m.osm
        <5> TAKE t \in T
        <5>1. PICK m \in table : t = g(m)
          BY DEF Triples
        <5>2. t.prg = Norm[m.prg] /\ t.simc = m.simc /\ t.osm = m.osm
          BY <4>1, <5>1
        <5>3. m \in M
          BY <5>2
        <5> QED
          BY <5>2, <5>3
      <4>4. rowed(table, simc) = {m.osm : m \in M}
        OBVIOUS
      <4> HIDE DEF g, T, M, rowed
      <4>5. {m.osm : m \in M} = {t.osm : t \in T}
        BY <4>2, <4>3
      <4> QED
        BY <4>4, <4>5 DEF T
    <3>4. /\ \A m \in streets : DOMAIN m = {"simc", "prg", "osm"}
          /\ \A m \in streets' : DOMAIN m = {"simc", "prg", "osm"}
      BY DEF AnswersInv, StreetsRight
    <3>5. {k \in Triples(streets) : SqlEq(k.prg, key) /\ k.simc = simc}
            = {k \in Triples(streets') : SqlEq(k.prg, key) /\ k.simc = simc}
      BY <3>2 DEF Changed, SqlEq
    <3> HIDE DEF rowed
    <3> QED
      BY <3>3, <3>4, <3>5
  <2> QED
    BY <2>1, <2>2
<1>3. ResolvedStreets(a) =
        LET local == IF a.simc = Null THEN {} ELSE rowed(streets, a.simc)
        IN CASE local # {} -> local
             [] local = {} /\ rowed(streets, Null) # {} -> rowed(streets, Null)
             [] OTHER -> {a.street}
  BY DEF ResolvedStreets
<1>4. ResolvedStreets(a)' =
        LET local == IF a.simc = Null THEN {} ELSE rowed(streets', a.simc)
        IN CASE local # {} -> local
             [] local = {} /\ rowed(streets', Null) # {} -> rowed(streets', Null)
             [] OTHER -> {a.street}
  BY DEF ResolvedStreets
<1> HIDE DEF rowed
<1>5. rowed(streets', a.simc) = rowed(streets, a.simc) /\ rowed(streets', Null) = rowed(streets, Null)
  BY <1>2
<1> QED
  BY <1>3, <1>4, <1>5

\* Copies that are not true wait for the match, and no mapping table has two
\* rows that would serve one building or street (mappings/, compare::drain).
THEOREM AnswersKept == AnswersSpec => []AnswersInv
BY AnswersFirst, AnswersStep, PTL DEF AnswersSpec

\* The tiles of z14, drawn from the rows of three cells,
LEMMA Z14Noted ==
  ASSUME AnswersInv, AnswersInv', [AnswersNext]_answersVars, NEW x \in Cells,
         \A c \in tileRows' \cup matchQ : <<CellZoom, x>> \notin TilesOf(c)
  PROVE  Z14Tile(Single(x))' = Z14Tile(Single(x))
<1> DEFINE near == x - 1 .. x + 1
           sc == Single(x)
<1>n. x \in Int
  BY TheCells
<1>1. \A c \in tileRows' \cup matchQ : c \notin near
  <2> SUFFICES ASSUME NEW c \in tileRows' \cup matchQ PROVE c \notin near
    OBVIOUS
  <2>1. c \in Cells
    BY DEF AnswersInv, QueuesTyped
  <2> QED
    BY <2>1, Unnamed
<1>2. RecordsNamed /\ CopiesWaited /\ TypesNamed /\ StreetsNamed
  BY StepNames
<1>t. RowsTyped /\ RowsTyped'
  BY DEF AnswersInv
<1>3. \A o \in Objects : src'[o] # src[o] \/ ~(o \in reported' <=> o \in reported) =>
        /\ src[o] # Null => CellOf(src[o]) \notin near
        /\ src'[o] # Null => CellOf(src'[o]) \notin near
  BY <1>1, <1>2 DEF RecordsNamed
<1>4. \A u \in unmatched \cup unmatched' : CellOf(u.row) \in near => u \in unmatched /\ u \in unmatched'
  BY <1>1, <1>2 DEF CopiesWaited
<1>5. /\ {u \in unmatched : Drawn(u.row, sc)}' = {u \in unmatched : Drawn(u.row, sc)}
      /\ \A u \in unmatched : Drawn(u.row, sc) => CellOf(u.row) \in near
  <2> HIDE DEF near
  <2> QED
    BY <1>n, <1>t, <1>4, SameCopies DEF near
<1>6. AddressesLayer(sc)' = AddressesLayer(sc)
  <2>1. \A u \in unmatched : Is(u.of, "prg") /\ Drawn(u.row, sc) =>
          ResolvedStreets(u.row)' = ResolvedStreets(u.row)
    BY <1>1, <1>2, <1>5, StreetsKept
  <2> HIDE DEF sc
  <2> QED
    BY <1>5, <2>1, SameAddresses
<1>7. BuildingsLayer(sc)' = BuildingsLayer(sc)
  <2>1. \A u \in unmatched : SourceOf[u.of] \in BuildingSources /\ Drawn(u.row, sc) =>
          \A n : Chosen(SourceOf[u.of], u.row, n)' = Chosen(SourceOf[u.of], u.row, n)
    BY <1>1, <1>2, <1>5, ChosenKept
  <2>2. \A s, b : Neighbours(s, b, NearWindows(sc))' = Neighbours(s, b, NearWindows(sc))
    BY <1>n, <1>t, <1>3, SameNeighbours
  <2> HIDE DEF sc
  <2> QED
    BY <1>5, <2>1, <2>2, SameBuildings
<1>8. /\ AllLayer({"prg"}, sc)' = AllLayer({"prg"}, sc)
      /\ AllLayer(BuildingSources, sc)' = AllLayer(BuildingSources, sc)
  BY <1>n, <1>t, <1>3, SameLegend
<1> QED
  BY <1>6, <1>7, <1>8 DEF Z14Tile

\* and those of z12 and z13, from the copies of the cells under them.
LEMMA PointsNoted ==
  ASSUME AnswersInv, AnswersInv', [AnswersNext]_answersVars,
         NEW z \in MinPersistedZoom .. CellZoom - 1, NEW x,
         \A c \in tileRows' \cup matchQ : <<z, x>> \notin TilesOf(c)
  PROVE  PointsTile(z, x, {x})' = PointsTile(z, x, {x})
<1> DEFINE shift == CellZoom - z
           lo == Shl(Min({x}), shift)
           hi == Shl(Max({x}) + 1, shift) - 1
           S == {k \in unmatched : CellOf(k.row) \in lo..hi /\ Shr(CellOf(k.row), shift) = x}
<1>1. \A c \in matchQ : Shr(c, shift) # x
  BY DEF TilesOf
<1>2. CopiesWaited
  BY StepNames
<1>3. \A u \in unmatched \cup unmatched' : Shr(CellOf(u.row), shift) = x => u \in unmatched /\ u \in unmatched'
  BY <1>1, <1>2 DEF CopiesWaited
<1>4. S' = S
  <2> HIDE DEF lo, hi, shift
  <2>1. lo' = lo /\ hi' = hi /\ shift' = shift
    BY DEF lo, hi, shift, Shl
  <2>2. S' = {k \in unmatched' : CellOf(k.row) \in lo..hi /\ Shr(CellOf(k.row), shift) = x}
    BY <2>1
  <2> QED
    BY <1>3, <2>2
<1>5. PointsTile(z, x, {x}) = {<<u.of, SourceOf[u.of], u.row.at>> : u \in S}
  BY DEF PointsTile
<1>6. PointsTile(z, x, {x})' = {<<u.of, SourceOf[u.of], u.row.at>> : u \in S'}
  BY DEF PointsTile
<1> HIDE DEF S
<1> QED
  BY <1>4, <1>5, <1>6

\* A transaction that changes what a stored tile shows names a cell of it, or
\* the tile is of a cell that waits for the match (server/tile_dirty.rs).
THEOREM TilesRerendered == AnswersSpec => RerenderNoted
<1>1. AnswersInv /\ AnswersInv' /\ [AnswersNext]_answersVars =>
        \A t \in Persisted : \/ \E c \in tileRows' \cup matchQ : t \in TilesOf(c)
                             \/ RenderTile(t)' = RenderTile(t)
  <2> SUFFICES ASSUME AnswersInv, AnswersInv', [AnswersNext]_answersVars, NEW t \in Persisted,
                      \A c \in tileRows' \cup matchQ : t \notin TilesOf(c)
               PROVE  RenderTile(t)' = RenderTile(t)
    OBVIOUS
  <2>1. ASSUME NEW x \in Cells, t = <<CellZoom, x>> PROVE RenderTile(t)' = RenderTile(t)
    <3>1. Z14Tile(Single(x))' = Z14Tile(Single(x))
      BY <2>1, Z14Noted
    <3>2. RenderTile(t) = Z14Tile(Single(x))
      BY <2>1 DEF RenderTile
    <3>3. RenderTile(t)' = Z14Tile(Single(x))'
      BY <2>1 DEF RenderTile
    <3> QED
      BY <3>1, <3>2, <3>3
  <2>2. ASSUME NEW z \in MinPersistedZoom .. CellZoom - 1, NEW x, t = <<z, x>>
        PROVE  RenderTile(t)' = RenderTile(t)
    <3>1. PointsTile(z, x, {x})' = PointsTile(z, x, {x})
      BY <2>2, PointsNoted
    <3>z. z # CellZoom
      BY DEF MinPersistedZoom, CellZoom
    <3>2. RenderTile(t) = PointsTile(z, x, {x})
      BY <2>2, <3>z DEF RenderTile
    <3>3. RenderTile(t)' = PointsTile(z, x, {x})'
      BY <2>2, <3>z DEF RenderTile
    <3> QED
      BY <3>1, <3>2, <3>3
  <2> QED
    BY <2>1, <2>2, PersistedTiles
<1> QED
  BY <1>1, AnswersKept, PTL DEF AnswersSpec, RerenderNoted

\* A product rises with its factor.
LEMMA Rises ==
  ASSUME NEW a \in Int, NEW b \in Int, NEW w \in Nat, a <= b
  PROVE  a * w <= b * w /\ a * w \in Int /\ b * w \in Int
BY SMT

\* The floor is the number whose multiples are around it.
LEMMA FloorIs ==
  ASSUME NEW x \in Int, NEW k \in Int, NEW w \in Nat \ {0}, k * w <= x, x < (k + 1) * w
  PROVE  x \div w = k
BY SMT

\* A floor of a floor is a floor.
LEMMA FloorOfFloor ==
  ASSUME NEW a \in Int, NEW w \in Nat \ {0}, NEW p \in Nat \ {0}, NEW x \in Int
  PROVE  (a \div w) \div p = x <=> x * (w * p) <= a /\ a < (x + 1) * (w * p)
<1> DEFINE q == a \div w
           r == q \div p
<1>1. q \in Int /\ q * w <= a /\ a < q * w + w
  BY Floor
<1> HIDE DEF q
<1>2. r \in Int /\ r * p <= q /\ q < r * p + p
  BY <1>1, Floor
<1> HIDE DEF r
<1>3. w * p \in Nat \ {0} /\ r * p \in Int /\ r * p + p \in Int /\ q + 1 \in Int /\ q * w \in Int
  BY <1>1, <1>2, SMT
<1>4. r * (w * p) <= a
  <2>1. (r * p) * w <= q * w
    BY <1>1, <1>2, <1>3, Rises
  <2>2. (r * p) * w = r * (w * p)
    BY <1>2, SMT
  <2> QED
    BY <1>1, <1>2, <1>3, <2>1, <2>2
<1>5. a < (r + 1) * (w * p)
  <2>1. (q + 1) * w <= (r * p + p) * w
    <3>1. q + 1 <= r * p + p
      BY <1>1, <1>2, <1>3
    <3> QED
      BY <1>3, <3>1, Rises
  <2>2. (q + 1) * w = q * w + w
    BY <1>1, SMT
  <2>3. (r * p + p) * w = (r + 1) * (w * p)
    BY <1>2, SMT
  <2>4. (r + 1) * (w * p) \in Int
    BY <1>2, <1>3
  <2> QED
    BY <1>1, <1>3, <2>1, <2>2, <2>3, <2>4
<1>6. a \div (w * p) = r
  BY <1>2, <1>3, <1>4, <1>5, FloorIs
<1>7. x * (w * p) <= a /\ a < (x + 1) * (w * p) => a \div (w * p) = x
  BY <1>3, FloorIs
<1> QED
  BY <1>4, <1>5, <1>6, <1>7 DEF q, r

\* The powers of two a zoom shifts by.
LEMMA Powers == \A k \in 0 .. CellZoom : 2^k \in Nat \ {0}
<1> SUFFICES ASSUME NEW k \in 0 .. CellZoom PROVE 2^k \in Nat \ {0}
  OBVIOUS
<1>1. \/ k = 0 \/ k = 1 \/ k = 2 \/ k = 3 \/ k = 4
      \/ k = 5 \/ k = 6 \/ k = 7 \/ k = 8 \/ k = 9
      \/ k = 10 \/ k = 11 \/ k = 12 \/ k = 13 \/ k = 14
  BY SMT DEF CellZoom
<1> DEFINE P == Nat \ {0}
<1>2. 2^0 \in P /\ 2^1 \in P /\ 2^2 \in P /\ 2^3 \in P /\ 2^4 \in P
  BY SMT
<1>3. 2^5 \in P /\ 2^6 \in P /\ 2^7 \in P /\ 2^8 \in P /\ 2^9 \in P
  BY SMT
<1>4. 2^10 \in P /\ 2^11 \in P /\ 2^12 \in P /\ 2^13 \in P /\ 2^14 \in P
  BY SMT
<1> HIDE DEF P
<1>5. k = 0 \/ k = 1 \/ k = 2 \/ k = 3 \/ k = 4 => 2^k \in P
  BY <1>2, Zenon
<1>6. k = 5 \/ k = 6 \/ k = 7 \/ k = 8 \/ k = 9 => 2^k \in P
  BY <1>3, Zenon
<1>7. k = 10 \/ k = 11 \/ k = 12 \/ k = 13 \/ k = 14 => 2^k \in P
  BY <1>4, Zenon
<1> QED
  BY <1>1, <1>5, <1>6, <1>7, Zenon DEF P

\* The cells under a tile are the points inside its box.
LEMMA UnderTile ==
  ASSUME NEW r \in Rows, NEW k \in 0 .. CellZoom, NEW x \in Int
  PROVE  /\ Shr(CellOf(r), k) = x <=> Inside(r.at, Box(CellZoom - k, x))
         /\ Shr(CellOf(r), k) = x <=> CellOf(r) \in Shl(x, k) .. Shl(x + 1, k) - 1
<1> DEFINE p == 2^k
           c == r.at \div CellSize
<1>1. CellSize \in Nat \ {0} /\ r.at \in Int
  BY RowNumbers, WidthsAssumption
<1>2. p \in Nat \ {0}
  BY Powers
<1>3. CellZoom - (CellZoom - k) = k
  BY DEF CellZoom
<1>4. c \in Int
  BY <1>1, Floor
<1>5. Shr(CellOf(r), k) = c \div p
  BY DEF Shr, CellOf, CellAt
<1>6. /\ Box(CellZoom - k, x).lo = x * (CellSize * p)
      /\ Box(CellZoom - k, x).hi = (x + 1) * (CellSize * p)
  BY <1>3 DEF Box, Span
<1> HIDE DEF p
<1>7. c \div p = x <=> x * (CellSize * p) <= r.at /\ r.at < (x + 1) * (CellSize * p)
  BY <1>1, <1>2, FloorOfFloor
<1>8. Shr(CellOf(r), k) = x <=> Inside(r.at, Box(CellZoom - k, x))
  BY <1>5, <1>6, <1>7 DEF Inside
<1>9. c \div p = x <=> c \in x * p .. (x + 1) * p - 1
  <2> HIDE DEF c
  <2>1. x * p \in Int /\ (x + 1) * p \in Int /\ (x + 1) * p = x * p + p
    BY <1>2
  <2>2. c \div p = x => x * p <= c /\ c < x * p + p
    BY <1>2, <1>4, Floor
  <2>3. x * p <= c /\ c < (x + 1) * p => c \div p = x
    BY <1>2, <1>4, FloorIs
  <2> QED
    BY <1>4, <2>1, <2>2, <2>3
<1>10. CellOf(r) \in Shl(x, k) .. Shl(x + 1, k) - 1 <=> c \in x * p .. (x + 1) * p - 1
  BY DEF CellOf, CellAt, Shl, p
<1> QED
  BY <1>5, <1>8, <1>9, <1>10

\* Of finitely many numbers one is the least,
LEMMA LeastValue ==
  ASSUME NEW L, IsFiniteSet(L), L # {}, NEW f \in [L -> Int]
  PROVE  \E m \in L : \A l \in L : f[m] <= f[l]
<1> DEFINE Bottom(T, m) == m \in T /\ \A l \in T : f[m] <= f[l]
           Bad == {T \in SUBSET L : T # {} /\ \A m : ~Bottom(T, m)}
<1>1. SUFFICES ASSUME Bad # {} PROVE FALSE
  OBVIOUS
<1>2. PICK T \in Bad : \A U \in Bad : U \subseteq T => U = T
  <2>1. Bad \in SUBSET (SUBSET L)
    OBVIOUS
  <2> HIDE DEF Bad
  <2> QED
    BY <1>1, <2>1, LeastSubset
<1>3. PICK x \in T : x \in L
  OBVIOUS
<1>4. T \ {x} = {} \/ \E m : Bottom(T \ {x}, m)
  <2> DEFINE U == T \ {x}
  <2>1. U \subseteq T /\ U # T /\ U \in SUBSET L
    BY <1>3
  <2>2. U \notin Bad
    <3> HIDE DEF Bad, U
    <3> QED
      BY <1>2, <2>1
  <2> HIDE DEF U, Bottom
  <2>3. U = {} \/ \E m : Bottom(U, m)
    BY <2>1, <2>2
  <2> QED
    BY <2>3 DEF U
<1>5. \A l \in T : l \in L /\ f[l] \in Int
  OBVIOUS
<1>6. CASE T \ {x} = {}
  BY <1>3, <1>5, <1>6
<1>7. ASSUME NEW m, Bottom(T \ {x}, m) PROVE FALSE
  <2>1. m \in T /\ f[m] \in Int /\ f[x] \in Int /\ \A l \in T \ {x} : f[m] <= f[l]
    BY <1>5, <1>7
  <2>2. CASE f[m] <= f[x]
    BY <2>1, <2>2
  <2>3. CASE f[x] <= f[m]
    <3>1. \A l \in T : f[x] <= f[l]
      BY <1>5, <2>1, <2>3
    <3> QED
      BY <3>1
  <2> QED
    BY <2>1, <2>2, <2>3
<1> QED
  BY <1>4, <1>6, <1>7

\* and one the greatest.
LEMMA Extremes ==
  ASSUME NEW S, S \subseteq Int, IsFiniteSet(S), S # {}
  PROVE  /\ Min(S) \in S /\ \A y \in S : Min(S) <= y
         /\ Max(S) \in S /\ \A y \in S : y <= Max(S)
<1> DEFINE f == [y \in S |-> y]
           g == [y \in S |-> 0 - y]
<1>1. f \in [S -> Int] /\ g \in [S -> Int]
  OBVIOUS
<1>2. PICK m \in S : \A y \in S : f[m] <= f[y]
  BY <1>1, LeastValue
<1>3. PICK n \in S : \A y \in S : g[n] <= g[y]
  BY <1>1, LeastValue
<1>4. \A y \in S : m <= y
  BY <1>2
<1>5. \A y \in S : n >= y
  BY <1>3
<1>6. Min(S) \in S /\ \A y \in S : Min(S) <= y
  BY <1>4 DEF Min
<1>7. Max(S) \in S /\ \A y \in S : Max(S) >= y
  BY <1>5 DEF Max
<1>8. \A y \in S : Max(S) >= y => y <= Max(S)
  BY <1>7
<1> QED
  BY <1>6, <1>7, <1>8

\* The points of a tile are those in the cells under it, whatever block it is in.
LEMMA PointsShown ==
  ASSUME RowsTyped, NEW z \in MinPersistedZoom .. CellZoom, NEW x \in Int, NEW tiles,
         Min(tiles) \in Int, Max(tiles) \in Int, Min(tiles) <= x, x <= Max(tiles)
  PROVE  PointsTile(z, x, tiles) =
           {<<u.of, SourceOf[u.of], u.row.at>> :
              u \in {k \in unmatched : Shr(CellOf(k.row), CellZoom - z) = x}}
<1> DEFINE shift == CellZoom - z
           lo == Shl(Min(tiles), shift)
           hi == Shl(Max(tiles) + 1, shift) - 1
<1>1. shift \in 0 .. CellZoom
  BY DEF MinPersistedZoom, CellZoom
<1>2. 2^shift \in Nat \ {0}
  BY <1>1, Powers
<1>3. lo <= Shl(x, shift) /\ Shl(x + 1, shift) - 1 <= hi
      /\ lo \in Int /\ hi \in Int /\ Shl(x, shift) \in Int /\ Shl(x + 1, shift) \in Int
  <2> DEFINE p == 2^shift
  <2>1. p \in Nat
    BY <1>2
  <2> HIDE DEF p
  <2>2. Min(tiles) * p <= x * p /\ (x + 1) * p <= (Max(tiles) + 1) * p
        /\ Min(tiles) * p \in Int /\ x * p \in Int /\ (x + 1) * p \in Int /\ (Max(tiles) + 1) * p \in Int
    <3>1. x + 1 \in Int /\ Max(tiles) + 1 \in Int /\ x + 1 <= Max(tiles) + 1
      OBVIOUS
    <3> QED
      BY <2>1, <3>1, Rises
  <2> QED
    BY <2>2 DEF Shl, p
<1> HIDE DEF lo, hi
<1>4. ASSUME NEW k \in unmatched, Shr(CellOf(k.row), shift) = x PROVE CellOf(k.row) \in lo .. hi
  <2>1. k.row \in Rows
    BY RowOfObject DEF RowsTyped
  <2>2. CellOf(k.row) \in Shl(x, shift) .. Shl(x + 1, shift) - 1
    <3> HIDE DEF shift
    <3> QED
      BY <1>1, <1>4, <2>1, UnderTile
  <2>3. CellOf(k.row) \in Int
    BY <2>1, RowNumbers, TheCells
  <2> HIDE DEF shift
  <2> QED
    BY <1>3, <2>2, <2>3
<1>5. {k \in unmatched : CellOf(k.row) \in lo..hi /\ Shr(CellOf(k.row), shift) = x}
        = {k \in unmatched : Shr(CellOf(k.row), shift) = x}
  BY <1>4
<1>6. PointsTile(z, x, tiles) =
        {<<u.of, SourceOf[u.of], u.row.at>> :
           u \in {k \in unmatched : CellOf(k.row) \in lo..hi /\ Shr(CellOf(k.row), shift) = x}}
  BY DEF PointsTile, lo, hi
<1> QED
  BY <1>5, <1>6

\* Cells and zooms of the bins.
LEMMA Bins ==
  ASSUME NEW z \in AggZooms
  PROVE  BinShift(z) \in 0 .. CellZoom /\ CellZoom - z \in 0 .. CellZoom
<1>1. z \in Int /\ 5 <= z /\ z <= 11
  BY DEF AggZooms
<1> DEFINE S == {z + 5, CellZoom}
           m == Min(S)
<1>2. S \subseteq Int /\ S # {}
  BY <1>1 DEF CellZoom
<1>3. IsFiniteSet(S)
  <2>1. IsFiniteSet({z + 5}) /\ IsFiniteSet({CellZoom})
    BY FS_Singleton
  <2>2. S = {z + 5} \cup {CellZoom}
    OBVIOUS
  <2> HIDE DEF S
  <2> QED
    BY <2>1, <2>2, FS_Union
<1>5. m \in S /\ \A y \in S : m <= y
  <2> HIDE DEF S
  <2> QED
    BY <1>2, <1>3, Extremes
<1> HIDE DEF m
<1>4. CellZoom - m \in 0 .. CellZoom
  BY <1>1, <1>5 DEF CellZoom
<1> QED
  BY <1>1, <1>4 DEF BinShift, m, CellZoom

\* A tile over cells is a number.
LEMMA TileOfCell ==
  ASSUME NEW c \in Cells, NEW k \in 0 .. CellZoom
  PROVE  Shr(c, k) \in Int
<1> DEFINE p == 2^k
<1>1. p \in Nat \ {0} /\ c \in Int
  BY Powers, TheCells
<1> HIDE DEF p
<1>2. c \div p \in Int
  BY <1>1, Floor
<1> QED
  BY <1>2 DEF Shr, p

\* A row is in the one tile of a zoom that it lies in,
LEMMA OnceInTile ==
  ASSUME RowsTyped, NEW u \in unmatched, NEW z \in MinPersistedZoom .. CellZoom - 1, NEW x \in TilesAt(z)
  PROVE  <<u.of, SourceOf[u.of], u.row.at>> \in PointsTile(z, x, {x}) <=> Inside(u.row.at, Box(z, x))
<1> DEFINE k == CellZoom - z
<1>1. k \in 0 .. CellZoom /\ z \in MinPersistedZoom .. CellZoom /\ z = CellZoom - k
  BY DEF MinPersistedZoom, CellZoom
<1>2. x \in Int
  <2>1. PICK c \in Cells : x = Shr(c, k)
    BY DEF TilesAt
  <2> HIDE DEF k
  <2> QED
    BY <1>1, <2>1, TileOfCell
<1>3. Min({x}) = x /\ Max({x}) = x
  <2>1. {x} \subseteq Int /\ {x} # {} /\ IsFiniteSet({x})
    BY <1>2, FS_Singleton
  <2> QED
    BY <2>1, Extremes
<1>4. PointsTile(z, x, {x}) =
        {<<v.of, SourceOf[v.of], v.row.at>> : v \in {w \in unmatched : Shr(CellOf(w.row), k) = x}}
  BY <1>1, <1>2, <1>3, PointsShown
<1>5. <<u.of, SourceOf[u.of], u.row.at>> \in PointsTile(z, x, {x}) <=> Shr(CellOf(u.row), k) = x
  <2>1. \A v : v.row.at = u.row.at => CellOf(v.row) = CellOf(u.row)
    BY DEF CellOf
  <2> HIDE DEF k
  <2> QED
    BY <1>4, <2>1
<1>6. u.row \in Rows
  BY RowOfObject DEF RowsTyped
<1> HIDE DEF k
<1>7. Shr(CellOf(u.row), k) = x <=> Inside(u.row.at, Box(CellZoom - k, x))
  BY <1>1, <1>2, <1>6, UnderTile
<1> QED
  BY <1>1, <1>5, <1>7

\* and in the one bin.
LEMMA OnceInBin ==
  ASSUME RowsTyped, NEW u \in unmatched, NEW z \in AggZooms, NEW x \in TilesAt(z), NEW bin \in BinsAt(z)
  PROVE  u \in InBin(z, x, bin)
           <=> Inside(u.row.at, Box(z, x)) /\ Inside(u.row.at, Box(CellZoom - BinShift(z), bin))
<1> DEFINE k == CellZoom - z
           j == BinShift(z)
<1>1. k \in 0 .. CellZoom /\ j \in 0 .. CellZoom /\ z = CellZoom - k
  BY Bins DEF AggZooms, CellZoom
<1>2. PICK c \in Cells : x = Shr(c, k)
  BY DEF TilesAt
<1>3. PICK d \in Cells : bin = Shr(d, j)
  BY DEF BinsAt
<1>4. u.row \in Rows
  BY RowOfObject DEF RowsTyped
<1>5. u \in InBin(z, x, bin) <=> CellOf(u.row) \in Shl(x, k) .. Shl(x + 1, k) - 1 /\ Shr(CellOf(u.row), j) = bin
  BY DEF InBin, AggRange
<1> HIDE DEF k, j
<1>6. x \in Int /\ bin \in Int
  BY <1>1, <1>2, <1>3, TileOfCell
<1>7. /\ Shr(CellOf(u.row), k) = x <=> Inside(u.row.at, Box(CellZoom - k, x))
      /\ Shr(CellOf(u.row), k) = x <=> CellOf(u.row) \in Shl(x, k) .. Shl(x + 1, k) - 1
      /\ Shr(CellOf(u.row), j) = bin <=> Inside(u.row.at, Box(CellZoom - j, bin))
  BY <1>1, <1>4, <1>6, UnderTile
<1> QED
  BY <1>1, <1>5, <1>7 DEF j

\* The tiles of a block.
LEMMA BlockTiles ==
  ASSUME NEW keys \in Batches, NEW b \in RenderBlocks(keys), NEW x \in b.tiles
  PROVE  /\ b.z \in MinPersistedZoom .. CellZoom /\ b.tiles \subseteq Nat /\ IsFiniteSet(b.tiles)
<1>1. PICK a \in {BlockOf(t) : t \in keys} :
        b = [z |-> a[1], tiles |-> {t[2] : t \in {k \in keys : BlockOf(k) = a}}]
  BY DEF RenderBlocks
<1>2. PICK t \in keys : a = BlockOf(t)
  BY <1>1
<1>3. IsFiniteSet(keys) /\ keys \subseteq (MinPersistedZoom .. CellZoom) \X Nat
  BY TilesAssumption
<1> DEFINE S == {k \in keys : BlockOf(k) = a}
<1>4. b.z = t[1] /\ b.tiles = {k[2] : k \in S}
  BY <1>1, <1>2 DEF BlockOf
<1>5. b.z \in MinPersistedZoom .. CellZoom
  BY <1>2, <1>3, <1>4
<1>6. b.tiles \subseteq Nat
  BY <1>3, <1>4
<1>7. IsFiniteSet(b.tiles)
  <2> DEFINE f == [k \in S |-> k[2]]
  <2>1. f \in Surjection(S, b.tiles)
    BY <1>4 DEF Surjection
  <2>2. IsFiniteSet(S)
    BY <1>3, FS_Subset
  <2> HIDE DEF f, S
  <2> QED
    BY <2>1, <2>2, FS_Surjection
<1> QED
  BY <1>5, <1>6, <1>7

\* The scan of a block spans each of its tiles.
LEMMA HullSpans ==
  ASSUME NEW tiles \in SUBSET Nat, IsFiniteSet(tiles), NEW x \in tiles
  PROVE  LET scan == Hull({Box(CellZoom, t) : t \in tiles}) IN
         /\ scan.lo \in Int /\ scan.hi \in Int
         /\ scan.lo <= Box(CellZoom, x).lo /\ Box(CellZoom, x).hi <= scan.hi
<1> DEFINE ws == {Box(CellZoom, t) : t \in tiles}
           lows == {w.lo : w \in ws}
           highs == {w.hi : w \in ws}
           f == [t \in tiles |-> Box(CellZoom, t).lo]
           g == [t \in tiles |-> Box(CellZoom, t).hi]
<1>1. \A t \in tiles : Box(CellZoom, t).lo \in Int /\ Box(CellZoom, t).hi \in Int
  <2> SUFFICES ASSUME NEW t \in tiles PROVE Box(CellZoom, t).lo \in Int /\ Box(CellZoom, t).hi \in Int
    OBVIOUS
  <2>1. t \in Int
    OBVIOUS
  <2>2. /\ Box(CellZoom, t).lo = t * CellSize /\ Box(CellZoom, t).hi = (t + 1) * CellSize
        /\ t * CellSize \in Int /\ (t + 1) * CellSize \in Int
    BY <2>1, Z14Box
  <2> QED
    BY <2>2
<1>2. /\ \A l : l \in lows <=> \E t \in tiles : l = Box(CellZoom, t).lo
      /\ \A l : l \in highs <=> \E t \in tiles : l = Box(CellZoom, t).hi
  OBVIOUS
<1>3. Hull(ws).lo = Min(lows) /\ Hull(ws).hi = Max(highs)
  BY DEF Hull, Span
<1> HIDE DEF lows, highs
<1>4. f \in Surjection(tiles, lows) /\ g \in Surjection(tiles, highs)
  BY <1>2 DEF Surjection
<1> HIDE DEF f, g
<1>5. IsFiniteSet(lows) /\ IsFiniteSet(highs)
  BY <1>4, FS_Surjection
<1>6. /\ lows \subseteq Int /\ Box(CellZoom, x).lo \in lows
      /\ highs \subseteq Int /\ Box(CellZoom, x).hi \in highs
  BY <1>1, <1>2
<1>7. /\ Min(lows) \in lows /\ Min(lows) <= Box(CellZoom, x).lo
      /\ Max(highs) \in highs /\ Box(CellZoom, x).hi <= Max(highs)
  BY <1>5, <1>6, Extremes
<1>8. Min(lows) \in Int /\ Max(highs) \in Int
  BY <1>6, <1>7
<1> QED
  BY <1>3, <1>7, <1>8

\* A tile of a block draws a row, and counts it as a neighbour, as if alone.
LEMMA BlockReads ==
  ASSUME NEW tiles \in SUBSET Nat, IsFiniteSet(tiles), NEW x \in tiles, NEW r \in Rows
  PROVE  /\ Drawn(r, Batched(x, tiles)) <=> Drawn(r, Single(x))
         /\ (\A w \in NearWindows(Batched(x, tiles)) : Meets(r, w))
              <=> (\A w \in NearWindows(Single(x)) : Meets(r, w))
<1> DEFINE box == Box(CellZoom, x)
           scan == Hull({Box(CellZoom, t) : t \in tiles})
<1>1. scan.lo \in Int /\ scan.hi \in Int /\ scan.lo <= box.lo /\ box.hi <= scan.hi
  BY HullSpans
<1>2. /\ box.lo \in Int /\ box.hi \in Int
      /\ Grown(box).lo = box.lo - Buffer /\ Grown(box).hi = box.hi + Buffer
  <2>1. x \in Int
    OBVIOUS
  <2>2. /\ box.lo = x * CellSize /\ box.hi = (x + 1) * CellSize
        /\ Grown(box).lo = x * CellSize - Buffer /\ Grown(box).hi = (x + 1) * CellSize + Buffer
        /\ x * CellSize \in Int /\ (x + 1) * CellSize \in Int
    BY <2>1, Z14Box
  <2> QED
    BY <2>2
<1>3. /\ Grown(scan).lo = scan.lo - Buffer /\ Grown(scan).hi = scan.hi + Buffer
  BY DEF Grown, Span
<1>4. r.lo \in Int /\ r.hi \in Int /\ Buffer \in Nat
  BY RowNumbers, WidthsAssumption
<1>5. /\ Drawn(r, Batched(x, tiles)) <=> Meets(r, scan) /\ Meets(r, box)
      /\ NearWindows(Batched(x, tiles)) = {Grown(scan), Grown(box)}
  BY DEF Drawn, Batched, NearWindows
<1>6. /\ Drawn(r, Single(x)) <=> Meets(r, box)
      /\ NearWindows(Single(x)) = {Grown(box)}
  BY DEF Drawn, Single, NearWindows
<1> HIDE DEF box, scan
<1>7. Meets(r, box) => Meets(r, scan)
  BY <1>1, <1>2, <1>4 DEF Meets
<1>8. Meets(r, Grown(box)) => Meets(r, Grown(scan))
  <2>1. Meets(r, Grown(box)) => r.lo <= box.hi + Buffer /\ box.lo - Buffer <= r.hi
    BY <1>2 DEF Meets
  <2>2. r.lo <= scan.hi + Buffer /\ scan.lo - Buffer <= r.hi => Meets(r, Grown(scan))
    BY <1>3 DEF Meets
  <2> QED
    BY <1>1, <1>2, <1>4, <2>1, <2>2
<1> QED
  BY <1>5, <1>6, <1>7, <1>8

\* A z14 tile of a block is the tile alone.
LEMMA BlockTileAlone ==
  ASSUME RowsTyped, NEW tiles \in SUBSET Nat, IsFiniteSet(tiles), NEW x \in tiles
  PROVE  Z14Tile(Batched(x, tiles)) = Z14Tile(Single(x))
<1> DEFINE B == Batched(x, tiles)
           A == Single(x)
<1>1. \A r \in Rows : Drawn(r, B) <=> Drawn(r, A)
  BY BlockReads
<1>2. \A r \in Rows : (\A w \in NearWindows(B) : Meets(r, w)) <=> (\A w \in NearWindows(A) : Meets(r, w))
  BY BlockReads
<1> HIDE DEF A, B
<1>3. \A u \in unmatched : u.row \in Rows
  BY RowOfObject DEF RowsTyped
<1>4. \A o \in Objects : src[o] # Null => src[o] \in Rows
  BY DEF RowsTyped
<1>5. ASSUME NEW s, NEW b PROVE Neighbours(s, b, NearWindows(B)) = Neighbours(s, b, NearWindows(A))
  <2>1. ASSUME NEW o \in Live(s)
        PROVE  (\A w \in NearWindows(B) : Meets(src[o], w)) <=> (\A w \in NearWindows(A) : Meets(src[o], w))
    <3>1. src[o] \in Rows
      BY <1>4 DEF Live
    <3> QED
      BY <1>2, <3>1
  <2> QED
    BY <2>1 DEF Neighbours
<1>6. AddressesLayer(B) = AddressesLayer(A)
  <2>1. {k \in Copies("prg") : Drawn(k.row, B)} = {k \in Copies("prg") : Drawn(k.row, A)}
    BY <1>1, <1>3 DEF Copies
  <2> QED
    BY <2>1 DEF AddressesLayer
<1>7. BuildingsLayer(B) = BuildingsLayer(A)
  <2>1. {k \in unmatched : SourceOf[k.of] \in BuildingSources /\ Drawn(k.row, B)}
          = {k \in unmatched : SourceOf[k.of] \in BuildingSources /\ Drawn(k.row, A)}
    BY <1>1, <1>3
  <2>2. \A s, b : TileBuildingTags(s, b, B) = TileBuildingTags(s, b, A)
    BY <1>5 DEF TileBuildingTags
  <2> QED
    BY <2>1, <2>2 DEF BuildingsLayer
<1>8. ASSUME NEW sources PROVE AllLayer(sources, B) = AllLayer(sources, A)
  <2>1. {k \in Objects : SourceOf[k] \in sources /\ src[k] # Null /\ Drawn(src[k], B)}
          = {k \in Objects : SourceOf[k] \in sources /\ src[k] # Null /\ Drawn(src[k], A)}
    BY <1>1, <1>4
  <2> QED
    BY <2>1 DEF AllLayer
<1>9. Z14Tile(B) = Z14Tile(A)
  BY <1>6, <1>7, <1>8 DEF Z14Tile
<1> QED
  BY <1>9 DEF A, B

\* A tile of z12 or z13 shows the same points in a block and alone.
LEMMA BlockPointsAlone ==
  ASSUME RowsTyped, NEW z \in MinPersistedZoom .. CellZoom,
         NEW tiles \in SUBSET Nat, IsFiniteSet(tiles), NEW x \in tiles
  PROVE  PointsTile(z, x, tiles) = PointsTile(z, x, {x})
<1> DEFINE alone == {x}
           shown == {<<u.of, SourceOf[u.of], u.row.at>> :
                       u \in {k \in unmatched : Shr(CellOf(k.row), CellZoom - z) = x}}
<1>1. x \in Int
  OBVIOUS
<1>2. tiles \subseteq Int /\ tiles # {}
  OBVIOUS
<1>3. Min(tiles) \in Int /\ Max(tiles) \in Int /\ Min(tiles) <= x /\ x <= Max(tiles)
  BY <1>2, Extremes
<1>4. PointsTile(z, x, tiles) = shown
  BY <1>1, <1>3, PointsShown
<1>5. alone \subseteq Int /\ alone # {} /\ IsFiniteSet(alone) /\ x \in alone
  BY <1>1, FS_Singleton
<1> HIDE DEF alone
<1>6. Min(alone) \in Int /\ Max(alone) \in Int /\ Min(alone) <= x /\ x <= Max(alone)
  BY <1>5, Extremes
<1>7. PointsTile(z, x, alone) = shown
  BY <1>1, <1>6, PointsShown
<1> QED
  BY <1>4, <1>7 DEF alone

\* Tiles agree (tiles.rs, TileScope): a tile is the same alone and in a block,
\* and below z14 a row is in the one tile and the one bin it lies in.
THEOREM TilesAlike == AnswersSpec => []TilesAgree
<1>1. AnswersInv => TilesAgree
  <2> SUFFICES ASSUME RowsTyped PROVE TilesAgree
    BY DEF AnswersInv
  <2>1. ASSUME NEW keys \in Batches, NEW b \in RenderBlocks(keys), NEW x \in b.tiles
        PROVE  RenderBlock(b.z, b.tiles)[x] = RenderTile(<<b.z, x>>)
    <3>1. b.z \in MinPersistedZoom .. CellZoom /\ b.tiles \in SUBSET Nat /\ IsFiniteSet(b.tiles)
      BY BlockTiles
    <3>2. CASE b.z = CellZoom
      <4>1. Z14Tile(Batched(x, b.tiles)) = Z14Tile(Single(x))
        BY <3>1, BlockTileAlone
      <4> QED
        BY <3>2, <4>1 DEF RenderBlock, RenderTile
    <3>3. CASE b.z # CellZoom
      <4>1. PointsTile(b.z, x, b.tiles) = PointsTile(b.z, x, {x})
        BY <3>1, BlockPointsAlone
      <4> QED
        BY <3>3, <4>1 DEF RenderBlock, RenderTile
    <3> QED
      BY <3>2, <3>3
  <2>2. OncePerZoom
    BY OnceInTile, OnceInBin DEF OncePerZoom
  <2> QED
    BY <2>1, <2>2 DEF TilesAgree, BatchedAsSingle
<1> QED
  BY <1>1, AnswersKept, PTL

\* A name is served with one street.
LEMMA OneStreet ==
  ASSUME StreetsRight, NEW a
  PROVE  \E v : ResolvedStreets(a) = {v}
<1> DEFINE Found(simc) == {k \in streets : SqlEq(Norm[k.prg], Norm[a.street]) /\ k.simc = simc}
           Rowed(simc) == {m.osm : m \in Found(simc)}
           local == IF a.simc = Null THEN {} ELSE Rowed(a.simc)
<1>1. \A simc : \A m, k \in Found(simc) : m = k
  BY DEF StreetsRight, SqlEq
<1> HIDE DEF Found
<1>2. \A simc : Rowed(simc) # {} => \E v : Rowed(simc) = {v}
  <2> SUFFICES ASSUME NEW simc, NEW m \in Found(simc) PROVE \E v : Rowed(simc) = {v}
    OBVIOUS
  <2>1. Found(simc) = {m}
    BY <1>1
  <2>2. Rowed(simc) = {m.osm}
    BY <2>1
  <2> QED
    BY <2>2
<1>3. ResolvedStreets(a) = CASE local # {} -> local
                             [] local = {} /\ Rowed(Null) # {} -> Rowed(Null)
                             [] OTHER -> {a.street}
  BY DEF ResolvedStreets, Found
<1> HIDE DEF Rowed
<1>4. local # {} => \E v : local = {v}
  BY <1>2
<1> HIDE DEF local
<1>5. CASE local # {}
  BY <1>3, <1>4, <1>5
<1>6. CASE local = {} /\ Rowed(Null) # {}
  BY <1>2, <1>3, <1>6
<1>7. CASE local = {} /\ Rowed(Null) = {}
  BY <1>3, <1>7
<1> QED
  BY <1>5, <1>6, <1>7

\* The map and the export say the same of an address.
LEMMA AddressTagsAlike ==
  ASSUME NEW a, NEW v
  PROVE  TileAddressTags(a, v) = AddressTags(a, v)
<1>1. CASE Present(v) /\ Present(a.place)
  BY <1>1 DEF TileAddressTags, AddressTags
<1>2. CASE Present(v) /\ ~Present(a.place)
  BY <1>2 DEF TileAddressTags, AddressTags
<1>3. CASE ~Present(v) /\ Present(a.place)
  BY <1>3 DEF TileAddressTags, AddressTags
<1>4. CASE ~Present(v) /\ ~Present(a.place)
  BY <1>4 DEF TileAddressTags, AddressTags
<1> QED
  BY <1>1, <1>2, <1>3, <1>4

\* No two rows of a table can both come first.
LEMMA OneChosen ==
  ASSUME TypesRight, NEW s \in BuildingSources, NEW b, NEW count,
         NEW m \in Chosen(s, b, count), NEW k \in Chosen(s, b, count)
  PROVE  m = k
<1>1. /\ m \in types[s] /\ Applies(s, m, b, count) /\ k \in types[s] /\ Applies(s, k, b, count)
      /\ m.tier < k.tier \/ (m.tier = k.tier /\ Specificity(m) >= Specificity(k))
      /\ k.tier < m.tier \/ (k.tier = m.tier /\ Specificity(k) >= Specificity(m))
  BY DEF Chosen
<1>2. \A n : Specificity(n) \in Nat
  <2> SUFFICES ASSUME NEW n PROVE Specificity(n) \in Nat
    OBVIOUS
  <2> DEFINE F == {f \in {"min", "max", "near"} : n[f] # NoValue}
  <2>1. IsFiniteSet({"min"}) /\ IsFiniteSet({"max"}) /\ IsFiniteSet({"near"})
    BY FS_Singleton
  <2>2. IsFiniteSet({"min"} \cup {"max"})
    BY <2>1, FS_Union
  <2>3. IsFiniteSet(({"min"} \cup {"max"}) \cup {"near"})
    BY <2>1, <2>2, FS_Union
  <2>4. F \subseteq ({"min"} \cup {"max"}) \cup {"near"}
    OBVIOUS
  <2>5. IsFiniteSet(F)
    BY <2>3, <2>4, FS_Subset
  <2> HIDE DEF F
  <2>6. Cardinality(F) \in Nat
    BY <2>5, FS_CardinalityType
  <2> QED
    BY <2>6 DEF Specificity, F
<1>3. m.tier \in {1, 2} /\ k.tier \in {1, 2}
  BY <1>1 DEF Applies
<1>4. m.tier = k.tier /\ Specificity(m) = Specificity(k)
  BY <1>1, <1>2, <1>3
<1>5. m.key = k.key
  BY <1>1, <1>4 DEF Applies, SqlEq
<1>6. OneOfAKind(types[s])
  BY DEF TypesRight
<1> QED
  BY <1>1, <1>4, <1>5, <1>6 DEF OneOfAKind

\* The tags a building is resolved to.
Resolved(s, b, N) ==
  LET chosen == Chosen(s, b, Cardinality(N)) IN IF chosen = {} THEN {Yes} ELSE {m.tags : m \in chosen}

\* They are of one row, or of none.
LEMMA OneResolved ==
  ASSUME TypesRight, NEW s \in BuildingSources, NEW b, NEW N
  PROVE  \E t : Resolved(s, b, N) = {t}
<1> DEFINE chosen == Chosen(s, b, Cardinality(N))
<1>1. \A m, k \in chosen : m = k
  BY OneChosen
<1>2. Resolved(s, b, N) = IF chosen = {} THEN {Yes} ELSE {m.tags : m \in chosen}
  BY DEF Resolved
<1> HIDE DEF chosen
<1>3. ASSUME NEW m \in chosen PROVE {k.tags : k \in chosen} = {m.tags}
  <2>1. chosen = {m}
    BY <1>1
  <2> QED
    BY <2>1
<1> QED
  BY <1>2, <1>3

\* The frontend lets two columns outrank the tags; the export writes the two
\* over them.
LEMMA ColumnsOutrank ==
  ASSUME NEW s, NEW b, b.levels \in Int, NEW t
  PROVE  Outranked(Columns(s, b), t) = WithBuildingLevels(BuildingTags(s, t), b.levels)
<1> DEFINE sb == "source:building"
           bl == "building:levels"
           level == ToString(b.levels)
<1>1. sb # bl
  OBVIOUS
<1>2. CASE b.levels >= 1
  <2>1. b.levels # NoValue
    BY <1>2 DEF NoValue
  <2>2. WithBuildingLevels(BuildingTags(s, t), b.levels) = With(With(t, sb, SourceTag[s]), bl, level)
    BY <1>2, <2>1 DEF WithBuildingLevels, BuildingTags
  <2>3. With(With(t, sb, SourceTag[s]), bl, level) =
          [k \in DOMAIN t \cup {sb, bl} |->
             IF k = bl THEN level ELSE IF k = sb THEN SourceTag[s] ELSE t[k]]
    BY <1>1 DEF With
  <2>4. Columns(s, b) = [k \in {sb, bl} |-> IF k = sb THEN SourceTag[s] ELSE level]
    BY <1>2 DEF Columns
  <2>5. Outranked(Columns(s, b), t) =
          [k \in {sb, bl} \cup DOMAIN t |->
             IF k \in {sb, bl} THEN (IF k = sb THEN SourceTag[s] ELSE level) ELSE t[k]]
    BY <2>4 DEF Outranked
  <2> HIDE DEF level
  <2> QED
    BY <1>1, <2>2, <2>3, <2>5
<1>3. CASE ~(b.levels >= 1)
  <2>1. WithBuildingLevels(BuildingTags(s, t), b.levels) = With(t, sb, SourceTag[s])
    BY <1>3 DEF WithBuildingLevels, BuildingTags
  <2>2. Columns(s, b) = [k \in {sb} |-> SourceTag[s]]
    BY <1>3 DEF Columns
  <2>3. Outranked(Columns(s, b), t) =
          [k \in {sb} \cup DOMAIN t |-> IF k \in {sb} THEN SourceTag[s] ELSE t[k]]
    BY <2>2 DEF Outranked
  <2> QED
    BY <2>1, <2>3 DEF With
<1> QED
  BY <1>2, <1>3

\* What a reading says: the resolved tags, with the columns over them.
LEMMA ReadingTags ==
  ASSUME AnswersInv, NEW u \in unmatched, ~Is(u.of, "prg"), NEW r \in Readings(u)
  PROVE  \E N : /\ N = Neighbours(SourceOf[u.of], u.row, {r.window})
                /\ r.tags = {Outranked(Columns(SourceOf[u.of], u.row), t) :
                               t \in Resolved(SourceOf[u.of], u.row, N)}
<1> DEFINE s == SourceOf[u.of]
           b == u.row
           Said(N) == {Outranked(Columns(s, b), t) : t \in Resolved(s, b, N)}
<1>1. b.levels \in Int
  BY ObjectsAssumption DEF AnswersInv, RowsTyped, Is
<1>2. \/ \E x \in Cells : r = [window |-> Grown(Box(CellZoom, x)), tags |-> TileBuildingTags(s, b, Single(x))]
      \/ \E w : r = [window |-> w, tags |-> ExportBuildingTags(s, b, w)]
  BY DEF Readings
<1>3. ASSUME NEW x \in Cells, r = [window |-> Grown(Box(CellZoom, x)), tags |-> TileBuildingTags(s, b, Single(x))]
      PROVE  r.tags = Said(Neighbours(s, b, {r.window}))
  <2>1. NearWindows(Single(x)) = {r.window}
    BY <1>3 DEF NearWindows, Single
  <2>2. r.tags = TileBuildingTags(s, b, Single(x))
    BY <1>3
  <2> QED
    BY <2>1, <2>2 DEF TileBuildingTags, Resolved
<1>4. ASSUME NEW w, r = [window |-> w, tags |-> ExportBuildingTags(s, b, w)]
      PROVE  r.tags = Said(Neighbours(s, b, {r.window}))
  <2>1. r.window = w /\ r.tags = ExportBuildingTags(s, b, w)
    BY <1>4
  <2>2. r.tags = {WithBuildingLevels(BuildingTags(s, t), b.levels) : t \in Resolved(s, b, Neighbours(s, b, {w}))}
    BY <2>1 DEF ExportBuildingTags, Resolved
  <2>3. \A t : Outranked(Columns(s, b), t) = WithBuildingLevels(BuildingTags(s, t), b.levels)
    BY <1>1, ColumnsOutrank
  <2> QED
    BY <2>1, <2>2, <2>3
<1> QED
  BY <1>2, <1>3, <1>4

\* The map, /package and the JOSM plugin tag a building and an address alike
\* (josm_plugins.rs), and in one way, whatever order the rows are found in.
THEOREM TagsAgree == AnswersSpec => []TaggedAlike
<1>1. AnswersInv => TaggedAlike
  <2> SUFFICES ASSUME AnswersInv, NEW u \in unmatched
               PROVE  IF Is(u.of, "prg")
                      THEN /\ Cardinality(ResolvedStreets(u.row)) = 1
                           /\ \A v \in ResolvedStreets(u.row) : TileAddressTags(u.row, v) = AddressTags(u.row, v)
                      ELSE LET all == Readings(u) IN
                           /\ \A r \in all : Cardinality(r.tags) = 1
                           /\ \A r, q \in all :
                                SeesAll(SourceOf[u.of], u.row, r.window) /\ SeesAll(SourceOf[u.of], u.row, q.window)
                                  => r.tags = q.tags
    BY DEF TaggedAlike
  <2>1. CASE Is(u.of, "prg")
    <3>1. PICK v : ResolvedStreets(u.row) = {v}
      BY OneStreet DEF AnswersInv
    <3>2. Cardinality(ResolvedStreets(u.row)) = 1
      BY <3>1, FS_Singleton
    <3> QED
      BY <2>1, <3>2, AddressTagsAlike
  <2>2. CASE ~Is(u.of, "prg")
    <3> DEFINE s == SourceOf[u.of]
               b == u.row
               Said(N) == {Outranked(Columns(s, b), t) : t \in Resolved(s, b, N)}
    <3>1. s \in BuildingSources /\ TypesRight
      BY <2>2, ObjectsAssumption DEF AnswersInv, RowsTyped, Is, Sources
    <3>2. \A r \in Readings(u) : r.tags = Said(Neighbours(s, b, {r.window}))
      BY <2>2, ReadingTags
    <3>3. ASSUME NEW r \in Readings(u) PROVE Cardinality(r.tags) = 1
      <4> DEFINE N == Neighbours(s, b, {r.window})
      <4>1. PICK t : Resolved(s, b, N) = {t}
        BY <3>1, OneResolved
      <4>2. Said(N) = {Outranked(Columns(s, b), t)}
        BY <4>1
      <4>3. r.tags = {Outranked(Columns(s, b), t)}
        BY <3>2, <4>2
      <4> QED
        BY <4>3, FS_Singleton
    <3>4. ASSUME NEW r \in Readings(u), SeesAll(s, b, r.window)
          PROVE  r.tags = Said(Neighbours(s, b, {}))
      <4>1. Neighbours(s, b, {r.window}) = Neighbours(s, b, {})
        BY <3>4 DEF SeesAll, Neighbours
      <4>2. r.tags = Said(Neighbours(s, b, {r.window}))
        BY <3>2
      <4> QED
        BY <4>1, <4>2
    <3> QED
      BY <2>2, <3>3, <3>4
  <2> QED
    BY <2>1, <2>2
<1> QED
  BY <1>1, AnswersKept, PTL

-------------------------------------------------------------------------------
(* The headers (Responses).                                                  *)

\* A stored value is its header, its etag and its payload, one after the other.
Laid(raw, v, tag, payload) ==
  /\ raw \in Seq(Int) /\ Len(raw) = HeaderLen + Len(tag) + Len(payload)
  /\ raw[1] = TileValueFormat /\ raw[2] = v /\ raw[3] = Len(tag)
  /\ \A i \in 1 .. Len(tag) : raw[HeaderLen + i] = tag[i]
  /\ \A i \in 1 .. Len(payload) : raw[HeaderLen + Len(tag) + i] = payload[i]

\* Which is what EncodeValue writes.
LEMMA ValueShape ==
  ASSUME NEW v \in Int, NEW tag \in Seq(Int), NEW payload \in Seq(Int)
  PROVE  Laid(EncodeValue(v, [tag |-> tag, payload |-> payload]), v, tag, payload)
<1> DEFINE head == <<TileValueFormat, v, Len(tag)>>
           front == head \o tag
           raw == front \o payload
<1>1. Len(tag) \in Nat /\ Len(payload) \in Nat
  BY LenProperties
<1>2. /\ head \in Seq(Int) /\ Len(head) = 3
      /\ head[1] = TileValueFormat /\ head[2] = v /\ head[3] = Len(tag)
  BY <1>1 DEF TileValueFormat
<1>r. EncodeValue(v, [tag |-> tag, payload |-> payload]) = raw
  BY DEF EncodeValue
<1> HIDE DEF head
<1>j. ASSUME NEW s \in Seq(Int), NEW t \in Seq(Int)
      PROVE  /\ s \o t \in Seq(Int) /\ Len(s \o t) = Len(s) + Len(t)
             /\ \A i \in 1 .. Len(s) + Len(t) : (s \o t)[i] = IF i <= Len(s) THEN s[i] ELSE t[i - Len(s)]
  OBVIOUS
<1>3. /\ front \in Seq(Int) /\ Len(front) = Len(head) + Len(tag)
      /\ \A i \in 1 .. Len(head) + Len(tag) : front[i] = IF i <= Len(head) THEN head[i] ELSE tag[i - Len(head)]
  BY <1>2, <1>j
<1> HIDE DEF front
<1>4. /\ raw \in Seq(Int) /\ Len(raw) = Len(front) + Len(payload)
      /\ \A i \in 1 .. Len(front) + Len(payload) :
           raw[i] = IF i <= Len(front) THEN front[i] ELSE payload[i - Len(front)]
  <2>1. /\ front \o payload \in Seq(Int) /\ Len(front \o payload) = Len(front) + Len(payload)
        /\ \A i \in 1 .. Len(front) + Len(payload) :
             (front \o payload)[i] = IF i <= Len(front) THEN front[i] ELSE payload[i - Len(front)]
    BY <1>3, <1>j
  <2> QED
    BY <2>1
<1> HIDE DEF raw
<1>5. raw[1] = head[1] /\ raw[2] = head[2] /\ raw[3] = head[3]
  <2> SUFFICES ASSUME NEW i \in 1 .. 3
               PROVE  raw[i] = head[i]
    OBVIOUS
  <2>1. i \in 1 .. Len(head) + Len(tag) /\ i <= Len(head)
        /\ i \in 1 .. Len(front) + Len(payload) /\ i <= Len(front)
    BY <1>1, <1>2, <1>3
  <2>2. front[i] = head[i]
    BY <1>3, <2>1
  <2> QED
    BY <1>4, <2>1, <2>2
<1>6. \A i \in 1 .. Len(tag) : raw[3 + i] = tag[i]
  <2> SUFFICES ASSUME NEW i \in 1 .. Len(tag)
               PROVE  raw[3 + i] = tag[i]
    OBVIOUS
  <2>1. 3 + i \in 1 .. Len(head) + Len(tag) /\ ~ (3 + i <= Len(head)) /\ (3 + i) - Len(head) = i
        /\ 3 + i \in 1 .. Len(front) + Len(payload) /\ 3 + i <= Len(front)
    BY <1>1, <1>2, <1>3
  <2>2. front[3 + i] = tag[i]
    BY <1>3, <2>1
  <2> QED
    BY <1>4, <2>1, <2>2
<1>7. \A i \in 1 .. Len(payload) : raw[3 + Len(tag) + i] = payload[i]
  <2> SUFFICES ASSUME NEW i \in 1 .. Len(payload)
               PROVE  raw[3 + Len(tag) + i] = payload[i]
    OBVIOUS
  <2>1. 3 + Len(tag) + i \in 1 .. Len(front) + Len(payload) /\ ~ (3 + Len(tag) + i <= Len(front))
        /\ (3 + Len(tag) + i) - Len(front) = i
    BY <1>1, <1>2, <1>3
  <2> QED
    BY <1>4, <2>1
<1> QED
  BY <1>r, <1>2, <1>3, <1>4, <1>5, <1>6, <1>7 DEF HeaderLen, Laid

\* A slice of a sequence: the length it is given, and the elements from there on.
LEMMA Slice ==
  ASSUME NEW S, NEW s \in Seq(S), NEW from \in Nat, NEW n \in Nat, from + n <= Len(s)
  PROVE  /\ SubSeq(s, from + 1, from + n) \in Seq(S)
         /\ Len(SubSeq(s, from + 1, from + n)) = n
         /\ \A i \in 1 .. n : SubSeq(s, from + 1, from + n)[i] = s[from + i]
<1> DEFINE l == from + 1
           h == from + n
<1>1. l \in Int /\ h \in Int /\ Len(s) \in Nat
  BY LenProperties
<1>2. \A i \in l .. h : s[i] \in S
  <2> TAKE i \in l .. h
  <2>1. i \in 1 .. Len(s)
    BY <1>1
  <2> QED
    BY <2>1, ElementOfSeq
<1>3. /\ h - l + 1 = n /\ (IF l <= h THEN h - l + 1 ELSE 0) = n
      /\ \A i \in 1 .. n : l + i - 1 = from + i
  OBVIOUS
<1> HIDE DEF l, h
<1>4. /\ SubSeq(s, l, h) \in Seq(S)
      /\ Len(SubSeq(s, l, h)) = IF l <= h THEN h - l + 1 ELSE 0
      /\ \A i \in 1 .. h - l + 1 : SubSeq(s, l, h)[i] = s[l + i - 1]
  BY <1>1, <1>2, SubSeqProperties
<1>5. \A i \in 1 .. n : SubSeq(s, l, h)[i] = s[from + i]
  BY <1>3, <1>4
<1> QED
  BY <1>3, <1>4, <1>5 DEF l, h

\* What EncodeValue wrote is read back by the same version, and by no other.
LEMMA DecodeEncoded ==
  ASSUME NEW v \in Int, NEW version, NEW tag \in Seq(Int), NEW payload \in Seq(Int),
         \A i \in DOMAIN tag : tag[i] # NotUtf8
  PROVE  DecodeValue(EncodeValue(v, [tag |-> tag, payload |-> payload]), version)
           = IF v = version THEN [tag |-> tag, payload |-> payload] ELSE Nothing
<1> DEFINE raw == EncodeValue(v, [tag |-> tag, payload |-> payload])
           end == HeaderLen + raw[3]
           T == SubSeq(raw, HeaderLen + 1, end)
           L == SubSeq(raw, end + 1, Len(raw))
<1>0. EncodeValue(v, [tag |-> tag, payload |-> payload]) = raw
  OBVIOUS
<1>1. /\ raw \in Seq(Int) /\ Len(raw) = HeaderLen + Len(tag) + Len(payload)
      /\ raw[1] = TileValueFormat /\ raw[2] = v /\ raw[3] = Len(tag)
      /\ \A i \in 1 .. Len(tag) : raw[HeaderLen + i] = tag[i]
      /\ \A i \in 1 .. Len(payload) : raw[HeaderLen + Len(tag) + i] = payload[i]
  <2>1. Laid(raw, v, tag, payload)
    BY ValueShape
  <2> HIDE DEF raw
  <2> QED
    BY <2>1 DEF Laid
<1>2. Len(tag) \in Nat /\ Len(payload) \in Nat /\ HeaderLen \in Nat /\ HeaderLen = 3
  BY LenProperties DEF HeaderLen
<1>d. DecodeValue(raw, version) =
        IF /\ Len(raw) >= HeaderLen /\ raw[1] = TileValueFormat /\ raw[2] = version
           /\ Len(raw) >= end /\ NotUtf8 \notin Range(T)
        THEN [tag |-> T, payload |-> L] ELSE Nothing
  BY DEF DecodeValue
<1> HIDE DEF raw
<1>3. end = HeaderLen + Len(tag) /\ Len(raw) >= end /\ Len(raw) >= HeaderLen
  BY <1>1, <1>2
<1>4. T = tag
  <2>1. T \in Seq(Int) /\ Len(T) = Len(tag) /\ \A i \in 1 .. Len(tag) : T[i] = raw[HeaderLen + i]
    <3>1. HeaderLen + Len(tag) <= Len(raw)
      BY <1>1, <1>2
    <3>2. T = SubSeq(raw, HeaderLen + 1, HeaderLen + Len(tag))
      BY <1>3
    <3> HIDE DEF T, end
    <3> QED
      <4>1. raw \in Seq(Int) /\ Len(tag) \in Nat /\ HeaderLen \in Nat
        BY <1>1, <1>2
      <4>2. /\ T \in Seq(Int) /\ Len(T) = Len(tag)
            /\ \A i \in 1 .. Len(tag) : T[i] = raw[HeaderLen + i]
        BY <3>1, <3>2, <4>1, Slice
      <4> QED
        BY <4>2
  <2> HIDE DEF T
  <2> QED
    BY <1>1, <2>1, SeqEqual
<1>5. L = payload
  <2>1. L \in Seq(Int) /\ Len(L) = Len(payload)
        /\ \A i \in 1 .. Len(payload) : L[i] = raw[HeaderLen + Len(tag) + i]
    <3> DEFINE from == HeaderLen + Len(tag)
    <3>1. from \in Nat /\ Len(raw) = from + Len(payload) /\ from + Len(payload) <= Len(raw)
      BY <1>1, <1>2
    <3>2. L = SubSeq(raw, from + 1, from + Len(payload))
      BY <1>3, <3>1
    <3> HIDE DEF L, end, from
    <3>3. L \in Seq(Int) /\ Len(L) = Len(payload) /\ \A i \in 1 .. Len(payload) : L[i] = raw[from + i]
      <4>1. raw \in Seq(Int) /\ Len(payload) \in Nat
        BY <1>1, <1>2
      <4> QED
        BY <3>1, <3>2, <4>1, Slice
    <3> QED
      BY <3>3 DEF from
  <2> HIDE DEF L
  <2> QED
    BY <1>1, <2>1, SeqEqual
<1>6. NotUtf8 \notin Range(T)
  BY <1>4 DEF Range
<1> HIDE DEF T, L, end
<1> QED
  BY <1>0, <1>d, <1>1, <1>3, <1>4, <1>5, <1>6

\* A render, prepared: an etag of text and a gzip stream, and not nothing.
LEMMA Prepared ==
  ASSUME NEW b \in Bodies
  PROVE  /\ Prepare(b) = [tag |-> HashOf[b], payload |-> Gzip(b)]
         /\ Prepare(b).tag = HashOf[b] /\ Prepare(b).payload = Gzip(b)
         /\ Prepare(b) # Nothing /\ Prepare(b).payload # Nothing
         /\ Decompress(Gzip(b)) = b /\ b # Failed /\ b # Nothing
         /\ HashOf[b] \in Seq(Int) /\ Gzip(b) \in Seq(Int) /\ Len(Gzip(b)) = 2
<1>1. b \in Int
  BY BodiesAssumption
<1>2. Gzip(b) \in Seq(Int) /\ Len(Gzip(b)) = 2 /\ Gzip(b)[1] = b
  BY <1>1 DEF Gzip
<1>3. HashOf[b] \in Seq(Int)
  BY EtagAssumption
<1>4. Prepare(b) = [tag |-> HashOf[b], payload |-> Gzip(b)]
  BY DEF Prepare
<1>5. Decompress(Gzip(b)) = b
  BY <1>2 DEF Decompress
<1> QED
  BY <1>1, <1>2, <1>3, <1>4, <1>5, NothingAssumption

\* So a stored tile is the render, or none.
LEMMA HeldIsRender ==
  ASSUME NEW b \in Bodies, NEW held \in HeldFor(b)
  PROVE  held \in {Nothing, Prepare(b)}
<1>1. ASSUME NEW c \in Bodies, NEW v \in Int, NEW version
      PROVE  DecodeValue(EncodeValue(v, Prepare(c)), version) = IF v = version THEN Prepare(c) ELSE Nothing
  <2>1. Prepare(c) = [tag |-> HashOf[c], payload |-> Gzip(c)] /\ HashOf[c] \in Seq(Int) /\ Gzip(c) \in Seq(Int)
    BY Prepared
  <2>2. \A i \in DOMAIN HashOf[c] : HashOf[c][i] # NotUtf8
    BY EtagAssumption
  <2> QED
    BY <2>1, <2>2, DecodeEncoded
<1>2. FormatVersion \in Int /\ FormatVersion + 1 \in Int /\ FormatVersion + 1 # FormatVersion
  BY BodiesAssumption
<1>3. DecodeValue(EncodeValue(FormatVersion, Prepare(b)), FormatVersion) = Prepare(b)
  BY <1>1, <1>2
<1>4. \A c \in Bodies : DecodeValue(EncodeValue(FormatVersion + 1, Prepare(c)), FormatVersion) = Nothing
  BY <1>1, <1>2
<1> QED
  BY <1>3, <1>4 DEF HeldFor

\* For any renders, etags, versions and requests: a tile that was stored is
\* answered like one that is rendered now, header by header.
THEOREM StoredLikeRendered == \A requests : HitLikeMiss(requests)
<1> SUFFICES ASSUME NEW requests, NEW r \in requests, NEW b \in Bodies, NEW held \in HeldFor(b)
             PROVE  ServeTile(held, b, r) = ServeTile(Nothing, b, r)
  BY DEF HitLikeMiss
<1>1. CASE held = Nothing
  BY <1>1
<1>2. CASE held = Prepare(b)
  <2>1. /\ Prepare(b) # Nothing /\ Prepare(b).payload # Nothing /\ b # Failed
    BY Prepared
  <2>2. ServeAgg(Prepare(b).payload, b, r) = ServeAgg(Nothing, b, r)
    BY <2>1 DEF ServeAgg
  <2>3. ServePersisted(Prepare(b), b, r) = ServePersisted(Nothing, b, r)
    BY <2>1 DEF ServePersisted
  <2> QED
    BY <1>2, <2>1, <2>2, <2>3 DEF ServeTile
<1> QED
  BY <1>1, <1>2, HeldIsRender

\* What a client may name: entity-tags, in quotes or not, and *.
EntityTags ==
  [tag : Seq(Int), quoted : BOOLEAN] \cup {[tag |-> Star, quoted |-> FALSE]}
NoList == {Nothing, Unreadable}
Named(request, b) ==
  /\ request.known \notin NoList
  /\ \E i \in DOMAIN request.known :
       request.known[i] \in {[tag |-> HashOf[b], quoted |-> TRUE], [tag |-> Star, quoted |-> FALSE]}

\* if_none_match_matches finds the etag of a render where the client names it.
LEMMA NamedIsFound ==
  ASSUME NEW r, NEW b \in Bodies, r.known \in NoList \cup Seq(EntityTags)
  PROVE  AlreadyHas(r, HashOf[b]) <=> Named(r, b)
<1>1. CASE r.known \in NoList
  BY <1>1 DEF AlreadyHas, Named, NoList
<1>2. CASE r.known \notin NoList
  <2>1. r.known \in Seq(EntityTags)
    BY <1>2
  <2>2. ASSUME NEW i \in DOMAIN r.known
        PROVE  (r.known[i].tag = Star \/ (r.known[i].quoted /\ r.known[i].tag = HashOf[b]))
                 <=> r.known[i] \in {[tag |-> HashOf[b], quoted |-> TRUE], [tag |-> Star, quoted |-> FALSE]}
    <3>1. r.known[i] \in EntityTags
      BY <2>1
    <3>2. HashOf[b] \in Seq(Int) /\ Star \notin Seq(Int)
      BY EtagAssumption, NothingAssumption
    <3> DEFINE c == r.known[i]
    <3>3. c \in EntityTags
      BY <3>1
    <3> HIDE DEF c
    <3>4. (c.tag = Star \/ (c.quoted /\ c.tag = HashOf[b]))
            <=> c \in {[tag |-> HashOf[b], quoted |-> TRUE], [tag |-> Star, quoted |-> FALSE]}
      <4>1. CASE c \in [tag : Seq(Int), quoted : BOOLEAN]
        <5>1. c.tag \in Seq(Int) /\ c.quoted \in BOOLEAN /\ c = [tag |-> c.tag, quoted |-> c.quoted]
          BY <4>1
        <5> QED
          BY <5>1, <3>2
      <4>2. CASE c = [tag |-> Star, quoted |-> FALSE]
        BY <4>2, <3>2
      <4> QED
        BY <3>3, <4>1, <4>2 DEF EntityTags
    <3> QED
      BY <3>4 DEF c
  <2> QED
    BY <1>2, <2>2 DEF AlreadyHas, Named, NoList
<1> QED
  BY <1>1, <1>2

\* The status of a tile with a body, and what a 304 says.
LEMMA AnswerKinds ==
  ASSUME NEW payload, NEW keep, NEW tag, NEW gzip \in BOOLEAN
  PROVE  /\ TileBody(payload, keep, tag, gzip).status \in {200, 500}
         /\ NotModified(tag, keep).status = 304 /\ NotModified(tag, keep).tag = tag
         /\ NotModified(tag, keep).body = Nothing /\ Bare(500).status = 500
<1>1. CASE gzip
  BY <1>1 DEF TileBody, NotModified, Bare
<1>2. CASE ~gzip /\ Decompress(payload) # Failed
  BY <1>2 DEF TileBody, NotModified, Bare
<1>3. CASE ~gzip /\ Decompress(payload) = Failed
  BY <1>3 DEF TileBody, NotModified, Bare
<1> QED
  BY <1>1, <1>2, <1>3

\* For any renders, and any lists of entity-tags: a client is told 304 in the
\* tiers with a validator, when it names the etag of the tile or *, and only then.
THEOREM RevalidatesWhatIsNamed ==
  ASSUME NEW requests, \A r \in requests : r.known \in NoList \cup Seq(EntityTags)
  PROVE  RevalidatesRight(requests)
<1> SUFFICES ASSUME NEW r \in requests, NEW b \in Bodies, NEW held \in HeldFor(b),
                    NEW rendered \in {b} \cup {Failed}
             PROVE  LET answer == ServeTile(held, rendered, r)
                    IN /\ answer.status = 304 =>
                            Named(r, b) /\ Tier(r.zoom) = "persisted"
                              /\ answer.tag = HashOf[b] /\ answer.body = Nothing
                       /\ (Named(r, b) /\ Tier(r.zoom) = "persisted" /\ (held # Nothing \/ rendered # Failed))
                            => answer.status = 304
  BY DEF RevalidatesRight, Named, NoList
<1> DEFINE answer == ServeTile(held, rendered, r)
<1>1. held \in {Nothing, Prepare(b)} /\ Prepare(b) # Nothing /\ b # Failed
      /\ Prepare(b).tag = HashOf[b] /\ (AlreadyHas(r, HashOf[b]) <=> Named(r, b))
  BY HeldIsRender, Prepared, NamedIsFound
<1>2. AcceptsGzip(r) \in BOOLEAN
  BY DEF AcceptsGzip
<1>3. CASE Tier(r.zoom) = "agg"
  <2>1. answer.status \in {200, 500}
    BY <1>1, <1>2, <1>3, AnswerKinds DEF ServeTile, ServeAgg
  <2> QED
    BY <1>3, <2>1
<1>4. CASE Tier(r.zoom) = "persisted"
  <2> DEFINE keep == IF r.zoom = 14 THEN "tile" ELSE "agg_tile"
  <2>1. answer = ServePersisted(held, rendered, r)
    BY <1>4 DEF ServeTile
  <2>2. CASE held # Nothing \/ rendered # Failed
    <3>1. answer = Validated(Prepare(b), keep, r)
      BY <1>1, <2>1, <2>2 DEF ServePersisted
    <3>2. answer = IF Named(r, b) THEN NotModified(HashOf[b], keep)
                   ELSE TileBody(Prepare(b).payload, keep, HashOf[b], AcceptsGzip(r))
      BY <1>1, <3>1 DEF Validated
    <3> HIDE DEF keep
    <3>3. CASE Named(r, b)
      <4>1. answer = NotModified(HashOf[b], keep)
        BY <3>2, <3>3
      <4>2. answer.status = 304 /\ answer.tag = HashOf[b] /\ answer.body = Nothing
        BY <4>1 DEF NotModified, Bare
      <4> QED
        BY <1>4, <3>3, <4>2
    <3>4. CASE ~Named(r, b)
      <4>1. answer.status \in {200, 500}
        BY <1>2, <3>2, <3>4, AnswerKinds
      <4> QED
        BY <3>4, <4>1
    <3> QED
      BY <3>3, <3>4
  <2>3. CASE held = Nothing /\ rendered = Failed
    <3>1. answer.status = 500
      BY <2>1, <2>3, AnswerKinds DEF ServePersisted, Bare
    <3> QED
      BY <2>3, <3>1
  <2> QED
    BY <2>2, <2>3
<1>5. CASE Tier(r.zoom) \notin {"agg", "persisted"}
  <2>1. answer.status = 204
    BY <1>5 DEF ServeTile, Bare
  <2> QED
    BY <1>5, <2>1
<1> QED
  BY <1>3, <1>4, <1>5

\* Consent to gzip, as accepts_gzip finds it, is consent as RFC 9110 reads it,
\* unless the list refuses and takes gzip at once.
LEMMA ConsentIsRead ==
  ASSUME NEW r, AcceptsGzip(r), ClearAboutGzip(r)
  PROVE  Reads(r, "gzip")
<1> DEFINE entries(coding) == {i \in DOMAIN r.accept : r.accept[i].coding = coding}
           allowed(coding) == \E i \in entries(coding) : r.accept[i].q # 0
<1>1. PICK i \in DOMAIN r.accept : r.accept[i].coding \in {"gzip", "*"} /\ r.accept[i].q # 0
  BY DEF AcceptsGzip
<1>2. r.accept # Nothing
  BY DEF AcceptsGzip
<1>3. CASE entries("gzip") # {}
  <2>1. PICK j \in DOMAIN r.accept : r.accept[j].coding = "gzip"
    BY <1>3
  <2>2. CASE r.accept[i].coding = "gzip"
    BY <1>1, <1>2, <1>3, <2>2 DEF Reads
  <2>3. CASE r.accept[i].coding = "*"
    <3>1. r.accept[j].q # 0
      BY <1>1, <1>2, <2>1 DEF ClearAboutGzip
    <3> QED
      BY <1>2, <1>3, <2>1, <3>1 DEF Reads
  <2> QED
    BY <1>1, <2>2, <2>3
<1>4. CASE entries("gzip") = {}
  <2>1. r.accept[i].coding = "*"
    BY <1>1, <1>4
  <2> QED
    BY <1>1, <1>2, <1>4, <2>1 DEF Reads
<1> QED
  BY <1>3, <1>4

\* A tile with a body: what it says when it is not a failure.
LEMMA BodyAnswer ==
  ASSUME NEW payload, NEW keep, NEW tag, NEW r, NEW other, payload # Nothing,
         Decompress(payload) # Nothing \/ Decompress(payload) = Failed,
         Shares(Sent(TileBody(payload, keep, tag, AcceptsGzip(r))), r, other), ClearAboutGzip(other)
  PROVE  LET answer == Sent(TileBody(payload, keep, tag, AcceptsGzip(r)))
         IN answer.status = 200 /\ answer.body # Nothing /\ Reads(other, answer.encoding)
<1> DEFINE bare == TileBody(payload, keep, tag, AcceptsGzip(r))
           answer == Sent(bare)
<1>1. CASE AcceptsGzip(r)
  <2>1. /\ answer.status = 200 /\ answer.vary = TRUE /\ answer.encoding = "gzip" /\ answer.body = payload
    BY <1>1 DEF TileBody, Bare, Sent
  <2>2. r.accept = other.accept
    BY <2>1 DEF Shares
  <2>3. AcceptsGzip(other)
    BY <1>1, <2>2 DEF AcceptsGzip
  <2> QED
    BY <2>1, <2>3, ConsentIsRead
<1>2. CASE ~AcceptsGzip(r) /\ Decompress(payload) # Failed
  <2>1. /\ answer.status = 200 /\ answer.encoding = "identity" /\ answer.body = Decompress(payload)
    BY <1>2 DEF TileBody, Bare, Sent
  <2> QED
    BY <1>2, <2>1 DEF Reads
<1>3. CASE ~AcceptsGzip(r) /\ Decompress(payload) = Failed
  <2>1. answer.keep = "no-store"
    BY <1>3 DEF TileBody, Bare, Sent
  <2> QED
    BY <2>1 DEF Shares
<1> QED
  BY <1>1, <1>2, <1>3

\* For any renders and requests: no cache on the way keeps a failure or gives a
\* client a body it cannot read.
THEOREM SharedCachesServeAll == \A requests : SharedCachesAreSafe(requests)
<1> SUFFICES ASSUME NEW requests, NEW r \in requests, NEW other \in requests, NEW b \in Bodies,
                    NEW rendered \in Bodies \cup {Failed},
                    NEW held \in {Nothing, [tag |-> HashOf[b], payload |-> <<b>>]}
             PROVE  LET answer == Sent(ServeTile(held, rendered, r))
                    IN (Shares(answer, r, other) /\ ClearAboutGzip(other)) =>
                         /\ answer.status \in {200, 204, 304}
                         /\ answer.status = 200 => answer.body # Nothing
                         /\ Reads(other, answer.encoding)
  BY Zenon DEF SharedCachesAreSafe
<1> DEFINE bare == ServeTile(held, rendered, r)
           answer == Sent(bare)
           Good == /\ answer.status \in {200, 204, 304}
                   /\ answer.status = 200 => answer.body # Nothing
                   /\ Reads(other, answer.encoding)
           cut == [tag |-> HashOf[b], payload |-> <<b>>]
           fresh == Prepare(rendered)
<1> SUFFICES ASSUME Shares(answer, r, other), ClearAboutGzip(other)
             PROVE  Good
  OBVIOUS
<1>1. /\ cut.payload = <<b>> /\ <<b>> # Nothing /\ Decompress(<<b>>) = Failed
      /\ held # Nothing => held = cut
  <2>1. b \in Int
    BY BodiesAssumption
  <2>2. <<b>> \in Seq(Int) /\ Len(<<b>>) = 1
    BY <2>1
  <2>3. \A c \in Bodies : Gzip(c) # <<b>>
    <3> TAKE c \in Bodies
    <3>1. Len(Gzip(c)) = 2
      BY Prepared
    <3> QED
      BY <2>2, <3>1
  <2> QED
    BY <2>2, <2>3, NothingAssumption DEF Decompress
<1>2. rendered # Failed => /\ fresh.payload # Nothing
                           /\ Decompress(fresh.payload) # Nothing
  BY Prepared
<1>3. ASSUME NEW payload, NEW keep, NEW tag, bare = TileBody(payload, keep, tag, AcceptsGzip(r)),
             payload # Nothing, Decompress(payload) # Nothing \/ Decompress(payload) = Failed
      PROVE  Good
  BY <1>3, BodyAnswer
<1>4. ASSUME NEW keep, NEW tag, bare = NotModified(tag, keep)
      PROVE  Good
  <2>1. answer.status = 304 /\ answer.encoding = "identity"
    BY <1>4 DEF NotModified, Bare, Sent
  <2> QED
    BY <2>1 DEF Reads
<1>5. bare # Bare(500)
  <2> SUFFICES ASSUME bare = Bare(500)
               PROVE  FALSE
    OBVIOUS
  <2>1. answer.keep = "no-store"
    BY DEF Bare, Sent
  <2> QED
    BY <2>1 DEF Shares
<1>6. ASSUME NEW tile, NEW keep, bare = Validated(tile, keep, r),
             tile.payload # Nothing,
             Decompress(tile.payload) # Nothing \/ Decompress(tile.payload) = Failed
      PROVE  Good
  <2> HIDE DEF bare, Good
  <2>1. CASE AlreadyHas(r, tile.tag)
    BY <1>4, <1>6, <2>1 DEF Validated
  <2>2. CASE ~AlreadyHas(r, tile.tag)
    BY <1>3, <1>6, <2>2 DEF Validated
  <2> QED
    BY <2>1, <2>2
<1>7. CASE Tier(r.zoom) = "agg"
  <2>1. bare = ServeAgg(IF held = Nothing THEN Nothing ELSE held.payload, rendered, r)
    BY <1>7 DEF ServeTile
  <2> HIDE DEF bare, Good, fresh, cut
  <2>2. CASE held # Nothing
    <3>1. bare = TileBody(<<b>>, "agg_tile", Nothing, AcceptsGzip(r))
      BY <1>1, <2>1, <2>2 DEF ServeAgg
    <3> QED
      BY <1>1, <1>3, <3>1
  <2>3. CASE held = Nothing /\ rendered # Failed
    <3>1. bare = TileBody(fresh.payload, "agg_tile", Nothing, AcceptsGzip(r))
      BY <2>1, <2>3 DEF ServeAgg, fresh
    <3> QED
      BY <1>2, <1>3, <2>3, <3>1
  <2>4. CASE held = Nothing /\ rendered = Failed
    BY <1>5, <2>1, <2>4 DEF ServeAgg
  <2> QED
    BY <2>2, <2>3, <2>4
<1>8. CASE Tier(r.zoom) = "persisted"
  <2> DEFINE keep == IF r.zoom = 14 THEN "tile" ELSE "agg_tile"
  <2>1. bare = ServePersisted(held, rendered, r)
    BY <1>8 DEF ServeTile
  <2> HIDE DEF bare, Good, fresh, cut
  <2>2. CASE held # Nothing
    <3>1. bare = Validated(cut, keep, r)
      BY <1>1, <2>1, <2>2 DEF ServePersisted
    <3> QED
      BY <1>1, <1>6, <3>1
  <2>3. CASE held = Nothing /\ rendered # Failed
    <3>1. bare = Validated(fresh, keep, r)
      BY <2>1, <2>3 DEF ServePersisted, fresh
    <3> QED
      BY <1>2, <1>6, <2>3, <3>1
  <2>4. CASE held = Nothing /\ rendered = Failed
    BY <1>5, <2>1, <2>4 DEF ServePersisted
  <2> QED
    BY <2>2, <2>3, <2>4
<1>9. CASE Tier(r.zoom) \notin {"agg", "persisted"}
  <2>1. answer.status = 204 /\ answer.encoding = "identity"
    BY <1>9 DEF ServeTile, Bare, Sent
  <2> QED
    BY <2>1 DEF Reads
<1> QED
  BY <1>7, <1>8, <1>9

\* A value that is too short or of another layout is a miss, and so is one
\* with bytes in its etag that are no text.
LEMMA DecodeMisses ==
  ASSUME NEW raw \in Seq(Int), NEW version,
         \/ Len(raw) < HeaderLen
         \/ raw[1] # TileValueFormat
         \/ raw[3] \in Int /\ Len(raw) < HeaderLen + raw[3]
         \/ NotUtf8 \in Range(SubSeq(raw, HeaderLen + 1, HeaderLen + raw[3]))
  PROVE  DecodeValue(raw, version) = Nothing
<1>1. Len(raw) \in Nat /\ HeaderLen = 3
  BY LenProperties DEF HeaderLen
<1>2. Len(raw) < HeaderLen => ~ (Len(raw) >= HeaderLen)
  BY <1>1
<1>3. (raw[3] \in Int /\ Len(raw) < HeaderLen + raw[3]) => ~ (Len(raw) >= HeaderLen + raw[3])
  BY <1>1
<1> QED
  BY <1>2, <1>3 DEF DecodeValue

\* For any render, etag and version: a stored value is read back as written,
\* a damaged header or etag is a miss, and a cut stream fails to unpack.
THEOREM StoredValuesHold == StoredValues
<1> SUFFICES ASSUME NEW b \in Bodies
             PROVE  LET raw == EncodeValue(FormatVersion, Prepare(b))
                        whole == HeaderLen + Len(HashOf[b])
                    IN /\ DecodeValue(raw, FormatVersion) = Prepare(b)
                       /\ DecodeValue([raw EXCEPT ![1] = @ + 1], FormatVersion) = Nothing
                       /\ DecodeValue([raw EXCEPT ![whole] = NotUtf8], FormatVersion) = Nothing
                       /\ \A n \in 0 .. Len(raw) - 1 :
                            LET tile == DecodeValue(SubSeq(raw, 1, n), FormatVersion)
                            IN IF n < whole THEN tile = Nothing
                               ELSE tile.tag = HashOf[b] /\ Decompress(tile.payload) = Failed
  BY DEF StoredValues
<1> DEFINE tag == HashOf[b]
           payload == Gzip(b)
           raw == EncodeValue(FormatVersion, Prepare(b))
           whole == HeaderLen + Len(HashOf[b])
<1>1. /\ Prepare(b) = [tag |-> tag, payload |-> payload]
      /\ tag \in Seq(Int) /\ payload \in Seq(Int) /\ Len(payload) = 2
  BY Prepared
<1>2. FormatVersion \in Int /\ NotUtf8 \in Int
  BY BodiesAssumption
<1>3. tag # <<>> /\ \A i \in DOMAIN tag : tag[i] # NotUtf8
  BY EtagAssumption
<1>4. Len(tag) \in Nat /\ Len(tag) >= 1 /\ HeaderLen = 3 /\ whole = 3 + Len(tag)
  BY <1>1, <1>3, LenProperties, EmptySeq DEF HeaderLen
<1>5. Laid(raw, FormatVersion, tag, payload)
  BY <1>1, <1>2, ValueShape
<1>6. /\ raw \in Seq(Int) /\ Len(raw) = 3 + Len(tag) + 2
      /\ raw[1] = TileValueFormat /\ raw[3] = Len(tag)
      /\ \A i \in 1 .. Len(tag) : raw[3 + i] = tag[i]
  BY <1>1, <1>4, <1>5 DEF Laid
<1>7. DecodeValue(raw, FormatVersion) = Prepare(b)
  BY <1>1, <1>2, <1>3, DecodeEncoded
<1> HIDE DEF tag, payload, raw, whole
<1>8. DecodeValue([raw EXCEPT ![1] = @ + 1], FormatVersion) = Nothing
  <2> DEFINE other == [raw EXCEPT ![1] = @ + 1]
  <2>1. 1 \in 1 .. Len(raw) /\ raw[1] + 1 \in Int /\ raw[1] + 1 # TileValueFormat
    BY <1>4, <1>6 DEF TileValueFormat
  <2>2. other \in Seq(Int) /\ other[1] = raw[1] + 1
    BY <1>6, <2>1
  <2> HIDE DEF other
  <2>3. DecodeValue(other, FormatVersion) = Nothing
    BY <2>1, <2>2, DecodeMisses
  <2> QED
    BY <2>3 DEF other
<1>9. DecodeValue([raw EXCEPT ![whole] = NotUtf8], FormatVersion) = Nothing
  <2> DEFINE other == [raw EXCEPT ![whole] = NotUtf8]
  <2>1. whole \in 1 .. Len(raw) /\ 3 \in 1 .. Len(raw) /\ whole # 3
    BY <1>4, <1>6
  <2>2. /\ other \in Seq(Int) /\ Len(other) = Len(raw)
        /\ other[whole] = NotUtf8 /\ other[3] = raw[3]
    BY <1>2, <1>6, <2>1
  <2> HIDE DEF other
  <2>3. HeaderLen + other[3] = whole /\ HeaderLen + 1 = 4
    BY <1>4, <1>6, <2>2
  <2> DEFINE text == SubSeq(other, HeaderLen + 1, HeaderLen + other[3])
  <2>4. text = SubSeq(other, 3 + 1, 3 + Len(tag))
    BY <1>4, <2>3
  <2>5. text \in Seq(Int) /\ Len(text) = Len(tag) /\ text[Len(tag)] = other[whole]
    <3> HIDE DEF text
    <3>1. 3 + Len(tag) <= Len(other) /\ Len(tag) \in 1 .. Len(tag) /\ 3 \in Nat
      BY <1>4, <1>6, <2>2
    <3>2. /\ text \in Seq(Int) /\ Len(text) = Len(tag)
          /\ \A i \in 1 .. Len(tag) : text[i] = other[3 + i]
      BY <1>4, <2>2, <2>4, <3>1, Slice
    <3> QED
      BY <1>4, <3>1, <3>2
  <2>6. NotUtf8 \in Range(text)
    <3> HIDE DEF text
    <3>1. Len(tag) \in DOMAIN text
      BY <1>4, <2>5
    <3> QED
      BY <2>2, <2>5, <3>1 DEF Range
  <2>7. DecodeValue(other, FormatVersion) = Nothing
    BY <2>2, <2>6, DecodeMisses
  <2> QED
    BY <2>7 DEF other
<1>10. ASSUME NEW n \in 0 .. Len(raw) - 1
       PROVE  LET tile == DecodeValue(SubSeq(raw, 1, n), FormatVersion)
              IN IF n < whole THEN tile = Nothing
                 ELSE tile.tag = tag /\ Decompress(tile.payload) = Failed
  <2> DEFINE cut == SubSeq(raw, 1, n)
             tile == DecodeValue(cut, FormatVersion)
  <2>1. /\ cut \in Seq(Int) /\ Len(cut) = n /\ \A i \in 1 .. n : cut[i] = raw[i]
    <3>1. n \in Nat /\ 0 + n <= Len(raw) /\ 0 + 1 = 1 /\ 0 + n = n /\ \A i \in 1 .. n : 0 + i = i
      BY <1>4, <1>6
    <3>2. /\ SubSeq(raw, 0 + 1, 0 + n) \in Seq(Int) /\ Len(SubSeq(raw, 0 + 1, 0 + n)) = n
          /\ \A i \in 1 .. n : SubSeq(raw, 0 + 1, 0 + n)[i] = raw[0 + i]
      BY <1>6, <3>1, Slice
    <3> QED
      BY <3>1, <3>2
  <2> HIDE DEF cut
  <2>2. CASE n < 3
    <3>1. tile = Nothing
      BY <1>4, <2>1, <2>2, DecodeMisses
    <3> QED
      BY <1>4, <2>2, <3>1 DEF cut
  <2>3. CASE n >= 3 /\ n < whole
    <3>1. cut[3] = Len(tag) /\ Len(cut) < HeaderLen + cut[3]
      BY <1>4, <1>6, <2>1, <2>3
    <3>2. tile = Nothing
      BY <1>4, <2>1, <3>1, DecodeMisses
    <3> QED
      BY <2>3, <3>2 DEF cut
  <2>4. CASE n >= whole
    <3> DEFINE rest == SubSeq(payload, 1, n - whole)
    <3>1. n - whole \in {0, 1}
      <4>1. Len(raw) = whole + 2 /\ whole \in Int
        BY <1>4, <1>6
      <4> QED
        BY <2>4, <4>1
    <3>2. rest \in Seq(Int) /\ Len(rest) = n - whole /\ \A i \in 1 .. n - whole : rest[i] = payload[i]
      <4> DEFINE k == n - whole
      <4>1. k \in Nat /\ 0 + k <= Len(payload) /\ 0 + 1 = 1 /\ 0 + k = k /\ \A i \in 1 .. k : 0 + i = i
        BY <1>1, <3>1
      <4> HIDE DEF k
      <4>2. /\ SubSeq(payload, 0 + 1, 0 + k) \in Seq(Int) /\ Len(SubSeq(payload, 0 + 1, 0 + k)) = k
            /\ \A i \in 1 .. k : SubSeq(payload, 0 + 1, 0 + k)[i] = payload[0 + i]
        <5>1. payload \in Seq(Int)
          BY <1>1
        <5> QED
          BY <4>1, <5>1, Slice
      <4> QED
        BY <4>1, <4>2 DEF k
    <3> HIDE DEF rest
    <3>3. cut = EncodeValue(FormatVersion, [tag |-> tag, payload |-> rest])
      <4> DEFINE short == EncodeValue(FormatVersion, [tag |-> tag, payload |-> rest])
      <4>1. Laid(short, FormatVersion, tag, rest)
        BY <1>1, <1>2, <3>2, ValueShape
      <4> HIDE DEF short
      <4>2. short \in Seq(Int) /\ Len(short) = n
        BY <1>4, <3>1, <3>2, <4>1 DEF Laid
      <4>3. ASSUME NEW i \in 1 .. n
            PROVE  cut[i] = short[i]
        <5>1. cut[i] = raw[i]
          BY <2>1
        <5>2. CASE i \in 1 .. 3
          <6>1. i = 1 \/ i = 2 \/ i = 3
            BY <5>2
          <6> QED
            BY <1>5, <4>1, <5>1, <6>1 DEF Laid
        <5>3. CASE i > 3 /\ i <= whole
          <6>1. i - 3 \in 1 .. Len(tag) /\ 3 + (i - 3) = i
            BY <1>4, <5>3
          <6> QED
            BY <1>4, <1>5, <4>1, <5>1, <6>1 DEF Laid
        <5>4. CASE i > whole
          <6>1. /\ i - whole \in 1 .. Len(rest) /\ i - whole \in 1 .. Len(payload)
                /\ HeaderLen + Len(tag) + (i - whole) = i
            BY <1>1, <1>4, <1>6, <3>1, <3>2, <5>4
          <6>2. raw[i] = payload[i - whole] /\ short[i] = rest[i - whole]
            BY <1>5, <4>1, <6>1 DEF Laid
          <6>3. rest[i - whole] = payload[i - whole]
            BY <3>2, <6>1
          <6> QED
            BY <5>1, <6>2, <6>3
        <5> QED
          BY <1>4, <5>2, <5>3, <5>4
      <4>4. cut = short
        BY <2>1, <4>2, <4>3, SeqEqual
      <4> QED
        BY <4>4 DEF short
    <3>4. tile = [tag |-> tag, payload |-> rest]
      BY <1>1, <1>2, <1>3, <3>2, <3>3, DecodeEncoded
    <3>5. \A c \in Bodies : rest # Gzip(c)
      <4> TAKE c \in Bodies
      <4>1. Len(Gzip(c)) = 2
        BY Prepared
      <4>2. Len(rest) # 2
        BY <3>1, <3>2
      <4> QED
        BY <4>1, <4>2
    <3>6. Decompress(rest) = Failed
      BY <3>5 DEF Decompress
    <3>7. tile.tag = tag /\ tile.payload = rest
      BY <3>4
    <3> QED
      BY <1>4, <2>4, <3>6, <3>7 DEF cut
  <2> QED
    BY <1>4, <1>6, <2>2, <2>3, <2>4
<1> QED
  BY <1>7, <1>8, <1>9, <1>10 DEF tag, raw, whole
===============================================================================
