------------------------------ MODULE TileCache ------------------------------
(***************************************************************************)
(* The low zooms (z5..z11) and what they are served from: the in-process   *)
(* cache of two generations (server/tile_cache.rs), the handler that fills *)
(* it (serve_tile_agg), and the pool of connections it renders on, which   *)
(* it shares with the jobs (server/mod.rs).                                *)
(*                                                                         *)
(* The mutex of the cache makes get and insert a step each; a render is a  *)
(* read of the database, then an insert, with anything in between.  Time   *)
(* is the age of things, which a tick adds to and Ttl bounds.              *)
(***************************************************************************)
EXTENDS Integers, FiniteSets, FiniteSetsExt, Functions

CONSTANTS
  Keys,       \* tiles
  Requests,   \* request tasks
  Conns,      \* connections of the pool
  Sizes,      \* what a body may weigh
  MaxBytes,   \* tile_cache_max_bytes
  Ttl,        \* agg_tile_max_age_seconds, also the max-age the header says
  MaxVersion, \* bound: commits that change what the tiles show
  None        \* no tile, no connection

ASSUME SizesAssumption == Sizes \subseteq Nat \ {0}
ASSUME BoundsAssumption == MaxBytes \in Nat /\ Ttl \in Nat \ {0} /\ MaxVersion \in Nat

VARIABLES
  db,     \* version of the data last committed
  conn,   \* connection |-> who has it, its transaction, the version that sees
  cache,  \* hot, hot_bytes and cold
  req     \* request |-> what it is doing

vars == <<db, conn, cache, req>>

Versions == 0 .. MaxVersion
Transactions == {"none", "open", "wrote", "aborted"}
Free == [user |-> "pool", tx |-> "none", sees |-> 0]
NoRequest == [phase |-> "idle", key |-> None, since |-> 0, version |-> 0, on |-> None]

-------------------------------------------------------------------------------
(* The cache (tile_cache.rs).                                              *)

NoEntries == [k \in {} |-> 0]
Put(gen, k, e) == [j \in DOMAIN gen \cup {k} |-> IF j = k THEN e ELSE gen[j]]
Without(gen, k) == Restrict(gen, DOMAIN gen \ {k})
SizeIn(gen, k) == IF k \in DOMAIN gen THEN gen[k].size ELSE 0
Fresh(gen, k) == k \in DOMAIN gen /\ gen[k].age < Ttl

PlacedCheckedAfter(c, k, e) ==  \* mutant: half the budget is tested before the entry counts
  LET full == c.bytes > MaxBytes \div 2
      hot == IF full THEN NoEntries ELSE c.hot
  IN [hot |-> Put(hot, k, e),
      bytes |-> (IF full THEN 0 ELSE c.bytes) - SizeIn(hot, k) + e.size,
      cold |-> Without(IF full THEN c.hot ELSE c.cold, k)]
\* place_in_hot: a hot generation that would pass half the budget is the cold
\* one from now on.
Placed(c, k, e) ==
  LET full == c.bytes - SizeIn(c.hot, k) + e.size > MaxBytes \div 2
      hot == IF full THEN NoEntries ELSE c.hot
  IN [hot |-> Put(hot, k, e),
      bytes |-> (IF full THEN 0 ELSE c.bytes) - SizeIn(hot, k) + e.size,
      cold |-> Without(IF full THEN c.hot ELSE c.cold, k)]

\* What get finds, and what it leaves: a tile found cold is promoted.
Hit(k) ==
  CASE MaxBytes = 0 -> {}
    [] Fresh(cache.hot, k) -> {cache.hot[k]}
    [] ~Fresh(cache.hot, k) /\ Fresh(cache.cold, k) -> {cache.cold[k]}
    [] OTHER -> {}
PromotedAnew(k, e) ==  \* mutant: an insert, which stamps the entry again
  IF Fresh(cache.hot, k) THEN cache
  ELSE Placed([cache EXCEPT !.cold = Without(@, k)], k, [e EXCEPT !.age = 0])
Promoted(k, e) ==
  IF Fresh(cache.hot, k) THEN cache
  ELSE Placed([cache EXCEPT !.cold = Without(@, k)], k, e)

\* insert: nothing that is bigger than a quarter of the budget.  The stamp is
\* the time of the insert; sent, a history, is when its render answered.
Inserted(k, size) ==
  IF MaxBytes = 0 \/ size > MaxBytes \div 4 THEN cache
  ELSE Placed(cache, k, [age |-> 0, sent |-> 0, size |-> size])

-------------------------------------------------------------------------------
(* The pool (server/mod.rs).                                               *)

\* r2d2's get: is_valid runs an empty batch, which no transaction fails.
Taken(c, user) == conn[c].user = "pool" /\ conn' = [conn EXCEPT ![c].user = user]

ReturnedAnyway(c, ended) == [conn[c] EXCEPT !.user = "pool"]  \* mutant: has_broken is false
\* has_broken: BEGIN finds a transaction left open, ROLLBACK ends it or the
\* connection is dropped, which ends it as well.
Returned(c, ended) ==
  IF conn[c].tx = "none" \/ ended THEN Free ELSE [Free EXCEPT !.user = "closed"]

\* connect: the pool makes up for the one it lost.
Connect(c) ==
  /\ conn[c].user = "closed"
  /\ conn' = [conn EXCEPT ![c] = Free]
  /\ UNCHANGED <<db, cache, req>>

-------------------------------------------------------------------------------
(* A job: a transaction on a connection of the pool.                       *)

JobTake(c) == Taken(c, "job") /\ UNCHANGED <<db, cache, req>>

JobBegin(c) ==
  /\ conn[c].user = "job" /\ conn[c].tx = "none"
  /\ conn' = [conn EXCEPT ![c].tx = "open", ![c].sees = db]
  /\ UNCHANGED <<db, cache, req>>

\* A statement writes, unless another transaction has (Conflict on tuple
\* deletion) or memory runs out.
JobWrite(c) ==
  /\ conn[c].user = "job" /\ conn[c].tx = "open"
  /\ \/ /\ \A d \in Conns : conn[d].tx # "wrote"
        /\ conn' = [conn EXCEPT ![c].tx = "wrote"]
     \/ conn' = [conn EXCEPT ![c].tx = "aborted"]
  /\ UNCHANGED <<db, cache, req>>

JobCommit(c) ==
  /\ conn[c].user = "job" /\ conn[c].tx = "wrote" /\ db < MaxVersion
  /\ db' = db + 1
  /\ conn' = [conn EXCEPT ![c] = [Free EXCEPT !.user = "job"]]
  /\ UNCHANGED <<cache, req>>

\* in_transaction's ROLLBACK, when it works.
JobRollback(c) ==
  /\ conn[c].user = "job" /\ conn[c].tx # "none"
  /\ conn' = [conn EXCEPT ![c] = [Free EXCEPT !.user = "job"]]
  /\ UNCHANGED <<db, cache, req>>

\* The guard is dropped, in a transaction if the ROLLBACK failed.
JobReturn(c) ==
  /\ conn[c].user = "job"
  /\ \E ended \in BOOLEAN : conn' = [conn EXCEPT ![c] = Returned(c, ended)]
  /\ UNCHANGED <<db, cache, req>>

-------------------------------------------------------------------------------
(* A request (serve_tile_agg).                                             *)

Lookup(r, k) ==
  /\ req[r].phase = "idle"
  /\ IF Hit(k) = {}
     THEN /\ req' = [req EXCEPT ![r] = [NoRequest EXCEPT !.phase = "miss", !.key = k, !.since = db]]
          /\ UNCHANGED cache
     ELSE \E e \in Hit(k) : cache' = Promoted(k, e) /\ UNCHANGED req
  /\ UNCHANGED <<db, conn>>

\* One statement reads what is committed, or what an open transaction sees.
Render(r, c) ==
  /\ req[r].phase = "miss" /\ Taken(c, "request")
  /\ req' = [req EXCEPT ![r] =
       [@ EXCEPT !.on = c,
                 !.phase = IF conn[c].tx = "aborted" THEN "failed" ELSE "read",
                 !.version = IF conn[c].tx = "none" THEN db ELSE conn[c].sees]]
  /\ UNCHANGED <<db, cache>>

\* No connection within the pool's timeout: a 500.
TimeOut(r) ==
  /\ req[r].phase = "miss"
  /\ \A c \in Conns : conn[c].user # "pool"
  /\ req' = [req EXCEPT ![r] = NoRequest]
  /\ UNCHANGED <<db, conn, cache>>

\* drop(conn), before the body is compressed; an error answers at once.
DropConn(r) ==
  /\ req[r].phase \in {"read", "failed"}
  /\ \E ended \in BOOLEAN : conn' = [conn EXCEPT ![req[r].on] = Returned(req[r].on, ended)]
  /\ req' = [req EXCEPT ![r] = IF @.phase = "failed" THEN NoRequest
                               ELSE [@ EXCEPT !.phase = "prepare", !.on = None]]
  /\ UNCHANGED <<db, cache>>

\* The body is kept, then sent with a max-age of Ttl.
Answer(r, size) ==
  /\ req[r].phase = "prepare"
  /\ cache' = Inserted(req[r].key, size)
  /\ req' = [req EXCEPT ![r] = NoRequest]
  /\ UNCHANGED <<db, conn>>

-------------------------------------------------------------------------------

Older(n) == IF n < Ttl THEN n + 1 ELSE Ttl
Aged(gen) == [k \in DOMAIN gen |-> [gen[k] EXCEPT !.age = Older(@), !.sent = Older(@)]]
Tick ==
  /\ cache' = [cache EXCEPT !.hot = Aged(@), !.cold = Aged(@)]
  /\ UNCHANGED <<db, conn, req>>

Init ==
  /\ db = 0 /\ conn = [c \in Conns |-> Free]
  /\ cache = [hot |-> NoEntries, bytes |-> 0, cold |-> NoEntries]
  /\ req = [r \in Requests |-> NoRequest]

Next ==
  \/ \E c \in Conns :
       \/ Connect(c) \/ JobTake(c) \/ JobBegin(c) \/ JobWrite(c)
       \/ JobCommit(c) \/ JobRollback(c) \/ JobReturn(c)
       \/ \E r \in Requests : Render(r, c)
  \/ \E r \in Requests :
       \/ TimeOut(r) \/ DropConn(r)
       \/ \E k \in Keys : Lookup(r, k)
       \/ \E size \in Sizes : Answer(r, size)
  \/ Tick

Spec == Init /\ [][Next]_vars

-------------------------------------------------------------------------------
(* Properties.                                                             *)

Entry == [age : 0 .. Ttl, sent : 0 .. Ttl, size : Sizes]
Bytes(gen) == MapThenSumSet(LAMBDA k : gen[k].size, DOMAIN gen)

Generation(gen) == DOMAIN gen \subseteq Keys /\ \A k \in DOMAIN gen : gen[k] \in Entry
TypeOK ==
  /\ db \in Versions
  /\ conn \in [Conns -> [user : {"pool", "job", "request", "closed"}, tx : Transactions, sees : Versions]]
  /\ Generation(cache.hot) /\ Generation(cache.cold) /\ cache.bytes \in Nat
  /\ req \in [Requests -> [phase : {"idle", "miss", "read", "failed", "prepare"}, key : Keys \cup {None},
                           since : Versions, version : Versions, on : Conns \cup {None}]]

\* The running total is what the hot generation weighs; neither generation
\* weighs more than half the budget, so that the two never exceed it, whatever
\* is replaced, promoted or expired in place; and no tile has two bodies, or a
\* get could find either (tile_cache.rs, "Design").
WithinBudget ==
  /\ TypeOK
  /\ cache.bytes = Bytes(cache.hot)
  /\ \A gen \in {cache.hot, cache.cold} : Bytes(gen) <= MaxBytes \div 2
  /\ DOMAIN cache.hot \cap DOMAIN cache.cold = {}

\* What a lookup would be answered with, its render sent to a browser less than
\* a max-age ago: nobody is served a copy staler than one that browser may
\* still hold, however often the tile was promoted (agg_tile_ttl).
NoStalerThanABrowser ==
  \A k \in Keys : \A e \in Hit(k) : e.sent < Ttl

\* A render shows all that was committed when its request came, on whichever
\* connection it runs: a transaction a job could not end does not come back
\* with the connection, to pin what later users read or to fail their writes.
RendersSeeCommits ==
  /\ \A r \in Requests : req[r].phase \in {"read", "prepare"} => req[r].version >= req[r].since
  /\ \A r \in Requests : req[r].phase # "failed"
  /\ \A c \in Conns : conn[c].tx = "wrote" => conn[c].user = "job"
===============================================================================
