------------------------------- MODULE Activity -------------------------------
(***************************************************************************)
(* The two logs that are read through a window of time: package_exports,   *)
(* which GET /updates shows (server/updates.rs), and dataset_change_areas, *)
(* which the tiles of z5..z11 show, with those who write them (/package    *)
(* and the JOSM plugin; a dataset refresh) and the job that prunes them    *)
(* (retention_prune).  The answers stay in browsers for as long as         *)
(* http_cache lets them, and such a tile in the server's own cache         *)
(* (tile_cache) for as long again.                                         *)
(*                                                                         *)
(* Time is a number and one unit stands for minutes and days alike; what   *)
(* an export holds is the number of its rows.                              *)
(***************************************************************************)
EXTENDS Integers, Sequences

CONSTANTS
  Exports,      \* the requests for an export
  Never,       \* no time, no page
  Window,       \* by table: how far back its readers look
  Keep,         \* by table: how long the prune keeps a row
  PageMaxAge,   \* by table: the max-age of its readers' answers
  MaxTime,      \* bound: time
  MaxRefreshes  \* bound: dataset refreshes

Tables == {"exports", "areas"}

\* Settings of their own each: either may be the longer.
ASSUME WindowsAssumption == Window \in [Tables -> Nat] /\ Keep \in [Tables -> Nat]

Ttl == PageMaxAge["areas"]  \* of the tile cache: the same setting
ASSUME TtlAssumption == Ttl \in Nat

VARIABLES
  now,
  step,       \* by request: "new" .. "answered", or "over"
  via,        \* by request: its endpoint
  got,        \* by request: the rows it found
  asked,      \* by request: when it came
  unlogged,   \* the requests whose log statement failed
  answered,   \* by request: when its answer arrived
  logged,       \* committed: by table, [id, at, count]
  refreshes,  \* the dataset refreshes that were committed, [began, committed]
  applying,   \* the BEGIN of the one that is going on
  toPrune,    \* the tables the prune has yet to try
  rendering,  \* the renders of a z5..z11 tile, [began, rows]
  cached,     \* the tile in the server's cache, [rows, inserted, took]
  page        \* the answer a browser has, [of, at, lag, shown, owed], of a table

requests == <<step, via, got, asked, unlogged, answered>>
refresh == <<refreshes, applying>>
tileState == <<rendering, cached>>
activityVars == <<now, requests, logged, refresh, toPrune, tileState, page>>

Endpoints == {"package", "nearest_building"}

ActivityInit ==
  /\ now = 0
  /\ step = [r \in Exports |-> "new"] /\ via = [r \in Exports |-> "package"]
  /\ got = [r \in Exports |-> 0] /\ asked = [r \in Exports |-> Never]
  /\ unlogged = {} /\ answered = [r \in Exports |-> Never]
  /\ logged = [t \in Tables |-> {}]
  /\ refreshes = <<>> /\ applying = Never
  /\ toPrune = {}
  /\ rendering = {} /\ cached = Never
  /\ page = Never

Pass ==
  /\ now < MaxTime
  /\ now' = now + 1
  /\ UNCHANGED <<requests, logged, refresh, toPrune, tileState, page>>

-------------------------------------------------------------------------------
(* GET and POST /package, GET /josm_plugins/v2/nearest_building            *)

MaxAgePackageToo(answer) ==  \* mutant: /package may be cached like /updates
  IF answer = "package" THEN PageMaxAge["exports"] ELSE PageMaxAge[answer]
\* Cache-Control: exports are no-store, which is an age of zero.
MaxAge(answer) == IF answer = "package" THEN 0 ELSE PageMaxAge[answer]

\* A browser uses an answer again while it is fresh, and the server never knows.
Reusable(e) ==
  {q \in Exports : /\ step[q] = "answered" /\ via[q] = e
                    /\ now - answered[q] < MaxAge("package")}

Ask(r) ==
  /\ step[r] = "new"
  /\ \E e \in Endpoints :
       /\ via' = [via EXCEPT ![r] = e]
       /\ asked' = [asked EXCEPT ![r] = now]
       /\ IF Reusable(e) # {}
            THEN \E q \in Reusable(e) :
                   /\ got' = [got EXCEPT ![r] = got[q]]
                   /\ step' = [step EXCEPT ![r] = "answered"]
                   /\ answered' = [answered EXCEPT ![r] = now]
            ELSE /\ step' = [step EXCEPT ![r] = "asked"]
                 /\ UNCHANGED <<got, answered>>
  /\ UNCHANGED <<now, unlogged, logged, refresh, toPrune, tileState, page>>

\* A 400 for an area that is none or too large, before any query of the rows.
Refuse(r) ==
  /\ step[r] = "new"
  /\ step' = [step EXCEPT ![r] = "over"]
  /\ UNCHANGED <<now, via, got, asked, unlogged, answered, logged, refresh, toPrune, tileState, page>>

\* The rows of the area, or the nearest one; the plugin logs nothing if there
\* is none.
Build(r) ==
  /\ step[r] = "asked"
  /\ \E n \in {0, 1} :
       /\ got' = [got EXCEPT ![r] = n]
       /\ step' = [step EXCEPT ![r] =
                     IF via[r] = "nearest_building" /\ n = 0 THEN "ready" ELSE "built"]
  /\ UNCHANGED <<now, via, asked, unlogged, answered, logged, refresh, toPrune, tileState, page>>

\* log_export: a connection of its own and one statement, stamped now().
LogExport(r) ==
  /\ step[r] = "built"
  /\ step' = [step EXCEPT ![r] = "ready"]
  /\ logged' = [logged EXCEPT !["exports"] = @ \cup {[id |-> r, at |-> now, count |-> got[r]]}]
  /\ UNCHANGED <<now, via, got, asked, unlogged, answered, refresh, toPrune, tileState, page>>

\* No connection, or the INSERT fails: a warning, and the export goes out.
LogFails(r) ==
  /\ step[r] = "built"
  /\ step' = [step EXCEPT ![r] = "ready"]
  /\ unlogged' = unlogged \cup {r}
  /\ UNCHANGED <<now, via, got, asked, answered, logged, refresh, toPrune, tileState, page>>

HandOut(r) ==
  /\ step[r] = "ready"
  /\ step' = [step EXCEPT ![r] = "answered"]
  /\ answered' = [answered EXCEPT ![r] = now]
  /\ UNCHANGED <<now, via, got, asked, unlogged, logged, refresh, toPrune, tileState, page>>

\* The pool is exhausted or the query fails: a 500, and nothing is logged.
ExportFails(r) ==
  /\ step[r] = "asked"
  /\ step' = [step EXCEPT ![r] = "over"]
  /\ via' = [via EXCEPT ![r] = "package"]
  /\ asked' = [asked EXCEPT ![r] = Never]
  /\ UNCHANGED <<now, got, unlogged, answered, logged, refresh, toPrune, tileState, page>>

-------------------------------------------------------------------------------
(* insert_change_areas, in the transaction that applies a delta            *)

BeginApply ==
  /\ applying = Never /\ Len(refreshes) < MaxRefreshes
  /\ applying' = now
  /\ UNCHANGED <<now, requests, logged, refreshes, toPrune, tileState, page>>

\* detected_at is now(), the BEGIN; one row stands for those of the cells.
CommitAreas ==
  /\ applying # Never
  /\ logged' = [logged EXCEPT !["areas"] = @ \cup {[id |-> Len(refreshes) + 1, at |-> applying,
                                               count |-> 1]}]
  /\ refreshes' = Append(refreshes, [began |-> applying, committed |-> now])
  /\ applying' = Never
  /\ UNCHANGED <<now, requests, toPrune, tileState, page>>

RollBackAreas ==
  /\ applying # Never
  /\ applying' = Never
  /\ UNCHANGED <<now, requests, logged, refreshes, toPrune, tileState, page>>

-------------------------------------------------------------------------------
(* retention_prune                                                         *)

StartPrune ==
  /\ toPrune = {}
  /\ toPrune' = Tables
  /\ UNCHANGED <<now, requests, logged, refresh, tileState, page>>

InTurn == IF "exports" \in toPrune THEN "exports" ELSE "areas"

\* prune_one; what job_log says of it is left out.
PruneOne ==
  /\ toPrune # {}
  /\ logged' = [logged EXCEPT ![InTurn] = {x \in @ : x.at >= now - Keep[InTurn]}]
  /\ toPrune' = toPrune \ {InTurn}
  /\ UNCHANGED <<now, requests, refresh, tileState, page>>

\* One table's failure does not keep the other from being pruned.
PruneOneFails ==
  /\ toPrune # {}
  /\ toPrune' = toPrune \ {InTurn}
  /\ UNCHANGED <<now, requests, logged, refresh, tileState, page>>

-------------------------------------------------------------------------------
(* GET /updates, and the changes layer of a tile of z5..z11                *)

\* recent_exports, and the "changes" of agg_bin_ctes (of which a tile shows the
\* newest of each bin).
Recent(t) == {x \in logged[t] : x.at >= now - Window[t]}

\* How far back a row is both kept and looked for.
Shorter(t) == IF Window[t] <= Keep[t] THEN Window[t] ELSE Keep[t]

\* What was done wholly inside the window, and not lost on its way to the log;
\* of the refreshes those committed before an answer that is lag old was read.
Owed(t, lag) ==
  IF t = "exports"
    THEN {r \in Exports \ unlogged :
            /\ step[r] = "answered" /\ asked[r] >= now - Shorter(t)
            /\ via[r] = "package" \/ got[r] > 0}
    ELSE {n \in DOMAIN refreshes : /\ refreshes[n].began >= now - Shorter(t)
                                   /\ refreshes[n].committed < now - lag}

PageOf(t, rows, lag) ==
  [of |-> t, at |-> now, lag |-> lag, shown |-> rows, owed |-> Owed(t, lag)]

\* The browser has no fresh answer of its own.
Wants(t) == page # Never /\ page.of = t => now - page.at >= MaxAge(t)

\* One query, and its answer.
LookAtExports ==
  /\ Wants("exports")
  /\ page' = PageOf("exports", Recent("exports"), 0)
  /\ UNCHANGED <<now, requests, logged, refresh, toPrune, tileState>>

InCacheAtTtl == cached # Never /\ now - cached.inserted <= Ttl  \* mutant: a moment too long
InCache == cached # Never /\ now - cached.inserted < Ttl

\* serve_tile_agg: from the cache, as old as its render was long and up to the
\* TTL older,
TileFromCache ==
  /\ Wants("areas") /\ InCache
  /\ page' = PageOf("areas", cached.rows, cached.took + Ttl - 1)
  /\ UNCHANGED <<now, requests, logged, refresh, toPrune, tileState>>

\* or rendered from a query now, for this browser or another; two that read the
\* same at once are one here.
RenderTile ==
  /\ ~InCache
  /\ rendering' = rendering \cup {[began |-> now, rows |-> Recent("areas")]}
  /\ UNCHANGED <<now, requests, logged, refresh, toPrune, cached, page>>

\* Into the cache, stamped only now and over whatever others put there.
FinishTile(e) ==
  /\ rendering' = rendering \ {e}
  /\ cached' = [rows |-> e.rows, inserted |-> now, took |-> now - e.began]
  /\ page' \in {page, PageOf("areas", e.rows, now - e.began)}
  /\ UNCHANGED <<now, requests, logged, refresh, toPrune>>

\* No connection, or the query fails: a 500, which nobody keeps.
FailTile(e) ==
  /\ rendering' = rendering \ {e}
  /\ UNCHANGED <<now, requests, logged, refresh, toPrune, cached, page>>

\* A generation goes, or the process with its memory; a budget of zero.
DropCached ==
  /\ cached # Never
  /\ cached' = Never
  /\ UNCHANGED <<now, requests, logged, refresh, toPrune, rendering, page>>

ActivityNext ==
  \/ Pass
  \/ \E r \in Exports :
       Ask(r) \/ Refuse(r) \/ Build(r) \/ LogExport(r) \/ LogFails(r) \/ HandOut(r) \/ ExportFails(r)
  \/ BeginApply \/ CommitAreas \/ RollBackAreas
  \/ StartPrune \/ PruneOne \/ PruneOneFails
  \/ LookAtExports \/ TileFromCache \/ RenderTile
  \/ \E e \in rendering : FinishTile(e) \/ FailTile(e)
  \/ DropCached

-------------------------------------------------------------------------------
(* Properties.                                                             *)

\* An answer shows every export asked for and handed out within the window (and
\* the retention), whatever the prune and the browsers did meanwhile; only a
\* log statement that failed loses one.  It shows nothing from before the window
\* and each export with the number of rows that was handed out
\* (http_cache.rs:30-33, package.rs:920-926, updates.rs:46).
ExportsShown ==
  page # Never /\ page.of = "exports" =>
    /\ page.owed \subseteq {x.id : x \in page.shown}
    /\ \A x \in page.shown :
         x.at \in page.at - Window["exports"] .. page.at /\ x.count = got[x.id]

\* A z5..z11 tile lacks a refresh of the window (and the retention) only if that
\* was committed after the tile was read, and a tile is handed out no later than
\* its render and one TTL after that: renders that overtake one another, the
\* prune and evictions make it no staler, and what has left the window stays no
\* longer than that either (tile_cache.rs:67-75, tiles.rs:1515-1519).
RefreshesShown ==
  page # Never /\ page.of = "areas" =>
    /\ page.owed \subseteq {x.id : x \in page.shown}
    /\ \A x \in page.shown : x.at \in page.at - Window["areas"] - page.lag .. page.at

\* Both readers of a window: what was logged in it is seen, what left it goes.
WindowsShown == ExportsShown /\ RefreshesShown
===============================================================================
