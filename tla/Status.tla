-------------------------------- MODULE Status --------------------------------
(***************************************************************************)
(* What the server says of itself: GET /status (server::jobs::             *)
(* status_handler, server::public_config), the warning of the health_log   *)
(* job, and the log of last runs both CLI and server keep (job_log).       *)
(*                                                                         *)
(* A database is what the reads ask of it, [match, tile, meta, log,        *)
(* reports]: the two queues and the two lists as sequences of rows,        *)
(* metadata as a function of the keys that are stamped.  Each read of a    *)
(* /status takes a connection of its own and sees what is committed then.  *)
(***************************************************************************)
EXTENDS Integers, Sequences, FiniteSets, Functions, SequencesExt, FiniteSetsExt

CONSTANTS
  Null,        \* no value
  Unparsable,  \* a stamp that is neither a number nor a time
  Unread       \* the pool was exhausted, or a query failed

-------------------------------------------------------------------------------
(* job_log::record: a DELETE and an INSERT, each a transaction of its own  *)

RecordUpTo(log, row, steps) ==
  LET cleared == SelectSeq(log, LAMBDA r : r.job # row.job)
  IN CASE steps = 0 -> log [] steps = 1 -> cleared [] OTHER -> Append(cleared, row)
Record(log, row) == RecordUpTo(log, row, 2)

\* read_all: one entry per job, the last of its rows.
LogByJob(log) ==
  LET last(job) == Max({i \in DOMAIN log : log[i].job = job})
  IN [job \in {r.job : r \in Range(log)} |-> log[last(job)]]

NoLog == [job \in {} |-> Null]

-------------------------------------------------------------------------------
(* The reads                                                               *)

\* SELECT DISTINCT source, cell: a cell queued twice counts once.
PendingPairs(queue) == {<<r.source, r.cell>> : r \in Range(queue)}

\* compute_match_staleness.
Staleness(db) ==
  LET pairs == PendingPairs(db.match)
      times == {r.at : r \in Range(db.match)}
  IN [total |-> Cardinality(pairs),
      bySource |-> [s \in {p[1] : p \in pairs} |-> Cardinality({p \in pairs : p[1] = s})],
      oldest |-> IF times = {} THEN Null ELSE Min(times)]
NoStaleness == [total |-> 0, bySource |-> [s \in {} |-> 0], oldest |-> Null]

Parsed(value) == IF value = Unparsable THEN Null ELSE value
Stamped(meta, key) == IF key \in DOMAIN meta THEN meta[key] ELSE Null

\* read_osm_replication: the timestamp is told as it is stored, parsed or not.
OsmReplication(db, now) ==
  LET timestamp == Stamped(db.meta, "osm_replication_timestamp")
  IN [sequence |-> Parsed(Stamped(db.meta, "osm_replication_sequence")),
      timestamp |-> timestamp,
      lag |-> IF Parsed(timestamp) = Null THEN Null ELSE now - timestamp]
NoReplication == [sequence |-> Null, timestamp |-> Null, lag |-> Null]

TileDirtyCells(db) == Cardinality(Range(db.tile))

ReportCounts(db) ==
  [s \in {"active", "expired", "revoked"} |-> Cardinality({i \in DOMAIN db.reports : db.reports[i] = s})]
NoReports == [s \in {"active", "expired", "revoked"} |-> 0]

\* The published settings: field by field, and of a URL only what is no secret.
PublicUrl(url) ==
  IF url.scheme \in {"http", "https"} THEN [scheme |-> url.scheme, path |-> url.path] ELSE Null
PublicConfig(config) ==
  [max_area_sq_deg |-> config.max_area_sq_deg, reports_enabled |-> config.reports_enabled,
   max_objects_per_request |-> config.max_objects_per_request,
   max_age_days |-> config.max_age_days, osm_replication |-> PublicUrl(config.osm_replication)]

Reads == {"match_staleness", "job_run_log", "osm_replication", "reports", "tile_dirty_cells"}

\* get_status: seen is the database each read found.  They share a task: a
\* panic in one would leave all of them unread.
Answer(seen, now, config) ==
  [config |-> PublicConfig(config),
   match_staleness |->
     IF seen["match_staleness"] = Unread THEN NoStaleness ELSE Staleness(seen["match_staleness"]),
   job_run_log |->
     IF seen["job_run_log"] = Unread THEN NoLog ELSE LogByJob(seen["job_run_log"].log),
   osm_replication |->
     IF seen["osm_replication"] = Unread THEN NoReplication
     ELSE OsmReplication(seen["osm_replication"], now),
   reports |-> IF seen["reports"] = Unread THEN NoReports ELSE ReportCounts(seen["reports"]),
   tile_dirty_cells |->
     IF seen["tile_dirty_cells"] = Unread THEN 0 ELSE TileDirtyCells(seen["tile_dirty_cells"])]

-------------------------------------------------------------------------------
(* health_log                                                              *)

OsmLagExceeds(replication, threshold, enabled) ==
  /\ enabled /\ threshold # 0
  /\ replication.lag # Null /\ replication.lag > threshold

\* One connection for all of it; without one the replication is not known.
HealthWarns(db, now, threshold, enabled) ==
  OsmLagExceeds(IF db = Unread THEN NoReplication ELSE OsmReplication(db, now), threshold, enabled)

-------------------------------------------------------------------------------
(* What is owed to whoever watches                                         *)

\* The queue is empty exactly if /status says so, its parts make up the total,
\* and a cell that is queued again adds nothing: a queue that is drained reads
\* as drained (status_handler.rs:42-43).
BacklogIsTrue(Databases) ==
  \A db \in Databases :
    LET s == Staleness(db)
    IN /\ s.total = MapThenSumSet(LAMBDA x : s.bySource[x], DOMAIN s.bySource)
       /\ \A x \in DOMAIN s.bySource : s.bySource[x] > 0
       /\ (s.total = 0) = (s.oldest = Null) /\ (s.total = 0) = (db.match = <<>>)
       /\ \A i \in DOMAIN db.match :
            LET again == Staleness([db EXCEPT !.match = Append(@, [db.match[i] EXCEPT !.at = @ + 1])])
            IN again = s

\* No read is the reason that /status fails, and none that fails takes another
\* with it; one that failed is told as an empty database would be, so that a
\* zero may mean "not read".
FailuresStayLocal(Databases, Empty, Now, Config) ==
  \A db \in Databases, failed \in SUBSET Reads :
    LET seen == [r \in Reads |-> IF r \in failed THEN Unread ELSE db]
        whole == Answer([r \in Reads |-> db], Now, Config)
        empty == Answer([r \in Reads |-> Empty], Now, Config)
        answer == Answer(seen, Now, Config)
    IN \A r \in Reads : answer[r] = IF r \in failed THEN empty[r] ELSE whole[r]

\* A replication that stands still is warned of once it is behind, again and
\* again until the next stamp; an update that is off, a fresh database and a
\* stamp nobody can read are not (health_log.rs:62-65).
WarnsOfAStall(Databases, Times, Thresholds) ==
  \A db \in Databases \cup {Unread}, now \in Times, threshold \in Thresholds, enabled \in BOOLEAN :
    LET warns(t) == HealthWarns(db, t, threshold, enabled)
        stamp == IF db = Unread THEN Null
                 ELSE Parsed(Stamped(db.meta, "osm_replication_timestamp"))
    IN /\ warns(now) => \A later \in Times : later >= now => warns(later)
       /\ (\E t \in Times : warns(t)) =
            (enabled /\ threshold # 0 /\ stamp # Null /\ Max(Times) - stamp > threshold)

\* The log holds one row per job and the last whole record of each; a process that
\* dies between the two statements, or a read that falls between them, finds no
\* run of that job at all, and of every other what it was.
LastRunIsKept(Rows) ==
  \A log \in UNION {[1 .. n -> Rows] : n \in 0 .. 3}, row \in Rows, steps \in 0 .. 2 :
    LET kept == FoldLeft(Record, <<>>, log)
        before == LogByJob(kept)
        after == LogByJob(RecordUpTo(kept, row, steps))
        others == DOMAIN before \ {row.job}
    IN /\ Len(kept) = Cardinality(DOMAIN before)
       /\ \A job \in others : job \in DOMAIN after /\ after[job] = before[job]
       /\ CASE steps = 0 -> after = before
            [] steps = 1 -> row.job \notin DOMAIN after
            [] steps = 2 -> after[row.job] = row

\* Two servers that differ in nothing a client has to follow publish the same:
\* no other setting, and no part of a URL that may be a secret, is in the answer.
NothingElsePublished(Configs) ==
  \A one, other \in Configs :
    LET alike(f) == one[f] = other[f]
        url(c) == [scheme |-> c.osm_replication.scheme, path |-> c.osm_replication.path]
    IN (/\ \A f \in {"max_area_sq_deg", "reports_enabled", "max_objects_per_request", "max_age_days"} :
             alike(f)
        /\ url(one) = url(other))
         => PublicConfig(one) = PublicConfig(other)
===============================================================================
