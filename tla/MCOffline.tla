------------------------------ MODULE MCOffline ------------------------------
(***************************************************************************)
(* One source of buildings and one of addresses, a cell that publications  *)
(* change and one they do not.                                             *)
(*                                                                         *)
(* Two machines are checked along with Offline, with which they share no   *)
(* state: db copy (DbCopy), whose files no other command knows, and the    *)
(* logs of the server (Activity), of which each is taken by itself: they   *)
(* share the time and the turn of the prune.  A behaviour is of one of the *)
(* four (about), and the variables of the others keep their initial        *)
(* values.                                                                 *)
(***************************************************************************)
EXTENDS Offline, DbCopy, Activity, Status, TLC

CONSTANTS bdot10k, prg, e1, e2

VARIABLE about

MCOrder == <<bdot10k, prg>>

\* DbCopy: a table of two rows and one of one.
MCTableRows == <<2, 1>>

\* Activity: exports are kept shorter than /updates looks back, changes longer
\* than the tiles do; the requests are watched for a shorter time.
MCWindow == [exports |-> 2, areas |-> 2]
MCKeep == [exports |-> 1, areas |-> 3]
MCExportsTime == 3
MCPageMaxAge == [exports |-> 1, areas |-> 2]
Symmetry == Permutations({e1, e2})

(* Status: queues of at most two rows, stamps that parse or do not, two    *)
(* jobs, and configurations that differ in one secret or one limit.        *)
MCQueues == UNION {[1 .. n -> [source : {bdot10k, prg}, cell : {1, 2}, at : {1, 2}]] : n \in 0 .. 2}
MCMetas ==
  {[k \in {} |-> 0]}
    \cup [{"osm_replication_sequence", "osm_replication_timestamp"} -> {1, Unparsable}]
MCRows == [job : {"update:prg", "import:osm"}, outcome : {"Success", "Error"}]
MCEmpty == [match |-> <<>>, tile |-> <<>>, meta |-> [k \in {} |-> 0], log |-> <<>>, reports |-> <<>>]
MCDatabases ==
  [match : MCQueues, tile : {<<>>, <<1, 2, 1>>}, meta : MCMetas,
   log : {<<>>, <<[job |-> "import:osm", outcome |-> "Error"]>>},
   reports : {<<>>, <<"active", "revoked", "active">>}]
MCConfigs ==
  [max_area_sq_deg : {1}, reports_enabled : BOOLEAN, max_objects_per_request : {100},
   max_age_days : {7, 30}, api_password : {"none", "secret"}, db_path : {"here"},
   osm_replication : [scheme : {"https", "file"}, user : {"", "alice"}, path : {"minute"}, query : {"", "key"}]]

ASSUME BacklogIsTrue(MCDatabases)
ASSUME FailuresStayLocal({db \in MCDatabases : Len(db.match) < 2}, MCEmpty, 3,
                         CHOOSE c \in MCConfigs : TRUE)
ASSUME WarnsOfAStall({db \in MCDatabases : db.match = <<>>}, 1 .. 5, 0 .. 4)
ASSUME LastRunIsKept(MCRows)
ASSUME NothingElsePublished(MCConfigs)

MCInit ==
  /\ about \in {"data", "copy", "exports", "areas"}
  /\ Init /\ CopyInit /\ ActivityInit

MCNext ==
  /\ UNCHANGED about
  /\ \/ about = "data" /\ Next /\ UNCHANGED <<copyVars, activityVars>>
     \/ about = "copy" /\ CopyNext /\ UNCHANGED <<vars, activityVars>>
     \/ /\ about = "exports" /\ ActivityNext /\ now' <= MCExportsTime
        /\ UNCHANGED <<refresh, tileState, vars, copyVars>>
     \/ about = "areas" /\ ActivityNext /\ UNCHANGED <<requests, vars, copyVars>>

MCSpec == MCInit /\ [][MCNext]_<<about, vars, copyVars, activityVars>>
===============================================================================
