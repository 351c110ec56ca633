----------------------------- MODULE MCMatchInputs -----------------------------
(***************************************************************************)
(* The record of k1 can move between the two cells, that of k2 can only    *)
(* come and go; both can be reported and stand in the same cell.           *)
(*                                                                         *)
(* A behaviour has one report handler and two reports, or two handlers at  *)
(* once (about), one refresh and three reports less a swap or a dump;      *)
(* refreshes, dumps and failures of the job are two together.              *)
(***************************************************************************)
EXTENDS MatchInputs

CONSTANTS k1, k2, x1, y1, a, b, h1, h2

VARIABLE about

MCKeys == {k1, k2}
MCContents == {x1, y1}
MCCells == {a, b}
MCCellOf == (x1 :> a) @@ (y1 :> b)
MCSaying == (k1 :> {x1, y1}) @@ (k2 :> {y1})
MCImported == (k1 :> x1) @@ (k2 :> y1)
MCHandlers == {h1, h2}
MCScenarios == {{"swaps"}, {"restore"}, {"reconcile", "report-refresh"},
                {"reconcile", "restore", "old-dump"}}
MCReporting == {{"swaps"}, {"restore"}}
\* For ActiveIsCurrent and RevokedReappears, which these refute.
MCOverlaps == {{"report-refresh"}, {"restore", "old-dump"}}

MCInit ==
  /\ Init
  /\ \/ about = "one handler"
     \/ about = "two handlers" /\ scenario \in MCReporting

MCNext ==
  /\ Next /\ UNCHANGED about
  /\ refreshes' + faults' + Len(dumps') <= MaxRefreshes
  /\ about = "one handler" => ~ins'[h2].open /\ Len(reports') < MaxReports
  /\ about = "two handlers" =>
       /\ refreshes' < MaxRefreshes
       /\ Len(reports') + mapping' + Len(dumps') <= MaxReports
       \* Of two handlers that are free the first one begins: they are alike.
       /\ ins'[h2].open /\ ~ins[h2].open => ins[h1].open

MCSpec == MCInit /\ [][MCNext]_<<vars, about>> /\ WF_vars(Reconcile)
================================================================================
