-------------------------------- MODULE MCJobs --------------------------------
(***************************************************************************)
(* The supervisors of two jobs (Supervisor), and one source that one of    *)
(* them refreshes again and again (SourceRefresh).  The two share no       *)
(* state: a behaviour is of one of them (about), and the variables of the  *)
(* other keep their initial values.                                        *)
(***************************************************************************)
EXTENDS Supervisor, SourceRefresh

CONSTANTS j1, j2

VARIABLE about

MCJobs == {j1, j2}
MCRunOnStart == {j1}
MCFailing == {j1}

MCInit ==
  /\ JobsInit /\ Init
  /\ \/ about = "jobs" /\ kind = "dataset"
     \/ about = "source"

MCNext ==
  /\ UNCHANGED about
  /\ \/ about = "jobs" /\ JobsNext /\ UNCHANGED vars
     \/ about = "source" /\ Next /\ UNCHANGED jobsVars

\* The fairness of JobsSpec and of Spec.
JobsFairness ==
  /\ \A j \in Jobs : WF_jobsVars(about = "jobs" /\ Supervise(j))
  /\ \A j \in Jobs : WF_jobsVars(about = "jobs" /\ cancel[j] /\ ThreadReturns(j))
  /\ WF_jobsVars(about = "jobs" /\ Shutdown)
SourceFairness == WF_vars(about = "source" /\ Run)

MCSpec ==
  /\ MCInit /\ [][MCNext]_<<about, jobsVars, vars>>
  /\ JobsFairness /\ SourceFairness
===============================================================================
