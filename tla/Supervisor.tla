------------------------------ MODULE Supervisor ------------------------------
(***************************************************************************)
(* The background scheduler (server::jobs): one supervisor task per job,   *)
(* the blocking thread each run is given, the timeout, and the way the     *)
(* server stops them (server::run, Scheduler::shutdown, shutdown).         *)
(*                                                                         *)
(* tokio's Notify wakes only the waiters registered when notify_waiters is *)
(* called; it is not a latch.  What a job does is left to its module: here *)
(* a run ends when it likes, or once it polls its cancel flag.             *)
(***************************************************************************)
EXTENDS Naturals, FiniteSets

CONSTANTS
  Jobs,        \* enabled jobs
  RunOnStart,  \* jobs whose first tick is immediate
  Failing,     \* jobs whose runs may fail
  WarnAt,      \* FAILURE_STREAK_WARN_AT
  MaxFails     \* bound: where the streak counter stops counting

ASSUME JobsAssumption == RunOnStart \subseteq Jobs /\ Failing \subseteq Jobs
ASSUME StreakAssumption == WarnAt \in Nat \ {0} /\ MaxFails \in Nat /\ MaxFails > WarnAt

VARIABLES
  loop,      \* loop[j]: where supervise is in its loop
  stop,      \* stop[j], cancel[j]: the two flags of a job
  cancel,
  waiter,    \* waiter[j]: its Notified future is registered
  woken,     \* woken[j]: and has been notified
  due,       \* due[j]: its ticker has a tick to hand out
  threads,   \* threads[j]: blocking threads running the job
  result,    \* result[j]: what the last run returned
  state,     \* state[j]: the registry's JobState
  fails,     \* fails[j]: consecutive_failures
  warned,    \* warned[j]: streak_warned_at is set
  requested, \* SHUTDOWN_REQUESTED
  invalid,   \* DATABASE_INVALIDATED
  server     \* where server::run is

flags   == <<stop, cancel>>
notify  == <<waiter, woken>>
streak  == <<fails, warned>>
process == <<requested, invalid, server>>
jobsVars == <<loop, flags, notify, due, threads, result, state, streak, process>>

Loop == {"top", "check", "select", "parked", "recheck", "reset", "start",
         "running", "draining", "record", "exited"}
Stages == {"serving", "closing", "stop", "cancel", "notify", "join", "returned"}

JobsTypeOK ==
  /\ loop \in [Jobs -> Loop]
  /\ stop \in [Jobs -> BOOLEAN] /\ cancel \in [Jobs -> BOOLEAN]
  /\ waiter \in [Jobs -> BOOLEAN] /\ woken \in [Jobs -> BOOLEAN]
  /\ due \in [Jobs -> BOOLEAN]
  /\ threads \in [Jobs -> Nat]
  /\ result \in [Jobs -> {"ok", "error", "invalidated"}]
  /\ state \in [Jobs -> {"idle", "running"}]
  /\ fails \in [Jobs -> 0..MaxFails] /\ warned \in [Jobs -> BOOLEAN]
  /\ requested \in BOOLEAN /\ invalid \in BOOLEAN
  /\ server \in Stages

AllClear == [j \in Jobs |-> FALSE]

JobsInit ==
  /\ loop = [j \in Jobs |-> "top"]
  /\ stop = AllClear /\ cancel = AllClear
  /\ waiter = AllClear /\ woken = AllClear
  /\ due = [j \in Jobs |-> j \in RunOnStart]
  /\ threads = [j \in Jobs |-> 0]
  /\ result = [j \in Jobs |-> "ok"]
  /\ state = [j \in Jobs |-> "idle"]
  /\ fails = [j \in Jobs |-> 0] /\ warned = AllClear
  /\ requested = FALSE /\ invalid = FALSE
  /\ server = "serving"

Go(j, from, to) == loop[j] = from /\ loop' = [loop EXCEPT ![j] = to]

-------------------------------------------------------------------------------
(* supervise                                                               *)

RegisterLate(j) ==  \* mutant: notified() is built where it is awaited
  /\ Go(j, "top", "check")
  /\ waiter' = [waiter EXCEPT ![j] = FALSE] /\ woken' = [woken EXCEPT ![j] = FALSE]
  /\ UNCHANGED <<flags, due, threads, result, state, streak, process>>

\* A new Notified future, enabled before the stop flag is read.
Register(j) ==
  /\ Go(j, "top", "check")
  /\ waiter' = [waiter EXCEPT ![j] = TRUE] /\ woken' = [woken EXCEPT ![j] = FALSE]
  /\ UNCHANGED <<flags, due, threads, result, state, streak, process>>

CheckStop(j) ==
  /\ Go(j, "check", IF stop[j] THEN "exited" ELSE "select")
  /\ UNCHANGED <<flags, notify, due, threads, result, state, streak, process>>

\* The first poll of the select: it registers the future if nothing has.
Park(j) ==
  /\ Go(j, "select", "parked")
  /\ waiter' = [waiter EXCEPT ![j] = TRUE]
  /\ UNCHANGED <<flags, woken, due, threads, result, state, streak, process>>

Wake(j) ==
  /\ woken[j]
  /\ Go(j, "parked", "top")
  /\ UNCHANGED <<flags, notify, due, threads, result, state, streak, process>>

\* biased: a notification is looked at before the ticker.
TakeTick(j) ==
  /\ ~woken[j] /\ due[j]
  /\ Go(j, "parked", "recheck")
  /\ due' = [due EXCEPT ![j] = FALSE]
  /\ UNCHANGED <<flags, notify, threads, result, state, streak, process>>

CheckStopAgain(j) ==
  /\ Go(j, "recheck", IF stop[j] THEN "exited" ELSE "reset")
  /\ UNCHANGED <<flags, notify, due, threads, result, state, streak, process>>

ResetCancel(j) ==
  /\ Go(j, "reset", "start")
  /\ cancel' = [cancel EXCEPT ![j] = FALSE]
  /\ UNCHANGED <<stop, notify, due, threads, result, state, streak, process>>

StartRun(j) ==
  /\ Go(j, "start", "running")
  /\ state' = [state EXCEPT ![j] = "running"]
  /\ threads' = [threads EXCEPT ![j] = @ + 1]
  /\ UNCHANGED <<flags, notify, due, result, streak, process>>

TimeOutAbandons(j) ==  \* mutant: the handle is dropped on a timeout
  /\ threads[j] > 0
  /\ Go(j, "running", "record")
  /\ cancel' = [cancel EXCEPT ![j] = TRUE]
  /\ UNCHANGED <<stop, notify, due, threads, result, state, streak, process>>

\* cfg.timeout elapses: cancel, and keep awaiting the handle.
TimeOut(j) ==
  /\ threads[j] > 0
  /\ Go(j, "running", "draining")
  /\ cancel' = [cancel EXCEPT ![j] = TRUE]
  /\ UNCHANGED <<stop, notify, due, threads, result, state, streak, process>>

\* The handle resolves, before the timeout or after it.
HandleResolves(j) ==
  /\ threads[j] = 0
  /\ Go(j, "running", "record") \/ Go(j, "draining", "record")
  /\ UNCHANGED <<flags, notify, due, threads, result, state, streak, process>>

AnnouncesLate(n) == n > WarnAt  \* mutant: one failure too late

\* streak_log's Failing, unless the streak was announced less than
\* FAILURE_STREAK_REMIND ago, which is left open.
Announces(n) == n >= WarnAt

StateAfter(j) == "idle"

Record(j) ==
  /\ Go(j, "record", "top")
  /\ state' = [state EXCEPT ![j] = StateAfter(j)]
  /\ LET n == IF result[j] = "ok" THEN 0
              ELSE IF fails[j] < MaxFails THEN fails[j] + 1 ELSE MaxFails
     IN /\ fails' = [fails EXCEPT ![j] = n]
        /\ warned' = [warned EXCEPT ![j] = n # 0 /\ (warned[j] \/ Announces(n))]
  /\ IF result[j] = "invalidated"
       THEN invalid' = TRUE /\ requested' = TRUE
       ELSE UNCHANGED <<invalid, requested>>
  /\ UNCHANGED <<flags, notify, due, threads, result, server>>

Supervise(j) ==
  \/ Register(j) \/ CheckStop(j) \/ Park(j) \/ Wake(j) \/ TakeTick(j)
  \/ CheckStopAgain(j) \/ ResetCancel(j) \/ StartRun(j) \/ TimeOut(j)
  \/ HandleResolves(j) \/ Record(j)

-------------------------------------------------------------------------------
(* The blocking thread, the ticker, the pool                               *)

ThreadReturns(j) ==
  /\ threads[j] > 0
  /\ threads' = [threads EXCEPT ![j] = @ - 1]
  /\ \E r \in IF j \in Failing THEN {"ok", "error", "invalidated"} ELSE {"ok"} :
       result' = [result EXCEPT ![j] = r]
  /\ UNCHANGED <<loop, flags, notify, due, state, streak, process>>

\* Delay: ticks that were missed collapse into one.
IntervalElapses(j) ==
  /\ ~due[j]
  /\ due' = [due EXCEPT ![j] = TRUE]
  /\ UNCHANGED <<loop, flags, notify, threads, result, state, streak, process>>

\* A connection comes back to the pool with a rollback that fails: DuckDB has
\* invalidated the database.
PoolFindsInvalidated ==
  /\ ~invalid
  /\ invalid' = TRUE /\ requested' = TRUE
  /\ UNCHANGED <<loop, flags, notify, due, threads, result, state, streak, server>>

-------------------------------------------------------------------------------
(* Shutdown                                                                *)

Signal ==
  /\ ~requested
  /\ requested' = TRUE
  /\ UNCHANGED <<loop, flags, notify, due, threads, result, state, streak, invalid,
                 server>>

\* A second signal: exit(1), without any of what follows.
ForceExit ==
  /\ requested /\ server # "returned"
  /\ server' = "returned"
  /\ loop' = [j \in Jobs |-> "exited"]
  /\ threads' = [j \in Jobs |-> 0]
  /\ UNCHANGED <<flags, notify, due, result, state, streak, requested, invalid>>

NotifyWaiters == woken' = [j \in Jobs |-> woken[j] \/ waiter[j]]

\* The poll in with_graceful_shutdown sees the flag.
StopServing ==
  /\ server = "serving" /\ requested
  /\ server' = "closing"
  /\ NotifyWaiters
  /\ UNCHANGED <<loop, flags, waiter, due, threads, result, state, streak, requested,
                 invalid>>

\* axum::serve returns: its last request was answered, or it failed.
ServeReturns ==
  /\ server \in {"serving", "closing"}
  /\ server' = "stop"
  /\ UNCHANGED <<loop, flags, notify, due, threads, result, state, streak, requested,
                 invalid>>

\* Scheduler::shutdown sets the stop flags one after another, ...
SetStop ==
  /\ server = "stop"
  /\ \E j \in Jobs :
       /\ ~stop[j]
       /\ stop' = [stop EXCEPT ![j] = TRUE]
  /\ server' = IF \A j \in Jobs : stop'[j] THEN "cancel" ELSE "stop"
  /\ UNCHANGED <<loop, cancel, notify, due, threads, result, state, streak, requested,
                 invalid>>

\* ... then the cancel flags (in one step: a supervisor touches only its own),
\* ...
SetCancel ==
  /\ server = "cancel"
  /\ cancel' = [j \in Jobs |-> TRUE]
  /\ server' = "notify"
  /\ UNCHANGED <<loop, stop, notify, due, threads, result, state, streak, requested,
                 invalid>>

\* ... and wakes whoever is registered.
NotifyStop ==
  /\ server = "notify"
  /\ server' = "join"
  /\ NotifyWaiters
  /\ UNCHANGED <<loop, flags, waiter, due, threads, result, state, streak, requested,
                 invalid>>

\* join_next until the set is empty ...
Joined ==
  /\ server = "join"
  /\ \A j \in Jobs : loop[j] = "exited"
  /\ server' = "returned"
  /\ UNCHANGED <<loop, flags, notify, due, threads, result, state, streak, requested,
                 invalid>>

\* ... or the grace runs out and the set is dropped: the supervisors are
\* aborted, their blocking threads are not.
GraceExpires ==
  /\ server = "join"
  /\ server' = "returned"
  /\ loop' = [j \in Jobs |-> "exited"]
  /\ UNCHANGED <<flags, notify, due, threads, result, state, streak, requested,
                 invalid>>

Shutdown ==
  \/ StopServing \/ (requested /\ ServeReturns) \/ SetStop \/ SetCancel
  \/ NotifyStop \/ Joined

JobsNext ==
  \/ \E j \in Jobs : Supervise(j) \/ ThreadReturns(j) \/ IntervalElapses(j)
  \/ PoolFindsInvalidated \/ Signal \/ ForceExit
  \/ StopServing \/ ServeReturns \/ SetStop \/ SetCancel \/ NotifyStop
  \/ Joined \/ GraceExpires

\* Supervisors and the shutdown make progress, requests get answered, and a
\* cancelled run returns; a tick may be a day away, so none is promised.
JobsSpec ==
  /\ JobsInit /\ [][JobsNext]_jobsVars
  /\ \A j \in Jobs : WF_jobsVars(Supervise(j))
  /\ \A j \in Jobs : WF_jobsVars(cancel[j] /\ ThreadReturns(j))
  /\ WF_jobsVars(Shutdown)

-------------------------------------------------------------------------------
(* Properties                                                              *)

\* A job never has two runs at once, whatever its timeouts (mod.rs:520-521), and
\* the registry never shows it idle while a run is still going, one that timed
\* out included.
RegistryIsTrue ==
  /\ JobsTypeOK
  /\ \A j \in Jobs : threads[j] <= 1 /\ (state[j] = "idle" => threads[j] = 0)

\* A failure streak is announced exactly from WarnAt failures on, so a
\* recovery is reported for the streaks that were announced and no others.
AnnouncedIffLong == \A j \in Jobs : warned[j] <=> fails[j] >= WarnAt

\* A shutdown, asked for by a signal or by an invalidated database, reaches
\* every supervisor without any of them waiting for its next tick
\* (mod.rs:432-449): no notification falls between a check and a wait.
ShutdownReachesAll == requested ~> \A j \in Jobs : loop[j] = "exited"

\* Not an invariant.  What JobContext promises: "cancel is set by the supervisor on timeout or
\* shutdown" (mod.rs:40): once the shutdown has set the flags, no run goes on
\* with its flag clear.
CancelReachesRuns ==
  server \in {"notify", "join"} =>
    \A j \in Jobs : threads[j] > 0 => cancel[j]
===============================================================================
