------------------------------ MODULE JobsProofs ------------------------------
(***************************************************************************)
(* Proofs about the job supervisor (Supervisor) and about one of the runs  *)
(* it supervises, the refresh of a source (SourceRefresh).                 *)
(*                                                                         *)
(* The first is for any jobs and any thresholds: a blocking thread is only *)
(* ever started by a supervisor that has none, and is waited for until it  *)
(* returns.  The second is for any publications, refusals, failures and    *)
(* leftovers: a run that skips its source because the validator is the     *)
(* stored one has nothing to fetch, unless a leftover was loaded under it. *)
(***************************************************************************)
EXTENDS Supervisor, SourceRefresh, TLAPS


-------------------------------------------------------------------------------
(* The supervisor                                                          *)

\* A thread of a job belongs to a run that its supervisor is waiting for, or was
\* when the grace ran out, and that the registry shows.
RunsAccounted ==
  \A j \in Jobs :
    /\ threads[j] <= 1
    /\ threads[j] > 0 => state[j] = "running" /\ loop[j] \in {"running", "draining", "exited"}

SupervisorInv == JobsTypeOK /\ RunsAccounted /\ AnnouncedIffLong

\* Every supervisor starts without a run and without a failure.
LEMMA SupervisorInit == JobsInit => SupervisorInv
<1> SUFFICES ASSUME JobsInit PROVE SupervisorInv
  OBVIOUS
<1>1. JobsTypeOK
  <2>1. due \in [Jobs -> BOOLEAN]
    BY DEF JobsInit
  <2>2. /\ loop \in [Jobs -> Loop] /\ result \in [Jobs -> {"ok", "error", "invalidated"}]
        /\ state \in [Jobs -> {"idle", "running"}] /\ server \in Stages
    BY DEF JobsInit, Loop, Stages
  <2>3. threads \in [Jobs -> Nat] /\ fails \in [Jobs -> 0..MaxFails]
    BY StreakAssumption DEF JobsInit
  <2>4. /\ stop \in [Jobs -> BOOLEAN] /\ cancel \in [Jobs -> BOOLEAN]
        /\ waiter \in [Jobs -> BOOLEAN] /\ woken \in [Jobs -> BOOLEAN]
        /\ warned \in [Jobs -> BOOLEAN] /\ requested \in BOOLEAN /\ invalid \in BOOLEAN
    BY DEF JobsInit, AllClear
  <2> QED
    BY <2>1, <2>2, <2>3, <2>4 DEF JobsTypeOK
<1>2. RunsAccounted /\ AnnouncedIffLong
  BY StreakAssumption DEF JobsInit, AllClear, RunsAccounted, AnnouncedIffLong
<1> QED
  BY <1>1, <1>2 DEF SupervisorInv

\* Every step keeps the types.
LEMMA SupervisorTypes == JobsTypeOK /\ [JobsNext]_jobsVars => JobsTypeOK'
<1> SUFFICES ASSUME JobsTypeOK, [JobsNext]_jobsVars PROVE JobsTypeOK'
  OBVIOUS
<1> USE DEF JobsTypeOK, Loop, Stages
<1> USE DEF flags, notify, streak, process
<1>1. ASSUME NEW j \in Jobs, Register(j) \/ Park(j) PROVE JobsTypeOK'
  BY <1>1 DEF Register, Park, Go
<1>2. ASSUME NEW j \in Jobs, CheckStop(j) \/ CheckStopAgain(j) \/ Wake(j) PROVE JobsTypeOK'
  BY <1>2 DEF CheckStop, CheckStopAgain, Wake, Go
<1>3. ASSUME NEW j \in Jobs, TakeTick(j) PROVE JobsTypeOK'
  BY <1>3 DEF TakeTick, Go
<1>4. ASSUME NEW j \in Jobs, ResetCancel(j) PROVE JobsTypeOK'
  BY <1>4 DEF ResetCancel, Go
<1>5. ASSUME NEW j \in Jobs, StartRun(j) PROVE JobsTypeOK'
  BY <1>5 DEF StartRun, Go
<1>6. ASSUME NEW j \in Jobs, TimeOut(j) PROVE JobsTypeOK'
  BY <1>6 DEF TimeOut, Go
<1>7. ASSUME NEW j \in Jobs, HandleResolves(j) PROVE JobsTypeOK'
  BY <1>7 DEF HandleResolves, Go
<1>8. ASSUME NEW j \in Jobs, Record(j) PROVE JobsTypeOK'
  <2>1. loop' \in [Jobs -> Loop] /\ state' \in [Jobs -> {"idle", "running"}]
    BY <1>8 DEF Record, Go, StateAfter
  <2>2. fails' \in [Jobs -> 0..MaxFails]
    BY <1>8, StreakAssumption DEF Record
  <2>3. warned' \in [Jobs -> BOOLEAN]
    BY <1>8 DEF Record
  <2>4. invalid' \in BOOLEAN /\ requested' \in BOOLEAN
    BY <1>8 DEF Record
  <2> QED
    BY <1>8, <2>1, <2>2, <2>3, <2>4 DEF Record
<1>9. ASSUME NEW j \in Jobs, ThreadReturns(j) PROVE JobsTypeOK'
  BY <1>9 DEF ThreadReturns
<1>10. ASSUME NEW j \in Jobs, IntervalElapses(j) PROVE JobsTypeOK'
  BY <1>10 DEF IntervalElapses
<1>11. CASE PoolFindsInvalidated \/ Signal
  BY <1>11 DEF PoolFindsInvalidated, Signal
<1>12. CASE ForceExit
  BY <1>12 DEF ForceExit
<1>13. CASE StopServing \/ NotifyStop
  BY <1>13 DEF StopServing, NotifyStop, NotifyWaiters
<1>14. CASE SetStop
  BY <1>14 DEF SetStop
<1>15. CASE SetCancel
  BY <1>15 DEF SetCancel
<1>16. CASE ServeReturns \/ Joined \/ GraceExpires
  BY <1>16 DEF ServeReturns, Joined, GraceExpires
<1>17. CASE UNCHANGED jobsVars
  BY <1>17 DEF jobsVars
<1> QED
  BY <1>1, <1>2, <1>3, <1>4, <1>5, <1>6, <1>7, <1>8, <1>9, <1>10, <1>11, <1>12, <1>13,
     <1>14, <1>15, <1>16, <1>17 DEF JobsNext, Supervise

\* A thread is started only where there is none, and its run stays on record, and
\* its supervisor with it, until the thread has returned.
LEMMA RunsStep == JobsTypeOK /\ RunsAccounted /\ [JobsNext]_jobsVars => RunsAccounted'
<1> SUFFICES ASSUME JobsTypeOK, RunsAccounted, [JobsNext]_jobsVars PROVE RunsAccounted'
  OBVIOUS
<1> USE DEF JobsTypeOK, RunsAccounted
<1>1. ASSUME NEW j \in Jobs, UNCHANGED <<threads, state>>, loop[j] # "exited",
             \E p \in Loop : loop' = [loop EXCEPT ![j] = p],
             loop[j] \in {"running", "draining"} => threads[j] = 0 \/ loop'[j] = "draining"
      PROVE  RunsAccounted'
  BY <1>1
<1>2. ASSUME NEW j \in Jobs,
             \/ Register(j) \/ CheckStop(j) \/ Park(j) \/ Wake(j) \/ TakeTick(j)
             \/ CheckStopAgain(j) \/ ResetCancel(j) \/ TimeOut(j) \/ HandleResolves(j)
      PROVE  RunsAccounted'
  BY <1>1, <1>2 DEF Register, CheckStop, Park, Wake, TakeTick, CheckStopAgain, ResetCancel,
                    TimeOut, HandleResolves, Go, Loop
<1>3. ASSUME NEW j \in Jobs, StartRun(j) PROVE RunsAccounted'
  BY <1>3 DEF StartRun, Go
<1>4. ASSUME NEW j \in Jobs, Record(j) PROVE RunsAccounted'
  BY <1>4 DEF Record, Go, StateAfter
<1>5. ASSUME NEW j \in Jobs, ThreadReturns(j) PROVE RunsAccounted'
  BY <1>5 DEF ThreadReturns
<1>6. CASE ForceExit \/ GraceExpires
  BY <1>6 DEF ForceExit, GraceExpires
<1>7. ASSUME UNCHANGED <<loop, threads, state>> PROVE RunsAccounted'
  BY <1>7
<1>8. ASSUME NEW j \in Jobs, IntervalElapses(j) PROVE RunsAccounted'
  BY <1>7, <1>8 DEF IntervalElapses
<1> QED
  BY <1>2, <1>3, <1>4, <1>5, <1>6, <1>7, <1>8
  DEF JobsNext, Supervise, PoolFindsInvalidated, Signal, StopServing, ServeReturns, SetStop,
      SetCancel, NotifyStop, Joined, jobsVars

\* The streak and its announcement change together, when a run is recorded.
LEMMA StreakStep == JobsTypeOK /\ AnnouncedIffLong /\ [JobsNext]_jobsVars => AnnouncedIffLong'
<1> SUFFICES ASSUME JobsTypeOK, AnnouncedIffLong, [JobsNext]_jobsVars PROVE AnnouncedIffLong'
  OBVIOUS
<1> USE DEF JobsTypeOK, AnnouncedIffLong
<1>1. ASSUME NEW j \in Jobs, Record(j) PROVE AnnouncedIffLong'
  <2> SUFFICES ASSUME NEW k \in Jobs PROVE warned'[k] <=> fails'[k] >= WarnAt
    OBVIOUS
  <2> DEFINE n == IF result[j] = "ok" THEN 0
                  ELSE IF fails[j] < MaxFails THEN fails[j] + 1 ELSE MaxFails
  <2>1. /\ fails' = [fails EXCEPT ![j] = n]
        /\ warned' = [warned EXCEPT ![j] = n # 0 /\ (warned[j] \/ n >= WarnAt)]
    BY <1>1 DEF Record, Announces
  <2>2. (n # 0 /\ (warned[j] \/ n >= WarnAt)) <=> n >= WarnAt
    BY StreakAssumption
  <2> QED
    BY <2>1, <2>2
<1>2. ASSUME UNCHANGED streak PROVE AnnouncedIffLong'
  BY <1>2 DEF streak
<1>3. ASSUME NEW j \in Jobs, Supervise(j), ~Record(j) PROVE UNCHANGED streak
  BY <1>3 DEF Supervise, Register, CheckStop, Park, Wake, TakeTick, CheckStopAgain,
              ResetCancel, StartRun, TimeOut, HandleResolves
<1>4. ASSUME NEW j \in Jobs, ThreadReturns(j) \/ IntervalElapses(j) PROVE UNCHANGED streak
  BY <1>4 DEF ThreadReturns, IntervalElapses
<1> QED
  BY <1>1, <1>2, <1>3, <1>4
  DEF JobsNext, PoolFindsInvalidated, Signal, ForceExit, StopServing, ServeReturns, SetStop,
      SetCancel, NotifyStop, Joined, GraceExpires, jobsVars

\* The three together.
LEMMA SupervisorStep == SupervisorInv /\ [JobsNext]_jobsVars => SupervisorInv'
BY SupervisorTypes, RunsStep, StreakStep DEF SupervisorInv

\* A job never has two runs at once, and the registry shows it running as long as
\* a thread of it is going, through timeouts, failures, a shutdown at any moment,
\* an expired grace and a forced exit.
THEOREM RegistryNeverLies == JobsSpec => []RegistryIsTrue
<1>1. SupervisorInv => RegistryIsTrue
  BY DEF SupervisorInv, JobsTypeOK, RunsAccounted, RegistryIsTrue
<1> QED
  BY SupervisorInit, SupervisorStep, <1>1, PTL DEF JobsSpec

\* A streak is announced exactly when it has reached the threshold, whatever the
\* threshold is.
THEOREM StreaksAnnounced == JobsSpec => []AnnouncedIffLong
<1>1. SupervisorInv => AnnouncedIffLong
  BY DEF SupervisorInv
<1> QED
  BY SupervisorInit, SupervisorStep, <1>1, PTL DEF JobsSpec

-------------------------------------------------------------------------------
(* The refresh of a source.  SkipIsSound is not inductive.  What carries it *)
(* is an order along the path of one publication.  Nothing overtakes the    *)
(* publisher.  A run that downloaded its file itself has its validator and  *)
(* the stored one no newer than the file, because the HEAD comes before the *)
(* GET; once such a file is live, no validator is newer than what is live.  *)
(* A file the run found has no place in that order, and found says so of    *)
(* the table it was loaded into.                                            *)

\* Where the run holds its file and has not loaded it yet.
Unloaded == {"prepare", "stage", "diff", "apply", "load"}

\* Where a mapping run has swapped its file in and not yet stamped it.
Swapped == {"cleanLoaded", "forget", "stamp"}

UpTo(v, w) == v # None => v <= w

Order ==
  /\ live <= upstream /\ body <= upstream
  /\ UpTo(file, upstream) /\ UpTo(stamp, upstream) /\ UpTo(etag, upstream)
  /\ ~found => UpTo(stamp, live)
  /\ pc \in Unloaded /\ own => UpTo(etag, body) /\ UpTo(stamp, body)
  /\ pc \in Swapped /\ ~found => UpTo(etag, live)

\* What is remembered of a file is yes or no.
LEMMA HistoryTyped ==
  /\ Init => own \in BOOLEAN /\ found \in BOOLEAN
  /\ own \in BOOLEAN /\ found \in BOOLEAN /\ [Next]_vars
       => own' \in BOOLEAN /\ found' \in BOOLEAN
<1>1. ASSUME own \in BOOLEAN, found \in BOOLEAN, [Next]_vars
      PROVE  own' \in BOOLEAN /\ found' \in BOOLEAN
  <2>1. CASE UNCHANGED history
    BY <1>1, <2>1, Zenon DEF history
  <2>2. ASSUME Fetch PROVE own' \in BOOLEAN /\ found' \in BOOLEAN
    BY <1>1, <2>2, Zenon DEF Fetch
  <2>3. ASSUME Apply PROVE own' \in BOOLEAN /\ found' \in BOOLEAN
    BY <1>1, <2>3, Zenon DEF Apply
  <2>4. ASSUME Load PROVE own' \in BOOLEAN /\ found' \in BOOLEAN
    BY <1>1, <2>4, Zenon DEF Load
  <2>5. Fetch \/ Apply \/ Load \/ UNCHANGED history
    <3>1. CASE UNCHANGED vars
      BY <3>1, Zenon DEF vars, history
    <3>2. CASE Publish \/ Run
      BY <3>2, Zenon DEF Publish, Run, Start, Head, RecordNoop, Prepare, Stage, Diff, CleanUp,
                         CleanLoaded, ForgetStamp, WriteStamp
    <3>3. CASE Failure
      BY <3>3, Zenon DEF Failure, HeadUnknown, FetchFails, PrepareFails, RefreshFails,
                         LoadFails, StampFails, Crash
    <3> QED
      BY <1>1, <3>1, <3>2, <3>3 DEF Next
  <2> QED
    BY <2>1, <2>2, <2>3, <2>4, <2>5
<1> QED
  BY <1>1, Zenon DEF Init

\* Every variable keeps its type.
THEOREM TypeCorrect == Spec => []TypeOK
<1> USE KindsAssumption, VersionsAssumption DEF Versions, Steps, Fault
<1> DEFINE Data == /\ kind \in Kinds
                   /\ upstream \in Versions /\ live \in Versions /\ body \in Versions
                   /\ file \in Versions \cup {None}
                   /\ stamp \in Versions \cup {None} /\ etag \in Versions \cup {None}
                   /\ pc \in Steps
                   /\ faults \in 0..MaxFaults
<1>1. Init => TypeOK
  <2>1. Init => Data
    BY DEF Init
  <2> QED
    BY <2>1, HistoryTyped DEF TypeOK
<1>2. TypeOK /\ [Next]_vars => TypeOK'
  <2> SUFFICES ASSUME Data, [Next]_vars PROVE Data'
    BY HistoryTyped DEF TypeOK
  <2> USE DEF committed
  <2>1. CASE Publish
    BY <2>1 DEF Publish
  <2>2. CASE Start \/ Head \/ HeadUnknown \/ RecordNoop
    BY <2>2 DEF Start, Head, HeadUnknown, RecordNoop
  <2>3. CASE Fetch \/ FetchFails
    BY <2>3 DEF Fetch, FetchFails, AfterFetch
  <2>4. CASE Prepare \/ PrepareFails \/ Stage \/ Diff \/ RefreshFails \/ CleanUp
    BY <2>4 DEF Prepare, PrepareFails, Stage, Diff, RefreshFails, CleanUp
  <2>5. CASE Apply
    BY <2>5 DEF Apply, Stamped
  <2>6. CASE Load \/ LoadFails \/ CleanLoaded
    BY <2>6 DEF Load, LoadFails, CleanLoaded
  <2>7. CASE ForgetStamp \/ WriteStamp \/ StampFails \/ Crash
    BY <2>7 DEF ForgetStamp, WriteStamp, StampFails, Crash
  <2>8. CASE UNCHANGED vars
    BY <2>8 DEF vars
  <2> QED
    BY <2>1, <2>2, <2>3, <2>4, <2>5, <2>6, <2>7, <2>8
    DEF Next, Run, Failure
<1> QED
  BY <1>1, <1>2, PTL DEF Spec

\* The order along the path of a publication is kept, whatever a run finds.
THEOREM OrderKept == Spec => []Order
<1>1. Init => Order
  BY VersionsAssumption DEF Init, Order, Unloaded, Swapped, UpTo
<1>2. TypeOK /\ Order /\ [Next]_vars => Order'
  <2> SUFFICES ASSUME TypeOK, Order, [Next]_vars PROVE Order'
    OBVIOUS
  <2> USE VersionsAssumption DEF TypeOK, Order, Versions, Steps, Unloaded, Swapped, UpTo,
                                 committed, history
  <2>1. CASE Publish
    BY <2>1 DEF Publish
  <2>2. CASE Start \/ RecordNoop
    BY <2>2 DEF Start, RecordNoop
  <2>3. CASE Head \/ HeadUnknown
    BY <2>3 DEF Head, HeadUnknown
  <2>4. CASE Fetch \/ FetchFails
    <3>1. CASE Fetch
      <4>1. file = None \/ ~own'
        BY <3>1, Zenon DEF Fetch
      <4>2. /\ body' = (IF file = None THEN upstream ELSE file) /\ file' = body'
            /\ UNCHANGED <<upstream, live, stamp, etag, found>>
        BY <3>1 DEF Fetch
      <4>3. pc' \notin Swapped
        BY <3>1 DEF Fetch, AfterFetch
      <4> QED
        BY <4>1, <4>2, <4>3
    <3>2. CASE FetchFails
      BY <3>2 DEF FetchFails
    <3> QED
      BY <2>4, <3>1, <3>2
  <2>5. CASE Prepare \/ PrepareFails \/ Stage \/ Diff \/ RefreshFails \/ CleanUp
    BY <2>5 DEF Prepare, PrepareFails, Stage, Diff, RefreshFails, CleanUp
  <2>6. CASE Apply
    BY <2>6 DEF Apply, Stamped
  <2>7. CASE Load \/ LoadFails \/ CleanLoaded
    BY <2>7 DEF Load, LoadFails, CleanLoaded
  <2>8. CASE ForgetStamp \/ WriteStamp \/ StampFails \/ Crash
    BY <2>8 DEF ForgetStamp, WriteStamp, StampFails, Crash
  <2>9. CASE UNCHANGED vars
    BY <2>9 DEF vars
  <2> QED
    BY <2>1, <2>2, <2>3, <2>4, <2>5, <2>6, <2>7, <2>8, <2>9
    DEF Next, Run, Failure
<1> QED
  BY TypeCorrect, <1>1, <1>2, PTL DEF Spec

\* A skipped run misses nothing but what a leftover hides: while the stored
\* validator is the publisher's, the live table holds that publication or was
\* loaded from a file its run found.
THEOREM SkipsAreSound == Spec => []SkipIsSound
<1>1. TypeOK /\ Order => SkipIsSound
  BY VersionsAssumption DEF TypeOK, Order, UpTo, Versions, SkipIsSound
<1> QED
  BY TypeCorrect, OrderKept, <1>1, PTL
===============================================================================
