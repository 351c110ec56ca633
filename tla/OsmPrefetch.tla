------------------------------ MODULE OsmPrefetch ------------------------------
(***************************************************************************)
(* One run of the OSM replication update (update::osm::update): the loop   *)
(* that fetches, consumes and applies sequences batch by batch, and the    *)
(* thread that downloads ahead of it into the same directory under the     *)
(* same file names.                                                        *)
(*                                                                         *)
(* A sequence is its number and its diff a file in download_dir, complete  *)
(* whenever it is there (do_download renames a finished temp file onto the *)
(* name).  The steps of the two threads are the accesses to what they      *)
(* share: the fetch frontier, the in-flight slot and its mutex, the stop   *)
(* flag and the directory.  What applying a batch does is left to the      *)
(* database; here it commits as a whole or not at all.                     *)
(***************************************************************************)
EXTENDS Naturals

CONSTANTS
  PrefetchAhead, \* [jobs.osm_update] prefetch_ahead
  Threshold,     \* batch_commit_threshold
  MaxBatch,     \* batch_size
  MaxSeq,        \* bound: the newest sequence upstream ever publishes
  MaxCrashes     \* bound

ASSUME PrefetchAssumption ==
  /\ PrefetchAhead \in Nat /\ Threshold \in Nat /\ MaxBatch \in Nat
  /\ MaxSeq \in Nat /\ MaxCrashes \in Nat

VARIABLES
  applied,    \* metadata.osm_replication_sequence
  files,      \* sequences whose .osc.gz is in download_dir
  leftover,   \* those that were there when the run began
  main,       \* where update() is
  seq,        \* first sequence of its batch
  fetching,   \* the sequence of the batch it is at
  batchEnd,   \* last sequence of its batch
  latest,     \* latest_seq of the run
  chunk,      \* chunk_size of the run
  frontier,   \* fetch_frontier
  stopFlag,   \* the flag that ends the prefetch thread
  slot,       \* PrefetchInFlight.seq, 0 for None
  thread,     \* where the prefetch thread is
  next,       \* the sequence it looks at
  downloaded, \* the sequences it has put on disk
  crashes

runVars    == <<seq, fetching, batchEnd, latest, chunk>>
sharedVars == <<frontier, stopFlag, slot>>
threadVars == <<thread, next, downloaded>>
mainVars   == <<applied, leftover, main, runVars, frontier, stopFlag>>
prefetchVars ==
  <<applied, files, leftover, main, runVars, sharedVars, threadVars, crashes>>

Main == {"idle", "top", "wait", "fetch", "download", "consume", "apply", "stop",
         "join"}
Thread == {"none", "loop", "claim", "claiming", "check", "download", "landed",
           "failed", "await", "cleanup"}

PrefetchTypeOK ==
  /\ applied \in 0..MaxSeq
  /\ files \subseteq 1..MaxSeq /\ leftover \subseteq 1..MaxSeq
  /\ main \in Main /\ thread \in Thread
  /\ seq \in Nat /\ chunk \in Nat /\ next \in Nat
  /\ fetching \in 0..MaxSeq /\ batchEnd \in 0..MaxSeq /\ latest \in 0..MaxSeq
  /\ frontier \in 0..MaxSeq /\ stopFlag \in BOOLEAN /\ slot \in 0..MaxSeq
  /\ downloaded \subseteq 1..MaxSeq
  /\ crashes \in 0..MaxCrashes

\* catch_up_chunk_size
RunChunk(pending) ==
  IF pending > Threshold /\ MaxBatch > 0 THEN MaxBatch ELSE 1

\* batch_end_for
BatchEnd(first, count, last) ==
  IF first + count - 1 < last THEN first + count - 1 ELSE last

PrefetchInit ==
  /\ applied = 0 /\ files = {} /\ leftover = {}
  /\ main = "idle" /\ seq = 0 /\ fetching = 0 /\ batchEnd = 0 /\ latest = 0
  /\ chunk = 0
  /\ frontier = 0 /\ stopFlag = FALSE /\ slot = 0
  /\ thread = "none" /\ next = 0 /\ downloaded = {}
  /\ crashes = 0

-------------------------------------------------------------------------------
(* update()                                                                *)

\* The sequence upstream is at, read once; nothing to do if it is applied.
Start ==
  /\ main = "idle"
  /\ \E head \in (applied + 1)..MaxSeq :
       /\ latest' = head
       /\ chunk' = RunChunk(head - applied)
  /\ seq' = applied + 1
  /\ frontier' = BatchEnd(seq', chunk', latest')
  /\ stopFlag' = FALSE /\ slot' = 0
  /\ thread' = IF PrefetchAhead > 0 THEN "loop" ELSE "none"
  /\ next' = applied + 1
  /\ downloaded' = {}
  /\ leftover' = files
  /\ main' = "top"
  /\ UNCHANGED <<applied, files, fetching, batchEnd, crashes>>

\* Claim the next batch before fetching any of it.
ClaimBatch ==
  /\ main = "top" /\ seq <= latest
  /\ batchEnd' = BatchEnd(seq, chunk, latest)
  /\ frontier' = batchEnd'
  /\ fetching' = seq
  /\ main' = "wait"
  /\ UNCHANGED <<applied, files, leftover, seq, latest, chunk, stopFlag, slot,
                 threadVars, crashes>>

\* The backlog is done, or a shutdown or the run's cancel flag was seen.
LoopEnds ==
  /\ main = "top"
  /\ main' = "stop"
  /\ UNCHANGED <<applied, files, leftover, runVars, sharedVars, threadVars, crashes>>

\* The mutex of PrefetchInFlight is held between the two halves of a claim.
Locked == thread = "claiming"

\* wait_while_downloading
WaitWhileDownloading ==
  /\ main = "wait"
  /\ ~Locked /\ slot # fetching
  /\ main' = "fetch"
  /\ UNCHANGED <<applied, files, leftover, runVars, sharedVars, threadVars, crashes>>

\* The exists-check of download_file_as_impl.
Fetch ==
  /\ main = "fetch"
  /\ main' = IF fetching \in files THEN "consume" ELSE "download"
  /\ UNCHANGED <<applied, files, leftover, runVars, sharedVars, threadVars, crashes>>

\* The rename at the end of do_download, over whatever is there.
Download ==
  /\ main = "download"
  /\ files' = files \cup {fetching}
  /\ main' = "consume"
  /\ UNCHANGED <<applied, leftover, runVars, sharedVars, threadVars, crashes>>

\* decompress_and_remove, then parse_osc; the file is gone in any case.
Consume ==
  /\ main = "consume"
  /\ files' = files \ {fetching}
  /\ IF fetching < batchEnd
       THEN fetching' = fetching + 1 /\ main' = "wait"
       ELSE main' = "apply" /\ UNCHANGED fetching
  /\ UNCHANGED <<applied, leftover, seq, batchEnd, latest, chunk, sharedVars,
                 threadVars, crashes>>

ConsumeFails ==
  /\ main = "consume"
  /\ files' = files \ {fetching}
  /\ main' = "stop"
  /\ UNCHANGED <<applied, leftover, runVars, sharedVars, threadVars, crashes>>

\* apply_batch commits and stamps the batch's last sequence.
ApplyBatch ==
  /\ main = "apply"
  /\ applied' = batchEnd
  /\ seq' = batchEnd + 1
  /\ main' = "top"
  /\ UNCHANGED <<files, leftover, fetching, batchEnd, latest, chunk, sharedVars,
                 threadVars, crashes>>

\* A download is out of attempts, the batch's timestamp cannot be had, or
\* apply_batch rolls back.
StepFails ==
  /\ main \in {"download", "apply"}
  /\ main' = "stop"
  /\ UNCHANGED <<applied, files, leftover, runVars, sharedVars, threadVars, crashes>>

StopThread ==
  /\ main = "stop"
  /\ stopFlag' = TRUE
  /\ main' = "join"
  /\ UNCHANGED <<applied, files, leftover, runVars, frontier, slot, threadVars,
                 crashes>>

JoinThread ==
  /\ main = "join" /\ thread = "none"
  /\ main' = "idle"
  /\ UNCHANGED <<applied, files, leftover, runVars, sharedVars, threadVars, crashes>>

Update ==
  \/ ClaimBatch \/ LoopEnds \/ WaitWhileDownloading \/ Fetch \/ Download
  \/ Consume \/ ConsumeFails \/ ApplyBatch \/ StepFails \/ StopThread \/ JoinThread

-------------------------------------------------------------------------------
(* spawn_prefetcher                                                        *)

\* One turn of the loop up to the claim: past the end or told to stop, below
\* the frontier, beyond the window, or ready to claim.
Look ==
  /\ thread = "loop"
  /\ IF next > latest \/ stopFlag
       THEN thread' = "await" /\ UNCHANGED next
       ELSE IF next <= frontier
         THEN next' = frontier + 1 /\ UNCHANGED thread
         ELSE /\ next <= frontier + PrefetchAhead
              /\ thread' = "claim" /\ UNCHANGED next
  /\ UNCHANGED <<mainVars, files, slot, downloaded, crashes>>

RefusedNever(s) == FALSE  \* mutant: only the look before the claim

\* claim() gives a sequence up that the loop has claimed by now.
Refused(s) == s <= frontier

\* claim(): the frontier is read again under the mutex, ...
ClaimLoad ==
  /\ thread = "claim"
  /\ IF Refused(next)
       THEN thread' = "loop"
       ELSE thread' = "claiming"
  /\ UNCHANGED <<mainVars, files, slot, next, downloaded, crashes>>

\* ... and the slot is set before it is released.
ClaimStore ==
  /\ thread = "claiming"
  /\ slot' = next
  /\ thread' = "check"
  /\ UNCHANGED <<mainVars, files, next, downloaded, crashes>>

CheckFile ==
  /\ thread = "check"
  /\ thread' = IF next \in files THEN "landed" ELSE "download"
  /\ UNCHANGED <<mainVars, files, slot, next, downloaded, crashes>>

ThreadDownload ==
  /\ thread = "download"
  /\ files' = files \cup {next}
  /\ thread' = "landed"
  /\ UNCHANGED <<mainVars, slot, next, downloaded, crashes>>

ThreadDownloadFails ==
  /\ thread = "download"
  /\ thread' = "failed"
  /\ UNCHANGED <<mainVars, files, slot, next, downloaded, crashes>>

ReleaseLandedOnly ==  \* mutant: a failed download leaves its guard behind
  /\ thread \in {"landed", "failed"}
  /\ slot' = IF thread = "landed" THEN 0 ELSE slot
  /\ downloaded' = IF thread = "landed" THEN downloaded \cup {next} ELSE downloaded
  /\ next' = next + 1
  /\ thread' = "loop"
  /\ UNCHANGED <<mainVars, files, crashes>>

\* The guard drops, the download is recorded.
Release ==
  /\ thread \in {"landed", "failed"}
  /\ slot' = 0
  /\ downloaded' = IF thread = "landed" THEN downloaded \cup {next} ELSE downloaded
  /\ next' = next + 1
  /\ thread' = "loop"
  /\ UNCHANGED <<mainVars, files, crashes>>

AwaitStop ==
  /\ thread = "await" /\ stopFlag
  /\ thread' = "cleanup"
  /\ UNCHANGED <<mainVars, files, slot, next, downloaded, crashes>>

\* Unlink what it downloaded and nobody consumed, one file after another.
CleanUp ==
  /\ thread = "cleanup"
  /\ IF downloaded = {}
       THEN thread' = "none" /\ UNCHANGED <<files, downloaded>>
       ELSE \E s \in downloaded :
              /\ files' = files \ {s}
              /\ downloaded' = downloaded \ {s}
              /\ UNCHANGED thread
  /\ UNCHANGED <<mainVars, slot, next, crashes>>

Prefetch ==
  \/ Look \/ ClaimLoad \/ ClaimStore \/ CheckFile \/ ThreadDownload
  \/ ThreadDownloadFails \/ Release \/ AwaitStop \/ CleanUp

-------------------------------------------------------------------------------
\* The process dies; the files and the committed sequence stay.
Crash ==
  /\ main # "idle" /\ crashes < MaxCrashes
  /\ crashes' = crashes + 1
  /\ main' = "idle" /\ thread' = "none"
  /\ slot' = 0 /\ downloaded' = {}
  /\ UNCHANGED <<applied, files, leftover, runVars, frontier, stopFlag, next>>

\* A run that finds nothing new upstream.
UpToDate == main = "idle" /\ UNCHANGED prefetchVars

PrefetchNext == UpToDate \/ Start \/ Update \/ Prefetch \/ Crash

\* Both threads run, and a download ends one way or the other.
PrefetchSpec ==
  /\ PrefetchInit /\ [][PrefetchNext]_prefetchVars
  /\ WF_prefetchVars(Update) /\ WF_prefetchVars(Prefetch)

-------------------------------------------------------------------------------
(* Properties                                                              *)

\* The two threads never download one sequence at the same time
\* (osm.rs:364-384), and what the loop found on disk, or put there, is still
\* there when it is opened: the cleanup of the thread never takes a file that
\* is wanted (osm.rs:560-572).  No diff is left behind either.  A file in
\* download_dir is always of a sequence that is still to be applied, so some
\* later fetch consumes it: a rename of the prefetch thread that came after the
\* loop consumed that sequence would leave one that nothing reads again
\* (osm.rs:118-132), crashes or not.  And a run that ends, whether it caught up,
\* was cancelled or failed, leaves no file that was not there before
\* (osm.rs:583-603).
FilesAccounted ==
  /\ PrefetchTypeOK
  /\ ~(main = "download" /\ thread = "download" /\ fetching = next)
  /\ main = "consume" => fetching \in files
  /\ \A s \in files : s > applied
  /\ main = "join" /\ thread = "none" => files \subseteq leftover

\* A run always ends: nobody waits for a download, a window or a stop flag
\* that never comes (osm.rs:396-397, 574-578).
RunEnds == main # "idle" ~> main = "idle"
===============================================================================
