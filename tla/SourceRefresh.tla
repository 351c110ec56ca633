----------------------------- MODULE SourceRefresh -----------------------------
(***************************************************************************)
(* How one external source gets from its publisher into the database: the  *)
(* HEAD that may skip the run, the download into download_dir, and the     *)
(* load.  Three kinds of source share the steps and differ in what they do *)
(* around them:                                                            *)
(*   dataset: BDOT10k and EGIB (update::run, update::dataset::refresh),    *)
(*   prg:     the same with a zip and the TERYT register (import::prg),    *)
(*   mapping: the street-name and building-type CSVs (server::jobs).       *)
(*                                                                         *)
(* A publication is a number; its validator (ETag) is that number, and the *)
(* publisher never goes back to an earlier one.  Every file is deleted     *)
(* once consumed (cleanup_downloaded_files, the default), and no download  *)
(* replaces a file: what a refused load or a dead process leaves, the next *)
(* run takes for its own download.  Two variables the code does not keep   *)
(* tell such a file from a download.                                       *)
(***************************************************************************)
EXTENDS Naturals

CONSTANTS
  Kinds,      \* which kinds of source an instance looks at
  Rejected,   \* publications the load refuses
  EmptyBody,  \* publications with no bytes at all
  None,       \* no file, no validator
  MaxVersion, \* bound: publications
  MaxFaults   \* bound: failures, cancellations and crashes

ASSUME KindsAssumption == Kinds \subseteq {"dataset", "prg", "mapping"}
ASSUME VersionsAssumption ==
  /\ MaxVersion \in Nat /\ MaxFaults \in Nat /\ None \notin Nat
  /\ Rejected \subseteq 1..MaxVersion /\ EmptyBody \subseteq 1..MaxVersion

VARIABLES
  kind,     \* the kind of this source
  upstream, \* what the publisher has now
  file,     \* the file in download_dir
  live,     \* committed: the publication the live table holds
  stamp,    \* committed: the validator the next HEAD is compared with
  pc,       \* where the run is
  etag,     \* the run: what its HEAD said
  body,     \* the run: the publication in the file it opened
  own,      \* history: the run downloaded that file itself
  found,    \* history: the live table was loaded from a file its run found
  faults

committed == <<live, stamp>>
history == <<own, found>>
vars == <<kind, upstream, file, live, stamp, pc, etag, body, history, faults>>

Versions == 0..MaxVersion
Steps == {"idle", "head", "noop", "fetch", "prepare", "stage", "diff", "apply",
          "clean", "load", "cleanLoaded", "forget", "stamp"}

TypeOK ==
  /\ kind \in Kinds
  /\ upstream \in Versions /\ live \in Versions /\ body \in Versions
  /\ file \in Versions \cup {None}
  /\ stamp \in Versions \cup {None} /\ etag \in Versions \cup {None}
  /\ pc \in Steps
  /\ own \in BOOLEAN /\ found \in BOOLEAN
  /\ faults \in 0..MaxFaults

\* The import that came first stamps nothing.
Init ==
  /\ kind \in Kinds
  /\ upstream = 0 /\ live = 0 /\ body = 0
  /\ file = None /\ stamp = None /\ etag = None
  /\ pc = "idle" /\ own = FALSE /\ found = FALSE /\ faults = 0

Fault == faults < MaxFaults /\ faults' = faults + 1

Publish ==
  /\ upstream < MaxVersion
  /\ upstream' = upstream + 1
  /\ UNCHANGED <<kind, file, committed, pc, etag, body, history, faults>>

-------------------------------------------------------------------------------
(* What all kinds begin with                                               *)

Start ==
  /\ pc = "idle"
  /\ pc' = "head"
  /\ UNCHANGED <<kind, upstream, file, committed, etag, body, history, faults>>

\* source_unchanged: only a validator that is there, and is the stored one.
Head ==
  /\ pc = "head"
  /\ etag' = upstream
  /\ pc' = IF stamp # upstream THEN "fetch"
           ELSE IF kind = "mapping" THEN "idle" ELSE "noop"
  /\ UNCHANGED <<kind, upstream, file, committed, body, history, faults>>

\* The HEAD fails or carries no validator: unknown, which means changed.
HeadUnknown ==
  /\ pc = "head"
  /\ Fault
  /\ etag' = None
  /\ pc' = "fetch"
  /\ UNCHANGED <<kind, upstream, file, committed, body, history>>

\* A row for "ran and found nothing", with the validator already stored.
RecordNoop ==
  /\ pc = "noop"
  /\ pc' = "idle"
  /\ UNCHANGED <<kind, upstream, file, committed, etag, body, history, faults>>

AfterFetch ==
  CASE kind = "dataset" -> "stage" [] kind = "prg" -> "prepare" [] OTHER -> "load"

\* A file that is there is taken as it is; a download replaces none.
Fetch ==
  /\ pc = "fetch"
  /\ file' = IF file = None THEN upstream ELSE file
  /\ body' = file'
  /\ pc' = IF kind = "dataset" /\ body' \in EmptyBody THEN "idle" ELSE AfterFetch
  /\ own' = (file = None)
  /\ UNCHANGED <<kind, upstream, committed, etag, found, faults>>

\* Out of attempts: the temporary file is gone, the destination untouched.
FetchFails ==
  /\ pc = "fetch" /\ file = None
  /\ Fault
  /\ pc' = "idle"
  /\ UNCHANGED <<kind, upstream, file, committed, etag, body, history>>

Unloadable == Rejected \cup EmptyBody

-------------------------------------------------------------------------------
(* update::dataset::refresh                                                *)

\* prepare_source: the TERC map comes from the TERYT register.
Prepare ==
  /\ pc = "prepare"
  /\ pc' = "stage"
  /\ UNCHANGED <<kind, upstream, file, committed, etag, body, history, faults>>

PrepareFails ==
  /\ pc = "prepare"
  /\ Fault
  /\ pc' = "idle"
  /\ UNCHANGED <<kind, upstream, file, committed, etag, body, history>>

\* The load, the 0-rows refusal and the column-shape check.
Stage ==
  /\ pc = "stage"
  /\ pc' = IF body \in Unloadable THEN "clean" ELSE "diff"
  /\ UNCHANGED <<kind, upstream, file, committed, etag, body, history, faults>>

Diff ==
  /\ pc = "diff"
  /\ pc' = "apply"
  /\ UNCHANGED <<kind, upstream, file, committed, etag, body, history, faults>>

StampedNow == upstream  \* mutant: a second HEAD when the row is written

\* The newest validator that is not NULL is the one the next run reads.
Stamped == IF etag = None THEN stamp ELSE etag

\* The delta and the dataset_refreshes row, in one transaction.
Apply ==
  /\ pc = "apply"
  /\ live' = body /\ found' = ~own
  /\ stamp' = Stamped
  /\ pc' = "clean"
  /\ UNCHANGED <<kind, upstream, file, etag, body, own, faults>>

RefreshFailsStamped ==  \* mutant: the row is written outside the transaction
  /\ pc \in {"stage", "diff", "apply"}
  /\ Fault
  /\ stamp' = Stamped
  /\ pc' = "clean"
  /\ UNCHANGED <<kind, upstream, file, live, etag, body, history>>

\* A statement fails, or one of the three cancellation checks fires.
RefreshFails ==
  /\ pc \in {"stage", "diff", "apply"}
  /\ Fault
  /\ pc' = "clean"
  /\ UNCHANGED <<kind, upstream, file, committed, etag, body, history>>

\* cleanup_if_downloaded, whatever became of the refresh.
CleanUp ==
  /\ pc = "clean"
  /\ file' = None
  /\ pc' = "idle"
  /\ UNCHANGED <<kind, upstream, committed, etag, body, history, faults>>

-------------------------------------------------------------------------------
(* The mapping jobs                                                        *)

\* load_from_path: validated, then swapped in one transaction; what is refused
\* is left where it is.
Load ==
  /\ pc = "load"
  /\ IF body \in Unloadable
       THEN pc' = "idle" /\ UNCHANGED <<live, found>>
       ELSE pc' = "cleanLoaded" /\ live' = body /\ found' = ~own
  /\ UNCHANGED <<kind, upstream, file, stamp, etag, body, own, faults>>

LoadFails ==
  /\ pc = "load"
  /\ Fault
  /\ pc' = "idle"
  /\ UNCHANGED <<kind, upstream, file, committed, etag, body, history>>

CleanLoaded ==
  /\ pc = "cleanLoaded"
  /\ file' = None
  /\ pc' = IF etag = None THEN "idle" ELSE "forget"
  /\ UNCHANGED <<kind, upstream, committed, etag, body, history, faults>>

\* The metadata row is replaced by a DELETE and an INSERT of their own.
ForgetStamp ==
  /\ pc = "forget"
  /\ stamp' = None
  /\ pc' = "stamp"
  /\ UNCHANGED <<kind, upstream, file, live, etag, body, history, faults>>

WriteStamp ==
  /\ pc = "stamp"
  /\ stamp' = etag
  /\ pc' = "idle"
  /\ UNCHANGED <<kind, upstream, file, live, etag, body, history, faults>>

StampFails ==
  /\ pc \in {"forget", "stamp"}
  /\ Fault
  /\ pc' = "idle"
  /\ UNCHANGED <<kind, upstream, file, committed, etag, body, history>>

-------------------------------------------------------------------------------
Crash ==
  /\ pc # "idle"
  /\ Fault
  /\ pc' = "idle"
  /\ UNCHANGED <<kind, upstream, file, committed, etag, body, history>>

Run ==
  \/ Start \/ Head \/ RecordNoop \/ Fetch
  \/ Prepare \/ Stage \/ Diff \/ Apply \/ CleanUp
  \/ Load \/ CleanLoaded \/ ForgetStamp \/ WriteStamp

Failure ==
  HeadUnknown \/ FetchFails \/ PrepareFails \/ RefreshFails \/ LoadFails
  \/ StampFails \/ Crash

Next == Publish \/ Run \/ Failure

\* The supervisor keeps starting runs and a run goes on.
Spec == Init /\ [][Next]_vars /\ WF_vars(Run)

-------------------------------------------------------------------------------
(* Properties                                                              *)

\* A run that is skipped misses nothing but what a leftover hides: while the
\* stored validator is the publisher's, the live table holds that publication, or
\* was loaded from a file its run found in download_dir (update/mod.rs:143-147,
\* download.rs:440-444).
SkipIsSound == stamp = upstream => live = upstream \/ found

\* A leftover was loaded under the publisher's validator: no run reads the
\* publication until the next one.
Hidden == found /\ stamp = upstream

\* A leftover that every run takes, refuses and leaves where it is.
Stuck ==
  \/ kind = "mapping" /\ file \in Unloadable
  \/ kind = "dataset" /\ file \in EmptyBody

\* Once the publisher is done, the live table holds its last publication if
\* that can be loaded at all, through refused publications, failures,
\* cancellations and crashes; the two leftovers above are all that can keep it
\* out (street_mappings_update.rs:72-93, building_types_update.rs:107-128,
\* update/mod.rs:245-260).
CatchesUp == <>[](upstream \notin Unloadable => live = upstream \/ Hidden \/ Stuck)

\* What config.rs:105-111 says of runs that clean up, as they do by default: they
\* never re-apply a leftover "as if it were fresh".  A process that dies before
\* its clean-up breaks it.
NeverHidden == stamp = upstream => live = upstream

\* And what the same lines and street_mappings_update.rs:82-87 say: a file is
\* reused by the next run only where clean-up is off, so that a refused file does
\* not keep the next publication out.  The mapping jobs break it.
NeverStuck == <>[](upstream \notin Unloadable => live = upstream \/ Hidden)
================================================================================
