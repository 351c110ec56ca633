-------------------------------- MODULE DbCopy --------------------------------
(***************************************************************************)
(* "db copy" (db_copy.rs): the database rewritten into a fresh file, table *)
(* by table and index by index, checked, and renamed into place.  The      *)
(* server is stopped, so the source does not change meanwhile.             *)
(*                                                                         *)
(* A file is Absent, Foreign (something else the copy must leave alone) or *)
(* the database it holds: the rows of each table it has, and the indexes.  *)
(***************************************************************************)
EXTENDS Integers, Sequences, Functions

CONSTANTS
  TableRows,  \* the source: its tables in the order of their names, as row counts
  Indexes,    \* and its indexes
  Foreign,
  Nothing,    \* no file
  CopyFaults  \* bound: failures, crashes and stray files

ASSUME SourceAssumption == TableRows \in Seq(Nat) /\ Foreign # Nothing

VARIABLES
  dest,        \* the file at <dest>
  destWal,     \* whether <dest>.wal exists
  partial,     \* the file at <dest>.partial
  partialWal,  \* whether <dest>.partial.wal exists
  copying,     \* where the command is
  copyFaults,
  littered,    \* history: a crash, or a clean-up that failed, left files
  strayed      \* history: a file came to <dest> since the copy looked

copyVars == <<dest, destWal, partial, partialWal, copying, copyFaults, littered, strayed>>

Source == [rows |-> TableRows, indexes |-> Indexes]
Empty == [rows |-> <<>>, indexes |-> {}]

CopyInit ==
  /\ dest = Nothing /\ destWal = FALSE /\ partial = Nothing /\ partialWal = FALSE
  /\ copying = "off" /\ copyFaults = 0 /\ littered = FALSE
  /\ strayed = FALSE

CopyFault == copyFaults < CopyFaults /\ copyFaults' = copyFaults + 1

-------------------------------------------------------------------------------
(* What others do                                                          *)

\* Another file, or the WAL of one that was moved away, at any time.
Stray ==
  /\ CopyFault
  /\ \/ dest = Nothing /\ dest' = Foreign /\ UNCHANGED <<destWal, partial, partialWal>>
     \/ ~destWal /\ destWal' = TRUE /\ UNCHANGED <<dest, partial, partialWal>>
  /\ strayed' = TRUE
  /\ UNCHANGED <<copying, littered>>

\* The operator moves the copy to where the server wants it, or tidies up.
TakeAway ==
  /\ copying = "off"
  /\ dest' = Nothing /\ destWal' = FALSE
  /\ partial' = Nothing /\ partialWal' = FALSE
  /\ littered' = FALSE
  /\ UNCHANGED <<copying, copyFaults, strayed>>

-------------------------------------------------------------------------------
(* copy_database                                                           *)

Refused == dest # Nothing \/ destWal \/ partial # Nothing \/ partialWal

\* refuse_existing; the ATTACH creates the file, and the guard exists from then.
StartCopy ==
  /\ copying = "off" /\ ~Refused
  /\ partial' = Empty /\ partialWal' = TRUE
  /\ copying' = "tables" /\ strayed' = FALSE
  /\ UNCHANGED <<dest, destWal, copyFaults, littered>>

\* The ATTACH fails with the file there, and nobody to remove it yet.
AttachFails ==
  /\ copying = "off" /\ ~Refused
  /\ CopyFault
  /\ partial' = Empty /\ littered' = TRUE
  /\ UNCHANGED <<dest, destWal, partialWal, copying, strayed>>

\* One transaction: the DDL and INSERT ... SELECT *.
CopyTable ==
  /\ copying = "tables" /\ Len(partial.rows) < Len(TableRows)
  /\ partial' = [partial EXCEPT !.rows = Append(@, TableRows[Len(@) + 1])]
  /\ UNCHANGED <<dest, destWal, partialWal, copying, copyFaults, littered, strayed>>

\* A statement that does less than it reports.
CopyLess ==
  /\ copying = "tables" /\ Len(partial.rows) < Len(TableRows)
  /\ CopyFault
  /\ \E n \in 0 .. TableRows[Len(partial.rows) + 1] - 1 :
       partial' = [partial EXCEPT !.rows = Append(@, n)]
  /\ UNCHANGED <<dest, destWal, partialWal, copying, littered, strayed>>

CreateIndex ==
  /\ copying = "tables" /\ Len(partial.rows) = Len(TableRows)
  /\ \E i \in Indexes \ partial.indexes :
       partial' = [partial EXCEPT !.indexes = @ \cup {i}]
  /\ UNCHANGED <<dest, destWal, partialWal, copying, copyFaults, littered, strayed>>

\* An index that is not there although its statement succeeded.
SkipIndexes ==
  /\ copying = "tables" /\ Len(partial.rows) = Len(TableRows)
  /\ partial.indexes # Indexes
  /\ CopyFault
  /\ copying' = "verify"
  /\ UNCHANGED <<dest, destWal, partial, partialWal, littered, strayed>>

AllCreated ==
  /\ copying = "tables" /\ Len(partial.rows) = Len(TableRows)
  /\ partial.indexes = Indexes
  /\ copying' = "verify"
  /\ UNCHANGED <<dest, destWal, partial, partialWal, copyFaults, littered, strayed>>

VerifiedIndexesOnly == partial.indexes = Indexes  \* mutant: the counts are not compared
\* verify: every row count, and the set of indexes.
Verified ==
  /\ \A t \in DOMAIN TableRows : partial.rows[t] = TableRows[t]
  /\ partial.indexes = Indexes

Verify ==
  /\ copying = "verify" /\ Verified
  /\ copying' = "checkpoint"
  /\ UNCHANGED <<dest, destWal, partial, partialWal, copyFaults, littered, strayed>>

\* CHECKPOINT and DETACH; a WAL that outlives them is looked for next.
Detach ==
  /\ copying = "checkpoint"
  /\ \/ partialWal' = FALSE /\ UNCHANGED copyFaults
     \/ CopyFault /\ UNCHANGED partialWal
  /\ copying' = "rename"
  /\ UNCHANGED <<dest, destWal, partial, littered, strayed>>

\* Over whatever has come there since refuse_existing.
MoveIntoPlace ==
  /\ copying = "rename" /\ ~partialWal
  /\ dest' = partial /\ partial' = Nothing
  /\ copying' = "off"
  /\ UNCHANGED <<destWal, partialWal, copyFaults, littered, strayed>>

-------------------------------------------------------------------------------
(* How it ends otherwise                                                   *)

Bails == \/ copying = "verify" /\ ~Verified
         \/ copying = "rename" /\ partialWal

\* PartialCopy::drop: both files, each removal on its own.
Drop(kept) ==
  /\ partial' = IF "partial" \in kept THEN partial ELSE Nothing
  /\ partialWal' = ("wal" \in kept /\ partialWal)
  /\ littered' = (littered \/ kept # {})
  /\ copying' = "off"
  /\ UNCHANGED <<dest, destWal, strayed>>

\* A check that does not hold, or Ctrl-C or a failed statement or rename.
Fail ==
  /\ copying # "off"
  /\ (Bails /\ UNCHANGED copyFaults) \/ CopyFault
  /\ Drop({})

\* The clean-up fails as well.
FailLittering ==
  /\ copying # "off"
  /\ CopyFault
  /\ \E kept \in {{"partial"}, {"wal"}, {"partial", "wal"}} : Drop(kept)

CopyCrash ==
  /\ copying # "off"
  /\ CopyFault
  /\ copying' = "off" /\ littered' = TRUE
  /\ UNCHANGED <<dest, destWal, partial, partialWal, strayed>>

CopyNext ==
  \/ Stray \/ TakeAway
  \/ StartCopy \/ AttachFails \/ CopyTable \/ CopyLess \/ CreateIndex \/ SkipIndexes \/ AllCreated
  \/ Verify \/ Detach \/ MoveIntoPlace
  \/ Fail \/ FailLittering \/ CopyCrash

-------------------------------------------------------------------------------
(* Properties.                                                             *)

\* A file at <dest> is complete or not the copy's, and no WAL lies by that would
\* be replayed into it unless somebody put it there while the copy ran; a run
\* that fails leaves nothing to trip the next one unless it was killed or could
\* not clean up (db_copy.rs:40-44, :166-168, :208).
DestIsComplete ==
  /\ dest \in {Nothing, Foreign, Source}
  /\ copying # "off" /\ ~strayed => dest = Nothing /\ ~destWal
  /\ copying = "off" /\ ~littered => partial = Nothing /\ ~partialWal

\* "Never overwrite anything" (db_copy.rs:206): a file of others at <dest> stays
\* until they take it away.
NeverOverwritten == [][dest = Foreign => dest' \in {Foreign, Nothing}]_dest
===============================================================================
