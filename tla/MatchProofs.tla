----------------------------- MODULE MatchProofs -----------------------------
(***************************************************************************)
(* What the match queue and the match rule promise: MatchDrain, for every  *)
(* set of cells, producers and failing cells and every batch size, and     *)
(* MatchRule, for every set of records and OSM objects and every size of   *)
(* cell, grid, key and distance the code's tests allow.                    *)
(***************************************************************************)
EXTENDS MatchDrain, MatchRule, FiniteSetTheorems, WellFoundedInduction, TLAPS

-------------------------------------------------------------------------------
(* The helpers                                                             *)

\* A non-empty set of times has a least one, so ORDER BY MIN(enqueued_at) is
\* defined for every cell the read returns.
LEMMA LeastTime ==
  ASSUME NEW S \in SUBSET Nat, S # {}
  PROVE  \E t \in S : \A u \in S : t <= u
<1>1. \E t \in S : \A u \in S : <<u, t>> \notin OpToRel(<, Nat)
  BY WFMin, NatLessThanWellFounded
<1>2. \A t, u \in S : <<u, t>> \notin OpToRel(<, Nat) => t <= u
  BY DEF OpToRel
<1> QED
  BY <1>1, <1>2

\* A cell the read returns has an age: the time of one of its rows.
LEMMA OldestOfType ==
  ASSUME TypeOK, NEW c \in Waiting
  PROVE  OldestOf(c) \in Nat
<1>1. EnqueuedAt(c) \in SUBSET Nat /\ EnqueuedAt(c) # {}
  BY DEF TypeOK, Row, EnqueuedAt, Waiting
<1>2. \E t \in EnqueuedAt(c) : \A u \in EnqueuedAt(c) : t <= u
  BY <1>1, LeastTime
<1>3. OldestOf(c) \in EnqueuedAt(c)
  BY <1>2 DEF OldestOf
<1> QED
  BY <1>1, <1>3

\* A selection in age order selects from its set.
LEMMA FirstsSubset ==
  ASSUME NEW S, NEW f, NEW n, NEW F \in Firsts(S, f, n)
  PROVE  F \subseteq S
BY DEF Firsts

-------------------------------------------------------------------------------
(* Type correctness                                                        *)

\* The transaction's scratch state cleared, or the batch's as well.
LEMMA ReturnType ==
  /\ ClearTxn => /\ group' \subseteq Cells /\ left' \subseteq Cells
                 /\ done' \subseteq Cells
                 /\ snapInput' \in [Cells -> Nat] /\ snapQueue' \subseteq Row
  /\ Return => /\ phase' \in Phases /\ todo' \subseteq Cells
               /\ age' \in [Cells -> Nat] /\ ClearTxn
BY DEF ClearTxn, Return, Zero, Phases

\* What a commit of the cells of S makes of the committed state.
LEMMA CommitCellsType ==
  ASSUME TypeOK, NEW S \in SUBSET Cells, CommitCells(S)
  PROVE  /\ input' \in [Cells -> Nat] /\ served' \in [Cells -> Nat]
         /\ queue' \subseteq Row /\ tileQueue' \subseteq Cells
BY DEF TypeOK, CommitCells, Recomputed, EnqueueTiles

\* At the start every variable has its type.
LEMMA TypeInit == Init => TypeOK
<1> SUFFICES ASSUME Init
             PROVE  TypeOK
  OBVIOUS
<1>1. Zero \in [Cells -> Nat]
  BY DEF Zero
<1>2. queue \subseteq Row /\ snapQueue \subseteq Row
  BY DEF Init, Row
<1>3. prod \in [Producers -> Txn]
  BY DEF Init, NoTxn, Txn
<1> QED
  BY <1>1, <1>2, <1>3 DEF Init, TypeOK, Phases

\* One step of a producer.
LEMMA TypeProducer ==
  ASSUME TypeOK, NEW p \in Producers,
         BeginChange(p) \/ CommitChange(p) \/ AbortChange(p)
  PROVE  TypeOK'
<1> USE DEF TypeOK, committed, batchVars, txnVars
<1>1. NoTxn \in Txn
  BY DEF NoTxn, Txn
<1>2. CASE BeginChange(p)
  BY <1>2 DEF BeginChange, Txn
<1>3. CASE CommitChange(p)
  <2>1. input' \in [Cells -> Nat]
    BY <1>3 DEF CommitChange
  <2>2. prod[p].cells \subseteq Cells /\ prod[p].at \in Nat
    BY DEF Txn
  <2>3. RowsOf(prod[p].cells, prod[p].at, input') \subseteq Row
    BY <2>1, <2>2 DEF RowsOf, Row
  <2> QED
    BY <1>1, <1>3, <2>1, <2>3 DEF CommitChange
<1>4. CASE AbortChange(p)
  BY <1>1, <1>4 DEF AbortChange
<1> QED
  BY <1>2, <1>3, <1>4

\* One step of drain_batch.
LEMMA TypeDrain ==
  ASSUME TypeOK, Drain
  PROVE  TypeOK'
<1> USE DEF TypeOK, committed, batchVars, txnVars
<1>0. Fault => faults' \in Nat
  BY DEF Fault
<1>1. CASE StartBatch
  BY <1>1 DEF StartBatch, Phases
<1>2. CASE ReadBatch
  <2>1. age' \in [Cells -> Nat]
    BY <1>2, OldestOfType DEF ReadBatch
  <2>2. todo' \subseteq Cells
    BY <1>2, FirstsSubset DEF ReadBatch, Waiting
  <2>3. phase' \in Phases
    BY <1>2 DEF ReadBatch, Phases
  <2> QED
    BY <1>2, <2>1, <2>2, <2>3 DEF ReadBatch
<1>3. CASE BeginGroup
  BY <1>3, FirstsSubset DEF BeginGroup, Snapshot, Phases
<1>4. CASE DrainOneCell
  BY <1>4 DEF DrainOneCell
<1>5. CASE GroupFails
  BY <1>0, <1>5 DEF GroupFails, Phases
<1>6. CASE GroupCommit
  <2>1. /\ input' \in [Cells -> Nat] /\ served' \in [Cells -> Nat]
        /\ queue' \subseteq Row /\ tileQueue' \subseteq Cells
    BY <1>6, CommitCellsType DEF GroupCommit
  <2>2. /\ phase' \in Phases /\ todo' \subseteq Cells
        /\ age' \in [Cells -> Nat] /\ ClearTxn
    BY <1>6, ReturnType DEF GroupCommit, Phases
  <2> QED
    BY <1>6, <2>1, <2>2, ReturnType DEF GroupCommit
<1>7. CASE GroupTxnFails
  BY <1>0, <1>7, ReturnType DEF GroupTxnFails
<1>8. CASE RollbackGroup
  BY <1>8 DEF RollbackGroup, Phases, Zero
<1>9. CASE ReplayBegin
  BY <1>9 DEF ReplayBegin, Snapshot, Phases
<1>10. CASE ReplayCommit
  <2>1. /\ input' \in [Cells -> Nat] /\ served' \in [Cells -> Nat]
        /\ queue' \subseteq Row /\ tileQueue' \subseteq Cells
    BY <1>10, CommitCellsType DEF ReplayCommit
  <2> QED
    BY <1>10, <2>1 DEF ReplayCommit, Phases, Zero
<1>11. CASE ReplayFails
  BY <1>0, <1>11 DEF ReplayFails, Phases, Zero
<1>12. CASE ReplayEnd
  <2>1. /\ phase' \in Phases /\ todo' \subseteq Cells
        /\ age' \in [Cells -> Nat] /\ ClearTxn
    BY <1>12, ReturnType DEF ReplayEnd, Phases
  <2> QED
    BY <1>0, <1>12, <2>1, ReturnType DEF ReplayEnd
<1> QED
  BY <1>1, <1>2, <1>3, <1>4, <1>5, <1>6, <1>7, <1>8, <1>9, <1>10, <1>11, <1>12
  DEF Drain

\* One step of anything else.
LEMMA TypeSurroundings ==
  ASSUME TypeOK, Tick \/ EnqueueAll \/ Cancel \/ Crash \/ RefreshTiles
  PROVE  TypeOK'
<1> USE DEF TypeOK, committed, batchVars, txnVars
<1>1. CASE Tick
  BY <1>1 DEF Tick
<1>2. CASE EnqueueAll
  <2>1. RowsOf(Cells, clock, Zero) \subseteq Row
    BY DEF RowsOf, Row, Zero
  <2> QED
    BY <1>2, <2>1 DEF EnqueueAll
<1>3. CASE Cancel
  BY <1>3 DEF Cancel, Fault
<1>4. CASE Crash
  <2>1. prod' \in [Producers -> Txn]
    BY <1>4 DEF Crash, NoTxn, Txn
  <2> QED
    BY <1>4, <2>1, ReturnType DEF Crash, Fault
<1>5. CASE RefreshTiles
  BY <1>5 DEF RefreshTiles
<1> QED
  BY <1>1, <1>2, <1>3, <1>4, <1>5

\* Every action of the queue, the drain and the passes keeps the types.
LEMMA TypeNext == TypeOK /\ [Next]_vars => TypeOK'
<1> SUFFICES ASSUME TypeOK, [Next]_vars
             PROVE  TypeOK'
  OBVIOUS
<1>1. CASE UNCHANGED vars
  BY <1>1 DEF vars, TypeOK
<1>2. CASE Next
  BY <1>2, TypeProducer, TypeDrain, TypeSurroundings DEF Next
<1> QED
  BY <1>1, <1>2

\* Every reachable state is well typed.
THEOREM TypeCorrect == Spec => []TypeOK
BY TypeInit, TypeNext, PTL DEF Spec

-------------------------------------------------------------------------------
(* No update is lost                                                       *)

\* A transaction of the drain is open.
InTxn == phase \in {"cells", "failed", "one"}

\* The strengthening of NewerInputQueued.  A recompute is never ahead of its
\* input, a row never carries a version its cell has not reached, and while a
\* transaction is open its snapshot is at least as new as what is served, not
\* newer than the input, and holds no row newer than itself: so what it
\* deletes is what its recompute has read.
NoLostUpdate ==
  /\ \A c \in Cells : served[c] <= input[c]
  /\ \A r \in queue : r.cell \in Cells => r.ver <= input[r.cell]
  /\ InTxn =>
       /\ \A c \in Cells : served[c] <= snapInput[c] /\ snapInput[c] <= input[c]
       /\ \A r \in snapQueue : r.cell \in Cells => r.ver <= snapInput[r.cell]
  /\ NewerInputQueued

\* At the start every cell is served what it holds, so nothing can be lost.
LEMMA NoLostUpdateInit == Init => NoLostUpdate
BY DEF Init, NoLostUpdate, NewerInputQueued, InTxn, Zero

\* A commit of any cells keeps it: the rows it deletes are in its snapshot, so
\* they ask for nothing the recompute did not read.
LEMMA CommitKeeps ==
  ASSUME TypeOK, NoLostUpdate, InTxn,
         NEW S \in SUBSET Cells, CommitCells(S)
  PROVE  /\ \A c \in Cells : served'[c] <= input'[c]
         /\ \A r \in queue' : r.cell \in Cells => r.ver <= input'[r.cell]
         /\ NewerInputQueued'
<1>1. /\ input' = input /\ queue' = queue \ Deleted(S)
      /\ served' = [c \in Cells |-> IF c \in S THEN snapInput[c] ELSE served[c]]
  BY DEF CommitCells, Recomputed
<1>2. input \in [Cells -> Nat] /\ served \in [Cells -> Nat]
      /\ snapInput \in [Cells -> Nat]
  BY DEF TypeOK
<1>3. \A c \in Cells : served'[c] <= input'[c]
  BY <1>1, <1>2 DEF NoLostUpdate
<1>4. \A r \in queue' : r.cell \in Cells => r.ver <= input'[r.cell]
  BY <1>1 DEF NoLostUpdate
<1>5. ASSUME NEW c \in Cells, NEW v \in (served'[c] + 1)..input'[c]
      PROVE  \E r \in queue' : r.cell = c /\ r.ver = v
  <2>1. v \in (served[c] + 1)..input[c] /\ (c \in S => v > snapInput[c])
    BY <1>1, <1>2 DEF NoLostUpdate
  <2>2. PICK r \in queue : r.cell = c /\ r.ver = v
    BY <2>1 DEF NoLostUpdate, NewerInputQueued
  <2>3. r \notin Deleted(S)
    <3> SUFFICES ASSUME r \in snapQueue, c \in S
                 PROVE  FALSE
      BY <2>2 DEF Deleted
    <3>1. r.ver <= snapInput[c]
      BY <2>2 DEF NoLostUpdate
    <3> QED
      BY <1>2, <2>1, <2>2, <3>1
  <2> QED
    BY <1>1, <2>2, <2>3
<1> QED
  BY <1>3, <1>4, <1>5 DEF NewerInputQueued

\* A step that leaves the inputs, the served versions and the snapshot alone
\* and deletes no row of a real cell keeps it, provided it opens no
\* transaction and adds rows without a version only.
LEMMA QuietKeeps ==
  ASSUME TypeOK, NoLostUpdate,
         UNCHANGED <<input, served>>,
         \A r \in queue : r.cell \in Cells => r \in queue',
         \A r \in queue' : r \in queue \/ r.ver = 0,
         InTxn' => InTxn /\ UNCHANGED <<snapInput, snapQueue>>
  PROVE  NoLostUpdate'
<1>1. NewerInputQueued'
  BY DEF NoLostUpdate, NewerInputQueued
<1>2. \A r \in queue' : r.cell \in Cells => r.ver <= input'[r.cell]
  <2>1. \A c \in Cells : 0 <= input[c]
    BY DEF TypeOK
  <2> QED
    BY <2>1 DEF NoLostUpdate
<1> QED
  BY <1>1, <1>2 DEF NoLostUpdate

\* A transaction opens on the present state.
LEMMA SnapshotKeeps ==
  ASSUME TypeOK, NoLostUpdate, Snapshot, UNCHANGED <<input, served, queue>>
  PROVE  NoLostUpdate'
<1>1. \A c \in Cells : input[c] <= input[c]
  BY DEF TypeOK
<1> QED
  BY <1>1 DEF NoLostUpdate, NewerInputQueued, Snapshot

\* A producer publishes the new versions together with their rows.
LEMMA ChangeKeeps ==
  ASSUME TypeOK, NoLostUpdate, NEW p \in Producers, CommitChange(p)
  PROVE  NoLostUpdate'
<1> DEFINE S == prod[p].cells
<1>0. /\ input \in [Cells -> Nat] /\ served \in [Cells -> Nat]
      /\ snapInput \in [Cells -> Nat] /\ queue \subseteq Row
  BY DEF TypeOK
<1>1. /\ input' = [c \in Cells |-> IF c \in S THEN input[c] + 1 ELSE input[c]]
      /\ queue' = queue \cup RowsOf(S, prod[p].at, input')
      /\ UNCHANGED <<served, snapInput, snapQueue, phase>>
  BY DEF CommitChange, txnVars
<1>2. \A c \in Cells : input[c] <= input'[c]
  BY <1>0, <1>1
<1>3. \A c \in Cells : served'[c] <= input'[c]
  BY <1>0, <1>1 DEF NoLostUpdate
<1>4. \A r \in queue' : r.cell \in Cells => r.ver <= input'[r.cell]
  <2> SUFFICES ASSUME NEW r \in queue', r.cell \in Cells
               PROVE  r.ver <= input'[r.cell]
    OBVIOUS
  <2>1. CASE r \in queue
    <3>1. r.ver \in Nat /\ r.ver <= input[r.cell]
      BY <1>0, <2>1 DEF NoLostUpdate, Row
    <3> QED
      BY <1>0, <1>1, <3>1
  <2>2. CASE r \in RowsOf(S, prod[p].at, input')
    <3>1. r.ver = input'[r.cell]
      BY <2>2 DEF RowsOf
    <3> QED
      BY <1>0, <1>1, <3>1
  <2> QED
    BY <1>1, <2>1, <2>2
<1>5. InTxn' =>
        /\ \A c \in Cells : served'[c] <= snapInput'[c]
                           /\ snapInput'[c] <= input'[c]
        /\ \A r \in snapQueue' : r.cell \in Cells => r.ver <= snapInput'[r.cell]
  BY <1>0, <1>1 DEF NoLostUpdate, InTxn
<1>6. ASSUME NEW c \in Cells, NEW v \in (served'[c] + 1)..input'[c]
      PROVE  \E r \in queue' : r.cell = c /\ r.ver = v
  <2>1. CASE v \in (served[c] + 1)..input[c]
    BY <1>1, <2>1 DEF NoLostUpdate, NewerInputQueued
  <2>2. CASE v \notin (served[c] + 1)..input[c]
    <3>1. c \in S /\ v = input'[c]
      BY <1>0, <1>1, <2>2
    <3>2. [cell |-> c, at |-> prod[p].at, ver |-> input'[c]] \in queue'
      BY <1>1, <3>1 DEF RowsOf
    <3> QED
      BY <3>1, <3>2
  <2> QED
    BY <2>1, <2>2
<1> QED
  BY <1>3, <1>4, <1>5, <1>6 DEF NoLostUpdate, NewerInputQueued

\* One step of drain_batch.
LEMMA DrainKeeps ==
  ASSUME TypeOK, NoLostUpdate, Drain
  PROVE  NoLostUpdate'
<1> USE DEF committed, batchVars, txnVars
<1>1. CASE StartBatch
  BY <1>1, QuietKeeps DEF StartBatch, InTxn
<1>2. CASE ReadBatch
  <2>1. \A r \in queue : r.cell \in Cells => r \in queue'
    BY <1>2, CellsAssumption DEF ReadBatch, Purged
  <2>2. \A r \in queue' : r \in queue
    BY <1>2 DEF ReadBatch
  <2>3. phase' \in {"idle", "next"}
    BY <1>2 DEF ReadBatch
  <2> QED
    BY <1>2, <2>1, <2>2, <2>3, QuietKeeps DEF ReadBatch, InTxn
<1>3. CASE BeginGroup
  BY <1>3, SnapshotKeeps DEF BeginGroup
<1>4. CASE DrainOneCell
  BY <1>4, QuietKeeps DEF DrainOneCell, InTxn
<1>5. CASE GroupFails
  BY <1>5, QuietKeeps DEF GroupFails, InTxn
<1>6. CASE GroupCommit
  <2>1. done \in SUBSET Cells /\ InTxn
    BY <1>6 DEF GroupCommit, InTxn, TypeOK
  <2>2. ~InTxn'
    BY <1>6 DEF GroupCommit, Return, InTxn
  <2> QED
    BY <1>6, <2>1, <2>2, CommitKeeps DEF GroupCommit, NoLostUpdate
<1>7. CASE GroupTxnFails
  BY <1>7, QuietKeeps DEF GroupTxnFails, Return, InTxn
<1>8. CASE RollbackGroup
  BY <1>8, QuietKeeps DEF RollbackGroup, InTxn
<1>9. CASE ReplayBegin
  BY <1>9, SnapshotKeeps DEF ReplayBegin
<1>10. CASE ReplayCommit
  <2>1. done \in SUBSET Cells /\ InTxn
    BY <1>10 DEF ReplayCommit, InTxn, TypeOK
  <2>2. ~InTxn'
    BY <1>10 DEF ReplayCommit, InTxn
  <2> QED
    BY <1>10, <2>1, <2>2, CommitKeeps DEF ReplayCommit, NoLostUpdate
<1>11. CASE ReplayFails
  BY <1>11, QuietKeeps DEF ReplayFails, InTxn
<1>12. CASE ReplayEnd
  BY <1>12, QuietKeeps DEF ReplayEnd, Return, InTxn
<1> QED
  BY <1>1, <1>2, <1>3, <1>4, <1>5, <1>6, <1>7, <1>8, <1>9, <1>10, <1>11, <1>12
  DEF Drain

\* The induction step: whatever the drain, its producers, a failure or a crash
\* does, a cell that is behind its input keeps the row that says so.
LEMMA NoLostUpdateNext == TypeOK /\ NoLostUpdate /\ [Next]_vars => NoLostUpdate'
<1> SUFFICES ASSUME TypeOK, NoLostUpdate, [Next]_vars
             PROVE  NoLostUpdate'
  OBVIOUS
<1> USE DEF committed, batchVars, txnVars
<1>1. CASE UNCHANGED vars
  BY <1>1, QuietKeeps DEF vars, InTxn
<1>2. CASE Tick
  BY <1>2, QuietKeeps DEF Tick, InTxn
<1>3. ASSUME NEW p \in Producers,
             BeginChange(p) \/ CommitChange(p) \/ AbortChange(p)
      PROVE  NoLostUpdate'
  <2>1. CASE BeginChange(p)
    BY <2>1, QuietKeeps DEF BeginChange, InTxn
  <2>2. CASE CommitChange(p)
    BY <2>2, ChangeKeeps
  <2>3. CASE AbortChange(p)
    BY <2>3, QuietKeeps DEF AbortChange, InTxn
  <2> QED
    BY <1>3, <2>1, <2>2, <2>3
<1>4. CASE EnqueueAll
  BY <1>4, QuietKeeps DEF EnqueueAll, RowsOf, Zero, InTxn
<1>5. CASE Drain
  BY <1>5, DrainKeeps
<1>6. CASE Cancel
  BY <1>6, QuietKeeps DEF Cancel, InTxn
<1>7. CASE Crash
  BY <1>7, QuietKeeps DEF Crash, Return, InTxn
<1>8. CASE RefreshTiles
  BY <1>8, QuietKeeps DEF RefreshTiles, InTxn
<1> QED
  BY <1>1, <1>2, <1>3, <1>4, <1>5, <1>6, <1>7, <1>8 DEF Next

\* Types and bookkeeping together hold of every run.
LEMMA Invariance == Spec => [](TypeOK /\ NoLostUpdate)
BY TypeInit, TypeNext, NoLostUpdateInit, NoLostUpdateNext, PTL DEF Spec

\* No interleaving of producers, drain, failures, cancellations and crashes
\* deletes a queue row whose change has not been recomputed.
THEOREM NothingLost == Spec => []NewerInputQueued
<1>1. NoLostUpdate => NewerInputQueued
  BY DEF NoLostUpdate
<1> QED
  BY <1>1, Invariance, PTL

-------------------------------------------------------------------------------
(* The tile enqueue                                                        *)

\* A commit queues the tile of every cell whose rows it changes.
LEMMA CommitTiles ==
  ASSUME TypeOK, NEW S \in SUBSET Cells, CommitCells(S),
         NEW c \in Cells, served'[c] # served[c]
  PROVE  c \in tileQueue'
BY DEF TypeOK, CommitCells, Recomputed, EnqueueTiles

\* Whatever path commits a recompute, its tiles are enqueued with it.
THEOREM TilesEnqueued == Spec => TileRowWithRecompute
<1>1. ASSUME TypeOK, [Next]_vars, NEW c \in Cells, served'[c] # served[c]
      PROVE  c \in tileQueue'
  <2> USE DEF committed
  <2>1. CASE GroupCommit
    BY <1>1, <2>1, CommitTiles DEF GroupCommit, TypeOK
  <2>2. CASE ReplayCommit
    BY <1>1, <2>2, CommitTiles DEF ReplayCommit, TypeOK
  <2>3. CASE ~GroupCommit /\ ~ReplayCommit
    <3>1. UNCHANGED served
      BY <1>1, <2>3
      DEF Next, Drain, vars, Tick, BeginChange, CommitChange, AbortChange,
          EnqueueAll, StartBatch, ReadBatch, BeginGroup, DrainOneCell, GroupFails,
          GroupTxnFails, RollbackGroup, ReplayBegin, ReplayFails, ReplayEnd,
          Cancel, Crash, RefreshTiles
    <3> QED
      BY <1>1, <3>1
  <2> QED
    BY <2>1, <2>2, <2>3
<1>2. TypeOK /\ [Next]_vars
        => [\A c \in Cells : served'[c] # served[c] => c \in tileQueue']_vars
  BY <1>1
<1> QED
  BY <1>2, TypeCorrect, PTL DEF Spec, TileRowWithRecompute

-------------------------------------------------------------------------------
(* The refinement                                                          *)

Pending == {c \in Cells : \E r \in queue : r.cell = c}

\* A cell whose last row is gone is up to date.
UnqueuedIsServed == \A c \in Cells \ Pending : served[c] = input[c]

\* The induction invariant leaves no cell behind without a row.
LEMMA Unqueued == TypeOK /\ NoLostUpdate => UnqueuedIsServed
<1> SUFFICES ASSUME TypeOK, NoLostUpdate, NEW c \in Cells \ Pending
             PROVE  served[c] = input[c]
  BY DEF UnqueuedIsServed
<1>1. served[c] \in Nat /\ input[c] \in Nat /\ served[c] <= input[c]
  BY DEF TypeOK, NoLostUpdate
<1>2. CASE served[c] < input[c]
  <2>1. input[c] \in (served[c] + 1)..input[c]
    BY <1>1, <1>2
  <2>2. \E r \in queue : r.cell = c
    BY <2>1 DEF NoLostUpdate, NewerInputQueued
  <2> QED
    BY <2>2 DEF Pending
<1> QED
  BY <1>1, <1>2

\* A commit is a Refresh of the abstract queue.
LEMMA CommitRefreshes ==
  ASSUME TypeOK, NoLostUpdate, InTxn, TypeOK', NoLostUpdate',
         NEW S \in SUBSET Cells, CommitCells(S)
  PROVE  Serving!Refresh
<1>1. UNCHANGED input /\ queue' \subseteq queue
  BY DEF CommitCells
<1>2. served' \in [Cells -> Nat]
  BY DEF TypeOK
<1>3. \A c \in Cells : served[c] <= served'[c] /\ served'[c] <= input[c]
  <2>1. served' = [c \in Cells |-> IF c \in S THEN snapInput[c] ELSE served[c]]
    BY DEF CommitCells, Recomputed
  <2>2. \A c \in Cells : served[c] \in Nat /\ snapInput[c] \in Nat
    BY DEF TypeOK
  <2> QED
    BY <2>1, <2>2 DEF NoLostUpdate
<1>4. Pending' \subseteq Pending
  BY <1>1 DEF Pending
<1>5. \A c \in Pending \ Pending' : served'[c] = input[c]
  <2>1. UnqueuedIsServed'
    BY Unqueued, PTL
  <2> QED
    BY <1>1, <2>1 DEF UnqueuedIsServed, Pending
<1> QED
  BY <1>1, <1>2, <1>3, <1>4, <1>5 DEF Serving!Refresh, Pending

\* A published change is a Change of the abstract queue.
LEMMA ChangeChanges ==
  ASSUME TypeOK, TypeOK', NEW p \in Producers, CommitChange(p)
  PROVE  Serving!Change
<1> DEFINE S == prod[p].cells
<1>0. input \in [Cells -> Nat] /\ input' \in [Cells -> Nat]
  BY DEF TypeOK
<1>1. /\ input' = [c \in Cells |-> IF c \in S THEN input[c] + 1 ELSE input[c]]
      /\ queue' = queue \cup RowsOf(S, prod[p].at, input')
      /\ UNCHANGED served
  BY DEF CommitChange
<1>2. \A c \in Cells : input[c] <= input'[c]
  BY <1>0, <1>1
<1>3. Pending' \subseteq Cells /\ Pending \subseteq Pending'
  BY <1>1 DEF Pending
<1>4. ASSUME NEW c \in Cells, input'[c] # input[c]
      PROVE  c \in Pending'
  <2>1. c \in S
    BY <1>0, <1>1, <1>4
  <2>2. [cell |-> c, at |-> prod[p].at, ver |-> input'[c]] \in queue'
    BY <1>1, <2>1 DEF RowsOf
  <2> QED
    BY <2>2 DEF Pending
<1> QED
  BY <1>0, <1>1, <1>2, <1>3, <1>4 DEF Serving!Change, Pending

\* A sweep adds pending cells; nothing else touches them but a commit.
LEMMA SweepChanges ==
  ASSUME TypeOK, EnqueueAll
  PROVE  Serving!Change
<1>0. input \in [Cells -> Nat]
  BY DEF TypeOK
<1>1. UNCHANGED <<input, served>> /\ queue \subseteq queue'
  BY DEF EnqueueAll
<1>2. Pending' \subseteq Cells /\ Pending \subseteq Pending'
  BY <1>1 DEF Pending
<1>3. \A c \in Cells : input[c] <= input'[c]
  BY <1>0, <1>1
<1> QED
  BY <1>0, <1>1, <1>2, <1>3 DEF Serving!Change, Pending

\* Purging rows of unknown sources is invisible to the abstract queue.
LEMMA PurgeStutters ==
  ASSUME ReadBatch
  PROVE  UNCHANGED Serving!vars
<1>1. UNCHANGED <<input, served>> /\ queue' = queue \ Purged
  BY DEF ReadBatch
<1>2. Pending' = Pending
  BY <1>1, CellsAssumption DEF Pending, Purged
<1> QED
  BY <1>1, <1>2 DEF Serving!vars, Pending

\* Every step is a step of the abstract queue or invisible to it.
LEMMA RefinementStep ==
  ASSUME TypeOK, NoLostUpdate, TypeOK', NoLostUpdate', [Next]_vars
  PROVE  [Serving!Next]_(Serving!vars)
<1> USE DEF committed
<1>1. ASSUME UNCHANGED <<input, served, queue>>
      PROVE  UNCHANGED Serving!vars
  BY <1>1 DEF Serving!vars
<1>2. CASE \E p \in Producers : CommitChange(p)
  BY <1>2, ChangeChanges DEF Serving!Next
<1>3. CASE EnqueueAll
  BY <1>3, SweepChanges DEF Serving!Next
<1>4. CASE ReadBatch
  BY <1>4, PurgeStutters
<1>5. CASE GroupCommit \/ ReplayCommit
  <2>1. done \in SUBSET Cells /\ InTxn /\ CommitCells(done)
    BY <1>5 DEF GroupCommit, ReplayCommit, InTxn, TypeOK
  <2> QED
    BY <2>1, CommitRefreshes DEF Serving!Next
<1>6. CASE /\ ~(\E p \in Producers : CommitChange(p)) /\ ~EnqueueAll
           /\ ~ReadBatch /\ ~(GroupCommit \/ ReplayCommit)
  <2>1. UNCHANGED <<input, served, queue>>
    BY <1>6
    DEF Next, Drain, vars, Tick, BeginChange, AbortChange, StartBatch, BeginGroup,
        DrainOneCell, GroupFails, GroupTxnFails, RollbackGroup, ReplayBegin,
        ReplayFails, ReplayEnd, Cancel, Crash, RefreshTiles
  <2> QED
    BY <1>1, <2>1
<1> QED
  BY <1>2, <1>3, <1>4, <1>5, <1>6

\* The match queue implements a dirty-cell queue.
THEOREM ImplementsDerivedCells == Spec => ServingSpec
<1>1. Init => Serving!Init
  <2> SUFFICES ASSUME Init
               PROVE  Pending = {}
    BY DEF Init, Serving!Init, Zero, Pending
  <2> QED
    BY CellsAssumption DEF Init, Pending
<1>2. TypeOK /\ NoLostUpdate /\ (TypeOK /\ NoLostUpdate)' /\ [Next]_vars
        => [Serving!Next]_(Serving!vars)
  BY RefinementStep
<1> QED
  BY <1>1, <1>2, Invariance, PTL DEF Spec, ServingSpec, Serving!Spec

\* Unmatched rows that lag behind their cell's input are always in the queue,
\* so serving them without a read-time check is sound: what DerivedCells asks
\* of every reachable state.
THEOREM StaleIsQueued == Spec => []Serving!LaggingIsPending
<1>1. UnqueuedIsServed => Serving!LaggingIsPending
  BY DEF UnqueuedIsServed, Serving!LaggingIsPending, Pending
<1> QED
  BY <1>1, Unqueued, Invariance, PTL

-------------------------------------------------------------------------------
(* The match rule: the geometry                                            *)

\* What \div is, for a width: the floor.
LEMMA Floor ==
  ASSUME NEW x \in Int, NEW w \in Nat \ {0}
  PROVE  /\ x \div w \in Int
         /\ (x \div w) * w <= x
         /\ x < (x \div w) * w + w
BY SMT

\* A floor is the only multiple below within a width.
LEMMA FloorIs ==
  ASSUME NEW x \in Int, NEW k \in Int, NEW w \in Nat \ {0}, k * w <= x, x < k * w + w
  PROVE  x \div w = k
BY SMT

\* Floors keep the order.
LEMMA FloorRises ==
  ASSUME NEW x \in Int, NEW y \in Int, NEW w \in Nat \ {0}, x <= y
  PROVE  x \div w <= y \div w
BY SMT

\* A multiple below a number is below its floor.
LEMMA FloorAtLeast ==
  ASSUME NEW x \in Int, NEW k \in Int, NEW w \in Nat \ {0}, k * w <= x
  PROVE  k <= x \div w
BY SMT

\* Numbers a width apart at most have floors one apart at most.
LEMMA FloorNear ==
  ASSUME NEW x \in Int, NEW y \in Int, NEW w \in Nat \ {0}, x <= y, y - x <= w
  PROVE  y \div w - x \div w \in 0 .. 1
BY SMT

\* A multiple is its own floor.
LEMMA FloorOfMultiple ==
  ASSUME NEW k \in Int, NEW w \in Nat \ {0}
  PROVE  k * w \in Int /\ (k * w) % w = 0 /\ (k * w) \div w = k
BY SMT

\* The ends of an object, and the centroid between them.
LEMMA PointInside ==
  ASSUME NEW g, Extent(g)
  PROVE  /\ Lo(g) \in Int /\ Hi(g) \in Int /\ Point(g) \in Int
         /\ Lo(g) <= Point(g) /\ Point(g) <= Hi(g)
BY SMT DEF Extent, Point, Lo, Hi

\* A live record is a record of the layer.
LEMMA LiveRecord ==
  ASSUME RuleTypeOK, NEW i \in Live
  PROVE  /\ i \in Ids /\ gov[i] \in Records[layer] /\ gov[i] # Absent /\ Extent(gov[i])
         /\ CellAt(Point(gov[i])) \in MatchCells
         /\ layer = "addresses" => Lo(gov[i]) = Hi(gov[i])
BY ObjectsAssumption DEF RuleTypeOK, Live

\* An object of OSM is an object of the layer.
LEMMA LayersObject ==
  ASSUME layer \in Layers, NEW o \in OsmObjects[layer]
  PROVE  /\ layer \in {"buildings", "addresses"}
         /\ o # Absent /\ Extent(o)
         /\ layer = "buildings" => o.kind \in {"building", "former"}
         /\ layer = "addresses" => o.kind = "address" /\ Lo(o) = Hi(o)
BY ObjectsAssumption

\* The address matches only within the wider of the two distances.
LEMMA MatchesNear ==
  ASSUME NEW o, NEW g, Lo(o) \in Int, Lo(g) \in Int, AddressMatches(o, g)
  PROVE  Lo(g) - Lo(o) <= NameNear /\ Lo(o) - Lo(g) <= NameNear
BY DistancesAssumption DEF AddressMatches, Distance

\* The cell of a point, its two edges about the point.
LEMMA CellOf ==
  ASSUME NEW x \in Int
  PROVE  /\ CellAt(x) \in Int
         /\ BoxOf(CellAt(x)).lo \in Int /\ BoxOf(CellAt(x)).hi \in Int
         /\ BoxOf(CellAt(x)).lo = CellAt(x) * CellSize
         /\ BoxOf(CellAt(x)).hi = CellAt(x) * CellSize + CellSize
         /\ BoxOf(CellAt(x)).lo <= x /\ x < BoxOf(CellAt(x)).hi
<1> DEFINE k == x \div CellSize
<1>0. CellSize \in Nat \ {0}
  BY WidthsAssumption
<1>1. k \in Int /\ k * CellSize <= x /\ x < k * CellSize + CellSize
  BY <1>0, Floor
<1>2. k * CellSize \in Int /\ (k + 1) * CellSize = k * CellSize + CellSize
  BY <1>0, <1>1
<1>3. BoxOf(k).lo = k * CellSize /\ BoxOf(k).hi = (k + 1) * CellSize
  BY DEF BoxOf, Box
<1> QED
  BY <1>0, <1>1, <1>2, <1>3 DEF CellAt

-------------------------------------------------------------------------------
(* The match rule: what is computed is what the rule says                  *)

\* The object leaves the record alone, or lies where the record's cell does
\* not read it.
Spares(o, g) ==
  IF layer = "addresses" THEN ~AddressMatches(o, g)
  ELSE Meets(o, BoxOf(CellAt(Point(g)))) => ~Covers(o, g)

\* The rule, object by object.
LEMMA ProposedBySpares ==
  ASSUME NEW i
  PROVE  Proposed(i) <=> /\ Comparable(i) /\ i \notin reported
                         /\ \A j \in OsmIds : osm[j] # Absent => Spares(osm[j], gov[i])
BY DEF Proposed, Spares

\* The drain of a cell writes the records of it that the rule proposes: the
\* envelope it reads OSM from, buffered for addresses, holds all that matters.
LEMMA RecomputedIsProposed ==
  ASSUME RuleTypeOK, NEW i \in Live, NEW c, c = CellAt(Point(gov[i]))
  PROVE  i \in CandidatesOfCell(c) <=> Proposed(i)
<1> DEFINE g == gov[i]
<1>1. Extent(g) /\ (layer = "addresses" => Lo(g) = Hi(g))
  BY LiveRecord
<1>2. Lo(g) \in Int /\ Hi(g) \in Int /\ Point(g) \in Int /\ Lo(g) <= Point(g) /\ Point(g) <= Hi(g)
  BY <1>1, PointInside
<1>3. /\ c \in Int /\ BoxOf(c).lo \in Int /\ BoxOf(c).hi \in Int
      /\ BoxOf(c).lo <= Point(g) /\ Point(g) < BoxOf(c).hi
  BY <1>2, CellOf
<1>4. Point(g) \in BoxOf(c).lo .. BoxOf(c).hi
  BY <1>2, <1>3
<1>5. layer \in Layers /\ \A j \in OsmIds : osm[j] # Absent => osm[j] \in OsmObjects[layer]
  BY DEF RuleTypeOK
<1>6. layer \in {"buildings", "addresses"}
  BY <1>5, ObjectsAssumption
<1>7. CASE layer = "buildings"
  <2>1. CandidatesOfCell(c) = UnmatchedBuildings(BoxOf(c))
    BY <1>7 DEF CandidatesOfCell
  <2>2. (\A j \in OsmIds : osm[j] # Absent => Spares(osm[j], g))
          <=> ~OsmBuildingCovers(i, BoxOf(c)) /\ ~FormerBuildingCovers(i, BoxOf(c))
    <3>1. \A j \in OsmIds : osm[j] # Absent => osm[j].kind \in {"building", "former"}
      BY <1>5, <1>7, LayersObject
    <3>2. \A o : Spares(o, g) <=> ~(Meets(o, BoxOf(c)) /\ Covers(o, g))
      BY <1>7 DEF Spares
    <3> QED
      BY <3>1, <3>2 DEF OsmBuildingCovers, FormerBuildingCovers, Osm
  <2> QED
    BY <1>4, <2>1, <2>2, ProposedBySpares DEF UnmatchedBuildings
<1>8. CASE layer = "addresses"
  <2>1. CandidatesOfCell(c) = UnmatchedAddressesInCell(BoxOf(c), Buffered(BoxOf(c)))
    BY <1>8 DEF CandidatesOfCell
  <2>2. Comparable(i)
    BY <1>8 DEF Comparable
  <2>3. ASSUME NEW o \in OsmObjects[layer], AddressMatches(o, g)
        PROVE  o.kind = "address" /\ Meets(o, Buffered(BoxOf(c)))
    <3>1. Extent(o) /\ o.kind = "address" /\ Lo(o) = Hi(o)
      BY <1>5, <1>8, LayersObject
    <3>2. Lo(o) \in Int
      BY <3>1, PointInside
    <3>3. Lo(g) - Lo(o) <= NameNear /\ Lo(o) - Lo(g) <= NameNear
      BY <1>2, <2>3, <3>2, MatchesNear
    <3>4. Point(g) = Lo(g)
      BY <1>1, <1>2, <1>8
    <3>5. Buffered(BoxOf(c)).lo = BoxOf(c).lo - Buffer /\ Buffered(BoxOf(c)).hi = BoxOf(c).hi + Buffer
      BY DEF Buffered, Box
    <3>6. Lo(o) <= Buffered(BoxOf(c)).hi /\ Buffered(BoxOf(c)).lo <= Lo(o)
      BY <1>2, <1>3, <3>2, <3>3, <3>4, <3>5, DistancesAssumption
    <3> QED
      BY <3>1, <3>6 DEF Meets
  <2>4. (\A j \in OsmIds : osm[j] # Absent => Spares(osm[j], g))
          <=> ~\E o \in Osm("address", Buffered(BoxOf(c))) : AddressMatches(o, g)
    <3>1. \A o : Spares(o, g) <=> ~AddressMatches(o, g)
      BY <1>8 DEF Spares
    <3>2. \A j \in OsmIds : osm[j] # Absent /\ AddressMatches(osm[j], g) =>
            osm[j].kind = "address" /\ Meets(osm[j], Buffered(BoxOf(c)))
      BY <1>5, <2>3
    <3> QED
      BY <3>1, <3>2 DEF Osm
  <2> QED
    BY <1>4, <2>1, <2>2, <2>4, ProposedBySpares DEF UnmatchedAddressesInCell
<1> QED
  BY <1>6, <1>7, <1>8

\* Of finitely many numbers one is the least.
LEMMA LeastValue ==
  ASSUME NEW L, IsFiniteSet(L), L # {}, NEW f \in [L -> Int]
  PROVE  \E m \in L : \A l \in L : f[m] <= f[l]
<1> DEFINE Bad == {T \in SUBSET L : T # {} /\ ~\E m \in T : \A l \in T : f[m] <= f[l]}
<1>1. SUFFICES ASSUME Bad # {} PROVE FALSE
  OBVIOUS
<1>2. Bad \subseteq SUBSET L
  OBVIOUS
<1>3. IsWellFoundedOn(StrictSubsetOrdering(L), SUBSET L)
  BY FS_StrictSubsetOrderingWellFounded, FS_FiniteSubsetsOfFinite
<1>4. PICK T \in Bad : \A U \in Bad : <<U, T>> \notin StrictSubsetOrdering(L)
  <2> HIDE DEF Bad
  <2> QED
    BY <1>1, <1>2, <1>3, WFMin
<1>5. PICK x \in T : x \in L
  OBVIOUS
<1>6. <<T \ {x}, T>> \in StrictSubsetOrdering(L)
  BY <1>5 DEF StrictSubsetOrdering
<1>7. T \ {x} = {} \/ \E m \in T \ {x} : \A l \in T \ {x} : f[m] <= f[l]
  BY <1>4, <1>6
<1>8. CASE T \ {x} = {}
  <2>1. \A l \in T : f[x] <= f[l]
    BY <1>5, <1>8
  <2> QED
    BY <1>5, <2>1
<1>9. CASE \E m \in T \ {x} : \A l \in T \ {x} : f[m] <= f[l]
  <2>1. PICK m \in T \ {x} : \A l \in T \ {x} : f[m] <= f[l]
    BY <1>9
  <2>2. m \in L /\ x \in L /\ f[m] \in Int /\ f[x] \in Int /\ \A l \in T : f[l] \in Int
    BY <1>5, <2>1
  <2>3. CASE f[m] <= f[x]
    BY <2>1, <2>2, <2>3
  <2>4. CASE f[x] <= f[m]
    <3>1. \A l \in T : f[x] <= f[l]
      BY <2>1, <2>2, <2>4
    <3> QED
      BY <1>5, <3>1
  <2> QED
    BY <2>2, <2>3, <2>4
<1> QED
  BY <1>7, <1>8, <1>9

\* The grid of the full compare spans from the first end of any live record to
\* the last.
LEMMA ExtentSpans ==
  ASSUME RuleTypeOK, NEW i \in Live
  PROVE  /\ Min({Lo(gov[l]) : l \in Live}) \in Int /\ Max({Hi(gov[l]) : l \in Live}) \in Int
         /\ Min({Lo(gov[l]) : l \in Live}) <= Lo(gov[i])
         /\ Hi(gov[i]) <= Max({Hi(gov[l]) : l \in Live})
<1> DEFINE lo == [l \in Live |-> Lo(gov[l])]
           hi == [l \in Live |-> 0 - Hi(gov[l])]
<1>1. \A l \in Live : Lo(gov[l]) \in Int /\ Hi(gov[l]) \in Int
  BY LiveRecord, PointInside
<1>2. IsFiniteSet(Live)
  BY MatchCellsAssumption, FS_Subset DEF Live
<1>3. lo \in [Live -> Int] /\ hi \in [Live -> Int]
  BY <1>1
<1>4. PICK a \in Live : \A l \in Live : lo[a] <= lo[l]
  BY <1>2, <1>3, LeastValue
<1>5. PICK b \in Live : \A l \in Live : hi[b] <= hi[l]
  BY <1>2, <1>3, LeastValue
<1>6. \A l \in Live : Lo(gov[a]) <= Lo(gov[l])
  BY <1>4
<1>7. \A l \in Live : Hi(gov[l]) <= Hi(gov[b])
  BY <1>1, <1>5
<1> DEFINE S == {Lo(gov[l]) : l \in Live}
           R == {Hi(gov[l]) : l \in Live}
<1>8. Min(S) \in S /\ \A y \in S : Min(S) <= y
  BY <1>6 DEF Min
<1>9. Max(R) \in R /\ \A y \in R : y <= Max(R)
  <2>1. \E x \in R : \A y \in R : x >= y
    BY <1>1, <1>7
  <2>2. Max(R) \in R /\ \A y \in R : Max(R) >= y
    BY <2>1 DEF Max
  <2> QED
    BY <1>1, <2>2
<1> QED
  BY <1>1, <1>8, <1>9

\* The full compare of addresses writes what the rule proposes: a key is as wide
\* as the match distance, so what matters is in the keys next to the record's.
LEMMA ComparedAddress ==
  ASSUME RuleTypeOK, layer = "addresses", NEW i \in Live
  PROVE  i \in CompareAddresses <=> Proposed(i)
<1> DEFINE g == gov[i]
<1>1. Lo(g) \in Int
  BY LiveRecord, PointInside
<1>2. layer \in Layers /\ \A j \in OsmIds : osm[j] # Absent => osm[j] \in OsmObjects[layer]
  BY DEF RuleTypeOK
<1>3. GridKey \in Nat \ {0} /\ NameNear \in Nat /\ NameNear <= GridKey
  BY WidthsAssumption, DistancesAssumption
<1>4. ASSUME NEW j \in OsmIds, osm[j] # Absent, AddressMatches(osm[j], g)
      PROVE  Lo(osm[j]) \div GridKey - Lo(g) \div GridKey \in -1 .. 1
  <2> DEFINE x == Lo(osm[j])
             y == Lo(g)
  <2>1. x \in Int /\ y \in Int
    BY <1>1, <1>2, <1>4, LayersObject, PointInside
  <2>2. y - x <= NameNear /\ x - y <= NameNear
    BY <1>4, <2>1, MatchesNear
  <2>3. x \div GridKey \in Int /\ y \div GridKey \in Int
    BY <1>3, <2>1, Floor
  <2> HIDE DEF x, y
  <2>4. CASE x <= y
    <3>1. y - x <= GridKey
      BY <1>3, <2>1, <2>2
    <3>2. y \div GridKey - x \div GridKey \in 0 .. 1
      BY <1>3, <2>1, <2>4, <3>1, FloorNear
    <3> QED
      BY <2>3, <3>2 DEF x, y
  <2>5. CASE y <= x
    <3>1. x - y <= GridKey
      BY <1>3, <2>1, <2>2
    <3>2. x \div GridKey - y \div GridKey \in 0 .. 1
      BY <1>3, <2>1, <2>5, <3>1, FloorNear
    <3> QED
      BY <2>3, <3>2 DEF x, y
  <2> QED
    BY <2>1, <2>4, <2>5
<1>5. Comparable(i)
  BY DEF Comparable
<1>6. \A o : Spares(o, g) <=> ~AddressMatches(o, g)
  BY DEF Spares
<1>7. i \in CompareAddresses <=>
        /\ ~\E j \in OsmIds : osm[j] # Absent /\ AddressMatches(osm[j], g)
        /\ i \notin reported
  BY <1>4 DEF CompareAddresses
<1> QED
  BY <1>5, <1>6, <1>7, ProposedBySpares

\* What covers a footprint meets every box that holds it.
LEMMA CoversInside ==
  ASSUME NEW o, NEW g, Extent(o), Extent(g), Covers(o, g),
         NEW a \in Int, NEW b \in Int, a <= Lo(g), Hi(g) <= b
  PROVE  Meets(o, Box(a, b))
<1>1. Lo(o) \in Int /\ Hi(o) \in Int /\ Lo(g) \in Int /\ Hi(g) \in Int
  BY PointInside
<1>2. Lo(o) <= Hi(g) /\ Lo(g) <= Hi(o)
  BY DEF Covers, Meets, Box
<1> QED
  BY <1>1, <1>2 DEF Meets, Box

\* A footprint within a cell lies between its edges.
LEMMA WithinEdges ==
  ASSUME NEW g, Extent(g), NEW w \in Nat \ {0}, Within(g, w)
  PROVE  LET k == Point(g) \div w
         IN  k \in Int /\ k * w \in Int /\ k * w <= Lo(g) /\ Hi(g) <= k * w + w
                /\ k * w <= Point(g) /\ Point(g) < k * w + w
<1> DEFINE k == Point(g) \div w
<1>1. Lo(g) \in Int /\ Hi(g) \in Int /\ Point(g) \in Int
  BY PointInside
<1>2. k \in Int /\ k * w <= Point(g) /\ Point(g) < k * w + w
  BY <1>1, Floor
<1>3. (Lo(g) \div w) * w <= Lo(g) /\ Lo(g) \div w = k
  BY <1>1, Floor DEF Within
<1>4. k * w \in Int /\ (k + 1) * w = k * w + w
  BY <1>2
<1>5. Hi(g) <= k * w + w
  BY <1>4 DEF Within
<1> QED
  BY <1>2, <1>3, <1>4, <1>5

\* The full compare of buildings writes what the rule proposes, of the records
\* that lie within one cell and within one square of the grid.
LEMMA ComparedBuilding ==
  ASSUME RuleTypeOK, layer = "buildings", NEW i \in Live, ~AcrossAnEdge(i)
  PROVE  i \in CompareBuildings <=> Proposed(i)
<1> DEFINE g == gov[i]
           k == Point(g) \div GridStep
           x == k * GridStep
           Spared == \A j \in OsmIds : osm[j] # Absent => ~Covers(osm[j], g)
<1>1. Extent(g) /\ GridStep \in Nat \ {0} /\ CellSize \in Nat \ {0}
  BY LiveRecord, WidthsAssumption
<1>2. Lo(g) \in Int /\ Hi(g) \in Int /\ Point(g) \in Int /\ Lo(g) <= Point(g) /\ Point(g) <= Hi(g)
  BY <1>1, PointInside
<1>3. k \in Int /\ x \in Int /\ x <= Lo(g) /\ Hi(g) <= x + GridStep
        /\ x <= Point(g) /\ Point(g) < x + GridStep
  BY <1>1, WithinEdges DEF AcrossAnEdge
<1>4. layer \in Layers /\ \A j \in OsmIds : osm[j] # Absent => osm[j] \in OsmObjects[layer]
  BY DEF RuleTypeOK
<1>5. \A j \in OsmIds : osm[j] # Absent => Extent(osm[j]) /\ osm[j].kind \in {"building", "former"}
  BY <1>4, LayersObject
<1>6. Proposed(i) <=> Comparable(i) /\ i \notin reported /\ Spared
  <2> DEFINE c == CellAt(Point(g))
             y == (Point(g) \div CellSize) * CellSize
  <2>1. y \in Int /\ y <= Lo(g) /\ Hi(g) <= y + CellSize
    BY <1>1, WithinEdges DEF AcrossAnEdge
  <2>2. BoxOf(c) = Box(y, y + CellSize)
    <3>1. Point(g) \div CellSize \in Int
      BY <1>1, <1>2, Floor
    <3>2. (Point(g) \div CellSize + 1) * CellSize = y + CellSize
      BY <1>1, <3>1
    <3> QED
      BY <3>2 DEF BoxOf, CellAt
  <2>3. \A j \in OsmIds : osm[j] # Absent /\ Covers(osm[j], g) => Meets(osm[j], BoxOf(c))
    <3> HIDE DEF y
    <3>1. y + CellSize \in Int
      BY <1>1, <2>1
    <3> QED
      BY <1>1, <1>5, <2>1, <2>2, <3>1, CoversInside
  <2>4. \A o : Spares(o, g) <=> ~(Meets(o, BoxOf(c)) /\ Covers(o, g))
    BY DEF Spares
  <2> QED
    BY <2>3, <2>4, ProposedBySpares
<1>7. ASSUME NEW z, z = x
      PROVE  i \in UnmatchedBuildings(Box(z, z + GridStep)) <=> Comparable(i) /\ i \notin reported /\ Spared
  <2>1. Box(z, z + GridStep) = Box(x, x + GridStep) /\ x + GridStep \in Int
    BY <1>1, <1>3, <1>7
  <2> DEFINE box == Box(x, x + GridStep)
  <2>2. box.lo = x /\ box.hi = x + GridStep
    BY DEF Box
  <2>3. Point(g) \in box.lo .. box.hi
    BY <1>2, <1>3, <2>1, <2>2
  <2>4. \A j \in OsmIds : osm[j] # Absent /\ Covers(osm[j], g) => Meets(osm[j], box)
    <3> HIDE DEF x
    <3> QED
      BY <1>1, <1>3, <1>5, <2>1, CoversInside
  <2>5. Spared <=> ~OsmBuildingCovers(i, box) /\ ~FormerBuildingCovers(i, box)
    <3> HIDE DEF box
    <3> QED
      BY <1>5, <2>4 DEF OsmBuildingCovers, FormerBuildingCovers, Osm
  <2> HIDE DEF box, Spared
  <2>6. i \in UnmatchedBuildings(box) <=> Comparable(i) /\ i \notin reported /\ Spared
    BY <2>3, <2>5 DEF UnmatchedBuildings
  <2> QED
    BY <2>1, <2>6 DEF box
<1>8. k \in SourceGridExtent
  <2> DEFINE a == Min({Lo(gov[l]) : l \in Live})
             b == Max({Hi(gov[l]) : l \in Live})
  <2>1. a \in Int /\ b \in Int /\ a <= Lo(g) /\ Hi(g) <= b
    BY ExtentSpans
  <2>2. SourceGridExtent = a \div GridStep .. b \div GridStep
    BY DEF SourceGridExtent
  <2> HIDE DEF a, b
  <2>3. a <= Point(g) /\ Point(g) <= b
    BY <1>2, <2>1
  <2>4. a \div GridStep <= k /\ k <= b \div GridStep
    BY <1>1, <1>2, <2>1, <2>3, FloorRises
  <2>5. a \div GridStep \in Int /\ b \div GridStep \in Int
    BY <1>1, <2>1, Floor
  <2> QED
    BY <1>3, <2>2, <2>4, <2>5
<1>9. \A l \in SourceGridExtent :
        l \in Int /\ (l * GridStep <= Point(g) /\ Point(g) < l * GridStep + GridStep => l = k)
  <2>1. SourceGridExtent \subseteq Int
    BY DEF SourceGridExtent
  <2> QED
    BY <1>1, <1>2, <2>1, FloorIs
<1>10. i \in CompareBuildings <=>
         \E l \in SourceGridExtent :
           /\ i \in UnmatchedBuildings(Box(l * GridStep, l * GridStep + GridStep))
           /\ l * GridStep <= Point(g) /\ Point(g) < l * GridStep + GridStep
  BY DEF CompareBuildings
<1>11. i \in CompareBuildings <=> i \in UnmatchedBuildings(Box(k * GridStep, k * GridStep + GridStep))
  <2> HIDE DEF k
  <2> QED
    BY <1>3, <1>8, <1>9, <1>10
<1> QED
  BY <1>6, <1>7, <1>11

-------------------------------------------------------------------------------
(* The match rule: what a change can reach                                 *)

\* An object that matters to a record reaches the record's cell or touches it.
LEMMA UnreachedSpares ==
  ASSUME RuleTypeOK, NEW i \in Live, NEW o \in OsmObjects[layer],
         CellAt(Point(gov[i])) \notin Reach(o) \cup Touches(o)
  PROVE  Spares(o, gov[i])
<1> DEFINE g == gov[i]
           c == CellAt(Point(g))
<1>1. layer \in {"buildings", "addresses"} /\ o # Absent /\ Extent(o)
  BY LayersObject DEF RuleTypeOK
<1>2. Lo(o) \in Int /\ Hi(o) \in Int /\ Lo(o) <= Hi(o)
  BY <1>1, PointInside DEF Extent
<1>3. Extent(g) /\ Lo(g) \in Int /\ Point(g) \in Int /\ (layer = "addresses" => Point(g) = Lo(g))
  <2>1. Extent(g) /\ (layer = "addresses" => Lo(g) = Hi(g))
    BY LiveRecord
  <2> QED
    BY <2>1, PointInside
<1>4. CellSize \in Nat \ {0} /\ Buffer \in Nat /\ NameNear \in Nat /\ NameNear <= Buffer
  BY WidthsAssumption, DistancesAssumption
<1>5. /\ c \in Int /\ BoxOf(c).lo = c * CellSize /\ BoxOf(c).hi = c * CellSize + CellSize
      /\ c * CellSize \in Int
  BY <1>3, <1>4, CellOf
<1>6. CASE layer = "buildings"
  <2>1. LayerBuffer = 0
    BY <1>6 DEF LayerBuffer
  <2>2. Reach(o) = Lo(o) \div CellSize .. Hi(o) \div CellSize
    BY <1>1, <1>2, <2>1 DEF Reach, CellAt
  <2>3. SUFFICES ASSUME Meets(o, BoxOf(c)) PROVE c \in Reach(o) \cup Touches(o)
    BY <1>6 DEF Spares
  <2>4. Lo(o) <= c * CellSize + CellSize /\ c * CellSize <= Hi(o)
    BY <1>5, <2>3 DEF Meets
  <2> HIDE DEF c
  <2>5. c <= Hi(o) \div CellSize
    BY <1>2, <1>4, <1>5, <2>4, FloorAtLeast
  <2>6. /\ Lo(o) \div CellSize \in Int /\ Hi(o) \div CellSize \in Int
        /\ (Lo(o) \div CellSize) * CellSize <= Lo(o)
    BY <1>2, <1>4, Floor
  <2>7. CASE Lo(o) < c * CellSize + CellSize
    <3>1. (Lo(o) \div CellSize) * CellSize < (c + 1) * CellSize
      BY <1>2, <1>4, <1>5, <2>6, <2>7
    <3>2. Lo(o) \div CellSize < c + 1
      BY <1>4, <1>5, <2>6, <3>1
    <3> QED
      BY <1>5, <2>2, <2>5, <2>6, <3>2
  <2>8. CASE Lo(o) = c * CellSize + CellSize
    <3>1. c * CellSize + CellSize = (c + 1) * CellSize /\ c + 1 \in Int
      BY <1>4, <1>5
    <3>2. Lo(o) % CellSize = 0 /\ Lo(o) \div CellSize = c + 1
      BY <1>4, <2>8, <3>1, FloorOfMultiple
    <3>3. Touches(o) = {CellAt(Lo(o)) - 1}
      BY <1>1, <1>6, <3>2 DEF Touches
    <3> QED
      BY <1>5, <3>2, <3>3 DEF CellAt
  <2> QED
    BY <1>2, <1>4, <1>5, <2>4, <2>7, <2>8
<1>7. CASE layer = "addresses"
  <2>1. LayerBuffer = Buffer
    BY <1>7 DEF LayerBuffer
  <2>2. Reach(o) = (Lo(o) - Buffer) \div CellSize .. (Hi(o) + Buffer) \div CellSize
    BY <1>1, <2>1 DEF Reach, CellAt
  <2>3. SUFFICES ASSUME AddressMatches(o, g) PROVE c \in Reach(o)
    BY <1>7 DEF Spares
  <2>4. Lo(g) - Lo(o) <= NameNear /\ Lo(o) - Lo(g) <= NameNear
    BY <1>2, <1>3, <2>3, MatchesNear
  <2> DEFINE a == Lo(o) - Buffer
             b == Hi(o) + Buffer
  <2>5. a \in Int /\ b \in Int /\ a <= Point(g) /\ Point(g) <= b
    BY <1>2, <1>3, <1>4, <1>7, <2>4
  <2>6. c = Point(g) \div CellSize
    BY DEF CellAt
  <2> HIDE DEF a, b, c
  <2>7. a \div CellSize <= c /\ c <= b \div CellSize
    BY <1>3, <1>4, <2>5, <2>6, FloorRises
  <2>8. a \div CellSize \in Int /\ b \div CellSize \in Int
    BY <1>4, <2>5, Floor
  <2> QED
    BY <1>5, <2>2, <2>7, <2>8 DEF a, b
<1> QED
  BY <1>1, <1>6, <1>7

-------------------------------------------------------------------------------
(* The match rule: the inductive invariant                                 *)

\* Rows of a cell that is not queued are of records that lie in it, skipped or
\* not: a reconcile queues the cells that hold records and forgives the others.
RowsPlaced ==
  \A c \in MatchCells \ dirty : \A i \in Ids :
    i \notin Live \/ CellAt(Point(gov[i])) # c => <<i, c>> \notin rows

\* ServedByTheRule, of the records that lie in the cell.
RowsRight ==
  \A c \in MatchCells \ (dirty \cup skipped) : \A i \in Live :
    CellAt(Point(gov[i])) = c =>
      \/ c \in inFull /\ AcrossAnEdge(i)
      \/ <<i, c>> \in rows <=> Proposed(i)

\* No more rows than the total, queued or not.
RowsCounted == \A c \in MatchCells : Cardinality({r \in rows : r[2] = c}) <= totals[c]

RuleInv == RuleTypeOK /\ RowsPlaced /\ RowsRight /\ RowsCounted

\* The invariant says what both properties say.
LEMMA RuleInvImplies == RuleInv => ServedByTheRule /\ ServedOnce
<1> SUFFICES ASSUME RuleInv PROVE ServedByTheRule /\ ServedOnce
  OBVIOUS
<1>1. ServedByTheRule
  BY DEF RuleInv, RowsPlaced, RowsRight, ServedByTheRule
<1>2. ASSUME NEW r \in rows, NEW q \in rows, r[1] = q[1], r # q
      PROVE  {r[2], q[2]} \cap dirty # {}
  <2>1. /\ r = <<r[1], r[2]>> /\ q = <<q[1], q[2]>> /\ r[1] \in Ids
        /\ r[2] \in MatchCells /\ q[2] \in MatchCells
    BY DEF RuleInv, RuleTypeOK
  <2>2. SUFFICES ASSUME r[2] \notin dirty, q[2] \notin dirty PROVE FALSE
    OBVIOUS
  <2>3. CellAt(Point(gov[r[1]])) = r[2]
    BY <2>1, <2>2 DEF RuleInv, RowsPlaced
  <2>4. CellAt(Point(gov[q[1]])) = q[2]
    BY <1>2, <2>1, <2>2 DEF RuleInv, RowsPlaced
  <2> QED
    BY <1>2, <2>1, <2>3, <2>4
<1> QED
  BY <1>1, <1>2 DEF RuleInv, RowsCounted, ServedOnce

\* A total is a number, and no fewer than the rows of records that it counts.
LEMMA TotalBounds ==
  ASSUME NEW c, NEW S,
         S \subseteq {i \in Live : Comparable(i) /\ CellAt(Point(gov[i])) = c}
  PROVE  /\ TotalOfCell(c) \in Nat
         /\ Cardinality({<<i, c>> : i \in S}) <= TotalOfCell(c)
<1> DEFINE C == {i \in Live : Comparable(i) /\ CellAt(Point(gov[i])) = c}
           T == {<<i, c>> : i \in S}
           f == [i \in S |-> <<i, c>>]
<1>1. IsFiniteSet(C) /\ TotalOfCell(c) = Cardinality(C)
  <2>1. C \in SUBSET Ids
    BY DEF Live
  <2> QED
    BY <2>1, MatchCellsAssumption, FS_Subset DEF TotalOfCell
<1>2. IsFiniteSet(S) /\ Cardinality(S) <= Cardinality(C)
  BY <1>1, FS_Subset
<1>3. f \in Surjection(S, T)
  BY DEF Surjection
<1> HIDE DEF C, T, f
<1>4. Cardinality(T) <= Cardinality(S) /\ IsFiniteSet(T)
  BY <1>2, <1>3, FS_Surjection
<1>5. Cardinality(C) \in Nat /\ Cardinality(S) \in Nat /\ Cardinality(T) \in Nat
  BY <1>1, <1>2, <1>4, FS_CardinalityType
<1> QED
  BY <1>1, <1>2, <1>4, <1>5 DEF T

\* Nothing is live, served or counted at first.
LEMMA RuleStarts == RuleInit => RuleInv
<1> SUFFICES ASSUME RuleInit PROVE RuleInv
  OBVIOUS
<1>1. Live = {}
  BY DEF RuleInit, Live
<1>2. RuleTypeOK
  BY DEF RuleInit, RuleTypeOK
<1>3. RowsPlaced /\ RowsRight
  BY <1>1 DEF RuleInit, RowsPlaced, RowsRight
<1>4. RowsCounted
  <2>1. {r \in rows : r[2] = 0} = {} /\ \A c : {r \in rows : r[2] = c} = {}
    BY DEF RuleInit
  <2>2. Cardinality({}) = 0
    BY FS_EmptySet
  <2> QED
    BY <2>1, <2>2 DEF RuleInit, RowsCounted
<1> QED
  BY <1>2, <1>3, <1>4 DEF RuleInv

\* The rule looks at nothing else.
LEMMA ProposedKept ==
  ASSUME UNCHANGED <<layer, gov, osm, reported>>
  PROVE  Live' = Live /\ \A i : (Proposed(i)' <=> Proposed(i)) /\ (AcrossAnEdge(i)' <=> AcrossAnEdge(i))
<1>1. Live' = Live
  BY DEF Live
<1>2. \A i : Comparable(i)' <=> Comparable(i)
  BY <1>1 DEF Comparable
<1>3. \A i : AcrossAnEdge(i)' <=> AcrossAnEdge(i)
  BY DEF AcrossAnEdge
<1> QED
  BY <1>1, <1>2, <1>3 DEF Proposed

\* The drain of one cell.
LEMMA RecomputeKeeps ==
  ASSUME RuleInv, NEW c \in MatchCells, Recompute(c)
  PROVE  RuleInv'
<1>1. RuleTypeOK /\ RowsPlaced /\ RowsRight /\ RowsCounted
  BY DEF RuleInv
<1>2. UNCHANGED <<layer, gov, osm, reported>>
  BY DEF Recompute
<1>3. /\ Live' = Live
      /\ \A i : (Proposed(i)' <=> Proposed(i)) /\ (AcrossAnEdge(i)' <=> AcrossAnEdge(i))
  BY <1>2, ProposedKept
<1> DEFINE S == {i \in CandidatesOfCell(c) : CellAt(Point(gov[i])) = c}
<1>4. S \subseteq {i \in Live : Comparable(i) /\ CellAt(Point(gov[i])) = c}
  <2>1. layer \in {"buildings", "addresses"}
    BY <1>1, ObjectsAssumption DEF RuleTypeOK
  <2>2. CandidatesOfCell(c) \subseteq {i \in Live : Comparable(i)}
    BY <2>1 DEF CandidatesOfCell, UnmatchedBuildings, UnmatchedAddressesInCell, Comparable
  <2> QED
    BY <2>2
<1>5. rows' = {r \in rows : r[2] # c} \cup {<<i, c>> : i \in S}
  BY DEF Recompute, RowsOfCell
<1>6. S \subseteq Ids
  BY <1>4 DEF Live
<1>7. \A i, d : d # c => (<<i, d>> \in rows' <=> <<i, d>> \in rows)
  BY <1>5
<1>8. \A i : <<i, c>> \in rows' <=> i \in S
  <2> HIDE DEF S
  <2> QED
    BY <1>5
<1>9. RuleTypeOK'
  <2>1. TotalOfCell(c) \in Nat
    BY <1>4, TotalBounds
  <2>2. totals' \in [MatchCells -> Nat]
    BY <1>1, <2>1 DEF RuleTypeOK, Recompute
  <2>3. rows' \subseteq Ids \X MatchCells
    <3> HIDE DEF S
    <3> QED
      BY <1>1, <1>5, <1>6 DEF RuleTypeOK
  <2>4. dirty' \subseteq MatchCells /\ inFull' \subseteq MatchCells /\ skipped' \subseteq MatchCells
    BY <1>1 DEF RuleTypeOK, Recompute
  <2>5. reported' \subseteq Live' /\ layer' \in Layers
    BY <1>1, <1>2, <1>3 DEF RuleTypeOK
  <2>6. gov' \in [Ids -> Records[layer'] \cup {Absent}] /\ osm' \in [OsmIds -> OsmObjects[layer'] \cup {Absent}]
    BY <1>1, <1>2 DEF RuleTypeOK
  <2> QED
    BY <2>2, <2>3, <2>4, <2>5, <2>6 DEF RuleTypeOK
<1>10. dirty' = dirty \ {c} /\ inFull' = inFull \ {c} /\ skipped' = skipped \ {c}
  BY DEF Recompute
<1>11. RowsPlaced'
  <2>1. ASSUME NEW d \in MatchCells \ dirty', NEW i \in Ids, i \notin Live \/ CellAt(Point(gov[i])) # d
        PROVE  <<i, d>> \notin rows'
    <3>1. CASE d = c
      BY <1>4, <1>8, <2>1, <3>1
    <3>2. CASE d # c
      BY <1>1, <1>7, <1>10, <2>1, <3>2 DEF RowsPlaced
    <3> QED
      BY <3>1, <3>2
  <2> QED
    BY <1>2, <1>3, <2>1 DEF RowsPlaced
<1>12. RowsRight'
  <2>1. ASSUME NEW d \in MatchCells \ (dirty' \cup skipped'), NEW i \in Live, CellAt(Point(gov[i])) = d
        PROVE  \/ d \in inFull' /\ AcrossAnEdge(i)
               \/ <<i, d>> \in rows' <=> Proposed(i)
    <3>1. CASE d = c
      <4>1. i \in CandidatesOfCell(c) <=> Proposed(i)
        BY <1>1, <2>1, <3>1, RecomputedIsProposed
      <4> QED
        BY <1>8, <2>1, <3>1, <4>1
    <3>2. CASE d # c
      <4>1. d \in MatchCells \ (dirty \cup skipped) /\ (d \in inFull' <=> d \in inFull)
        BY <1>10, <3>2
      <4> QED
        BY <1>1, <1>7, <2>1, <3>2, <4>1 DEF RowsRight
    <3> QED
      BY <3>1, <3>2
  <2> QED
    BY <1>2, <1>3, <2>1 DEF RowsRight
<1>13. RowsCounted'
  <2>1. ASSUME NEW d \in MatchCells
        PROVE  Cardinality({r \in rows' : r[2] = d}) <= totals'[d]
    <3> HIDE DEF S
    <3>1. CASE d = c
      <4>1. {r \in rows' : r[2] = d} = {<<i, c>> : i \in S}
        BY <1>5, <3>1
      <4>2. totals'[c] = TotalOfCell(c)
        BY <1>1 DEF RuleTypeOK, Recompute
      <4> QED
        BY <1>4, <3>1, <4>1, <4>2, TotalBounds
    <3>2. CASE d # c
      <4>1. {r \in rows' : r[2] = d} = {r \in rows : r[2] = d}
        BY <1>5, <3>2
      <4>2. totals'[d] = totals[d]
        BY <1>1, <3>2 DEF RuleTypeOK, Recompute
      <4> QED
        BY <1>1, <4>1, <4>2 DEF RowsCounted
    <3> QED
      BY <3>1, <3>2
  <2> QED
    BY <2>1 DEF RowsCounted
<1> QED
  BY <1>9, <1>11, <1>12, <1>13 DEF RuleInv

\* The full compare.
LEMMA CompareKeeps ==
  ASSUME RuleInv, Compare
  PROVE  RuleInv'
<1>1. RuleTypeOK /\ RowsPlaced /\ RowsRight /\ RowsCounted
  BY DEF RuleInv
<1>2. UNCHANGED <<layer, gov, osm, reported>>
  BY DEF Compare
<1>3. /\ Live' = Live
      /\ \A i : (Proposed(i)' <=> Proposed(i)) /\ (AcrossAnEdge(i)' <=> AcrossAnEdge(i))
  BY <1>2, ProposedKept
<1> DEFINE X == IF layer = "buildings" THEN CompareBuildings ELSE CompareAddresses
<1>4. layer \in {"buildings", "addresses"}
  BY <1>1, ObjectsAssumption DEF RuleTypeOK
<1>5. X \subseteq {i \in Live : Comparable(i)}
  <2>1. CASE layer = "buildings"
    <3>1. \A box : UnmatchedBuildings(box) \subseteq {i \in Live : Comparable(i)}
      BY DEF UnmatchedBuildings
    <3> QED
      BY <2>1, <3>1 DEF CompareBuildings
  <2>2. CASE layer = "addresses"
    BY <2>2 DEF CompareAddresses, Comparable
  <2> QED
    BY <1>4, <2>1, <2>2
<1>6. \A i \in Live : AcrossAnEdge(i) \/ (i \in X <=> Proposed(i))
  BY <1>1, <1>4, ComparedAddress, ComparedBuilding
<1>7. rows' = {<<i, CellAt(Point(gov[i]))>> : i \in X}
  BY DEF Compare
<1>8. inFull' = MatchCells /\ skipped' = {} /\ dirty' = dirty
      /\ totals' = [c \in MatchCells |-> TotalOfCell(c)]
  BY DEF Compare
<1> HIDE DEF X
<1>9. \A i, c : <<i, c>> \in rows' <=> i \in X /\ CellAt(Point(gov[i])) = c
  BY <1>7
<1>10. RuleTypeOK'
  <2>1. \A c : TotalOfCell(c) \in Nat
    <3>1. ASSUME NEW c PROVE TotalOfCell(c) \in Nat
      <4>1. {} \subseteq {i \in Live : Comparable(i) /\ CellAt(Point(gov[i])) = c}
        OBVIOUS
      <4> QED
        BY <4>1, TotalBounds
    <3> QED
      BY <3>1
  <2>2. totals' \in [MatchCells -> Nat]
    BY <1>8, <2>1
  <2>3. rows' \subseteq Ids \X MatchCells
    <3>1. \A i \in X : i \in Ids /\ CellAt(Point(gov[i])) \in MatchCells
      BY <1>1, <1>5, LiveRecord
    <3> QED
      BY <1>7, <3>1
  <2>4. dirty' \subseteq MatchCells /\ inFull' \subseteq MatchCells /\ skipped' \subseteq MatchCells
    BY <1>1, <1>8 DEF RuleTypeOK
  <2>5. reported' \subseteq Live' /\ layer' \in Layers
    BY <1>1, <1>2, <1>3 DEF RuleTypeOK
  <2>6. gov' \in [Ids -> Records[layer'] \cup {Absent}] /\ osm' \in [OsmIds -> OsmObjects[layer'] \cup {Absent}]
    BY <1>1, <1>2 DEF RuleTypeOK
  <2> QED
    BY <2>2, <2>3, <2>4, <2>5, <2>6 DEF RuleTypeOK
<1>11. RowsPlaced'
  <2>1. \A c \in MatchCells, i \in Ids :
          i \notin Live \/ CellAt(Point(gov[i])) # c => <<i, c>> \notin rows'
    BY <1>5, <1>9
  <2> QED
    BY <1>2, <1>3, <2>1 DEF RowsPlaced
<1>12. RowsRight'
  <2>1. \A c \in MatchCells, i \in Live : CellAt(Point(gov[i])) = c =>
          AcrossAnEdge(i) \/ (<<i, c>> \in rows' <=> Proposed(i))
    BY <1>6, <1>9
  <2> QED
    BY <1>2, <1>3, <1>8, <2>1 DEF RowsRight
<1>13. RowsCounted'
  <2>1. ASSUME NEW c \in MatchCells
        PROVE  Cardinality({r \in rows' : r[2] = c}) <= totals'[c]
    <3> DEFINE S == {i \in X : CellAt(Point(gov[i])) = c}
    <3>1. S \subseteq {i \in Live : Comparable(i) /\ CellAt(Point(gov[i])) = c}
      BY <1>5
    <3>2. {r \in rows' : r[2] = c} = {<<i, c>> : i \in S}
      BY <1>7
    <3> HIDE DEF S
    <3> QED
      BY <1>8, <3>1, <3>2, TotalBounds
  <2> QED
    BY <2>1 DEF RowsCounted
<1> QED
  BY <1>10, <1>11, <1>12, <1>13 DEF RuleInv

\* An object of OSM changes: the cells it leaves out of the queue and of the
\* skipped ones hold no record it matters to, before or after.
LEMMA OsmChangeKeeps ==
  ASSUME RuleInv, NEW j \in OsmIds, NEW o \in OsmObjects[layer] \cup {Absent}, OsmChange(j, o)
  PROVE  RuleInv'
<1>1. RuleTypeOK /\ RowsPlaced /\ RowsRight /\ RowsCounted
  BY DEF RuleInv
<1>2. UNCHANGED <<layer, gov, reported, rows, totals, inFull>> /\ osm' = [osm EXCEPT ![j] = o]
  BY DEF OsmChange
<1>3. Live' = Live
  BY <1>2 DEF Live
<1> DEFINE queued == UNION {Reach(p) : p \in {p \in {osm[j], o} : NotTooWide(p)}}
           affected == UNION {Reach(p) \cup Touches(p) : p \in {osm[j], o}}
<1>4. dirty' = dirty \cup (MatchCells \cap queued)
      /\ skipped' = skipped \cup (MatchCells \cap (affected \ queued))
  BY DEF OsmChange
<1>5. \A c \in MatchCells \ (dirty' \cup skipped') :
        /\ c \notin dirty \cup skipped
        /\ c \notin Reach(osm[j]) \cup Touches(osm[j]) /\ c \notin Reach(o) \cup Touches(o)
  <2>1. Reach(osm[j]) \cup Touches(osm[j]) \subseteq affected /\ Reach(o) \cup Touches(o) \subseteq affected
    OBVIOUS
  <2> HIDE DEF queued, affected
  <2> QED
    BY <1>4, <2>1
<1>6. RuleTypeOK'
  <2>1. osm' \in [OsmIds -> OsmObjects[layer'] \cup {Absent}]
    BY <1>1, <1>2 DEF RuleTypeOK
  <2>2. dirty' \subseteq MatchCells /\ skipped' \subseteq MatchCells
    <3> HIDE DEF queued, affected
    <3> QED
      BY <1>1, <1>4 DEF RuleTypeOK
  <2> QED
    BY <1>1, <1>2, <1>3, <2>1, <2>2 DEF RuleTypeOK
<1>7. RowsPlaced'
  <2>1. dirty \subseteq dirty'
    BY <1>4
  <2> QED
    BY <1>1, <1>2, <1>3, <2>1 DEF RowsPlaced
<1>8. RowsRight'
  <2>1. ASSUME NEW c \in MatchCells \ (dirty' \cup skipped'), NEW i \in Live, CellAt(Point(gov[i])) = c
        PROVE  Proposed(i)' <=> Proposed(i)
    <3>1. osm[j] # Absent => Spares(osm[j], gov[i])
      <4>1. osm[j] # Absent => osm[j] \in OsmObjects[layer]
        BY <1>1 DEF RuleTypeOK
      <4> QED
        BY <1>1, <1>5, <2>1, <4>1, UnreachedSpares
    <3>2. o # Absent => Spares(o, gov[i])
      BY <1>1, <1>5, <2>1, UnreachedSpares
    <3>3. (Comparable(i)' <=> Comparable(i)) /\ (i \in reported' <=> i \in reported) /\ gov'[i] = gov[i]
      BY <1>2, <1>3 DEF Comparable
    <3>4. \A k \in OsmIds : osm'[k] = IF k = j THEN o ELSE osm[k]
      BY <1>1, <1>2 DEF RuleTypeOK
    <3>5. Proposed(i)' <=> /\ Comparable(i) /\ i \notin reported
                           /\ \A k \in OsmIds : osm'[k] # Absent => Spares(osm'[k], gov[i])
      BY <1>2, <3>3 DEF Proposed, Spares
    <3>6. (\A k \in OsmIds : osm'[k] # Absent => Spares(osm'[k], gov[i]))
            <=> (\A k \in OsmIds : osm[k] # Absent => Spares(osm[k], gov[i]))
      BY <3>1, <3>2, <3>4
    <3> QED
      BY <3>5, <3>6, ProposedBySpares
  <2>2. \A i : AcrossAnEdge(i)' <=> AcrossAnEdge(i)
    BY <1>2 DEF AcrossAnEdge
  <2> QED
    BY <1>1, <1>2, <1>3, <1>5, <2>1, <2>2 DEF RowsRight
<1>9. RowsCounted'
  BY <1>1, <1>2 DEF RowsCounted
<1> QED
  BY <1>6, <1>7, <1>8, <1>9 DEF RuleInv

\* A record changes: the cells of its centroid, before and after, are queued.
LEMMA GovChangeKeeps ==
  ASSUME RuleInv, NEW i \in Ids, NEW g \in Records[layer] \cup {Absent}, GovChange(i, g)
  PROVE  RuleInv'
<1>1. RuleTypeOK /\ RowsPlaced /\ RowsRight /\ RowsCounted
  BY DEF RuleInv
<1>2. /\ UNCHANGED <<layer, osm, rows, totals, inFull, skipped>>
      /\ gov' = [gov EXCEPT ![i] = g] /\ reported' = reported \ {i}
      /\ dirty' = dirty \cup {CellAt(Point(h)) : h \in {gov[i], g} \ {Absent}}
  BY DEF GovChange, history
<1>3. gov'[i] = g /\ \A k \in Ids : k # i => gov'[k] = gov[k]
  BY <1>1, <1>2 DEF RuleTypeOK
<1>4. \A k \in Ids : k # i => (k \in Live' <=> k \in Live)
  BY <1>3 DEF Live
<1>5. \A h \in {gov[i], g} \ {Absent} : CellAt(Point(h)) \in MatchCells
  BY <1>1, ObjectsAssumption DEF RuleTypeOK
<1>6. RuleTypeOK'
  <2>1. gov' \in [Ids -> Records[layer'] \cup {Absent}]
    BY <1>1, <1>2 DEF RuleTypeOK
  <2>2. reported' \subseteq Live'
    BY <1>1, <1>2, <1>4 DEF RuleTypeOK, Live
  <2>3. dirty' \subseteq MatchCells
    BY <1>1, <1>2, <1>5 DEF RuleTypeOK
  <2> QED
    BY <1>1, <1>2, <2>1, <2>2, <2>3 DEF RuleTypeOK
<1>7. \A c \in MatchCells \ dirty' :
        /\ c \notin dirty
        /\ i \in Live => CellAt(Point(gov[i])) # c
        /\ i \in Live' => CellAt(Point(gov'[i])) # c
  BY <1>2, <1>3 DEF Live
<1>8. RowsPlaced'
  <2>1. ASSUME NEW c \in MatchCells \ dirty', NEW k \in Ids,
               k \notin Live' \/ CellAt(Point(gov'[k])) # c
        PROVE  <<k, c>> \notin rows
    <3>1. CASE k = i
      BY <1>1, <1>7, <3>1 DEF RowsPlaced
    <3>2. CASE k # i
      BY <1>1, <1>3, <1>4, <1>7, <2>1, <3>2 DEF RowsPlaced
    <3> QED
      BY <3>1, <3>2
  <2> QED
    BY <1>2, <2>1 DEF RowsPlaced
<1>9. RowsRight'
  <2>1. ASSUME NEW c \in MatchCells \ (dirty' \cup skipped'), NEW k \in Live', CellAt(Point(gov'[k])) = c
        PROVE  \/ c \in inFull /\ AcrossAnEdge(k)'
               \/ <<k, c>> \in rows <=> Proposed(k)'
    <3>1. k \in Ids /\ k # i
      BY <1>7, <2>1 DEF Live
    <3>2. k \in Live /\ gov'[k] = gov[k] /\ (k \in reported' <=> k \in reported)
      BY <1>2, <1>3, <1>4, <2>1, <3>1
    <3>3. Comparable(k)' <=> Comparable(k)
      BY <1>2, <2>1, <3>2 DEF Comparable
    <3>4. Proposed(k)' <=> Proposed(k)
      BY <1>2, <3>2, <3>3 DEF Proposed
    <3>5. AcrossAnEdge(k)' <=> AcrossAnEdge(k)
      BY <3>2 DEF AcrossAnEdge
    <3>6. c \in MatchCells \ (dirty \cup skipped)
      BY <1>2, <1>7, <2>1
    <3> QED
      BY <1>1, <2>1, <3>2, <3>4, <3>5, <3>6 DEF RowsRight
  <2> QED
    BY <1>2, <2>1 DEF RowsRight
<1>10. RowsCounted'
  BY <1>1, <1>2 DEF RowsCounted
<1> QED
  BY <1>6, <1>8, <1>9, <1>10 DEF RuleInv

\* A report comes or goes: the cell of its record is queued.
LEMMA ReportKeeps ==
  ASSUME RuleInv, NEW i \in Ids, Report(i)
  PROVE  RuleInv'
<1>1. RuleTypeOK /\ RowsPlaced /\ RowsRight /\ RowsCounted
  BY DEF RuleInv
<1>2. /\ UNCHANGED <<layer, gov, osm, rows, totals, inFull, skipped>>
      /\ i \in Live /\ dirty' = dirty \cup {CellAt(Point(gov[i]))}
      /\ reported' \subseteq reported \cup {i} /\ reported \ {i} \subseteq reported'
  BY DEF Report, history
<1>3. Live' = Live
  BY <1>2 DEF Live
<1>4. RuleTypeOK'
  <2>1. dirty' \subseteq MatchCells
    BY <1>1, <1>2, LiveRecord DEF RuleTypeOK
  <2>2. reported' \subseteq Live'
    BY <1>1, <1>2, <1>3 DEF RuleTypeOK
  <2> QED
    BY <1>1, <1>2, <2>1, <2>2 DEF RuleTypeOK
<1>5. RowsPlaced'
  BY <1>1, <1>2, <1>3 DEF RowsPlaced
<1>6. RowsRight'
  <2>1. ASSUME NEW c \in MatchCells \ (dirty' \cup skipped'), NEW k \in Live, CellAt(Point(gov[k])) = c
        PROVE  /\ c \in MatchCells \ (dirty \cup skipped)
               /\ Proposed(k)' <=> Proposed(k)
    <3>1. k # i /\ c \in MatchCells \ (dirty \cup skipped)
      BY <1>2, <2>1
    <3>2. k \in reported' <=> k \in reported
      BY <1>2, <3>1
    <3>3. Comparable(k)' <=> Comparable(k)
      BY <1>2, <1>3 DEF Comparable
    <3> QED
      BY <1>2, <3>1, <3>2, <3>3 DEF Proposed
  <2>2. \A k : AcrossAnEdge(k)' <=> AcrossAnEdge(k)
    BY <1>2 DEF AcrossAnEdge
  <2> QED
    BY <1>1, <1>2, <1>3, <2>1, <2>2 DEF RowsRight
<1>7. RowsCounted'
  BY <1>1, <1>2 DEF RowsCounted
<1> QED
  BY <1>4, <1>5, <1>6, <1>7 DEF RuleInv

\* The reconcile: what it does not queue holds no record.
LEMMA ReconcileKeeps ==
  ASSUME RuleInv, Reconcile
  PROVE  RuleInv'
<1>1. RuleTypeOK /\ RowsPlaced /\ RowsRight /\ RowsCounted
  BY DEF RuleInv
<1>2. /\ UNCHANGED <<layer, gov, osm, reported, rows, totals, inFull>>
      /\ dirty' = dirty \cup {CellAt(Point(gov[i])) : i \in Live} /\ skipped' = {}
  BY DEF Reconcile
<1>3. Live' = Live
  BY <1>2 DEF Live
<1>4. RuleTypeOK'
  <2>1. dirty' \subseteq MatchCells
    BY <1>1, <1>2, LiveRecord DEF RuleTypeOK
  <2> QED
    BY <1>1, <1>2, <1>3, <2>1 DEF RuleTypeOK
<1>5. RowsPlaced'
  BY <1>1, <1>2, <1>3 DEF RowsPlaced
<1>6. RowsRight'
  <2>1. \A i \in Live : CellAt(Point(gov[i])) \in dirty'
    BY <1>2
  <2> QED
    BY <1>2, <1>3, <2>1 DEF RowsRight
<1>7. RowsCounted'
  BY <1>1, <1>2 DEF RowsCounted
<1> QED
  BY <1>4, <1>5, <1>6, <1>7 DEF RuleInv

\* Every step keeps the invariant.
LEMMA RuleInvStep == RuleInv /\ [RuleNext]_ruleVars => RuleInv'
<1> SUFFICES ASSUME RuleInv, [RuleNext]_ruleVars PROVE RuleInv'
  OBVIOUS
<1>1. CASE \E c \in MatchCells : Recompute(c)
  BY <1>1, RecomputeKeeps
<1>2. CASE Compare
  BY <1>2, CompareKeeps
<1>3. CASE Reconcile
  BY <1>3, ReconcileKeeps
<1>4. CASE \E j \in OsmIds, o \in OsmObjects[layer] \cup {Absent} : OsmChange(j, o)
  BY <1>4, OsmChangeKeeps
<1>5. CASE \E i \in Ids, g \in Records[layer] \cup {Absent} : GovChange(i, g)
  BY <1>5, GovChangeKeeps
<1>6. CASE \E i \in Ids : Report(i)
  BY <1>6, ReportKeeps
<1>7. CASE UNCHANGED ruleVars
  <2>1. UNCHANGED <<layer, gov, osm, reported, rows, totals, dirty, inFull, skipped>>
    BY <1>7 DEF ruleVars, history
  <2>2. /\ Live' = Live
        /\ \A i : (Proposed(i)' <=> Proposed(i)) /\ (AcrossAnEdge(i)' <=> AcrossAnEdge(i))
    BY <2>1, ProposedKept
  <2> QED
    BY <2>1, <2>2 DEF RuleInv, RuleTypeOK, RowsPlaced, RowsRight, RowsCounted
<1> QED
  BY <1>1, <1>2, <1>3, <1>4, <1>5, <1>6, <1>7 DEF RuleNext

\* A record is served exactly when the rule proposes it, unless its cell waits in
\* the queue or was left to the reconcile: whatever the widths of the cells, of
\* the grid and of the keys, however far a match may lie within them, and
\* whichever of the two compares computed the cell last.
THEOREM RuleServed == RuleSpec => []ServedByTheRule
<1>1. RuleInit => RuleInv
  BY RuleStarts
<1>2. RuleInv /\ [RuleNext]_ruleVars => RuleInv'
  BY RuleInvStep
<1>3. RuleInv => ServedByTheRule
  BY RuleInvImplies
<1> QED
  BY <1>1, <1>2, <1>3, PTL DEF RuleSpec

\* A record is served from one cell, on whichever edge it lies, and no cell
\* serves more than its total counts.
THEOREM RuleServesOnce == RuleSpec => []ServedOnce
<1>1. RuleInit => RuleInv
  BY RuleStarts
<1>2. RuleInv /\ [RuleNext]_ruleVars => RuleInv'
  BY RuleInvStep
<1>3. RuleInv => ServedOnce
  BY RuleInvImplies
<1> QED
  BY <1>1, <1>2, <1>3, PTL DEF RuleSpec
===============================================================================
