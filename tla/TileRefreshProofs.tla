-------------------------- MODULE TileRefreshProofs --------------------------
(***************************************************************************)
(* Proofs about TileRefresh, for any tiles, cells, producers, requests and *)
(* batch sizes.                                                            *)
(*                                                                         *)
(* A tick may delete the rows of a cell because every tile of the cell     *)
(* that is no longer unsettled shows what it renders, or has changed since *)
(* the tick began (Settled): then it has a row that is late, or one that   *)
(* came under the cutoff after the probe (overtaken), or one of the events *)
(* has hit it (raced).  The batch counts as stored for that (Pending):     *)
(* what it holds is current, or was when it was rendered (BatchCurrent).   *)
(***************************************************************************)
EXTENDS TileRefresh, TLAPS

\* A stored value that is current, or no value at all.
Shows(v, t) == v = Absent \/ v = content[t]
\* What the store will hold once the batch is written.
Pending == Over(batch, Stored)

\* A handler past its lookup names a tile.
Handlers == \A r \in Requests : req[r].at # "idle" => req[r].tile \in Tiles
\* The rows a settled tile has if it has changed since: the deletes leave the late
\* ones, and the loss of the overtaken ones is an event.
Fresh == late \cup overtaken
\* A batch is open between the probe and the write, and what is unsettled is
\* what has no render yet.
Phases ==
  /\ phase # "render" => batch = Empty
  /\ todo = unsettled
StoredQueued ==
  \A t \in Tiles : Shows(Stored[t], t) \/ Covered(t, Queued) \/ t \in raced
BatchCurrent ==
  \A t \in Tiles : batch[t] = NoEntry \/ Shows(batch[t], t) \/ Covered(t, Fresh)
Settled ==
  phase \in {"render", "delete"} =>
    \A c \in cells : \A t \in TilesOf[c] \ unsettled :
      Shows(Pending[t], t) \/ Covered(t, Fresh) \/ t \in raced

Inv == /\ TypeOK /\ Handlers /\ Phases /\ StoredQueued /\ BatchCurrent /\ Settled

-------------------------------------------------------------------------------
(* Types                                                                   *)

\* Writing over a store leaves a store.
LEMMA OverTyped ==
  ASSUME NEW W \in [Tiles -> Entry], NEW M \in [Tiles -> Entry]
  PROVE  /\ Over(W, M) \in [Tiles -> Entry]
         /\ M \in [Tiles -> Version] => Over(W, M) \in [Tiles -> Version]
BY DEF Over, Entry

\* Nothing written over a store leaves that store.
LEMMA OverEmpty ==
  ASSUME NEW M \in [Tiles -> Entry]
  PROVE  Over(Empty, M) = M
BY DEF Over, Empty

\* A batch that is empty is a batch.
LEMMA EmptyTyped == Empty \in [Tiles -> Entry]
BY DEF Empty, Entry

\* What a step hits keeps its mark unless the step leaves it fresh.
LEMMA HitsKept ==
  ASSUME NEW S, Hits(S), NEW t \in raced \cup S, raced \cup S \subseteq Tiles
  PROVE  raced' \subseteq Tiles /\ (t \in raced' \/ Shows(Stored[t], t)')
BY DEF Hits, Stale, Shows

\* No step marks anything but tiles.
LEMMA HitsTyped ==
  ASSUME NEW S \in SUBSET Tiles, Hits(S), raced \subseteq Tiles
  PROVE  raced' \subseteq Tiles
BY DEF Hits

\* Every step keeps the types; a put needs its request to name a tile.
LEMMA TypeNext == TypeOK /\ Handlers /\ [Next]_vars => TypeOK'
<1> SUFFICES ASSUME TypeOK, Handlers, [Next]_vars PROVE TypeOK'
  OBVIOUS
<1> USE StoreAssumption, EmptyTyped DEF TypeOK, history
<1>1. ASSUME NEW p \in Producers, BeginChange(p) PROVE TypeOK'
  BY <1>1 DEF BeginChange, queueVars, storeVars, tickVars
<1>2. ASSUME NEW p \in Producers, CommitChange(p) PROVE TypeOK'
  <2>2. NoTxn \in [open : BOOLEAN, early : BOOLEAN, cells : SUBSET Cells]
    BY DEF NoTxn
  <2>3. content' \in [Tiles -> Nat]
    BY <1>2 DEF CommitChange
  <2>4. /\ early' \subseteq Cells /\ late' \subseteq Cells /\ overtaken' \subseteq early'
        /\ raced' \subseteq Tiles
    BY <1>2 DEF CommitChange
  <2>5. prod' \in [Producers -> [open : BOOLEAN, early : BOOLEAN, cells : SUBSET Cells]]
    BY <1>2, <2>2 DEF CommitChange
  <2> QED
    BY <1>2, <2>3, <2>4, <2>5 DEF CommitChange, storeVars, tickVars
<1>3. CASE StartTick
  BY <1>3 DEF StartTick, Queued, storeVars
<1>4. CASE ReadCells
  BY <1>4 DEF ReadCells, queueVars, storeVars
<1>5. CASE Probe
  BY <1>5, TilesAssumption DEF Probe, Resident, TilesFor, queueVars, storeVars
<1>6. CASE RenderBlock
  <2>1. PICK block \in SUBSET todo, ok \in SUBSET Tiles :
          /\ batch' = [t \in Tiles |-> IF t \in ok THEN content[t]
                                       ELSE IF t \in block THEN Absent ELSE batch[t]]
          /\ todo' = todo \ block /\ unsettled' = unsettled \ block
          /\ (faults' = faults \/ Fault)
    BY <1>6 DEF RenderBlock
  <2>2. batch' \in [Tiles -> Entry]
    BY <2>1 DEF Entry, Version
  <2> QED
    BY <1>6, <2>1, <2>2 DEF RenderBlock, Fault, queueVars, storeVars
<1>7. CASE WriteBatch
  BY <1>7, OverTyped, HitsTyped DEF WriteBatch, queueVars
<1>8. CASE DeleteRows
  <2>1. PICK c \in cells :
          /\ early' = early \ Deleted(c)
          /\ overtaken' \in {{}, overtaken \ Deleted(c)}
          /\ Hits(TilesFor(Deleted(c) \cap overtaken))
    BY <1>8 DEF DeleteRows, Return
  <2>2. raced' \subseteq Tiles
    BY <2>1, HitsTyped, TilesAssumption DEF TilesFor
  <2>3. early' \subseteq Cells /\ overtaken' \subseteq early'
    BY <2>1
  <2> QED
    BY <1>8, <2>2, <2>3 DEF DeleteRows, Return, storeVars
<1>9. CASE FlushIfFull
  BY <1>9, HitsTyped DEF FlushIfFull, queueVars, Entry
<1>10. CASE TickFails
  BY <1>10 DEF TickFails, Return, Fault, queueVars, storeVars
<1>11. CASE Cancel
  BY <1>11 DEF Cancel, Fault, queueVars, storeVars
<1>12. ASSUME NEW r \in Requests, Miss(r) PROVE TypeOK'
  BY <1>12 DEF Miss, queueVars, storeVars, tickVars, Version
<1>13. ASSUME NEW r \in Requests, Render(r) PROVE TypeOK'
  <2> DEFINE q == [req[r] EXCEPT !.at = "rendered", !.version = content[req[r].tile]]
             R == [at : {"idle", "missed", "rendered"},
                   tile : Tiles \cup {Absent}, version : Version]
  <2>1. content[req[r].tile] \in Version /\ req[r] \in R
    BY <1>13 DEF Render, Handlers, Version
  <2>2. req' = [req EXCEPT ![r] = q]
    BY <1>13 DEF Render
  <2>3. q \in R
    BY <2>1
  <2> HIDE DEF q
  <2>4. req' \in [Requests -> R]
    BY <2>2, <2>3
  <2> QED
    BY <1>13, <2>4 DEF Render, queueVars, storeVars, tickVars
<1>14. ASSUME NEW r \in Requests, Put(r) PROVE TypeOK'
  <2>1. mem' \in [Tiles -> Entry]
    <3>1. req[r].version \in Version
      BY DEF TypeOK
    <3> QED
      BY <1>14, <3>1 DEF Put, TypeOK, Entry
  <2>2. req' \in [Requests -> [at : {"idle", "missed", "rendered"},
                               tile : Tiles \cup {Absent}, version : Version]]
    BY <1>14 DEF Put, TypeOK, NoReq, Version
  <2>3. raced' \subseteq Tiles
    BY <1>14, HitsTyped DEF Put, Handlers
  <2> QED
    BY <1>14, <2>1, <2>2, <2>3 DEF Put, TypeOK, queueVars, tickVars
<1>15. CASE FlushMemtable
  BY <1>15, OverTyped DEF FlushMemtable, Stored, queueVars, tickVars, Entry
<1>16. CASE Crash
  <2>1. prod' \in [Producers -> [open : BOOLEAN, early : BOOLEAN, cells : SUBSET Cells]]
    BY <1>16 DEF Crash, NoTxn
  <2>2. req' \in [Requests -> [at : {"idle", "missed", "rendered"}, tile : Tiles \cup {Absent}, version : Version]]
    BY <1>16 DEF Crash, NoReq, Version
  <2>3. faults' \in 0..MaxFaults
    BY <1>16 DEF Crash, Fault
  <2>4. mem' = Empty /\ batch' = Empty /\ cells' = {} /\ todo' = {} /\ unsettled' = {}
        /\ phase' = "idle" /\ cancel' = FALSE /\ overtaken' = {}
    BY <1>16 DEF Crash, Return
  <2>5. UNCHANGED <<content, early, late, disk, changes>>
    BY <1>16 DEF Crash, queueVars
  <2>6. raced' \subseteq Tiles
    BY <1>16, HitsTyped DEF Crash
  <2> QED
    BY <2>1, <2>2, <2>3, <2>4, <2>5, <2>6
<1>17. CASE UNCHANGED vars
  BY <1>17 DEF vars, queueVars, storeVars, tickVars
<1> QED
  BY <1>1, <1>2, <1>3, <1>4, <1>5, <1>6, <1>7, <1>8, <1>9, <1>10, <1>11, <1>12, <1>13,
     <1>14, <1>15, <1>16, <1>17 DEF Next, Tick

-------------------------------------------------------------------------------
(* The steps, one part of the invariant at a time                          *)

\* A handler takes up a tile at its lookup and keeps it to its write.
LEMMA HandlersNext == TypeOK /\ Handlers /\ [Next]_vars => Handlers'
<1> SUFFICES ASSUME TypeOK, Handlers, [Next]_vars PROVE Handlers'
  OBVIOUS
<1> USE DEF TypeOK, Handlers, NoReq
<1>1. ASSUME NEW r \in Requests, Miss(r) PROVE Handlers'
  BY <1>1 DEF Miss
<1>2. ASSUME NEW r \in Requests, Render(r) PROVE Handlers'
  BY <1>2 DEF Render
<1>3. ASSUME NEW r \in Requests, Put(r) PROVE Handlers'
  BY <1>3 DEF Put
<1>4. CASE Crash
  BY <1>4 DEF Crash
<1>5. ASSUME UNCHANGED req PROVE Handlers'
  BY <1>5
<1> QED
  BY <1>1, <1>2, <1>3, <1>4, <1>5
  DEF Next, Tick, BeginChange, CommitChange, StartTick, ReadCells, Probe, RenderBlock,
      WriteBatch, DeleteRows, FlushIfFull, TickFails, Cancel, FlushMemtable, vars

\* A batch is open only while a tick renders, and a block that renders leaves
\* both the work list and the unsettled tiles.
LEMMA PhasesNext == TypeOK /\ Phases /\ [Next]_vars => Phases'
<1> SUFFICES ASSUME TypeOK, Phases, [Next]_vars PROVE Phases'
  OBVIOUS
<1> USE DEF Phases, TypeOK
<1>1. CASE Tick
  <2>1. CASE RenderBlock
    BY <2>1 DEF RenderBlock
  <2>2. CASE Probe
    BY <2>2 DEF Probe
  <2>3. CASE DeleteRows
    BY <2>3 DEF DeleteRows, Return
  <2> QED
    BY <1>1, <2>1, <2>2, <2>3 DEF Tick, StartTick, ReadCells, WriteBatch
<1>2. CASE FlushIfFull
  BY <1>2 DEF FlushIfFull
<1>3. CASE TickFails \/ Crash
  BY <1>3 DEF TickFails, Crash, Return
<1>4. ASSUME UNCHANGED tickVars \/ Cancel PROVE Phases'
  BY <1>4 DEF tickVars, Cancel
<1>5. ASSUME NEW p \in Producers, BeginChange(p) \/ CommitChange(p) PROVE Phases'
  BY <1>4, <1>5 DEF BeginChange, CommitChange
<1>6. ASSUME NEW r \in Requests, Miss(r) \/ Render(r) \/ Put(r) PROVE Phases'
  BY <1>4, <1>6 DEF Miss, Render, Put
<1> QED
  BY <1>1, <1>2, <1>3, <1>4, <1>5, <1>6 DEF Next, FlushMemtable, vars

-------------------------------------------------------------------------------
(* What the store holds, tile by tile                                      *)

\* The three layers of the store, the last write first.
LEMMA Layers ==
  ASSUME TypeOK, NEW t \in Tiles
  PROVE  /\ Stored[t] = IF mem[t] = NoEntry THEN disk[t] ELSE mem[t]
         /\ Pending[t] = IF batch[t] = NoEntry THEN Stored[t] ELSE batch[t]
         /\ Stored[t] # NoEntry
BY StoreAssumption DEF TypeOK, Stored, Pending, Over, Version, Entry

\* A committed change leaves a row for every tile it changes, and once the tick
\* has probed one that is late or overtaken; a tile it does not change keeps its
\* mark.
LEMMA ChangesCovered ==
  ASSUME TypeOK, NEW p \in Producers, CommitChange(p), NEW t \in Tiles
  PROVE  /\ Queued \subseteq Queued' /\ Fresh \subseteq Fresh'
         /\ \/ content'[t] = content[t] /\ (t \in raced => t \in raced')
            \/ /\ Covered(t, Queued')
               /\ phase \in {"render", "delete"} => Covered(t, Fresh')
<1>1. CASE t \in TilesFor(prod[p].cells)
  <2>1. PICK c \in prod[p].cells : t \in TilesOf[c]
    BY <1>1 DEF TilesFor
  <2>2. c \in Queued' /\ (phase \in {"render", "delete"} => c \in Fresh')
    BY <2>1 DEF CommitChange, Queued, Fresh
  <2>3. Covered(t, Queued') /\ (phase \in {"render", "delete"} => Covered(t, Fresh'))
    BY <2>1, <2>2 DEF Covered
  <2> QED
    BY <2>3 DEF CommitChange, Queued, Fresh
<1>2. CASE t \notin TilesFor(prod[p].cells)
  BY <1>2 DEF TypeOK, CommitChange, Queued, Fresh
<1> QED
  BY <1>1, <1>2

\* No step leaves a stale tile without a row that no event has hit: a change
\* queues its cells, a write of the tick is current or covered, one of a request
\* that is not is an event, and rows are deleted only for settled tiles.
LEMMA StoredQueuedNext == Inv /\ TypeOK' /\ [Next]_vars => StoredQueued'
<1> DEFINE Fine(u) == Shows(Stored[u], u) \/ Covered(u, Queued) \/ u \in raced
<1> SUFFICES ASSUME Inv, TypeOK', [Next]_vars, NEW t \in Tiles PROVE Fine(t)'
  BY DEF StoredQueued
<1>t. TypeOK
  BY DEF Inv
<1>q. Fine(t)
  BY DEF Inv, StoredQueued
<1>l. /\ Stored[t] = IF mem[t] = NoEntry THEN disk[t] ELSE mem[t]
      /\ Stored'[t] = IF mem'[t] = NoEntry THEN disk'[t] ELSE mem'[t]
  BY <1>t DEF TypeOK, Stored, Over
<1>1. ASSUME NEW p \in Producers, CommitChange(p) PROVE Fine(t)'
  <2>1. Stored'[t] = Stored[t]
    BY <1>1, <1>l DEF CommitChange, storeVars
  <2> QED
    BY <1>1, <1>t, <1>q, <2>1, ChangesCovered DEF Shows, Covered
<1>2. CASE WriteBatch \/ FlushIfFull
  <2>1. Stored'[t] \in {Stored[t], batch[t]} /\ (batch[t] = NoEntry => Stored'[t] = Stored[t])
    BY <1>2, <1>l, <1>t DEF WriteBatch, FlushIfFull, Over, TypeOK
  <2>2. UNCHANGED <<content, early, late>> /\ Hits({})
    BY <1>2 DEF WriteBatch, FlushIfFull, queueVars
  <2>3. t \in raced => t \in raced' \/ Shows(Stored[t], t)'
    BY <1>t, <2>2, HitsKept DEF TypeOK
  <2>4. batch[t] # NoEntry => Shows(batch[t], t) \/ Covered(t, Queued)
    BY <1>t DEF Inv, BatchCurrent, Fresh, TypeOK, Covered, Queued
  <2> QED
    BY <1>q, <2>1, <2>2, <2>3, <2>4 DEF Shows, Covered, Queued
<1>3. CASE DeleteRows
  <2>1. UNCHANGED <<content, late, mem, disk>> /\ phase = "delete"
    BY <1>3 DEF DeleteRows, storeVars
  <2>2. PICK c \in cells : /\ early' = early \ Deleted(c)
                           /\ Hits(TilesFor(Deleted(c) \cap overtaken))
    BY <1>3 DEF DeleteRows
  <2>3. Stored'[t] = Stored[t]
    BY <1>l, <2>1
  <2>4. t \in raced \cup TilesFor(Deleted(c) \cap overtaken)
          => t \in raced' \/ Shows(Stored[t], t)'
    <3>1. raced \cup TilesFor(Deleted(c) \cap overtaken) \subseteq Tiles
      BY <1>t, TilesAssumption DEF TypeOK, TilesFor
    <3> QED
      BY <2>2, <3>1, HitsKept
  <2>5. CASE t \in TilesOf[c] \ unsettled
    <3>1. Pending[t] = Stored[t]
      BY <1>t, <2>1, Layers DEF Inv, Phases, Empty
    <3>2. Shows(Stored[t], t) \/ Covered(t, Fresh) \/ t \in raced
      BY <2>1, <2>2, <2>5, <3>1 DEF Inv, Settled
    <3>3. ASSUME Covered(t, overtaken) PROVE Fine(t)'
      <4>1. PICK d \in overtaken : t \in TilesOf[d]
        BY <3>3 DEF Covered
      <4>2. CASE d \in Deleted(c)
        BY <2>4, <4>1, <4>2 DEF TilesFor
      <4>3. CASE d \notin Deleted(c)
        BY <1>t, <2>2, <4>1, <4>3 DEF TypeOK, Covered, Queued
      <4> QED
        BY <4>2, <4>3
    <3> QED
      BY <2>1, <2>3, <2>4, <3>2, <3>3 DEF Shows, Covered, Queued, Fresh
  <2>6. CASE t \notin TilesOf[c] \ unsettled
    <3>1. Covered(t, Queued) => Covered(t, Queued)'
      BY <2>1, <2>2, <2>6 DEF Deleted, Covered, Queued
    <3> QED
      BY <1>q, <2>1, <2>3, <2>4, <3>1 DEF Shows
  <2> QED
    BY <2>5, <2>6
<1>4. ASSUME NEW r \in Requests, Put(r) PROVE Fine(t)'
  <2>1. UNCHANGED <<content, early, late, disk>> /\ req[r].tile \in Tiles
    BY <1>4 DEF Put, queueVars, Inv, Handlers
  <2>2. CASE UNCHANGED <<mem, raced>>
    BY <1>q, <1>l, <2>1, <2>2 DEF Shows, Covered, Queued
  <2>3. CASE mem' = [mem EXCEPT ![req[r].tile] = req[r].version] /\ Hits({req[r].tile})
    <3>1. t = req[r].tile \/ mem'[t] = mem[t]
      BY <1>t, <2>3 DEF TypeOK
    <3>2. t \in raced \cup {req[r].tile} => t \in raced' \/ Shows(Stored[t], t)'
      BY <1>t, <2>1, <2>3, HitsKept DEF TypeOK
    <3> QED
      BY <1>q, <1>l, <2>1, <3>1, <3>2 DEF Shows, Covered, Queued
  <2> QED
    BY <1>4, <2>2, <2>3 DEF Put
<1>5. CASE Crash
  <2>1. UNCHANGED <<content, early, late, disk>> /\ mem' = Empty
        /\ Hits({u \in Tiles : mem[u] # NoEntry})
    BY <1>5 DEF Crash, queueVars
  <2>2. t \in raced \/ mem[t] # NoEntry => t \in raced' \/ Shows(Stored[t], t)'
    BY <1>t, <2>1, HitsKept DEF TypeOK
  <2> QED
    BY <1>q, <1>l, <2>1, <2>2 DEF Shows, Covered, Queued, Empty
<1>6. CASE FlushMemtable
  <2>1. Stored'[t] = Stored[t]
    BY <1>6, <1>l DEF FlushMemtable, Empty
  <2> QED
    BY <1>6, <1>q, <2>1 DEF FlushMemtable, queueVars, history, Shows, Covered, Queued
<1>7. CASE StartTick
  BY <1>7, <1>q, <1>l DEF StartTick, Queued, storeVars, history, Shows, Covered
<1>8. ASSUME UNCHANGED <<content, mem, disk, early, late, raced>> PROVE Fine(t)'
  BY <1>8, <1>q, <1>l DEF Shows, Covered, Queued
<1>9. ASSUME NEW r \in Requests, Miss(r) \/ Render(r) PROVE Fine(t)'
  BY <1>8, <1>9 DEF Miss, Render, queueVars, storeVars, history
<1>10. ASSUME NEW p \in Producers, BeginChange(p) PROVE Fine(t)'
  BY <1>8, <1>10 DEF BeginChange, queueVars, storeVars, history
<1>11. CASE ReadCells \/ Probe \/ RenderBlock \/ TickFails \/ Cancel \/ UNCHANGED vars
  BY <1>8, <1>11 DEF ReadCells, Probe, RenderBlock, TickFails, Cancel, vars, queueVars,
                     storeVars, history
<1> HIDE DEF Fine
<1> QED
  BY <1>1, <1>2, <1>3, <1>4, <1>5, <1>6, <1>7, <1>9, <1>10, <1>11 DEF Next, Tick

\* What waits in the batch was current when it was rendered, and a tile that has
\* changed since has a late or an overtaken row.
LEMMA BatchCurrentNext == Inv /\ [Next]_vars => BatchCurrent'
<1> DEFINE Fine(u) == batch[u] = NoEntry \/ Shows(batch[u], u) \/ Covered(u, Fresh)
<1> SUFFICES ASSUME Inv, [Next]_vars, NEW t \in Tiles PROVE Fine(t)'
  BY DEF BatchCurrent
<1>t. TypeOK
  BY DEF Inv
<1>q. Fine(t)
  BY DEF Inv, BatchCurrent
<1>r. batch[t] # NoEntry => phase = "render"
  BY DEF Inv, Phases, Empty
<1>1. ASSUME NEW p \in Producers, CommitChange(p) PROVE Fine(t)'
  <2>1. batch' = batch
    BY <1>1 DEF CommitChange, tickVars
  <2> QED
    BY <1>1, <1>t, <1>q, <1>r, <2>1, ChangesCovered DEF Shows, Covered
<1>2. ASSUME batch'[t] = NoEntry PROVE Fine(t)'
  BY <1>2
<1>3. CASE StartTick
  BY <1>2, <1>3 DEF StartTick, Inv, Phases, Empty
<1>4. CASE RenderBlock
  BY <1>4, <1>q DEF RenderBlock, queueVars, history, Shows, Covered, Fresh
<1>5. ASSUME UNCHANGED <<content, late, batch, overtaken>> PROVE Fine(t)'
  BY <1>5, <1>q DEF Shows, Covered, Fresh
<1>6. CASE WriteBatch \/ TickFails \/ Crash
  BY <1>2, <1>6 DEF WriteBatch, TickFails, Crash, Return, Empty
<1>7. CASE DeleteRows
  <2>1. batch = Empty /\ batch' \in {batch, Empty}
    BY <1>7 DEF DeleteRows, Return, Inv, Phases
  <2> QED
    BY <1>2, <2>1 DEF Empty
<1>8. CASE FlushIfFull
  BY <1>8, <1>q DEF FlushIfFull, queueVars, Shows, Covered, Fresh
<1>9. ASSUME NEW r \in Requests, Miss(r) \/ Render(r) \/ Put(r) PROVE Fine(t)'
  BY <1>5, <1>9 DEF Miss, Render, Put, queueVars, tickVars, history
<1>10. ASSUME NEW p \in Producers, BeginChange(p) PROVE Fine(t)'
  BY <1>5, <1>10 DEF BeginChange, queueVars, tickVars, history
<1>11. CASE ReadCells \/ Probe \/ Cancel \/ FlushMemtable \/ UNCHANGED vars
  BY <1>5, <1>11 DEF ReadCells, Probe, Cancel, FlushMemtable, vars, queueVars, tickVars,
                     history
<1> HIDE DEF Fine
<1> QED
  BY <1>1, <1>3, <1>4, <1>6, <1>7, <1>8, <1>9, <1>10, <1>11 DEF Next, Tick

\* Once the tick has probed, a tile of its cells that is not unsettled is settled:
\* it has no stored value, or a current one is stored or in the batch, or it has a
\* row since the probe, or an event has hit it.
LEMMA SettledNext == Inv /\ TypeOK' /\ [Next]_vars => Settled'
<1> DEFINE Fine(u) == Shows(Pending[u], u) \/ Covered(u, Fresh) \/ u \in raced
<1> SUFFICES ASSUME Inv, TypeOK', [Next]_vars, phase' \in {"render", "delete"},
                    NEW c \in cells', NEW t \in TilesOf[c] \ unsettled'
             PROVE  Fine(t)'
  BY DEF Settled
<1>t. TypeOK /\ t \in Tiles
  BY TilesAssumption DEF Inv, TypeOK
<1>q. phase \in {"render", "delete"} /\ c \in cells /\ t \notin unsettled => Fine(t)
  BY DEF Inv, Settled
<1>b. batch[t] = NoEntry \/ Shows(batch[t], t) \/ Covered(t, Fresh)
  BY <1>t DEF Inv, BatchCurrent
<1>l. /\ Pending[t] = IF batch[t] = NoEntry THEN Stored[t] ELSE batch[t]
      /\ Stored[t] = IF mem[t] = NoEntry THEN disk[t] ELSE mem[t]
      /\ Pending'[t] = IF batch'[t] = NoEntry THEN Stored'[t] ELSE batch'[t]
      /\ Stored'[t] = IF mem'[t] = NoEntry THEN disk'[t] ELSE mem'[t]
  BY <1>t DEF TypeOK, Pending, Stored, Over
<1>1. ASSUME NEW p \in Producers, CommitChange(p) PROVE Fine(t)'
  <2>1. Pending'[t] = Pending[t] /\ UNCHANGED <<phase, cells, unsettled>>
    BY <1>1, <1>l DEF CommitChange, storeVars, tickVars
  <2> QED
    BY <1>1, <1>t, <1>q, <2>1, ChangesCovered DEF Shows, Covered
<1>2. ASSUME Pending'[t] = Pending[t], UNCHANGED <<content, late, overtaken, raced>>,
             phase \in {"render", "delete"}, c \in cells, unsettled' = unsettled
      PROVE  Fine(t)'
  BY <1>2, <1>q DEF Shows, Covered, Fresh
<1>3. CASE Probe
  <2>1. Pending'[t] = Stored[t] /\ content' = content
    BY <1>3, <1>l, <1>t DEF Probe, storeVars, Inv, Phases, Empty
  <2>2. PICK R \in Resident(TilesFor(cells)) : unsettled' = R
    BY <1>3 DEF Probe
  <2>3. t \in TilesFor(cells)
    BY <1>3 DEF Probe, TilesFor
  <2>4. Stored[t] = Absent
    BY <2>2, <2>3 DEF Resident
  <2> QED
    BY <2>1, <2>4 DEF Shows
<1>4. CASE RenderBlock
  <2>1. PICK block \in SUBSET todo, ok \in SUBSET Tiles :
          /\ batch' = [u \in Tiles |-> IF u \in ok THEN content[u]
                                       ELSE IF u \in block THEN Absent ELSE batch[u]]
          /\ unsettled' = unsettled \ block
    BY <1>4, <1>t DEF RenderBlock, TypeOK
  <2>2. UNCHANGED <<content, late, mem, disk, phase, cells, overtaken, raced>>
        /\ phase = "render"
    BY <1>4 DEF RenderBlock, queueVars, storeVars, history
  <2>3. CASE t \in ok \/ t \in block
    BY <1>l, <1>t, <2>1, <2>2, <2>3, StoreAssumption DEF Shows, TypeOK
  <2>4. CASE t \notin ok /\ t \notin block
    BY <1>l, <1>q, <1>t, <2>1, <2>2, <2>4 DEF Shows, Covered, Fresh
  <2> QED
    BY <2>3, <2>4
<1>5. CASE FlushIfFull \/ WriteBatch
  <2>1. Pending'[t] = Pending[t]
    BY <1>5, <1>l, <1>t DEF FlushIfFull, WriteBatch, TypeOK, Over, Empty
  <2>2. UNCHANGED <<content, late, overtaken, cells, unsettled>> /\ phase = "render"
        /\ Hits({})
    BY <1>5 DEF FlushIfFull, WriteBatch, RenderingEnds, queueVars
  <2>3. t \in raced => t \in raced' \/ Shows(Stored[t], t)'
    BY <1>t, <2>2, HitsKept DEF TypeOK
  <2>4. CASE batch[t] = NoEntry
    <3>1. Pending'[t] = Stored'[t]
      BY <1>5, <1>l, <1>t, <2>1, <2>4 DEF FlushIfFull, WriteBatch, TypeOK, Over, Empty
    <3> QED
      BY <1>q, <2>1, <2>2, <2>3, <3>1 DEF Shows, Covered, Fresh
  <2>5. CASE batch[t] # NoEntry
    BY <1>b, <1>l, <2>1, <2>2, <2>5 DEF Shows, Covered, Fresh
  <2> QED
    BY <2>4, <2>5
<1>6. CASE DeleteRows
  <2>1. /\ UNCHANGED <<mem, disk, batch, content, late, unsettled, phase>>
        /\ c \in cells /\ phase = "delete"
    BY <1>6 DEF DeleteRows, Return, storeVars
  <2>2. PICK d \in cells : /\ overtaken' = overtaken \ Deleted(d)
                           /\ Hits(TilesFor(Deleted(d) \cap overtaken))
    BY <1>6 DEF DeleteRows, Return
  <2>3. Pending'[t] = Pending[t] /\ Pending'[t] = Stored'[t]
    BY <1>l, <1>t, <2>1 DEF Inv, Phases, Empty
  <2>4. t \in raced \cup TilesFor(Deleted(d) \cap overtaken)
          => t \in raced' \/ Shows(Stored[t], t)'
    <3>1. raced \cup TilesFor(Deleted(d) \cap overtaken) \subseteq Tiles
      BY <1>t, TilesAssumption DEF TypeOK, TilesFor
    <3> QED
      BY <2>2, <3>1, HitsKept
  <2>5. ASSUME Covered(t, Fresh) PROVE Fine(t)'
    <3>1. PICK e \in Fresh : t \in TilesOf[e]
      BY <2>5 DEF Covered
    <3>2. e \in late \cup overtaken'
          \/ t \in TilesFor(Deleted(d) \cap overtaken)
      BY <2>2, <3>1 DEF Fresh, TilesFor
    <3>3. late' = late
      BY <2>1
    <3> QED
      BY <2>3, <2>4, <3>1, <3>2, <3>3 DEF Covered, Fresh
  <2> QED
    BY <1>q, <2>1, <2>3, <2>4, <2>5 DEF Shows
<1>7. CASE FlushMemtable
  BY <1>2, <1>7, <1>l, <1>t DEF FlushMemtable, Empty, queueVars, tickVars, history
<1>8. ASSUME NEW r \in Requests, Put(r) PROVE Fine(t)'
  <2>1. UNCHANGED <<content, late, disk, phase, cells, batch, unsettled, overtaken>>
        /\ req[r].tile \in Tiles
    BY <1>8 DEF Put, queueVars, tickVars, Inv, Handlers
  <2>2. CASE UNCHANGED <<mem, raced>>
    BY <1>q, <1>l, <2>1, <2>2 DEF Shows, Covered, Fresh
  <2>3. CASE mem' = [mem EXCEPT ![req[r].tile] = req[r].version] /\ Hits({req[r].tile})
    <3>1. t = req[r].tile \/ mem'[t] = mem[t]
      BY <1>t, <2>3 DEF TypeOK
    <3>2. t \in raced \cup {req[r].tile} => t \in raced' \/ Shows(Stored[t], t)'
      BY <1>t, <2>1, <2>3, HitsKept DEF TypeOK
    <3>3. CASE batch[t] = NoEntry
      BY <1>q, <1>l, <2>1, <3>1, <3>2, <3>3 DEF Shows, Covered, Fresh
    <3>4. CASE batch[t] # NoEntry
      BY <1>b, <1>l, <2>1, <3>4 DEF Shows, Covered, Fresh
    <3> QED
      BY <3>3, <3>4
  <2> QED
    BY <1>8, <2>2, <2>3 DEF Put
<1>9. ASSUME UNCHANGED <<content, late, storeVars, phase, cells, batch, unsettled, history>>
      PROVE  Fine(t)'
  BY <1>2, <1>9, <1>l DEF storeVars, history
<1>10. ASSUME NEW r \in Requests, Miss(r) \/ Render(r) PROVE Fine(t)'
  BY <1>9, <1>10 DEF Miss, Render, queueVars, tickVars
<1>11. ASSUME NEW p \in Producers, BeginChange(p) PROVE Fine(t)'
  BY <1>9, <1>11 DEF BeginChange, queueVars, tickVars
<1>12. CASE StartTick \/ ReadCells \/ TickFails \/ Crash
  BY <1>12 DEF StartTick, ReadCells, TickFails, Crash, Return
<1>13. CASE Cancel \/ UNCHANGED vars
  BY <1>9, <1>13 DEF Cancel, vars, queueVars, tickVars
<1> HIDE DEF Fine
<1> QED
  BY <1>1, <1>3, <1>4, <1>5, <1>6, <1>7, <1>8, <1>10, <1>11, <1>12, <1>13 DEF Next, Tick

-------------------------------------------------------------------------------
(* The theorems                                                            *)

\* A fresh queue is empty, and what the store holds at the start is current.
LEMMA InvInit == Init => Inv
<1> SUFFICES ASSUME Init PROVE Inv
  OBVIOUS
<1>1. TypeOK
  <2>1. prod \in [Producers -> [open : BOOLEAN, early : BOOLEAN, cells : SUBSET Cells]]
    BY DEF Init, NoTxn
  <2>2. req \in [Requests -> [at : {"idle", "missed", "rendered"}, tile : Tiles \cup {Absent}, version : Version]]
    BY DEF Init, NoReq, Version
  <2>3. disk \in [Tiles -> Version]
    BY DEF Init, Version
  <2>4. /\ content \in [Tiles -> Nat] /\ mem \in [Tiles -> Entry] /\ batch \in [Tiles -> Entry]
        /\ changes \in 0..MaxChanges /\ faults \in 0..MaxFaults
    BY StoreAssumption, EmptyTyped DEF Init
  <2>5. /\ early = {} /\ late = {} /\ cells = {} /\ todo = {} /\ unsettled = {}
        /\ phase = "idle" /\ cancel = FALSE /\ overtaken = {} /\ raced = {}
    BY DEF Init
  <2> QED
    BY <2>1, <2>2, <2>3, <2>4, <2>5 DEF TypeOK
<1>2. \A t \in Tiles : Stored[t] = disk[t] /\ disk[t] \in {0, Absent}
  BY DEF Init, Stored, Over, Empty
<1>3. Handlers
  BY DEF Init, Handlers, NoReq
<1>4. Phases /\ StoredQueued /\ Settled
  BY <1>2 DEF Init, Phases, StoredQueued, Shows, Settled
<1>5. BatchCurrent
  BY DEF Init, BatchCurrent, Empty
<1> QED
  BY <1>1, <1>3, <1>4, <1>5 DEF Inv

\* The invariant that the freshness of the store rests on, in every reachable
\* state.
THEOREM InvHolds == Spec => []Inv
<1>1. Inv /\ [Next]_vars => Inv'
  BY TypeNext, HandlersNext, PhasesNext, StoredQueuedNext, BatchCurrentNext, SettledNext
  DEF Inv
<1> QED
  BY InvInit, <1>1, PTL DEF Spec

\* The queue loses a stale tile to none but the three events: whenever a stored
\* tile no longer shows what it would render, a queue row of one of its cells is
\* there for a later tick or an event has hit it since it changed, whatever
\* renders fail, wherever a tick fails, is cancelled or dies, however many
\* producers and requests run beside it.
THEOREM StaleTileNeverLost == Spec => []StaleTileQueued
<1>1. Inv => StaleTileQueued
  BY DEF Inv, StoredQueued, Shows, StaleTileQueued, Stale
<1> QED
  BY InvHolds, <1>1, PTL
==============================================================================
