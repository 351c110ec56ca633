------------------------------ MODULE OsmProofs ------------------------------
(***************************************************************************)
(* Proofs about the OSM catch-up: how the sequences of the feed get into   *)
(* the store and the rows (OsmApply), how they get to the disk             *)
(* (OsmPrefetch) and, at the end, what RocksDB makes of a value that is    *)
(* merged (OsmStore) and whether the import and the update make the same   *)
(* rows of an object (OsmObjects).                                         *)
(*                                                                         *)
(* The first part is for any objects, any data and any diffs that keep it  *)
(* complete, any batch sizes and any failures.  A failed batch leaves what *)
(* it changed in doubt, and the next ones replay it.  Dirtied is what is   *)
(* in doubt or changed by the running batch, Later what would still be in  *)
(* doubt after it, Applied what the batch has reached.  Then               *)
(*   - the batch says of each object it changes what the data after it     *)
(*     says, and of no other (Batched);                                    *)
(*   - the store is right about whatever is not in doubt or was applied,   *)
(*     but for the object whose writes are being made, and its reverse     *)
(*     indexes never hold what the forward ones do not (StoreOK): a replay *)
(*     that takes an object leaves the lists its old refs name, whichever  *)
(*     part of them a crash had written;                                   *)
(*   - what rests on an applied object is going to be rebuilt (Covered),   *)
(*     since the reverse indexes were right about it when it was read;     *)
(*   - the rows are true to the data but for what is in doubt (RowsTrue),  *)
(*     the transaction's rows phase by phase (Staged), and the cells of    *)
(*     those that differ are noted (Noted).                                *)
(* The second is for any window, batch sizes and backlog: the two threads  *)
(* split the sequences between them at the claim (Ahead), and every file   *)
(* of the directory is owned by the loop, the thread or an earlier run     *)
(* (Owned).                                                                *)
(* The third is for any ids and operands.  What a reader gets of an entry  *)
(* is its value and then FlattenSeq of its operands, and FlattenSeq of two *)
(* lists one after the other is that of the one and then of the other:     *)
(* found, as the library has no induction to offer here, by a least place  *)
(* at which it would not be.                                               *)
(***************************************************************************)
EXTENDS OsmApply, OsmPrefetch, OsmStore, OsmObjects, SequenceTheorems, FiniteSetTheorems,
        WellFoundedInduction, TLAPS

-------------------------------------------------------------------------------
(* The feed: what every published sequence leaves of an object             *)

DataValues == {Gone} \cup UNION {Value(o) : o \in Objects}
Entries == [diff : Diffs, data : [Objects -> DataValues]]
IsData(d) ==
  /\ d \in [Objects -> DataValues] /\ Complete(d)
  /\ \A o \in Objects : d[o] = Gone \/ d[o] \in Value(o)
\* The objects that sequences i to k of a feed change.
Touched(f, i, k) == {o \in Objects : \E j \in i .. k : o \in DOMAIN f[j].diff}
\* After sequence k of a feed, an object is what the last diff to change it says.
Follows(f, b, k) ==
  \A o \in Objects :
    \/ o \notin Touched(f, 1, k) /\ f[k].data[o] = b[o]
    \/ \E i \in 1 .. k :
         /\ o \in DOMAIN f[i].diff /\ f[k].data[o] = f[i].diff[o]
         /\ o \notin Touched(f, i + 1, k)
IsFeed(f, b, w) ==
  /\ f \in Seq(Entries) /\ IsData(b)
  /\ \A k \in 1 .. Len(f) : IsData(f[k].data) /\ Follows(f, b, k)
  /\ w = IF f = <<>> THEN b ELSE f[Len(f)].data

\* What upstream publishes is complete.
LEMMA Patched ==
  ASSUME NEW d, IsData(d), NEW c \in Diffs, Complete(Patch(d, c))
  PROVE  IsData(Patch(d, c))
BY DiffsAssumption DEF IsData, Patch, DataValues

\* A sequence that is published is the last of the feed.
LEMMA FeedAppended ==
  ASSUME NEW f, NEW b, NEW w, IsFeed(f, b, w), NEW d \in Diffs, Complete(Patch(w, d))
  PROVE  IsFeed(Append(f, [diff |-> d, data |-> Patch(w, d)]), b, Patch(w, d))
<1> DEFINE n == Len(f)
           e == [diff |-> d, data |-> Patch(w, d)]
           g == Append(f, e)
<1>1. f \in Seq(Entries) /\ n \in Nat /\ IsData(b)
  BY DEF IsFeed
<1>2. n # 0 => w = f[n].data
  BY <1>1 DEF IsFeed
<1>3. n = 0 => w = b
  BY <1>1 DEF IsFeed
<1>4. IsData(w)
  <2>1. CASE n = 0
    BY <1>1, <1>3, <2>1
  <2>2. CASE n # 0
    BY <1>1, <1>2, <2>2 DEF IsFeed
  <2> QED
    BY <2>1, <2>2
<1>5. IsData(Patch(w, d))
  BY <1>4, Patched
<1>6. e \in Entries
  BY <1>5 DEF Entries, IsData
<1> HIDE DEF e
<1>7. /\ g \in Seq(Entries) /\ Len(g) = n + 1 /\ g[n + 1] = e
      /\ \A k \in 1 .. n : g[k] = f[k]
  BY <1>1, <1>6, AppendProperties
<1> HIDE DEF g
<1>8. \A i \in Nat, k \in 1 .. n : Touched(g, i, k) = Touched(f, i, k) \/ i = 0
  BY <1>1, <1>7 DEF Touched
<1>9. ASSUME NEW k \in 1 .. n PROVE Follows(g, b, k)
  <2>1. Follows(f, b, k)
    BY DEF IsFeed
  <2> QED
    BY <1>1, <1>7, <1>8, <2>1 DEF Follows
<1>10. Follows(g, b, n + 1)
  <2> SUFFICES ASSUME NEW o \in Objects
               PROVE  \/ o \notin Touched(g, 1, n + 1) /\ g[n + 1].data[o] = b[o]
                      \/ \E i \in 1 .. n + 1 :
                           /\ o \in DOMAIN g[i].diff /\ g[n + 1].data[o] = g[i].diff[o]
                           /\ o \notin Touched(g, i + 1, n + 1)
    BY DEF Follows
  <2>1. g[n + 1].diff = d /\ g[n + 1].data = Patch(w, d)
    BY <1>7 DEF e
  <2>2. CASE o \in DOMAIN d
    <3>1. g[n + 1].data[o] = d[o]
      BY <2>1, <2>2 DEF Patch
    <3>2. o \notin Touched(g, (n + 1) + 1, n + 1)
      BY <1>1 DEF Touched
    <3> QED
      BY <1>1, <2>1, <2>2, <3>1, <3>2
  <2>3. CASE o \notin DOMAIN d
    <3>1. g[n + 1].data[o] = w[o]
      BY <2>1, <2>3 DEF Patch
    <3>2. \A i \in Nat \ {0} : o \in Touched(g, i, n + 1) => o \in Touched(f, i, n)
      BY <1>1, <1>7, <2>1, <2>3 DEF Touched
    <3>3. CASE n = 0
      BY <1>1, <1>3, <3>1, <3>2, <3>3 DEF Touched
    <3>4. CASE n # 0
      <4>1. w = f[n].data /\ Follows(f, b, n) /\ n \in 1 .. n
        BY <1>1, <1>2, <3>4 DEF IsFeed
      <4>2. CASE o \notin Touched(f, 1, n) /\ f[n].data[o] = b[o]
        BY <3>1, <3>2, <4>1, <4>2
      <4>3. ASSUME NEW i \in 1 .. n, o \in DOMAIN f[i].diff, f[n].data[o] = f[i].diff[o],
                   o \notin Touched(f, i + 1, n)
            PROVE  /\ i \in 1 .. n + 1 /\ o \in DOMAIN g[i].diff
                   /\ g[n + 1].data[o] = g[i].diff[o] /\ o \notin Touched(g, i + 1, n + 1)
        <5>1. i \in 1 .. n + 1 /\ i + 1 \in Nat \ {0} /\ g[i] = f[i]
          BY <1>1, <1>7
        <5> QED
          BY <3>1, <3>2, <4>1, <4>3, <5>1
      <4> QED
        BY <4>1, <4>2, <4>3 DEF Follows
    <3> QED
      BY <3>3, <3>4
  <2> QED
    BY <2>2, <2>3
<1>11. \A k \in 1 .. n + 1 : IsData(g[k].data) /\ Follows(g, b, k)
  <2> TAKE k \in 1 .. n + 1
  <2>1. CASE k = n + 1
    BY <1>5, <1>7, <1>10, <2>1 DEF e
  <2>2. CASE k # n + 1
    <3>1. k \in 1 .. n /\ g[k] = f[k]
      BY <1>1, <1>7, <2>2
    <3> QED
      BY <1>9, <3>1 DEF IsFeed
  <2> QED
    BY <2>1, <2>2
<1>12. Patch(w, d) = IF g = <<>> THEN b ELSE g[Len(g)].data
  <2>1. g # <<>>
    BY <1>1, <1>7
  <2> QED
    BY <1>7, <2>1 DEF e
<1> QED
  BY <1>1, <1>7, <1>11, <1>12 DEF IsFeed, g, e

\* Once the first m sequences are applied, the feed goes on from their data.
LEMMA FeedApplied ==
  ASSUME NEW f, NEW b, NEW w, IsFeed(f, b, w), NEW m \in 1 .. Len(f)
  PROVE  /\ IsFeed(SubSeq(f, m + 1, Len(f)), f[m].data, w)
         /\ Len(SubSeq(f, m + 1, Len(f))) = Len(f) - m
         /\ \A i, k \in Nat : i # 0 /\ k <= Len(f) - m
              => Touched(SubSeq(f, m + 1, Len(f)), i, k) = Touched(f, i + m, k + m)
<1> DEFINE n == Len(f)
           g == SubSeq(f, m + 1, n)
<1>1. f \in Seq(Entries) /\ n \in Nat /\ IsData(b) /\ m \in Nat /\ m <= n /\ m # 0
  BY DEF IsFeed
<1>2. /\ g \in Seq(Entries) /\ Len(g) = n - m /\ \A k \in 1 .. n - m : g[k] = f[k + m]
  <2>1. \A i \in m + 1 .. n : f[i] \in Entries
    BY <1>1
  <2>2. /\ g \in Seq(Entries) /\ Len(g) = IF m + 1 <= n THEN n - (m + 1) + 1 ELSE 0
        /\ \A i \in 1 .. n - (m + 1) + 1 : g[i] = f[(m + 1) + i - 1]
    BY <1>1, <2>1, SubSeqProperties
  <2> QED
    BY <1>1, <2>2
<1> HIDE DEF g
<1>3. ASSUME NEW i \in Nat, NEW k \in Nat, i # 0, k <= n - m
      PROVE  Touched(g, i, k) = Touched(f, i + m, k + m)
  <2>1. ASSUME NEW o, NEW j \in i .. k, o \in DOMAIN g[j].diff
        PROVE  \E h \in i + m .. k + m : o \in DOMAIN f[h].diff
    <3>1. j + m \in i + m .. k + m /\ g[j] = f[j + m]
      BY <1>1, <1>2, <1>3
    <3> QED
      BY <2>1, <3>1
  <2>2. ASSUME NEW o, NEW h \in i + m .. k + m, o \in DOMAIN f[h].diff
        PROVE  \E j \in i .. k : o \in DOMAIN g[j].diff
    <3>1. h - m \in i .. k /\ h - m \in 1 .. n - m /\ (h - m) + m = h
      BY <1>1, <1>3
    <3>2. g[h - m] = f[h]
      BY <1>2, <3>1
    <3> QED
      BY <2>2, <3>1, <3>2
  <2> QED
    BY <2>1, <2>2 DEF Touched
<1>4. Follows(f, b, m) /\ IsData(f[m].data)
  BY DEF IsFeed
<1>5. ASSUME NEW k \in 1 .. n - m PROVE Follows(g, f[m].data, k) /\ IsData(g[k].data)
  <2>1. k + m \in 1 .. n /\ g[k] = f[k + m] /\ k \in Nat
    BY <1>1, <1>2
  <2>2. Follows(f, b, k + m) /\ IsData(f[k + m].data)
    BY <2>1 DEF IsFeed
  <2> SUFFICES ASSUME NEW o \in Objects
               PROVE  \/ o \notin Touched(g, 1, k) /\ g[k].data[o] = f[m].data[o]
                      \/ \E i \in 1 .. k :
                           /\ o \in DOMAIN g[i].diff /\ g[k].data[o] = g[i].diff[o]
                           /\ o \notin Touched(g, i + 1, k)
    BY <2>1, <2>2 DEF Follows
  <2>3. Touched(g, 1, k) = Touched(f, 1 + m, k + m)
    BY <1>1, <1>3
  <2>4. CASE o \notin Touched(f, 1, k + m) /\ f[k + m].data[o] = b[o]
    <3>1. o \notin Touched(f, 1, m) /\ o \notin Touched(f, 1 + m, k + m)
      BY <1>1, <2>1, <2>4 DEF Touched
    <3>2. f[m].data[o] = b[o]
      BY <1>1, <1>4, <3>1 DEF Follows, Touched
    <3> QED
      BY <2>1, <2>3, <2>4, <3>1, <3>2
  <2>5. ASSUME NEW i \in 1 .. k + m, o \in DOMAIN f[i].diff,
               f[k + m].data[o] = f[i].diff[o], o \notin Touched(f, i + 1, k + m)
        PROVE  \/ o \notin Touched(g, 1, k) /\ g[k].data[o] = f[m].data[o]
               \/ \E h \in 1 .. k :
                    /\ o \in DOMAIN g[h].diff /\ g[k].data[o] = g[h].diff[o]
                    /\ o \notin Touched(g, h + 1, k)
    <3>1. CASE i > m
      <4>1. i - m \in 1 .. k /\ i - m \in 1 .. n - m /\ (i - m) + m = i
        BY <1>1, <2>1, <3>1
      <4>2. g[i - m] = f[i]
        BY <1>2, <4>1
      <4>3. Touched(g, (i - m) + 1, k) = Touched(f, ((i - m) + 1) + m, k + m)
        BY <1>1, <1>3, <4>1
      <4>4. ((i - m) + 1) + m = i + 1
        BY <1>1, <4>1
      <4> QED
        BY <2>1, <2>5, <4>1, <4>2, <4>3, <4>4
    <3>2. CASE i <= m
      <4>1. o \in Touched(f, 1, m) /\ o \notin Touched(f, 1 + m, k + m)
        BY <1>1, <2>1, <2>5, <3>2 DEF Touched
      <4>2. PICK h \in 1 .. m : /\ o \in DOMAIN f[h].diff /\ f[m].data[o] = f[h].diff[o]
                                /\ o \notin Touched(f, h + 1, m)
        BY <1>4, <4>1 DEF Follows
      <4>3. h = i
        <5>1. ~(h < i)
          BY <1>1, <2>5, <3>2, <4>2 DEF Touched
        <5>2. ~(i < h)
          BY <1>1, <2>1, <2>5, <3>2, <4>2 DEF Touched
        <5> QED
          BY <1>1, <2>1, <5>1, <5>2
      <4> QED
        BY <2>1, <2>3, <2>5, <4>1, <4>2, <4>3
    <3> QED
      BY <1>1, <2>1, <3>1, <3>2
  <2> QED
    BY <2>2, <2>4, <2>5 DEF Follows
<1>6. w = IF g = <<>> THEN f[m].data ELSE g[Len(g)].data
  <2>1. w = f[n].data
    BY <1>1 DEF IsFeed
  <2>2. CASE n = m
    BY <1>2, <2>1, <2>2
  <2>3. CASE n # m
    <3>1. Len(g) \in 1 .. n - m /\ Len(g) + m = n /\ g # <<>>
      BY <1>1, <1>2, <2>3
    <3> QED
      BY <1>2, <2>1, <3>1
  <2> QED
    BY <2>2, <2>3
<1>7. IsFeed(g, f[m].data, w)
  BY <1>2, <1>4, <1>5, <1>6 DEF IsFeed
<1> QED
  BY <1>2, <1>3, <1>7 DEF g
-------------------------------------------------------------------------------
(* The batch: the first sequences of the feed, collapsed                   *)

InBatch == phase \notin {"off", "between"}
Due == feed[size].data
Batched ==
  /\ IsFeed(feed, base, world)
  /\ phase \in Phases /\ size \in Nat /\ ahead \in Nat /\ ahead <= Len(feed)
  /\ run \in [chunk : Nat \ {0}, left : Nat]
  /\ phase # "off" => run.left = Len(feed)
  /\ split \in BOOLEAN
  /\ ~InBatch => size = 0 /\ DOMAIN batch = {}
  /\ InBatch => /\ size \in 1 .. Len(feed) /\ (split \/ ahead <= size)
                /\ DOMAIN batch = Touched(feed, 1, size)
                /\ \A o \in DOMAIN batch : batch[o] = Due[o]

\* Collapsed, m sequences say of each object they change what the last one says.
LEMMA Collapsed ==
  ASSUME NEW f, NEW b, NEW w, IsFeed(f, b, w), NEW m \in 1 .. Len(f)
  PROVE  /\ DOMAIN Collapse([i \in 1 .. m |-> f[i].diff]) = Touched(f, 1, m)
         /\ \A o \in Touched(f, 1, m) : Collapse([i \in 1 .. m |-> f[i].diff])[o] = f[m].data[o]
<1> DEFINE diffs == [i \in 1 .. m |-> f[i].diff]
           Touching(o) == {i \in DOMAIN diffs : o \in DOMAIN diffs[i]}
           Latest(o) == CHOOSE i \in Touching(o) : \A j \in Touching(o) : j <= i
<1>1. Collapse(diffs) = [o \in UNION {DOMAIN diffs[i] : i \in DOMAIN diffs} |-> diffs[Latest(o)][o]]
  BY DEF Collapse
<1>2. m \in Nat /\ DOMAIN diffs = 1 .. m /\ \A i \in 1 .. m : diffs[i] = f[i].diff
  BY DEF IsFeed
<1>3. \A i \in 1 .. m : DOMAIN f[i].diff \subseteq Objects
  <2> TAKE i \in 1 .. m
  <2>1. f \in Seq(Entries) /\ i \in 1 .. Len(f)
    BY DEF IsFeed
  <2>2. f[i] \in Entries
    BY <2>1, ElementOfSeq
  <2> QED
    BY <2>2, DiffsAssumption DEF Entries
<1>4. UNION {DOMAIN diffs[i] : i \in DOMAIN diffs} = Touched(f, 1, m)
  BY <1>2, <1>3 DEF Touched
<1>5. ASSUME NEW o \in Touched(f, 1, m) PROVE diffs[Latest(o)][o] = f[m].data[o]
  <2>1. PICK i \in 1 .. m : /\ o \in DOMAIN f[i].diff /\ f[m].data[o] = f[i].diff[o]
                            /\ o \notin Touched(f, i + 1, m)
    BY DEF IsFeed, Follows, Touched
  <2>2. i \in Touching(o)
    BY <1>2, <2>1
  <2>3. \A j \in Touching(o) : j <= i
    BY <1>2, <2>1 DEF Touched
  <2>4. Latest(o) \in Touching(o) /\ \A j \in Touching(o) : j <= Latest(o)
    BY <2>2, <2>3
  <2>5. Latest(o) = i
    <3>1. Latest(o) <= i /\ i <= Latest(o) /\ Latest(o) \in 1 .. m
      BY <1>2, <2>2, <2>3, <2>4
    <3> QED
      BY <1>2, <3>1
  <2> QED
    BY <1>2, <2>1, <2>5
<1> HIDE DEF diffs, Latest
<1>6. DOMAIN Collapse(diffs) = Touched(f, 1, m)
  BY <1>1, <1>4
<1>7. \A o \in Touched(f, 1, m) : Collapse(diffs)[o] = f[m].data[o]
  BY <1>1, <1>4, <1>5
<1> QED
  BY <1>6, <1>7 DEF diffs

\* Nothing is published or collapsed at first,
LEMMA BatchedInit == Init => Batched
<1> SUFFICES ASSUME Init PROVE Batched
  OBVIOUS
<1>1. IsData(World0)
  BY WorldAssumption DEF IsData, DataValues
<1>2. feed = <<>> /\ base = World0 /\ world = World0
  BY DEF Init
<1>3. <<>> \in Seq(Entries) /\ Len(<<>>) = 0
  BY EmptySeq
<1>4. IsFeed(feed, base, world)
  BY <1>1, <1>2, <1>3 DEF IsFeed
<1> QED
  <2>1. phase = "off" /\ size = 0 /\ ahead = 0 /\ run = [chunk |-> 1, left |-> 0] /\ split = FALSE
    BY DEF Init, NoRun
  <2>2. Len(feed) = 0
    BY <1>2, <1>3
  <2>3. split \in BOOLEAN /\ ~InBatch /\ phase \in Phases
    BY <2>1 DEF InBatch, Phases
  <2>4. run \in [chunk : Nat \ {0}, left : Nat]
    BY <2>1
  <2>5. DOMAIN batch = {}
    BY DEF Init, NoBatch
  <2> QED
    BY <1>4, <2>1, <2>2, <2>3, <2>4, <2>5 DEF Batched

\* and every step keeps the feed, the batch and their sizes in line.
LEMMA BatchedNext == Batched /\ [Next]_vars => Batched'
<1> SUFFICES ASSUME Batched, [Next]_vars PROVE Batched'
  OBVIOUS
<1> DEFINE n == Len(feed)
<1>n. feed \in Seq(Entries) /\ n \in Nat
  BY DEF Batched, IsFeed
<1>1. CASE Publish
  <2>1. PICK d \in Diffs : /\ Complete(Patch(world, d)) /\ world' = Patch(world, d)
                           /\ feed' = Append(feed, [diff |-> d, data |-> world'])
    BY <1>1 DEF Publish
  <2>2. base' = base /\ phase = "off" /\ UNCHANGED <<phase, size, ahead, run, split, batch>>
    BY <1>1 DEF Publish, committed, txnVars, history
  <2>3. IsFeed(feed', base', world')
    BY <2>1, <2>2, FeedAppended DEF Batched
  <2>4. Len(feed') = n + 1
    BY <1>n, <2>1
  <2> QED
    BY <1>n, <2>2, <2>3, <2>4 DEF Batched, InBatch
<1>2. CASE StartRun
  <2>1. UNCHANGED <<feed, base, world, size, ahead, split, batch>>
    BY <1>2 DEF StartRun, upstream, committed, txnVars, history
  <2>2. phase = "off" /\ phase' = "between" /\ run' = [chunk |-> ChunkSize(n), left |-> n]
    BY <1>2 DEF StartRun
  <2>3. ChunkSize(n) \in Nat \ {0}
    BY SizesAssumption DEF ChunkSize
  <2> QED
    BY <1>n, <2>1, <2>2, <2>3 DEF Batched, InBatch, Phases
<1>3. CASE EndRun
  <2>1. UNCHANGED <<feed, base, world, size, ahead, split, batch>>
    BY <1>3 DEF EndRun, upstream, committed, txnVars, history
  <2>2. phase = "between" /\ phase' = "off" /\ run' = [chunk |-> 1, left |-> 0]
    BY <1>3 DEF EndRun, NoRun
  <2> QED
    BY <1>n, <2>1, <2>2 DEF Batched, InBatch, Phases
<1>4. CASE BeginBatch
  <2>1. UNCHANGED <<feed, base, world, ahead, run>>
    BY <1>4 DEF BeginBatch, upstream, committed
  <2>2. /\ phase = "between" /\ phase' = "nodes" /\ run.left > 0 /\ size' = BatchLength
        /\ batch' = Collapse([i \in 1 .. size' |-> feed[i].diff]) /\ split' = (split \/ size' < ahead)
    BY <1>4 DEF BeginBatch
  <2>3. size' \in 1 .. n
    BY <1>n, <2>2 DEF Batched, BatchLength, Least
  <2>4. /\ DOMAIN batch' = Touched(feed, 1, size')
        /\ \A o \in Touched(feed, 1, size') : batch'[o] = feed[size'].data[o]
    <3>1. PICK m : m = size'
      OBVIOUS
    <3>2. IsFeed(feed, base, world) /\ m \in 1 .. Len(feed) /\ batch' = Collapse([i \in 1 .. m |-> feed[i].diff])
      BY <2>2, <2>3, <3>1 DEF Batched
    <3> QED
      BY <3>1, <3>2, Collapsed
  <2>5. split' \in BOOLEAN /\ (split' \/ ahead <= size')
    <3>1. split' = split \/ split' = TRUE
      BY <2>2 DEF Batched
    <3>2. size' < ahead \/ ahead <= size'
      BY <1>n, <2>3 DEF Batched
    <3> QED
      BY <2>2, <3>1, <3>2 DEF Batched
  <2>6. IsFeed(feed', base', world') /\ ahead' \in Nat /\ ahead' <= Len(feed')
        /\ run' \in [chunk : Nat \ {0}, left : Nat] /\ run'.left = Len(feed')
    BY <2>1, <2>2 DEF Batched
  <2>7. size' \in Nat /\ size' \in 1 .. Len(feed')
    BY <1>n, <2>1, <2>3
  <2>8. phase' \in Phases /\ InBatch' /\ (~InBatch' => size' = 0 /\ DOMAIN batch' = {})
    BY <2>2 DEF Phases, InBatch
  <2>9. DOMAIN batch' = Touched(feed', 1, size') /\ \A o \in DOMAIN batch' : batch'[o] = Due'[o]
    <3>1. feed' = feed
      BY <2>1
    <3>2. Due' = feed[size'].data
      BY <2>1, <2>3 DEF Due
    <3> QED
      BY <2>4, <3>1, <3>2
  <2>a. InBatch' => /\ size' \in 1 .. Len(feed') /\ (split' \/ ahead' <= size')
                    /\ DOMAIN batch' = Touched(feed', 1, size')
                    /\ \A o \in DOMAIN batch' : batch'[o] = Due'[o]
    BY <2>1, <2>5, <2>7, <2>9
  <2> QED
    BY <2>5, <2>6, <2>7, <2>8, <2>a DEF Batched
<1>5. CASE \/ TakeNode \/ TakeWay \/ TakeRelation \/ KvWrite
           \/ EndNodes \/ EndWays \/ EndRelations \/ RebuildWays \/ RebuildRelations
  <2>1. UNCHANGED <<feed, base, world, ahead, run, size, batch, split>>
    BY <1>5 DEF TakeNode, TakeWay, TakeRelation, KvWrite, EndNodes, EndWays, EndRelations,
                RebuildWays, RebuildRelations, upstream, committed, history
  <2>2. phase' = phase \/ (InBatch /\ InBatch' /\ phase' \in Phases)
    BY <1>5 DEF TakeNode, TakeWay, TakeRelation, KvWrite, EndNodes, EndWays, EndRelations,
                RebuildWays, RebuildRelations, PhaseDone, InBatch, Phases
  <2> QED
    BY <2>1, <2>2 DEF Batched, InBatch, Due
<1>6. CASE CommitBatch
  <2>1. /\ phase = "commit" /\ phase' = "between" /\ size' = 0 /\ split' = split
        /\ ahead' = ahead - Least(ahead, size) /\ run' = [run EXCEPT !.left = @ - size]
        /\ base' = feed[size].data /\ feed' = SubSeq(feed, size + 1, Len(feed)) /\ world' = world
    BY <1>6 DEF CommitBatch
  <2>2. size \in 1 .. n
    BY <2>1 DEF Batched, InBatch
  <2>3. IsFeed(feed', base', world') /\ Len(feed') = n - size
    BY <2>1, <2>2, FeedApplied DEF Batched
  <2>4. ahead' \in Nat /\ ahead' <= n - size
    BY <1>n, <2>1, <2>2 DEF Batched, Least
  <2>5. run' \in [chunk : Nat \ {0}, left : Nat] /\ run'.left = n - size
    <3>1. run \in [chunk : Nat \ {0}, left : Nat] /\ run.left = n
      BY <2>1 DEF Batched
    <3> QED
      BY <1>n, <2>1, <2>2, <3>1
  <2>6. DOMAIN batch' = {}
    BY <1>6 DEF CommitBatch, NoBatch
  <2> QED
    BY <1>n, <2>1, <2>3, <2>4, <2>5, <2>6 DEF Batched, InBatch, Phases
<1>7. CASE FailBatch
  <2>1. /\ UNCHANGED <<feed, base, world, split>> /\ phase' = "off" /\ run' = [chunk |-> 1, left |-> 0]
        /\ size' = 0 /\ ahead' = (IF size > ahead THEN size ELSE ahead)
        /\ phase \notin {"off", "between"}
    BY <1>7 DEF FailBatch, upstream, committed, NoRun
  <2>2. ahead' \in Nat /\ ahead' <= n
    BY <1>n, <2>1 DEF Batched, InBatch
  <2>3. DOMAIN batch' = {}
    BY <1>7 DEF FailBatch, NoBatch
  <2> QED
    BY <1>n, <2>1, <2>2, <2>3 DEF Batched, InBatch, Phases
<1>8. CASE UNCHANGED vars
  BY <1>8 DEF vars, upstream, committed, txnVars, history, Batched, InBatch, Due
<1> QED
  BY <1>1, <1>2, <1>3, <1>4, <1>5, <1>6, <1>7, <1>8 DEF Next

-------------------------------------------------------------------------------
(* The writes of one way, or of one relation: it leaves the members it had, *)
(* is put, and joins the members it gets.  held is the store it is in, by   *)
(* owner, and index the reverse one, by member.                             *)

Held(refs) == IF refs = Gone THEN {} ELSE ToSet(refs)
\* Whoever a member is listed for holds it.
Listed(held, index) == \A m \in DOMAIN index : \A o \in index[m] : m \in Held(held[o])
\* What is left of the writes that give the owner o its refs.  The put is the
\* p-th of them, or is made if p is 0.
MidwayAt(p, ws, store, list, held, index, o, refs) ==
  /\ \A i \in 1 .. Len(ws) : i # p => ws[i].key \in DOMAIN index
  /\ \A i \in 1 .. p - 1 : ws[i] = Leave(list, ws[i].key, o)
  /\ p > 0 => /\ ws[p] = Store(store, o, refs)
              /\ \A m \in DOMAIN index : o \in index[m] => \E i \in 1 .. p - 1 : ws[i].key = m
  /\ p = 0 => held[o] = refs
  /\ \A i \in p + 1 .. Len(ws) : ws[i] = Join(list, ws[i].key, o) /\ ws[i].key \in Held(refs)
  /\ \A m \in Held(refs) : \/ \E i \in p + 1 .. Len(ws) : ws[i].key = m
                           \/ p = 0 /\ o \in index[m]
Midway(ws, store, list, held, index, o, refs) ==
  ws # <<>> /\ \E p \in 0 .. Len(ws) : MidwayAt(p, ws, store, list, held, index, o, refs)

\* What a write does to them.
Stepped(w, held, index, held2, index2) ==
  /\ w.op = "put" => held2 = [held EXCEPT ![w.key] = w.value] /\ index2 = index
  /\ w.op = "remove" => held2 = held /\ index2 = [index EXCEPT ![w.key] = @ \ {w.value}]
  /\ w.op = "add" => held2 = held /\ index2 = [index EXCEPT ![w.key] = @ \cup {w.value}]

\* Only the empty sequence has no elements.
LEMMA NoLength ==
  ASSUME NEW S, NEW s \in Seq(S)
  PROVE  s = <<>> <=> Len(s) = 0
<1>1. s # <<>> => Len(s) \in Nat \ {0}
  BY EmptySeq
<1>2. Len(<<>>) = 0
  BY EmptySeq
<1> QED
  BY <1>1, <1>2

\* After the next of them the rest is left, and at the end the owner has what it
\* was to get; no other owner is touched.
Advanced(Os, Ms, store, list, held, index, o, refs, ws, held2, index2) ==
  /\ held2 \in [Os -> Seq(Ms) \cup {Gone}] /\ index2 \in [Ms -> SUBSET Os]
  /\ Listed(held2, index2)
  /\ \A q \in Os \ {o} : held2[q] = held[q] /\ \A m \in Ms : q \in index2[m] <=> q \in index[m]
  /\ Tail(ws) # <<>> => Midway(Tail(ws), store, list, held2, index2, o, refs)
  /\ Tail(ws) = <<>> => held2[o] = refs /\ \A m \in Ms : o \in index2[m] <=> m \in Held(refs)

\* That is what the next of them does.
LEMMA OneWrite ==
  ASSUME NEW Os, NEW Ms, Gone \notin Seq(Ms),
         NEW held \in [Os -> Seq(Ms) \cup {Gone}], NEW index \in [Ms -> SUBSET Os],
         Listed(held, index), NEW o \in Os, NEW refs \in Seq(Ms) \cup {Gone},
         NEW X, NEW ws \in Seq(X), NEW store, NEW list,
         Midway(ws, store, list, held, index, o, refs),
         NEW held2, NEW index2,
         Stepped(Head(ws), held, index, held2, index2)
  PROVE  Advanced(Os, Ms, store, list, held, index, o, refs, ws, held2, index2)
<1> DEFINE n == Len(ws)
           t == Tail(ws)
<1>1. n \in Nat /\ n # 0 /\ ws # <<>> /\ Head(ws) = ws[1] /\ DOMAIN index = Ms
  BY EmptySeq DEF Midway
<1>2. t \in Seq(X) /\ Len(t) = n - 1 /\ \A i \in 1 .. n - 1 : t[i] = ws[i + 1]
  BY <1>1, HeadTailProperties
<1>3. t = <<>> <=> n = 1
  <2>1. t = <<>> <=> Len(t) = 0
    BY <1>2, NoLength
  <2> HIDE DEF t, n
  <2> QED
    BY <1>1, <1>2, <2>1
<1>p. PICK p \in 0 .. n : MidwayAt(p, ws, store, list, held, index, o, refs)
  BY DEF Midway
<1>4. /\ \A i \in 1 .. n : i # p => ws[i].key \in Ms
      /\ \A i \in 1 .. p - 1 : ws[i] = Leave(list, ws[i].key, o)
      /\ p > 0 => /\ ws[p] = Store(store, o, refs)
                  /\ \A m \in Ms : o \in index[m] => \E i \in 1 .. p - 1 : ws[i].key = m
      /\ p = 0 => held[o] = refs
      /\ \A i \in p + 1 .. n : ws[i] = Join(list, ws[i].key, o) /\ ws[i].key \in Held(refs)
      /\ \A m \in Held(refs) : \/ \E i \in p + 1 .. n : ws[i].key = m
                               \/ p = 0 /\ o \in index[m]
  BY <1>1, <1>p DEF MidwayAt
<1> HIDE DEF t
<1>5. CASE p = 0  \* A join.
  <2>1. ws[1] = Join(list, ws[1].key, o) /\ ws[1].key \in Ms /\ ws[1].key \in Held(refs)
    BY <1>1, <1>4, <1>5
  <2>2. held2 = held /\ index2 = [index EXCEPT ![ws[1].key] = @ \cup {o}]
    BY <1>1, <2>1 DEF Join, Stepped
  <2>3. \A m \in Ms : o \in index2[m] <=> (o \in index[m] \/ m = ws[1].key)
    BY <2>2
  <2>4. \A q \in Os \ {o} : held2[q] = held[q] /\ \A m \in Ms : q \in index2[m] <=> q \in index[m]
    BY <2>2
  <2>5. index2 \in [Ms -> SUBSET Os] /\ held[o] = refs
    BY <1>4, <1>5, <2>2
  <2>6. Listed(held2, index2)
    BY <2>1, <2>2, <2>3, <2>4, <2>5 DEF Listed
  <2>7. \A m \in Held(refs) : (\E i \in 1 .. n - 1 : t[i].key = m) \/ o \in index2[m] \/ m \notin Ms
    <3> TAKE m \in Held(refs)
    <3>1. CASE o \in index[m] \/ m = ws[1].key
      BY <2>3, <3>1
    <3>2. ASSUME NEW i \in 1 .. n, ws[i].key = m, m # ws[1].key PROVE \E k \in 1 .. n - 1 : t[k].key = m
      <4>1. i - 1 \in 1 .. n - 1 /\ (i - 1) + 1 = i
        BY <1>1, <3>2
      <4> QED
        BY <1>2, <3>2, <4>1
    <3> QED
      BY <1>4, <1>5, <3>1, <3>2
  <2>8. Held(refs) \subseteq Ms
    BY DEF Held, ToSet
  <2>9. t # <<>> => Midway(t, store, list, held2, index2, o, refs)
    <3> SUFFICES ASSUME t # <<>> PROVE Midway(t, store, list, held2, index2, o, refs)
      OBVIOUS
    <3>1. \A i \in 1 .. n - 1 : t[i] = Join(list, t[i].key, o) /\ t[i].key \in Held(refs) /\ t[i].key \in Ms
      <4> TAKE i \in 1 .. n - 1
      <4>1. i + 1 \in p + 1 .. n /\ i + 1 \in 1 .. n /\ i + 1 # p /\ t[i] = ws[i + 1]
        BY <1>1, <1>2, <1>5
      <4> QED
        BY <1>4, <4>1
    <3>2. DOMAIN index2 = Ms /\ 0 \in 0 .. Len(t)
      BY <1>1, <1>2, <2>5
    <3>3. MidwayAt(0, t, store, list, held2, index2, o, refs)
      BY <1>1, <1>2, <2>2, <2>5, <2>7, <2>8, <3>1, <3>2 DEF MidwayAt
    <3> QED
      BY <3>2, <3>3 DEF Midway
  <2>10. t = <<>> => held2[o] = refs /\ \A m \in Ms : o \in index2[m] <=> m \in Held(refs)
    <3> SUFFICES ASSUME t = <<>>, NEW m \in Ms PROVE held2[o] = refs /\ (o \in index2[m] <=> m \in Held(refs))
      BY <2>2, <2>5
    <3>n. n = 1
      BY <1>3
    <3>0. 1 .. n - 1 = {}
      BY <3>n
    <3>1. m \in Held(refs) => o \in index2[m]
      BY <2>7, <3>0
    <3>2. o \in index2[m] => m \in Held(refs)
      BY <2>2, <2>5, <2>6 DEF Listed
    <3> QED
      BY <2>2, <2>5, <3>1, <3>2
  <2> QED
    BY <2>2, <2>4, <2>5, <2>6, <2>9, <2>10 DEF t, Advanced
<1>6. CASE p = 1  \* The put.
  <2>1. ws[1] = Store(store, o, refs)
    BY <1>4, <1>6
  <2>2. held2 = [held EXCEPT ![o] = refs] /\ index2 = index
    BY <1>1, <2>1 DEF Store, Stepped
  <2>3. \A m \in Ms : o \notin index[m]
    BY <1>4, <1>6
  <2>4. Listed(held2, index2)
    BY <2>2, <2>3 DEF Listed
  <2>5. Held(refs) \subseteq Ms
    BY DEF Held, ToSet
  <2>6. \A m \in Held(refs) : \E i \in 1 .. n - 1 : t[i].key = m
    <3> TAKE m \in Held(refs)
    <3>1. PICK i \in 2 .. n : ws[i].key = m
      BY <1>4, <1>6
    <3>2. i - 1 \in 1 .. n - 1 /\ (i - 1) + 1 = i
      BY <1>1, <3>1
    <3> QED
      BY <1>2, <3>1, <3>2
  <2>7. t # <<>> => Midway(t, store, list, held2, index2, o, refs)
    <3> SUFFICES ASSUME t # <<>> PROVE Midway(t, store, list, held2, index2, o, refs)
      OBVIOUS
    <3>1. \A i \in 1 .. n - 1 : t[i] = Join(list, t[i].key, o) /\ t[i].key \in Held(refs) /\ t[i].key \in Ms
      <4> TAKE i \in 1 .. n - 1
      <4>1. i + 1 \in p + 1 .. n /\ i + 1 \in 1 .. n /\ i + 1 # p /\ t[i] = ws[i + 1]
        BY <1>1, <1>2, <1>6
      <4> QED
        BY <1>4, <4>1
    <3>2. DOMAIN index2 = Ms /\ 0 \in 0 .. Len(t) /\ held2[o] = refs
      BY <1>1, <1>2, <2>2
    <3>3. MidwayAt(0, t, store, list, held2, index2, o, refs)
      BY <1>1, <1>2, <2>2, <2>6, <3>1, <3>2 DEF MidwayAt
    <3> QED
      BY <3>2, <3>3 DEF Midway
  <2>8. t = <<>> => held2[o] = refs /\ \A m \in Ms : o \in index2[m] <=> m \in Held(refs)
    <3> SUFFICES ASSUME t = <<>> PROVE held2[o] = refs /\ \A m \in Ms : o \in index2[m] <=> m \in Held(refs)
      OBVIOUS
    <3>1. n = 1
      BY <1>3
    <3>2. Held(refs) = {}
      BY <2>6, <3>1
    <3> QED
      BY <2>2, <2>3, <3>2
  <2> QED
    BY <2>2, <2>4, <2>7, <2>8 DEF t, Advanced
<1>7. CASE p > 1  \* A leave.
  <2>1. ws[1] = Leave(list, ws[1].key, o) /\ ws[1].key \in Ms
    BY <1>1, <1>4, <1>7
  <2>2. held2 = held /\ index2 = [index EXCEPT ![ws[1].key] = @ \ {o}]
    BY <1>1, <2>1 DEF Leave, Stepped
  <2>3. index2 \in [Ms -> SUBSET Os] /\ Listed(held2, index2)
    BY <2>2 DEF Listed
  <2>4. \A q \in Os \ {o} : held2[q] = held[q] /\ \A m \in Ms : q \in index2[m] <=> q \in index[m]
    BY <2>2
  <2>5. n # 1 /\ p - 1 \in 1 .. Len(t) /\ (p - 1) + 1 = p /\ p \in Nat
    BY <1>1, <1>2, <1>7
  <2>6. t[p - 1] = Store(store, o, refs)
    BY <1>2, <1>4, <1>7, <2>5
  <2>7. \A i \in 1 .. (p - 1) - 1 : t[i] = Leave(list, t[i].key, o)
    <3> TAKE i \in 1 .. (p - 1) - 1
    <3>1. i + 1 \in 1 .. p - 1 /\ i \in 1 .. n - 1
      BY <1>1, <1>2, <2>5
    <3> QED
      BY <1>2, <1>4, <3>1
  <2>8. \A m \in Ms : o \in index2[m] => \E i \in 1 .. (p - 1) - 1 : t[i].key = m
    <3> SUFFICES ASSUME NEW m \in Ms, o \in index2[m] PROVE \E i \in 1 .. (p - 1) - 1 : t[i].key = m
      OBVIOUS
    <3>1. o \in index[m] /\ m # ws[1].key
      BY <2>1, <2>2
    <3>2. PICK i \in 1 .. p - 1 : ws[i].key = m
      BY <1>4, <1>7, <3>1
    <3>3. i - 1 \in 1 .. (p - 1) - 1 /\ (i - 1) + 1 = i /\ i - 1 \in 1 .. n - 1
      BY <1>1, <2>5, <3>1, <3>2
    <3> QED
      BY <1>2, <3>2, <3>3
  <2>9. \A i \in (p - 1) + 1 .. Len(t) : t[i] = Join(list, t[i].key, o) /\ t[i].key \in Held(refs)
    <3> TAKE i \in (p - 1) + 1 .. Len(t)
    <3>1. i + 1 \in p + 1 .. n /\ i \in 1 .. n - 1
      BY <1>1, <1>2, <2>5
    <3> QED
      BY <1>2, <1>4, <3>1
  <2>10. \A m \in Held(refs) : \E i \in (p - 1) + 1 .. Len(t) : t[i].key = m
    <3> TAKE m \in Held(refs)
    <3>1. PICK i \in p + 1 .. n : ws[i].key = m
      BY <1>4, <1>7
    <3>2. i - 1 \in (p - 1) + 1 .. n - 1 /\ (i - 1) + 1 = i /\ i - 1 \in 1 .. n - 1
      BY <1>1, <2>5, <3>1
    <3> QED
      BY <1>2, <3>1, <3>2
  <2>11. \A i \in 1 .. Len(t) : i # p - 1 => t[i].key \in Ms
    <3> TAKE i \in 1 .. Len(t)
    <3>1. i + 1 \in 1 .. n /\ i \in 1 .. n - 1 /\ (i # p - 1 => i + 1 # p)
      BY <1>1, <1>2, <2>5
    <3> QED
      BY <1>2, <1>4, <3>1
  <2>12. Midway(t, store, list, held2, index2, o, refs)
    <3>1. DOMAIN index2 = Ms /\ p - 1 \in 0 .. Len(t) /\ t # <<>> /\ p - 1 # 0
      BY <1>3, <2>3, <2>5
    <3>2. MidwayAt(p - 1, t, store, list, held2, index2, o, refs)
      BY <2>6, <2>7, <2>8, <2>9, <2>10, <2>11, <3>1 DEF MidwayAt
    <3> QED
      BY <3>1, <3>2 DEF Midway
  <2> QED
    BY <1>3, <2>2, <2>3, <2>4, <2>5, <2>12 DEF t, Advanced
<1> QED
  BY <1>4, <1>5, <1>6, <1>7

-------------------------------------------------------------------------------
(* What the store is compared with.  The objects that a failed batch or the *)
(* running one changes are Dirtied; what is stored of the others is what    *)
(* the stamped data says of them, and of those the running batch has        *)
(* Applied, what its last sequence says.                                    *)

Farthest == IF size > ahead THEN size ELSE ahead
Dirtied == Touched(feed, 1, Farthest)
Later == Touched(feed, size + 1, ahead)
Current == IF InBatch THEN Due ELSE base
Applied == {o \in DOMAIN batch : /\ o \notin todo
                                 /\ phase = "nodes" => o \in Nodes
                                 /\ phase = "ways" => o \notin Relations}
Sure == (Objects \ Dirtied) \cup Applied

\* What the running batch leaves alone is as it was, and it is of the objects it
\* changes and those of a larger failed batch that the store may be ahead.
LEMMA CurrentData ==
  ASSUME Batched
  PROVE  /\ IsData(base) /\ IsData(Current) /\ IsData(world)
         /\ DOMAIN batch \subseteq Dirtied /\ Dirtied \subseteq Objects
         /\ Dirtied = DOMAIN batch \cup Later
         /\ \A o \in Objects \ DOMAIN batch : Current[o] = base[o]
         /\ \A o \in DOMAIN batch : batch[o] = Current[o]
<1>1. IsFeed(feed, base, world) /\ size \in Nat /\ ahead \in Nat /\ ahead <= Len(feed)
  BY DEF Batched
<1>2. IsData(base)
  BY <1>1 DEF IsFeed
<1>3. feed = <<>> \/ Len(feed) \in 1 .. Len(feed)
  <2>1. feed \in Seq(Entries)
    BY <1>1 DEF IsFeed
  <2>2. Len(feed) = 0 <=> feed = <<>>
    BY <2>1, NoLength
  <2> QED
    BY <2>1, <2>2
<1>4. IsData(world)
  BY <1>1, <1>2, <1>3 DEF IsFeed
<1>5. CASE InBatch
  <2>1. /\ size \in 1 .. Len(feed) /\ Current = Due /\ DOMAIN batch = Touched(feed, 1, size)
        /\ \A o \in DOMAIN batch : batch[o] = Due[o]
    BY <1>5 DEF Batched, Current
  <2>2. IsData(Due) /\ Follows(feed, base, size)
    BY <1>1, <2>1 DEF IsFeed, Due
  <2>3. \A o \in Objects \ DOMAIN batch : Due[o] = base[o]
    BY <2>1, <2>2 DEF Follows, Due, Touched
  <2>4. Dirtied = DOMAIN batch \cup Later
    BY <1>1, <2>1 DEF Dirtied, Later, Farthest, Touched
  <2>5. Dirtied \subseteq Objects
    BY DEF Dirtied, Touched
  <2> QED
    BY <1>2, <1>4, <2>1, <2>2, <2>3, <2>4, <2>5
<1>6. CASE ~InBatch
  <2>1. size = 0 /\ DOMAIN batch = {} /\ Current = base
    BY <1>6 DEF Batched, Current
  <2>2. Dirtied = Later
    BY <1>1, <2>1 DEF Dirtied, Later, Farthest
  <2>3. Dirtied \subseteq Objects
    BY DEF Dirtied, Touched
  <2> QED
    BY <1>2, <1>4, <2>1, <2>2, <2>3
<1> QED
  BY <1>5, <1>6

\* Inside a batch, and between batches, these sets stay.
LEMMA SameBatch ==
  ASSUME UNCHANGED <<feed, base, size, ahead, batch>>, InBatch' <=> InBatch
  PROVE  Dirtied' = Dirtied /\ Later' = Later /\ Current' = Current
<1>1. Touched(feed, 1, Farthest)' = Touched(feed, 1, Farthest)
  BY DEF Touched, Farthest
<1>2. Touched(feed, size + 1, ahead)' = Touched(feed, size + 1, ahead)
  BY DEF Touched
<1>3. Due' = Due
  BY DEF Due
<1> QED
  BY <1>1, <1>2, <1>3 DEF Dirtied, Later, Current

\* Nor does a new sequence change them.
LEMMA Published ==
  ASSUME Batched, Publish
  PROVE  Dirtied' = Dirtied /\ Later' = Later /\ Current' = Current /\ ~InBatch /\ ~InBatch'
<1>1. /\ ~InBatch /\ ~InBatch' /\ UNCHANGED <<base, size, ahead, batch>>
      /\ feed \in Seq(Entries) /\ ahead \in Nat /\ ahead <= Len(feed) /\ size = 0
  BY DEF Publish, InBatch, Batched, IsFeed, committed, txnVars, history
<1>2. PICK d \in Diffs : /\ Complete(Patch(world, d)) /\ world' = Patch(world, d)
                         /\ feed' = Append(feed, [diff |-> d, data |-> world'])
  BY DEF Publish
<1>3. [diff |-> d, data |-> world'] \in Entries
  BY <1>2, CurrentData, Patched DEF Entries, IsData
<1>4. \A i \in 1 .. ahead : feed'[i] = feed[i]
  BY <1>1, <1>2, <1>3, AppendProperties
<1>5. \A i \in Nat \ {0} : Touched(feed, i, ahead)' = Touched(feed, i, ahead)
  BY <1>1, <1>4 DEF Touched
<1>6. Farthest = ahead /\ Farthest' = ahead
  BY <1>1 DEF Farthest
<1> QED
  BY <1>1, <1>5, <1>6 DEF Dirtied, Later, Current

\* When a batch begins nothing is applied, and it adds what it changes.
LEMMA Begun ==
  ASSUME Batched, Batched', BeginBatch
  PROVE  /\ Dirtied \subseteq Dirtied' /\ Applied' = {} /\ InBatch' /\ ~InBatch
         /\ \A o \in Objects \ Dirtied' : Current'[o] = base[o]
<1>1. /\ ~InBatch /\ InBatch' /\ UNCHANGED <<feed, base, ahead>> /\ size = 0 /\ ahead \in Nat
      /\ phase' = "nodes" /\ todo' = Nodes \cap DOMAIN batch'
  BY DEF BeginBatch, InBatch, Batched, upstream, committed
<1>2. size' \in Nat /\ size' # 0
  BY <1>1 DEF Batched
<1>3. Dirtied \subseteq Dirtied'
  BY <1>1, <1>2 DEF Dirtied, Farthest, Touched
<1>4. Applied' = {}
  BY <1>1 DEF Applied
<1>5. \A o \in Objects \ Dirtied' : Current'[o] = base[o]
  <2>1. PICK m : m = size'
    OBVIOUS
  <2>2. m \in 1 .. Len(feed) /\ IsFeed(feed, base, world)
    BY <1>1, <2>1 DEF Batched
  <2>3. Follows(feed, base, m)
    BY <2>2 DEF IsFeed
  <2>4. Current' = feed[m].data
    BY <1>1, <2>1 DEF Current, Due
  <2>5. \A o \in Objects \ Dirtied' : o \notin Touched(feed, 1, m)
    BY <1>1, <1>2, <2>1 DEF Dirtied, Farthest, Touched
  <2> QED
    BY <2>3, <2>4, <2>5 DEF Follows, Touched
<1> QED
  BY <1>1, <1>3, <1>4, <1>5

\* A failed batch leaves what it changed in doubt.
LEMMA Failed ==
  ASSUME Batched, FailBatch
  PROVE  /\ Dirtied' = Dirtied /\ Applied' = {} /\ InBatch /\ ~InBatch' /\ Current' = base
         /\ base' = base
<1>1. /\ InBatch /\ ~InBatch' /\ UNCHANGED <<feed, base>> /\ size' = 0 /\ ahead' = Farthest
      /\ size \in Nat /\ ahead \in Nat /\ DOMAIN batch' = {}
  BY DEF FailBatch, InBatch, Batched, Farthest, NoBatch, upstream, committed
<1>2. Farthest' = Farthest
  BY <1>1 DEF Farthest
<1>3. Dirtied' = Dirtied
  BY <1>1, <1>2 DEF Dirtied, Touched
<1> QED
  BY <1>1, <1>3 DEF Applied, Current

\* A committed batch leaves in doubt only what a larger failed one had changed.
LEMMA Committed ==
  ASSUME Batched, CommitBatch
  PROVE  /\ Dirtied' = Later /\ Applied' = {} /\ InBatch /\ ~InBatch'
         /\ Current' = Current /\ base' = Current
         /\ ~split => Later = {}
<1>1. /\ InBatch /\ ~InBatch' /\ size' = 0 /\ ahead' = ahead - Least(ahead, size)
      /\ base' = Due /\ feed' = SubSeq(feed, size + 1, Len(feed)) /\ DOMAIN batch' = {}
      /\ size \in 1 .. Len(feed) /\ ahead \in Nat /\ ahead <= Len(feed)
      /\ split \/ ahead <= size
  BY DEF CommitBatch, InBatch, Batched, NoBatch, Due
<1>2. Len(feed) \in Nat
  BY DEF Batched, IsFeed
<1>3. \A i, k \in Nat : i # 0 /\ k <= Len(feed) - size
        => Touched(feed', i, k) = Touched(feed, i + size, k + size)
  BY <1>1, FeedApplied DEF Batched
<1>4. Farthest' = ahead' /\ ahead' \in Nat /\ ahead' <= Len(feed) - size
  BY <1>1, <1>2 DEF Farthest, Least
<1>5. Dirtied' = Touched(feed, 1 + size, ahead' + size)
  <2>1. Dirtied' = Touched(feed', 1, ahead')
    BY <1>4 DEF Dirtied
  <2> QED
    BY <1>3, <1>4, <2>1
<1>6. CASE ahead <= size
  BY <1>1, <1>2, <1>5, <1>6 DEF Later, Least, Touched, Applied, Current
<1>7. CASE size < ahead
  <2>1. ahead' + size = ahead /\ 1 + size = size + 1
    BY <1>1, <1>2, <1>7 DEF Least
  <2> QED
    BY <1>1, <1>2, <1>5, <1>7, <2>1 DEF Later, Applied, Current
<1> QED
  BY <1>1, <1>2, <1>6, <1>7

-------------------------------------------------------------------------------
(* The store: what it holds of an object when it holds what the data says. *)

Kv == [nodes : [Nodes -> Positions \cup {Gone}],
       ways : [Ways -> Seq(Nodes) \cup {Gone}],
       relations : [Relations -> Seq(Ways) \cup {Gone}],
       nodeToWays : [Nodes -> SUBSET Ways],
       wayToRelations : [Ways -> SUBSET Relations]]
PlaceOf(d, n) == IF d[n] = Gone THEN Gone ELSE d[n].at
RefsIn(d, o) == IF d[o] = Gone THEN Gone ELSE d[o].refs
Right(s, d, o) ==
  /\ o \in Nodes => s.nodes[o] = PlaceOf(d, o)
  /\ o \in Ways => /\ s.ways[o] = RefsIn(d, o)
                   /\ \A n \in Nodes : o \in s.nodeToWays[n] <=> n \in Held(RefsIn(d, o))
  /\ o \in Relations => /\ s.relations[o] = RefsIn(d, o)
                        /\ \A w \in Ways : o \in s.wayToRelations[w] <=> w \in Held(RefsIn(d, o))
\* The reverse indexes hold nothing the forward ones do not.
Sound(s) ==
  s \in Kv /\ Listed(s.ways, s.nodeToWays) /\ Listed(s.relations, s.wayToRelations)

\* What is left of the writes of a node: the ways leave one that is deleted.
NodeMidway(ws, n, place) ==
  /\ ws # <<>> /\ ws[Len(ws)] = Store("nodes", n, place)
  /\ \A i \in 1 .. Len(ws) - 1 : place = Gone /\ \E w \in Ways : ws[i] = Leave("nodeToWays", n, w)

\* What is left of the writes of an object that data d gives its value.
Writing(ws, s, d, o) ==
  \/ o \in Nodes /\ NodeMidway(ws, o, PlaceOf(d, o))
  \/ o \in Ways /\ Midway(ws, "ways", "nodeToWays", s.ways, s.nodeToWays, o, RefsIn(d, o))
  \/ o \in Relations
     /\ Midway(ws, "relations", "wayToRelations", s.relations, s.wayToRelations, o, RefsIn(d, o))

\* The store after a write.
After(s, w) ==
  CASE w.op = "put" -> [s EXCEPT ![w.store][w.key] = w.value]
    [] w.op = "add" -> [s EXCEPT ![w.store][w.key] = @ \cup {w.value}]
    [] w.op = "remove" -> [s EXCEPT ![w.store][w.key] = @ \ {w.value}]

\* The first of the writes left is of one of three forms.
LEMMA FirstWrite ==
  ASSUME NEW X, NEW ws \in Seq(X), NEW store, NEW list, NEW held, NEW index, NEW o, NEW refs,
         Midway(ws, store, list, held, index, o, refs)
  PROVE  \/ Head(ws) = Store(store, o, refs)
         \/ \E m \in DOMAIN index : Head(ws) = Leave(list, m, o)
         \/ \E m \in DOMAIN index : Head(ws) = Join(list, m, o)
<1>1. Len(ws) \in Nat \ {0} /\ Head(ws) = ws[1]
  BY EmptySeq DEF Midway
<1>2. PICK p \in 0 .. Len(ws) : MidwayAt(p, ws, store, list, held, index, o, refs)
  BY DEF Midway
<1>3. CASE p = 0
  BY <1>1, <1>2, <1>3 DEF MidwayAt
<1>4. CASE p = 1
  BY <1>1, <1>2, <1>4 DEF MidwayAt
<1>5. CASE p > 1
  <2>1. 1 \in 1 .. p - 1 /\ 1 \in 1 .. Len(ws) /\ 1 # p
    BY <1>1, <1>5
  <2> QED
    BY <1>1, <1>2, <2>1 DEF MidwayAt
<1> QED
  BY <1>2, <1>3, <1>4, <1>5

\* A way, or a relation, is written and the others are what they were.
LEMMA WayWritten ==
  ASSUME NEW s, Sound(s), NEW d, IsData(d), NEW o \in Ways, NEW X, NEW ws \in Seq(X),
         Midway(ws, "ways", "nodeToWays", s.ways, s.nodeToWays, o, RefsIn(d, o))
  PROVE  LET s2 == After(s, Head(ws)) IN
         /\ Sound(s2)
         /\ \A q \in Objects : q # o /\ Right(s, d, q) => Right(s2, d, q)
         /\ Tail(ws) # <<>> =>
              Midway(Tail(ws), "ways", "nodeToWays", s2.ways, s2.nodeToWays, o, RefsIn(d, o))
         /\ Tail(ws) = <<>> => Right(s2, d, o)
<1> DEFINE h == Head(ws)
           s2 == After(s, h)
           refs == RefsIn(d, o)
<1>1. refs \in Seq(Nodes) \cup {Gone} /\ o \in Objects /\ o \notin Nodes /\ o \notin Relations
  BY IdsAssumption DEF IsData, RefsIn, Value, Objects
<1>2. \/ h = Store("ways", o, refs)
      \/ \E m \in Nodes : h = Leave("nodeToWays", m, o)
      \/ \E m \in Nodes : h = Join("nodeToWays", m, o)
  <2>1. DOMAIN s.nodeToWays = Nodes
    BY DEF Sound, Kv
  <2> QED
    BY <2>1, FirstWrite
<1> HIDE DEF refs
<1> DEFINE Effect ==
      /\ s2 \in Kv /\ s2.nodes = s.nodes /\ s2.relations = s.relations
      /\ s2.wayToRelations = s.wayToRelations
      /\ Stepped(h, s.ways, s.nodeToWays, s2.ways, s2.nodeToWays)
<1>3. Effect
  <2>1. s \in Kv
    BY DEF Sound
  <2>2. CASE h = Store("ways", o, refs)
    <3>1. h.op = "put" /\ h.store = "ways" /\ h.key = o /\ h.value = refs
      BY <2>2 DEF Store
    <3>2. s2 = [s EXCEPT !["ways"][o] = refs]
      BY <3>1 DEF After
    <3>3. s2 = [s EXCEPT !.ways = [s.ways EXCEPT ![o] = refs]]
      BY <2>1, <3>2 DEF Kv
    <3> HIDE DEF h, s2
    <3> QED
      BY <1>1, <2>1, <3>1, <3>3 DEF Kv, Stepped
  <2>3. ASSUME NEW m \in Nodes, h = Leave("nodeToWays", m, o) PROVE Effect
    <3>1. h.op = "remove" /\ h.store = "nodeToWays" /\ h.key = m /\ h.value = o
      BY <2>3 DEF Leave
    <3>2. s2 = [s EXCEPT !["nodeToWays"][m] = @ \ {o}]
      BY <3>1 DEF After
    <3>3. s2 = [s EXCEPT !.nodeToWays = [s.nodeToWays EXCEPT ![m] = @ \ {o}]]
      BY <2>1, <3>2 DEF Kv
    <3> HIDE DEF h, s2
    <3> QED
      BY <2>1, <3>1, <3>3 DEF Kv, Stepped
  <2>4. ASSUME NEW m \in Nodes, h = Join("nodeToWays", m, o) PROVE Effect
    <3>1. h.op = "add" /\ h.store = "nodeToWays" /\ h.key = m /\ h.value = o
      BY <2>4 DEF Join
    <3>2. s2 = [s EXCEPT !["nodeToWays"][m] = @ \cup {o}]
      BY <3>1 DEF After
    <3>3. s2 = [s EXCEPT !.nodeToWays = [s.nodeToWays EXCEPT ![m] = @ \cup {o}]]
      BY <2>1, <3>2 DEF Kv
    <3> HIDE DEF h, s2
    <3> QED
      BY <2>1, <3>1, <3>3 DEF Kv, Stepped
  <2> QED
    BY <1>2, <2>2, <2>3, <2>4
<1> HIDE DEF s2
<1>4. Advanced(Ways, Nodes, "ways", "nodeToWays", s.ways, s.nodeToWays, o, refs, ws,
               s2.ways, s2.nodeToWays)
  <2>1. /\ s.ways \in [Ways -> Seq(Nodes) \cup {Gone}] /\ s.nodeToWays \in [Nodes -> SUBSET Ways]
        /\ Listed(s.ways, s.nodeToWays)
    BY DEF Sound, Kv
  <2>2. Midway(ws, "ways", "nodeToWays", s.ways, s.nodeToWays, o, refs)
    BY DEF refs
  <2>3. Stepped(Head(ws), s.ways, s.nodeToWays, s2.ways, s2.nodeToWays)
    BY <1>3
  <2>4. Gone \notin Seq(Nodes) /\ refs \in Seq(Nodes) \cup {Gone}
    BY <1>1, GoneAssumption
  <2> QED
    BY <2>1, <2>2, <2>3, <2>4, OneWrite
<1>5. Sound(s2)
  BY <1>3, <1>4 DEF Sound, Kv, Advanced
<1>6. \A q \in Objects : q # o /\ Right(s, d, q) => Right(s2, d, q)
  BY <1>3, <1>4 DEF Right, Advanced
<1>7. Tail(ws) = <<>> => Right(s2, d, o)
  BY <1>1, <1>4 DEF Right, Advanced, refs
<1> QED
  BY <1>4, <1>5, <1>6, <1>7 DEF s2, Advanced, refs

\* A relation likewise.
LEMMA RelationWritten ==
  ASSUME NEW s, Sound(s), NEW d, IsData(d), NEW o \in Relations, NEW X, NEW ws \in Seq(X),
         Midway(ws, "relations", "wayToRelations", s.relations, s.wayToRelations, o, RefsIn(d, o))
  PROVE  LET s2 == After(s, Head(ws)) IN
         /\ Sound(s2)
         /\ \A q \in Objects : q # o /\ Right(s, d, q) => Right(s2, d, q)
         /\ Tail(ws) # <<>> =>
              Midway(Tail(ws), "relations", "wayToRelations", s2.relations, s2.wayToRelations, o, RefsIn(d, o))
         /\ Tail(ws) = <<>> => Right(s2, d, o)
<1> DEFINE h == Head(ws)
           s2 == After(s, h)
           refs == RefsIn(d, o)
<1>1. refs \in Seq(Ways) \cup {Gone} /\ o \in Objects /\ o \notin Nodes /\ o \notin Ways
  BY IdsAssumption DEF IsData, RefsIn, Value, Objects
<1>2. \/ h = Store("relations", o, refs)
      \/ \E m \in Ways : h = Leave("wayToRelations", m, o)
      \/ \E m \in Ways : h = Join("wayToRelations", m, o)
  <2>1. DOMAIN s.wayToRelations = Ways
    BY DEF Sound, Kv
  <2> QED
    BY <2>1, FirstWrite
<1> HIDE DEF refs
<1> DEFINE Effect ==
      /\ s2 \in Kv /\ s2.nodes = s.nodes /\ s2.ways = s.ways
      /\ s2.nodeToWays = s.nodeToWays
      /\ Stepped(h, s.relations, s.wayToRelations, s2.relations, s2.wayToRelations)
<1>3. Effect
  <2>1. s \in Kv
    BY DEF Sound
  <2>2. CASE h = Store("relations", o, refs)
    <3>1. h.op = "put" /\ h.store = "relations" /\ h.key = o /\ h.value = refs
      BY <2>2 DEF Store
    <3>2. s2 = [s EXCEPT !["relations"][o] = refs]
      BY <3>1 DEF After
    <3>3. s2 = [s EXCEPT !.relations = [s.relations EXCEPT ![o] = refs]]
      BY <2>1, <3>2 DEF Kv
    <3> HIDE DEF h, s2
    <3> QED
      BY <1>1, <2>1, <3>1, <3>3 DEF Kv, Stepped
  <2>3. ASSUME NEW m \in Ways, h = Leave("wayToRelations", m, o) PROVE Effect
    <3>1. h.op = "remove" /\ h.store = "wayToRelations" /\ h.key = m /\ h.value = o
      BY <2>3 DEF Leave
    <3>2. s2 = [s EXCEPT !["wayToRelations"][m] = @ \ {o}]
      BY <3>1 DEF After
    <3>3. s2 = [s EXCEPT !.wayToRelations = [s.wayToRelations EXCEPT ![m] = @ \ {o}]]
      BY <2>1, <3>2 DEF Kv
    <3> HIDE DEF h, s2
    <3> QED
      BY <2>1, <3>1, <3>3 DEF Kv, Stepped
  <2>4. ASSUME NEW m \in Ways, h = Join("wayToRelations", m, o) PROVE Effect
    <3>1. h.op = "add" /\ h.store = "wayToRelations" /\ h.key = m /\ h.value = o
      BY <2>4 DEF Join
    <3>2. s2 = [s EXCEPT !["wayToRelations"][m] = @ \cup {o}]
      BY <3>1 DEF After
    <3>3. s2 = [s EXCEPT !.wayToRelations = [s.wayToRelations EXCEPT ![m] = @ \cup {o}]]
      BY <2>1, <3>2 DEF Kv
    <3> HIDE DEF h, s2
    <3> QED
      BY <2>1, <3>1, <3>3 DEF Kv, Stepped
  <2> QED
    BY <1>2, <2>2, <2>3, <2>4
<1> HIDE DEF s2
<1>4. Advanced(Relations, Ways, "relations", "wayToRelations", s.relations, s.wayToRelations, o, refs, ws,
               s2.relations, s2.wayToRelations)
  <2>1. /\ s.relations \in [Relations -> Seq(Ways) \cup {Gone}] /\ s.wayToRelations \in [Ways -> SUBSET Relations]
        /\ Listed(s.relations, s.wayToRelations)
    BY DEF Sound, Kv
  <2>2. Midway(ws, "relations", "wayToRelations", s.relations, s.wayToRelations, o, refs)
    BY DEF refs
  <2>3. Stepped(Head(ws), s.relations, s.wayToRelations, s2.relations, s2.wayToRelations)
    BY <1>3
  <2>4. Gone \notin Seq(Ways) /\ refs \in Seq(Ways) \cup {Gone}
    BY <1>1, GoneAssumption
  <2> QED
    BY <2>1, <2>2, <2>3, <2>4, OneWrite
<1>5. Sound(s2)
  BY <1>3, <1>4 DEF Sound, Kv, Advanced
<1>6. \A q \in Objects : q # o /\ Right(s, d, q) => Right(s2, d, q)
  BY <1>3, <1>4 DEF Right, Advanced
<1>7. Tail(ws) = <<>> => Right(s2, d, o)
  BY <1>1, <1>4 DEF Right, Advanced, refs
<1> QED
  BY <1>4, <1>5, <1>6, <1>7 DEF s2, Advanced, refs

\* A node is written; the ways that leave it are none of those that have it.
LEMMA NodeWritten ==
  ASSUME NEW s, Sound(s), NEW d, IsData(d), NEW o \in Nodes, NEW X, NEW ws \in Seq(X),
         NodeMidway(ws, o, PlaceOf(d, o))
  PROVE  LET s2 == After(s, Head(ws)) IN
         /\ Sound(s2)
         /\ \A q \in Objects : q # o /\ Right(s, d, q) => Right(s2, d, q)
         /\ Tail(ws) # <<>> => NodeMidway(Tail(ws), o, PlaceOf(d, o))
         /\ Tail(ws) = <<>> => Right(s2, d, o)
<1> DEFINE n == Len(ws)
           t == Tail(ws)
           h == Head(ws)
           s2 == After(s, h)
           place == PlaceOf(d, o)
<1>1. place \in Positions \cup {Gone} /\ o \in Objects /\ o \notin Ways /\ o \notin Relations
  BY IdsAssumption DEF IsData, PlaceOf, Value, NodeValue, Objects
<1>2. n \in Nat /\ n # 0 /\ h = ws[1]
  BY EmptySeq DEF NodeMidway
<1>3. t \in Seq(X) /\ Len(t) = n - 1 /\ \A i \in 1 .. n - 1 : t[i] = ws[i + 1]
  BY <1>2, HeadTailProperties DEF NodeMidway
<1>4. t = <<>> <=> n = 1
  <2>1. t = <<>> <=> Len(t) = 0
    BY <1>3, NoLength
  <2> HIDE DEF t, n
  <2> QED
    BY <1>2, <1>3, <2>1
<1>5. /\ ws[n] = Store("nodes", o, place)
      /\ \A i \in 1 .. n - 1 : place = Gone /\ \E w \in Ways : ws[i] = Leave("nodeToWays", o, w)
  BY DEF NodeMidway
<1>6. s \in Kv
  BY DEF Sound
<1>7. CASE n = 1
  <2>1. h.op = "put" /\ h.store = "nodes" /\ h.key = o /\ h.value = place
    BY <1>2, <1>5, <1>7 DEF Store
  <2>2. s2 = [s EXCEPT !["nodes"][o] = place]
    BY <2>1 DEF After
  <2>3. s2 = [s EXCEPT !.nodes = [s.nodes EXCEPT ![o] = place]]
    BY <1>6, <2>2 DEF Kv
  <2> HIDE DEF h, s2, place
  <2>4. Sound(s2)
    BY <1>1, <1>6, <2>3 DEF Sound, Kv
  <2>5. \A q \in Objects : q # o /\ Right(s, d, q) => Right(s2, d, q)
    BY <1>1, <1>6, <2>3 DEF Right, Kv
  <2>6. Right(s2, d, o)
    BY <1>1, <1>6, <2>3 DEF Right, Kv, place
  <2> QED
    BY <1>4, <1>7, <2>4, <2>5, <2>6 DEF h, s2
<1>8. CASE n # 1
  <2>1. 1 \in 1 .. n - 1
    <3> HIDE DEF n
    <3> QED
      BY <1>2, <1>8
  <2>2. PICK w \in Ways : place = Gone /\ h = Leave("nodeToWays", o, w)
    BY <1>2, <1>5, <2>1
  <2>3. h.op = "remove" /\ h.store = "nodeToWays" /\ h.key = o /\ h.value = w
    BY <2>2 DEF Leave
  <2>4. s2 = [s EXCEPT !["nodeToWays"][o] = @ \ {w}]
    BY <2>3 DEF After
  <2>5. s2 = [s EXCEPT !.nodeToWays = [s.nodeToWays EXCEPT ![o] = @ \ {w}]]
    BY <1>6, <2>4 DEF Kv
  <2>6. d[o] = Gone
    BY <1>1, <2>2, GoneAssumption DEF PlaceOf, IsData, Value, NodeValue, place
  <2>7. \A q \in Ways : o \notin Held(RefsIn(d, q))
    <3> SUFFICES ASSUME NEW q \in Ways, o \in Held(RefsIn(d, q)) PROVE FALSE
      OBVIOUS
    <3>1. d[q] # Gone /\ o \in ToSet(d[q].refs)
      BY DEF Held, RefsIn
    <3>2. PICK i \in DOMAIN d[q].refs : d[q].refs[i] = o
      BY <3>1 DEF ToSet
    <3> QED
      BY <2>6, <3>1, <3>2 DEF IsData, Complete
  <2> HIDE DEF h, s2, place
  <2>8. Sound(s2)
    BY <1>1, <1>6, <2>5 DEF Sound, Kv, Listed
  <2>9. \A q \in Objects : q # o /\ Right(s, d, q) => Right(s2, d, q)
    BY <1>1, <1>6, <2>5, <2>7 DEF Right, Kv
  <2>10. NodeMidway(t, o, place)
    <3>1. t # <<>> /\ Len(t) \in 1 .. n - 1 /\ Len(t) + 1 = n
      BY <1>2, <1>3, <1>4, <1>8
    <3>2. t[Len(t)] = Store("nodes", o, place)
      BY <1>3, <1>5, <3>1
    <3>3. \A i \in 1 .. Len(t) - 1 : t[i] = ws[i + 1] /\ i + 1 \in 1 .. n - 1
      BY <1>2, <1>3, <3>1
    <3> HIDE DEF t, n
    <3> QED
      BY <1>5, <3>1, <3>2, <3>3 DEF NodeMidway
  <2> QED
    BY <1>4, <1>8, <2>8, <2>9, <2>10 DEF h, s2, place
<1> QED
  BY <1>7, <1>8

-------------------------------------------------------------------------------
(* A change begins: its writes are all left.                               *)

Change == [store : {"nodes", "ways", "relations", "nodeToWays", "wayToRelations"},
           op : {"put", "add", "remove"}, key : Objects,
           value : Objects \cup Positions \cup Seq(Nodes) \cup Seq(Ways) \cup {Gone}]
\* The writes that replace an owner's members, old, by refs.
MemberWrites(store, list, old, refs, o) ==
  [i \in DOMAIN old |-> Leave(list, old[i], o)] \o
  IF refs = Gone THEN <<Erase(store, o)>>
  ELSE <<Store(store, o, refs)>> \o [i \in DOMAIN refs |-> Join(list, refs[i], o)]
\* They are changes.
Fits(store, list, Ms, refs, o) ==
  /\ Store(store, o, refs) \in Change
  /\ \A m \in Ms : Leave(list, m, o) \in Change /\ Join(list, m, o) \in Change

\* A function of 1 .. n is a sequence of length n.
LEMMA FunctionIsSeq ==
  ASSUME NEW S, NEW n \in Nat, NEW f \in [1 .. n -> S]
  PROVE  f \in Seq(S) /\ Len(f) = n
<1>1. f \in Seq(S)
  OBVIOUS
<1>2. DOMAIN f = 1 .. n
  OBVIOUS
<1>3. Len(f) \in Nat /\ DOMAIN f = 1 .. Len(f)
  BY <1>1, LenProperties
<1> QED
  BY <1>1, <1>2, <1>3

\* Before the first of them, the put comes after those of the members it has.
LEMMA MidwayStarts ==
  ASSUME NEW Os, NEW Ms, Gone \notin Seq(Ms),
         NEW held \in [Os -> Seq(Ms) \cup {Gone}], NEW index \in [Ms -> SUBSET Os],
         Listed(held, index), NEW o \in Os, NEW refs \in Seq(Ms) \cup {Gone},
         NEW store, NEW list, Fits(store, list, Ms, refs, o),
         NEW ws, ws = MemberWrites(store, list, IF held[o] = Gone THEN <<>> ELSE held[o], refs, o)
  PROVE  ws \in Seq(Change) /\ Midway(ws, store, list, held, index, o, refs)
<1> DEFINE old == IF held[o] = Gone THEN <<>> ELSE held[o]
           new == IF refs = Gone THEN <<>> ELSE refs
           a == [i \in 1 .. Len(old) |-> Leave(list, old[i], o)]
           b == <<Store(store, o, refs)>>
           c == [i \in 1 .. Len(new) |-> Join(list, new[i], o)]
           k == Len(old)
           p == k + 1
           n == p + Len(new)
<1>1. /\ old \in Seq(Ms) /\ new \in Seq(Ms) /\ Len(old) \in Nat /\ Len(new) \in Nat
      /\ DOMAIN old = 1 .. Len(old) /\ DOMAIN new = 1 .. Len(new)
  <2>1. old \in Seq(Ms) /\ new \in Seq(Ms)
    BY EmptySeq
  <2> HIDE DEF old, new
  <2> QED
    BY <2>1, LenProperties
<1>2. Held(held[o]) = {old[i] : i \in 1 .. k} /\ Held(refs) = {new[i] : i \in 1 .. Len(new)}
  BY <1>1 DEF Held, ToSet
<1> HIDE DEF old, new
<1>3. a \in Seq(Change) /\ b \in Seq(Change) /\ c \in Seq(Change) /\ Len(a) = k /\ Len(c) = Len(new)
  <2>1. \A i \in 1 .. Len(old) : Leave(list, old[i], o) \in Change
    BY <1>1 DEF Fits
  <2>2. \A i \in 1 .. Len(new) : Join(list, new[i], o) \in Change
    BY <1>1 DEF Fits
  <2>3. b \in Seq(Change)
    BY DEF Fits
  <2>4. a \in [1 .. Len(old) -> Change]
    BY <2>1
  <2>5. c \in [1 .. Len(new) -> Change]
    BY <2>2
  <2> HIDE DEF a, b, c
  <2>6. a \in Seq(Change) /\ Len(a) = k
    BY <1>1, <2>4, FunctionIsSeq
  <2>7. c \in Seq(Change) /\ Len(c) = Len(new)
    BY <1>1, <2>5, FunctionIsSeq
  <2> QED
    BY <2>3, <2>6, <2>7
<1>4. ws = a \o (b \o c)
  <2>1. CASE refs = Gone
    <3>1. new = <<>>
      BY <2>1 DEF new
    <3>2. Len(new) = 0
      BY <1>1, <3>1, NoLength
    <3>3. c = <<>>
      BY <1>3, <3>2, NoLength
    <3>4. b \o c = b
      BY <1>3, <3>3, ConcatEmptySeq
    <3> QED
      BY <1>1, <2>1, <3>4 DEF MemberWrites, Erase, old
  <2>2. CASE refs # Gone
    BY <1>1, <2>2 DEF MemberWrites, old, new
  <2> QED
    BY <2>1, <2>2
<1>5. /\ ws \in Seq(Change) /\ Len(ws) = n /\ n \in Nat /\ p \in 1 .. n
      /\ \A i \in 1 .. k : ws[i] = Leave(list, old[i], o)
      /\ ws[p] = Store(store, o, refs)
      /\ \A i \in 1 .. Len(new) : ws[p + i] = Join(list, new[i], o)
  <2>1. /\ b \o c \in Seq(Change) /\ Len(b \o c) = 1 + Len(new)
        /\ (b \o c)[1] = Store(store, o, refs)
        /\ \A i \in 1 .. Len(new) : (b \o c)[1 + i] = Join(list, new[i], o)
    BY <1>1, <1>3
  <2>2. \A i \in 1 .. k : a[i] = Leave(list, old[i], o)
    OBVIOUS
  <2> HIDE DEF a, b, c
  <2>3. /\ ws \in Seq(Change) /\ Len(ws) = k + (1 + Len(new))
        /\ \A i \in 1 .. k + (1 + Len(new)) : ws[i] = IF i <= k THEN a[i] ELSE (b \o c)[i - k]
    <3>1. PICK g : g = b \o c
      OBVIOUS
    <3>2. g \in Seq(Change) /\ Len(g) = 1 + Len(new) /\ ws = a \o g
      BY <1>4, <2>1, <3>1
    <3>3. /\ ws \in Seq(Change) /\ Len(ws) = Len(a) + Len(g)
          /\ \A i \in 1 .. Len(a) + Len(g) : ws[i] = IF i <= Len(a) THEN a[i] ELSE g[i - Len(a)]
      <4>1. a \in Seq(Change) /\ g \in Seq(Change)
        BY <1>3, <3>2
      <4>2. /\ a \o g \in Seq(Change) /\ Len(a \o g) = Len(a) + Len(g)
            /\ \A i \in 1 .. Len(a) + Len(g) :
                 (a \o g)[i] = IF i <= Len(a) THEN a[i] ELSE g[i - Len(a)]
        BY <4>1, ConcatProperties
      <4> QED
        BY <3>2, <4>2
    <3> QED
      BY <1>3, <3>1, <3>2, <3>3
  <2>4. \A i \in 1 .. k : i \in 1 .. k + (1 + Len(new)) /\ i <= k
    BY <1>1
  <2>5. \A i \in 1 .. Len(new) : /\ 1 + i \in 1 .. 1 + Len(new)
                                  /\ p + i \in 1 .. k + (1 + Len(new))
                                  /\ ~(p + i <= k) /\ (p + i) - k = 1 + i
    BY <1>1
  <2>6. p \in 1 .. k + (1 + Len(new)) /\ ~(p <= k) /\ p - k = 1 /\ n = k + (1 + Len(new)) /\ n \in Nat
    BY <1>1
  <2> HIDE DEF k, p, n
  <2> QED
    BY <2>1, <2>2, <2>3, <2>4, <2>5, <2>6
<1> HIDE DEF a, b, c
<1>6. MidwayAt(p, ws, store, list, held, index, o, refs)
  <2>k. \A m : Leave(list, m, o).key = m /\ Join(list, m, o).key = m
    BY DEF Leave, Join
  <2>1. p - 1 = k /\ 1 .. p - 1 = 1 .. k
    BY <1>1
  <2>2. \A i \in p + 1 .. Len(ws) : i - p \in 1 .. Len(new) /\ p + (i - p) = i
    BY <1>1, <1>5
  <2>3. \A i \in 1 .. Len(new) : p + i \in p + 1 .. Len(ws)
    BY <1>1, <1>5
  <2>4. \A i \in p + 1 .. Len(ws) : ws[i] = Join(list, new[i - p], o)
    BY <1>5, <2>2
  <2>7. \A i \in 1 .. Len(ws) : i # p => i \in 1 .. p - 1 \/ i \in p + 1 .. Len(ws)
    BY <1>1, <1>5
  <2>10. p > 0 /\ p # 0
    BY <1>1
  <2> HIDE DEF p, k, n
  <2>5. \A i \in 1 .. p - 1 : ws[i].key \in Ms /\ ws[i] = Leave(list, ws[i].key, o)
    BY <1>1, <1>5, <2>1, <2>k DEF k
  <2>6. \A i \in p + 1 .. Len(ws) : /\ ws[i].key \in Ms /\ ws[i] = Join(list, ws[i].key, o)
                                    /\ ws[i].key \in Held(refs)
    BY <1>1, <1>2, <2>2, <2>4, <2>k
  <2>8. \A m \in Ms : o \in index[m] => \E i \in 1 .. p - 1 : ws[i].key = m
    <3> SUFFICES ASSUME NEW m \in Ms, o \in index[m] PROVE \E i \in 1 .. p - 1 : ws[i].key = m
      OBVIOUS
    <3>1. m \in Held(held[o])
      BY DEF Listed
    <3>2. PICK i \in 1 .. k : old[i] = m
      BY <1>2, <3>1
    <3> QED
      BY <1>5, <2>1, <2>k, <3>2
  <2>9. \A m \in Held(refs) : \E i \in p + 1 .. Len(ws) : ws[i].key = m
    <3> TAKE m \in Held(refs)
    <3>1. PICK i \in 1 .. Len(new) : new[i] = m
      BY <1>2
    <3>2. p + i \in p + 1 .. Len(ws) /\ ws[p + i].key = m
      BY <1>5, <2>3, <2>k, <3>1
    <3> QED
      BY <3>2
  <2>11. DOMAIN index = Ms
    OBVIOUS
  <2> QED
    BY <1>5, <2>5, <2>6, <2>7, <2>8, <2>9, <2>10, <2>11 DEF MidwayAt
<1> QED
  <2>1. ws # <<>> /\ p \in 0 .. Len(ws)
    BY <1>1, <1>5, NoLength
  <2> QED
    BY <1>5, <1>6, <2>1 DEF Midway

\* A finite set has a sequence of its elements.
LEMMA Listing ==
  ASSUME NEW S, IsFiniteSet(S)
  PROVE  SetToSeq(S) \in Seq(S)
<1>1. Cardinality(S) \in Nat /\ ExistsBijection(1 .. Cardinality(S), S)
  BY FS_CardinalityType
<1>2. \E f \in [1 .. Cardinality(S) -> S] : IsInjective(f)
  BY <1>1 DEF ExistsBijection, Bijection, Injection
<1>3. SetToSeq(S) \in [1 .. Cardinality(S) -> S]
  BY <1>2 DEF SetToSeq
<1> QED
  BY <1>1, <1>3

\* The writes of a node: a node that is deleted leaves its ways.
LEMMA NodeStarts ==
  ASSUME Batched, Sound(kv), NEW n \in Nodes \cap DOMAIN batch
  PROVE  NodeWrites(n) \in Seq(Change) /\ NodeMidway(NodeWrites(n), n, PlaceOf(Current, n))
<1>1. batch[n] = Current[n] /\ IsData(Current) /\ n \in Objects
  BY CurrentData DEF Objects
<1>2. PlaceOf(Current, n) \in Positions \cup {Gone}
  BY <1>1, IdsAssumption DEF IsData, PlaceOf, Value, NodeValue
<1>3. \A place \in Positions \cup {Gone} : Store("nodes", n, place) \in Change
  BY <1>1 DEF Store, Change
<1>4. CASE batch[n] # Gone
  <2>1. NodeWrites(n) = <<Store("nodes", n, batch[n].at)>>
    BY <1>4 DEF NodeWrites
  <2>2. batch[n].at = PlaceOf(Current, n)
    BY <1>1, <1>4 DEF PlaceOf
  <2>3. NodeWrites(n) = <<Store("nodes", n, PlaceOf(Current, n))>>
    BY <2>1, <2>2
  <2> QED
    BY <1>2, <1>3, <2>3 DEF NodeMidway
<1>5. CASE batch[n] = Gone
  <2>1. PlaceOf(Current, n) = Gone
    BY <1>1, <1>5 DEF PlaceOf
  <2> DEFINE S == kv.nodeToWays[n]
             q == SetToSeq(S)
             a == [i \in DOMAIN q |-> Leave("nodeToWays", n, q[i])]
             e == <<Store("nodes", n, Gone)>>
  <2>2. S \subseteq Ways /\ IsFiniteSet(S)
    <3>1. S \subseteq Ways
      BY DEF Sound, Kv
    <3> QED
      BY <3>1, IdsAssumption, FS_Subset
  <2>3. NodeWrites(n) = a \o e
    BY <1>5 DEF NodeWrites, OnEach, Erase
  <2>4. q \in Seq(S)
    BY <2>2, Listing
  <2> HIDE DEF q, S
  <2>5. DOMAIN q = 1 .. Len(q) /\ Len(q) \in Nat /\ \A i \in 1 .. Len(q) : q[i] \in Ways
    BY <2>2, <2>4, LenProperties
  <2>6. \A w \in Ways : Leave("nodeToWays", n, w) \in Change
    BY <1>1 DEF Leave, Change, Objects
  <2>7. a \in Seq(Change) /\ Len(a) = Len(q)
    <3>1. a \in [1 .. Len(q) -> Change]
      BY <2>5, <2>6
    <3> HIDE DEF a
    <3> QED
      BY <2>5, <3>1
  <2>8. e \in Seq(Change) /\ Len(e) = 1 /\ e[1] = Store("nodes", n, Gone)
    BY <1>3
  <2>9. \A i \in 1 .. Len(a) : \E w \in Ways : a[i] = Leave("nodeToWays", n, w)
    <3> TAKE i \in 1 .. Len(a)
    <3>1. i \in DOMAIN q /\ q[i] \in Ways
      BY <2>5, <2>7
    <3>2. a[i] = Leave("nodeToWays", n, q[i])
      BY <3>1
    <3> QED
      BY <3>1, <3>2
  <2> HIDE DEF a, e
  <2>10. /\ a \o e \in Seq(Change) /\ Len(a \o e) = Len(a) + 1
         /\ \A i \in 1 .. Len(a) + Len(e) : (a \o e)[i] = IF i <= Len(a) THEN a[i] ELSE e[i - Len(a)]
    <3>1. a \o e \in Seq(Change)
      BY <2>7, <2>8, ConcatProperties
    <3>2. Len(a \o e) = Len(a) + Len(e)
      BY <2>7, <2>8, ConcatProperties
    <3>3. \A i \in 1 .. Len(a) + Len(e) : (a \o e)[i] = IF i <= Len(a) THEN a[i] ELSE e[i - Len(a)]
      BY <2>7, <2>8, ConcatProperties
    <3> QED
      BY <2>8, <3>1, <3>2, <3>3
  <2>11. PICK ws : ws = NodeWrites(n)
    OBVIOUS
  <2>12. /\ ws \in Seq(Change) /\ Len(ws) = Len(a) + 1 /\ Len(a) \in Nat
         /\ \A i \in 1 .. Len(a) : ws[i] = a[i]
         /\ ws[Len(a) + 1] = Store("nodes", n, Gone)
    BY <2>3, <2>5, <2>7, <2>8, <2>10, <2>11
  <2>13. ws # <<>>
    BY <2>12, NoLength
  <2>14. 1 .. Len(ws) - 1 = 1 .. Len(a)
    BY <2>12
  <2>15. NodeMidway(ws, n, Gone)
    BY <2>9, <2>12, <2>13, <2>14 DEF NodeMidway
  <2> QED
    BY <2>1, <2>11, <2>12, <2>15
<1> QED
  BY <1>4, <1>5

\* Those of a way leave the nodes it had and join those it gets,
LEMMA WayStarts ==
  ASSUME Batched, Sound(kv), NEW o \in Ways \cap DOMAIN batch
  PROVE  /\ WayWrites(o) \in Seq(Change)
         /\ Midway(WayWrites(o), "ways", "nodeToWays", kv.ways, kv.nodeToWays, o, RefsIn(Current, o))
<1> DEFINE refs == RefsIn(Current, o)
<1>1. batch[o] = Current[o] /\ IsData(Current) /\ o \in Objects
  BY CurrentData DEF Objects
<1>2. refs \in Seq(Nodes) \cup {Gone} /\ (refs = Gone <=> Current[o] = Gone)
  BY <1>1, IdsAssumption, GoneAssumption DEF IsData, Value, RefsIn
<1>3. Fits("ways", "nodeToWays", Nodes, refs, o)
  BY <1>1, <1>2 DEF Fits, Store, Leave, Join, Change, Objects
<1>4. WayWrites(o) =
        MemberWrites("ways", "nodeToWays", IF kv.ways[o] = Gone THEN <<>> ELSE kv.ways[o], refs, o)
  <2>1. CASE batch[o] = Gone
    BY <1>1, <1>2, <2>1 DEF WayWrites, MemberWrites, OnEach
  <2>2. CASE batch[o] # Gone
    <3>1. batch[o].refs = refs /\ refs # Gone
      BY <1>1, <1>2, <2>2 DEF RefsIn
    <3> HIDE DEF refs
    <3> QED
      BY <2>2, <3>1 DEF WayWrites, MemberWrites, OnEach
  <2> QED
    BY <2>1, <2>2
<1> HIDE DEF refs
<1>5. /\ kv.ways \in [Ways -> Seq(Nodes) \cup {Gone}] /\ kv.nodeToWays \in [Nodes -> SUBSET Ways]
      /\ Listed(kv.ways, kv.nodeToWays) /\ Gone \notin Seq(Nodes)
  BY GoneAssumption DEF Sound, Kv
<1>6. /\ WayWrites(o) \in Seq(Change)
      /\ Midway(WayWrites(o), "ways", "nodeToWays", kv.ways, kv.nodeToWays, o, refs)
  BY <1>2, <1>3, <1>4, <1>5, MidwayStarts
<1> QED
  BY <1>6 DEF refs

\* and those of a relation the ways.
LEMMA RelationStarts ==
  ASSUME Batched, Sound(kv), NEW o \in Relations \cap DOMAIN batch
  PROVE  /\ RelationWrites(o) \in Seq(Change)
         /\ Midway(RelationWrites(o), "relations", "wayToRelations", kv.relations, kv.wayToRelations, o, RefsIn(Current, o))
<1> DEFINE refs == RefsIn(Current, o)
<1>1. batch[o] = Current[o] /\ IsData(Current) /\ o \in Objects
  BY CurrentData DEF Objects
<1>2. refs \in Seq(Ways) \cup {Gone} /\ (refs = Gone <=> Current[o] = Gone)
  BY <1>1, IdsAssumption, GoneAssumption DEF IsData, Value, RefsIn
<1>3. Fits("relations", "wayToRelations", Ways, refs, o)
  BY <1>1, <1>2 DEF Fits, Store, Leave, Join, Change, Objects
<1>4. RelationWrites(o) =
        MemberWrites("relations", "wayToRelations", IF kv.relations[o] = Gone THEN <<>> ELSE kv.relations[o], refs, o)
  <2>1. CASE batch[o] = Gone
    BY <1>1, <1>2, <2>1 DEF RelationWrites, MemberWrites, OnEach
  <2>2. CASE batch[o] # Gone
    <3>1. batch[o].refs = refs /\ refs # Gone
      BY <1>1, <1>2, <2>2 DEF RefsIn
    <3> HIDE DEF refs
    <3> QED
      BY <2>2, <3>1 DEF RelationWrites, MemberWrites, OnEach
  <2> QED
    BY <2>1, <2>2
<1> HIDE DEF refs
<1>5. /\ kv.relations \in [Relations -> Seq(Ways) \cup {Gone}] /\ kv.wayToRelations \in [Ways -> SUBSET Relations]
      /\ Listed(kv.relations, kv.wayToRelations) /\ Gone \notin Seq(Ways)
  BY GoneAssumption DEF Sound, Kv
<1>6. /\ RelationWrites(o) \in Seq(Change)
      /\ Midway(RelationWrites(o), "relations", "wayToRelations", kv.relations, kv.wayToRelations, o, refs)
  BY <1>2, <1>3, <1>4, <1>5, MidwayStarts
<1> QED
  BY <1>6 DEF refs

-------------------------------------------------------------------------------
(* The store's invariant: what is Sure is right, but for the change whose  *)
(* writes are being made.                                                  *)

StoreOK ==
  /\ Sound(kv) /\ writes \in Seq(Change)
  /\ todo \subseteq DOMAIN batch
  /\ phase = "nodes" => todo \subseteq Nodes
  /\ phase = "ways" => todo \subseteq Ways
  /\ phase = "relations" => todo \subseteq Relations
  /\ phase \notin {"nodes", "ways", "relations"} => todo = {} /\ writes = <<>>
  /\ writes = <<>> => \A q \in Sure : Right(kv, Current, q)
  /\ writes # <<>> => \E o \in Applied : /\ Writing(writes, kv, Current, o)
                                        /\ \A q \in Sure \ {o} : Right(kv, Current, q)

\* What is right of an object is so for any data that says the same of it.
LEMMA RightSame ==
  ASSUME NEW s, NEW d, NEW e, NEW o, d[o] = e[o], Right(s, d, o)
  PROVE  Right(s, e, o)
BY DEF Right, PlaceOf, RefsIn

\* What import osm stores.
LEMMA Imported ==
  ASSUME NEW d, IsData(d), NEW s
  PROVE  /\ s = ImportedStore(d) => Sound(s) /\ \A o \in Objects : Right(s, d, o)
         /\ s \in Kv /\ (\A o \in Objects : Right(s, d, o)) => s = ImportedStore(d)
<1> DEFINE Refs(o) == IF d[o] = Gone THEN {} ELSE ToSet(d[o].refs)
<1>1. ImportedStore(d) =
        [nodes |-> [n \in Nodes |-> PlaceOf(d, n)], ways |-> [o \in Ways |-> RefsIn(d, o)],
         relations |-> [o \in Relations |-> RefsIn(d, o)],
         nodeToWays |-> [n \in Nodes |-> {o \in Ways : n \in Refs(o)}],
         wayToRelations |-> [o \in Ways |-> {r \in Relations : o \in Refs(r)}]]
  BY DEF ImportedStore, PlaceOf, RefsIn
<1>2. /\ \A n \in Nodes : PlaceOf(d, n) \in Positions \cup {Gone}
      /\ \A o \in Ways : RefsIn(d, o) \in Seq(Nodes) \cup {Gone}
      /\ \A o \in Relations : RefsIn(d, o) \in Seq(Ways) \cup {Gone}
  <2>1. \A n \in Nodes : PlaceOf(d, n) \in Positions \cup {Gone}
    BY IdsAssumption DEF IsData, PlaceOf, Value, NodeValue, Objects
  <2>2. \A o \in Ways : RefsIn(d, o) \in Seq(Nodes) \cup {Gone}
    BY IdsAssumption DEF IsData, RefsIn, Value, Objects
  <2>3. \A o \in Relations : RefsIn(d, o) \in Seq(Ways) \cup {Gone}
    BY IdsAssumption DEF IsData, RefsIn, Value, Objects
  <2> QED
    BY <2>1, <2>2, <2>3
<1>3. \A o \in Ways \cup Relations : Held(RefsIn(d, o)) = Refs(o)
  <2> SUFFICES ASSUME NEW o \in Ways \cup Relations PROVE Held(RefsIn(d, o)) = Refs(o)
    OBVIOUS
  <2>1. d[o] # Gone => d[o].refs # Gone
    BY GoneAssumption, IdsAssumption DEF IsData, Value, Objects
  <2> QED
    BY <2>1 DEF Held, RefsIn
<1> HIDE DEF Refs
<1>4. ASSUME s = ImportedStore(d) PROVE Sound(s) /\ \A o \in Objects : Right(s, d, o)
  <2>1. s \in Kv
    BY <1>1, <1>2, <1>4 DEF Kv
  <2>2. Listed(s.ways, s.nodeToWays) /\ Listed(s.relations, s.wayToRelations)
    BY <1>1, <1>3, <1>4 DEF Listed
  <2>3. \A o \in Objects : Right(s, d, o)
    BY <1>1, <1>3, <1>4 DEF Right
  <2> QED
    BY <2>1, <2>2, <2>3 DEF Sound
<1>5. ASSUME s \in Kv, \A o \in Objects : Right(s, d, o) PROVE s = ImportedStore(d)
  <2>1. s.nodes = [n \in Nodes |-> PlaceOf(d, n)]
    BY <1>5 DEF Right, Kv, Objects
  <2>2. s.ways = [o \in Ways |-> RefsIn(d, o)] /\ s.relations = [o \in Relations |-> RefsIn(d, o)]
    BY <1>5 DEF Right, Kv, Objects
  <2>3. s.nodeToWays = [n \in Nodes |-> {o \in Ways : n \in Refs(o)}]
    <3>1. s.nodeToWays \in [Nodes -> SUBSET Ways]
      BY <1>5 DEF Kv
    <3>2. \A n \in Nodes, o \in Ways : o \in s.nodeToWays[n] <=> n \in Refs(o)
      BY <1>3, <1>5 DEF Right, Objects
    <3>3. \A n \in Nodes : s.nodeToWays[n] = {o \in Ways : n \in Refs(o)}
      BY <3>1, <3>2
    <3> QED
      BY <3>1, <3>3
  <2>4. s.wayToRelations = [o \in Ways |-> {r \in Relations : o \in Refs(r)}]
    <3>1. s.wayToRelations \in [Ways -> SUBSET Relations]
      BY <1>5 DEF Kv
    <3>2. \A w \in Ways, r \in Relations : r \in s.wayToRelations[w] <=> w \in Refs(r)
      BY <1>3, <1>5 DEF Right, Objects
    <3>3. \A w \in Ways : s.wayToRelations[w] = {r \in Relations : w \in Refs(r)}
      BY <3>1, <3>2
    <3> QED
      BY <3>1, <3>3
  <2> QED
    BY <1>1, <1>5, <2>1, <2>2, <2>3, <2>4 DEF Kv
<1> QED
  BY <1>4, <1>5

\* It starts as imported.
LEMMA StoreInit == Init => StoreOK
<1> SUFFICES ASSUME Init PROVE StoreOK
  OBVIOUS
<1>1. /\ IsData(base) /\ kv = ImportedStore(base) /\ writes = <<>> /\ todo = {} /\ phase = "off"
      /\ DOMAIN batch = {} /\ Current = base
  BY BatchedInit, CurrentData DEF Init, NoBatch, Current, InBatch
<1>2. Sound(kv) /\ \A o \in Objects : Right(kv, base, o)
  BY <1>1, Imported
<1>3. Sure \subseteq Objects
  BY <1>1 DEF Sure, Applied
<1>4. writes \in Seq(Change)
  BY <1>1, EmptySeq
<1> QED
  BY <1>1, <1>2, <1>3, <1>4 DEF StoreOK

\* Taking a change adds it to what is applied,
LEMMA Taken ==
  ASSUME Batched, StoreOK, NEW o \in todo, phase \in {"nodes", "ways", "relations"},
         todo' = todo \ {o}, UNCHANGED <<phase, feed, base, size, ahead, batch>>
  PROVE  /\ Applied' = Applied \cup {o} /\ Sure' = Sure \cup {o} /\ o \in DOMAIN batch
         /\ Dirtied' = Dirtied /\ Current' = Current /\ Later' = Later /\ InBatch /\ InBatch'
<1>1. /\ o \in DOMAIN batch
      /\ phase = "nodes" => o \in Nodes
      /\ phase = "ways" => o \notin Relations
  BY IdsAssumption DEF StoreOK
<1>2. InBatch /\ InBatch'
  BY DEF InBatch
<1>3. Applied' = Applied \cup {o}
  BY <1>1 DEF Applied
<1>4. Dirtied' = Dirtied /\ Current' = Current /\ Later' = Later
  BY <1>2, SameBatch
<1> QED
  BY <1>1, <1>2, <1>3, <1>4 DEF Sure

\* and the other steps of a batch leave that.
LEMMA Stays ==
  ASSUME Batched, StoreOK,
         \/ KvWrite
         \/ EndNodes \/ EndWays \/ EndRelations \/ RebuildWays \/ RebuildRelations
  PROVE  /\ Applied' = Applied /\ Sure' = Sure
         /\ Dirtied' = Dirtied /\ Current' = Current /\ Later' = Later /\ InBatch /\ InBatch'
<1>1. InBatch /\ InBatch'
  BY DEF KvWrite, EndNodes, EndWays, EndRelations, RebuildWays, RebuildRelations, PhaseDone,
         InBatch, StoreOK
<1>2. UNCHANGED <<feed, base, size, ahead, batch>>
  BY DEF KvWrite, EndNodes, EndWays, EndRelations, RebuildWays, RebuildRelations, upstream,
         committed, history
<1>3. Dirtied' = Dirtied /\ Current' = Current /\ Later' = Later
  BY <1>1, <1>2, SameBatch
<1>4. DOMAIN batch \subseteq Nodes \cup Ways \cup Relations
  BY CurrentData DEF Objects
<1>5. Applied' = Applied
  <2>1. CASE KvWrite
    BY <2>1 DEF KvWrite, Applied
  <2>2. CASE EndNodes
    BY <1>2, <1>4, <2>2, IdsAssumption DEF EndNodes, PhaseDone, Changed, Applied
  <2>3. CASE EndWays
    BY <1>2, <1>4, <2>3, IdsAssumption DEF EndWays, PhaseDone, Changed, Applied
  <2>4. CASE EndRelations
    BY <1>2, <1>4, <2>4, IdsAssumption DEF EndRelations, PhaseDone, Applied
  <2>5. CASE RebuildWays \/ RebuildRelations
    BY <1>2, <2>5 DEF RebuildWays, RebuildRelations, Applied
  <2> QED
    BY <2>1, <2>2, <2>3, <2>4, <2>5
<1> QED
  BY <1>1, <1>3, <1>5 DEF Sure

\* A write of the change being applied.
LEMMA StoreWritten ==
  ASSUME Batched, StoreOK, KvWrite
  PROVE  StoreOK'
<1>1. /\ writes \in Seq(Change) /\ writes # <<>> /\ writes' = Tail(writes) /\ Sound(kv)
      /\ UNCHANGED <<phase, todo, batch>>
  BY DEF KvWrite, StoreOK
<1>2. PICK o \in Applied : /\ Writing(writes, kv, Current, o)
                           /\ \A q \in Sure \ {o} : Right(kv, Current, q)
  BY <1>1 DEF StoreOK
<1>3. Head(writes) \in Change /\ Tail(writes) \in Seq(Change)
  BY <1>1, HeadTailProperties
<1>4. kv' = After(kv, Head(writes))
  <2> DEFINE w == Head(writes)
  <2>1. kv' = [kv EXCEPT ![w.store][w.key] = Written(w)]
    BY DEF KvWrite
  <2>2. w.op = "put" \/ w.op = "add" \/ w.op = "remove"
    BY <1>3 DEF Change
  <2> HIDE DEF w
  <2>3. ASSUME w.op = "put" PROVE kv' = After(kv, w)
    <3>1. Written(w) = w.value
      BY <2>3 DEF Written
    <3>2. After(kv, w) = [kv EXCEPT ![w.store][w.key] = w.value]
      BY <2>3 DEF After
    <3> QED
      BY <2>1, <3>1, <3>2
  <2>4. ASSUME w.op = "add" PROVE kv' = After(kv, w)
    <3>1. Written(w) = kv[w.store][w.key] \cup {w.value}
      BY <2>4 DEF Written
    <3>2. After(kv, w) = [kv EXCEPT ![w.store][w.key] = kv[w.store][w.key] \cup {w.value}]
      BY <2>4 DEF After
    <3> QED
      BY <2>1, <3>1, <3>2
  <2>5. ASSUME w.op = "remove" PROVE kv' = After(kv, w)
    <3>1. Written(w) = kv[w.store][w.key] \ {w.value}
      BY <2>5 DEF Written
    <3>2. After(kv, w) = [kv EXCEPT ![w.store][w.key] = kv[w.store][w.key] \ {w.value}]
      BY <2>5 DEF After
    <3> QED
      BY <2>1, <3>1, <3>2
  <2> QED
    BY <2>2, <2>3, <2>4, <2>5 DEF w
<1>5. Applied' = Applied /\ Sure' = Sure /\ Current' = Current
  BY Stays
<1>6. IsData(Current) /\ Sure \subseteq Objects /\ o \in Objects
  BY CurrentData DEF Sure, Applied
<1>7. /\ Sound(kv')
      /\ \A q \in Objects : q # o /\ Right(kv, Current, q) => Right(kv', Current, q)
      /\ Tail(writes) # <<>> => Writing(Tail(writes), kv', Current, o)
      /\ Tail(writes) = <<>> => Right(kv', Current, o)
  <2>1. PICK s, d : s = kv /\ d = Current
    OBVIOUS
  <2>2. CASE o \in Nodes /\ NodeMidway(writes, o, PlaceOf(Current, o))
    BY <1>1, <1>4, <1>6, <2>2, NodeWritten DEF Writing
  <2>3. CASE o \in Ways /\ Midway(writes, "ways", "nodeToWays", kv.ways, kv.nodeToWays, o, RefsIn(Current, o))
    BY <1>1, <1>4, <1>6, <2>3, WayWritten DEF Writing
  <2>4. CASE /\ o \in Relations
             /\ Midway(writes, "relations", "wayToRelations", kv.relations, kv.wayToRelations,
                       o, RefsIn(Current, o))
    BY <1>1, <1>4, <1>6, <2>4, RelationWritten DEF Writing
  <2> QED
    BY <1>2, <2>2, <2>3, <2>4 DEF Writing
<1>8. Sound(kv)' /\ (writes \in Seq(Change))'
  BY <1>1, <1>3, <1>7
<1>9. ASSUME Tail(writes) = <<>> PROVE \A q \in Sure : Right(kv', Current, q)
  BY <1>2, <1>6, <1>7, <1>9
<1>10. \A q \in Sure \ {o} : Right(kv', Current, q)
  BY <1>2, <1>6, <1>7
<1> QED
  BY <1>1, <1>2, <1>5, <1>7, <1>8, <1>9, <1>10 DEF StoreOK

\* A change is taken.
LEMMA StoreTaken ==
  ASSUME Batched, StoreOK, TakeNode \/ TakeWay \/ TakeRelation
  PROVE  StoreOK'
<1>1. /\ writes = <<>> /\ phase \in {"nodes", "ways", "relations"} /\ kv' = kv
      /\ UNCHANGED <<phase, feed, base, size, ahead, batch>>
  BY DEF TakeNode, TakeWay, TakeRelation, upstream, committed, history
<1>2. PICK o \in todo :
        /\ todo' = todo \ {o}
        /\ phase = "nodes" => writes' = NodeWrites(o)
        /\ phase = "ways" => writes' = WayWrites(o)
        /\ phase = "relations" => writes' = RelationWrites(o)
  BY DEF TakeNode, TakeWay, TakeRelation
<1>3. /\ Applied' = Applied \cup {o} /\ Sure' = Sure \cup {o} /\ o \in DOMAIN batch
      /\ Current' = Current
  BY <1>1, <1>2, Taken
<1>4. Sound(kv)
  BY DEF StoreOK
<1>5. writes' \in Seq(Change) /\ Writing(writes', kv, Current, o) /\ writes' # <<>>
  <2>1. CASE phase = "nodes"
    <3>1. o \in Nodes \cap DOMAIN batch
      BY <1>2, <1>3, <2>1 DEF StoreOK
    <3> QED
      BY <1>2, <1>4, <2>1, <3>1, NodeStarts DEF Writing, NodeMidway
  <2>2. CASE phase = "ways"
    <3>1. o \in Ways \cap DOMAIN batch
      BY <1>2, <1>3, <2>2 DEF StoreOK
    <3> QED
      BY <1>2, <1>4, <2>2, <3>1, WayStarts DEF Writing, Midway
  <2>3. CASE phase = "relations"
    <3>1. o \in Relations \cap DOMAIN batch
      BY <1>2, <1>3, <2>3 DEF StoreOK
    <3> QED
      BY <1>2, <1>4, <2>3, <3>1, RelationStarts DEF Writing, Midway
  <2> QED
    BY <1>1, <2>1, <2>2, <2>3
<1>6. \A q \in Sure' \ {o} : Right(kv, Current, q)
  BY <1>1, <1>3 DEF StoreOK
<1> QED
  BY <1>1, <1>2, <1>3, <1>4, <1>5, <1>6 DEF StoreOK

\* Every step keeps the store's invariant.
LEMMA StoreNext == Batched /\ StoreOK /\ Batched' /\ [Next]_vars => StoreOK'
<1> SUFFICES ASSUME Batched, StoreOK, Batched', [Next]_vars PROVE StoreOK'
  OBVIOUS
<1>1. CASE KvWrite
  BY <1>1, StoreWritten
<1>2. CASE TakeNode \/ TakeWay \/ TakeRelation
  BY <1>2, StoreTaken
<1>3. CASE EndNodes \/ EndWays \/ EndRelations \/ RebuildWays \/ RebuildRelations
  <2>1. Sure' = Sure /\ Current' = Current
    BY <1>3, Stays
  <2>2. UNCHANGED <<kv, writes, batch>>
    BY <1>3 DEF EndNodes, EndWays, EndRelations, RebuildWays, RebuildRelations
  <2>3. writes = <<>>
    BY <1>3 DEF EndNodes, EndWays, EndRelations, RebuildWays, RebuildRelations, PhaseDone, StoreOK
  <2>4. /\ todo' \subseteq DOMAIN batch
        /\ phase' # "nodes"
        /\ phase' = "ways" => todo' \subseteq Ways
        /\ phase' = "relations" => todo' \subseteq Relations
        /\ phase' \notin {"nodes", "ways", "relations"} => todo' = {}
    BY <1>3 DEF EndNodes, EndWays, EndRelations, RebuildWays, RebuildRelations, PhaseDone, Changed,
                StoreOK
  <2> QED
    BY <2>1, <2>2, <2>3, <2>4 DEF StoreOK
<1>4. CASE BeginBatch
  <2>1. /\ Dirtied \subseteq Dirtied' /\ Applied' = {} /\ InBatch' /\ ~InBatch
        /\ \A o \in Objects \ Dirtied' : Current'[o] = base[o]
    BY <1>4, Begun
  <2>2. kv' = kv /\ writes' = <<>> /\ phase' = "nodes" /\ todo' = Nodes \cap DOMAIN batch'
    BY <1>4 DEF BeginBatch
  <2>3. writes = <<>> /\ Current = base
    BY <1>4, <2>1 DEF BeginBatch, StoreOK, Current
  <2>4. \A q \in Sure' : Right(kv', Current', q)
    <3> TAKE q \in Sure'
    <3>1. q \in Objects \ Dirtied' /\ q \in Sure
      BY <2>1 DEF Sure
    <3>2. Right(kv, base, q) /\ base[q] = Current'[q]
      BY <2>1, <2>3, <3>1 DEF StoreOK
    <3> QED
      BY <2>2, <3>2, RightSame
  <2>5. writes' \in Seq(Change)
    BY <2>2, EmptySeq
  <2> QED
    BY <2>2, <2>4, <2>5 DEF StoreOK
<1>5. CASE CommitBatch
  <2>1. Dirtied' = Later /\ Applied' = {} /\ Current' = Current
    BY <1>5, Committed
  <2>2. UNCHANGED <<kv, writes, todo>> /\ phase = "commit" /\ phase' = "between" /\ DOMAIN batch' = {}
    BY <1>5 DEF CommitBatch, NoBatch
  <2>3. todo = {} /\ writes = <<>>
    BY <2>2 DEF StoreOK
  <2>4. Sure' \subseteq Sure
    BY <2>1, <2>2, <2>3, CurrentData DEF Sure, Applied
  <2> QED
    BY <2>1, <2>2, <2>3, <2>4 DEF StoreOK
<1>6. CASE FailBatch
  <2>1. Dirtied' = Dirtied /\ Applied' = {} /\ Current' = base
    BY <1>6, Failed
  <2>2. kv' = kv /\ phase' = "off" /\ DOMAIN batch' = {} /\ todo' = {} /\ writes' = <<>>
    BY <1>6 DEF FailBatch, NoBatch
  <2>3. \A q \in Sure' : Right(kv', Current', q)
    <3> TAKE q \in Sure'
    <3>1. q \in Objects /\ q \notin Dirtied /\ q \in Sure /\ q \notin DOMAIN batch
      BY <2>1, CurrentData DEF Sure
    <3>2. Right(kv, Current, q)
      BY <3>1 DEF StoreOK, Applied
    <3>3. Current[q] = base[q]
      BY <3>1, CurrentData
    <3> QED
      BY <2>1, <2>2, <3>2, <3>3, RightSame
  <2>4. writes' \in Seq(Change)
    BY <2>2, EmptySeq
  <2> QED
    BY <2>2, <2>3, <2>4 DEF StoreOK
<1>7. CASE Publish \/ StartRun \/ EndRun \/ UNCHANGED vars
  <2>1. UNCHANGED <<kv, writes, todo, batch>>
    BY <1>7 DEF Publish, StartRun, EndRun, vars, txnVars
  <2>2. phase' = phase \/ (~InBatch /\ ~InBatch')
    BY <1>7 DEF Publish, StartRun, EndRun, vars, InBatch
  <2>3. Applied' = Applied
    BY <2>1, <2>2 DEF Applied, InBatch, Batched
  <2>4. Dirtied' = Dirtied /\ Current' = Current
    <3>1. CASE Publish
      BY <3>1, Published
    <3>2. CASE StartRun \/ EndRun \/ UNCHANGED vars
      <4>1. UNCHANGED <<feed, base, size, ahead, batch>> /\ (InBatch' <=> InBatch)
        BY <2>2, <3>2 DEF StartRun, EndRun, vars, upstream, committed, txnVars, history, InBatch
      <4> QED
        BY <4>1, SameBatch
    <3> QED
      BY <1>7, <3>1, <3>2
  <2>5. Sure' = Sure
    BY <2>3, <2>4 DEF Sure
  <2> QED
    BY <2>1, <2>2, <2>3, <2>4, <2>5 DEF StoreOK, InBatch
<1> QED
  BY <1>1, <1>2, <1>3, <1>4, <1>5, <1>6, <1>7 DEF Next

-------------------------------------------------------------------------------
(* What a change affects is rebuilt.                                       *)

\* Of the ways and relations no change says anything of, those that rest on what
\* is applied are to be rebuilt, and so is what is applied and exists.
Covered ==
  /\ ways \subseteq Ways /\ rels \subseteq Relations
  /\ \A n \in Applied \cap Nodes, w \in Ways \ Dirtied :
       n \in Held(RefsIn(Current, w)) => w \in ways
  /\ \A w \in Applied \cap Ways :
       /\ Current[w] # Gone => w \in ways
       /\ \A r \in Relations \ Dirtied : w \in Held(RefsIn(Current, r)) => r \in rels
  /\ \A r \in Applied \cap Relations : Current[r] # Gone => r \in rels

\* It is what a change that is taken reads in the reverse indexes.
LEMMA CoveredTaken ==
  ASSUME Batched, StoreOK, Covered, TakeNode \/ TakeWay \/ TakeRelation
  PROVE  Covered'
<1>1. /\ writes = <<>> /\ phase \in {"nodes", "ways", "relations"}
      /\ UNCHANGED <<phase, feed, base, size, ahead, batch>>
  BY DEF TakeNode, TakeWay, TakeRelation, upstream, committed, history
<1>2. \A q \in Sure : Right(kv, Current, q)
  BY <1>1 DEF StoreOK
<1>3. kv \in Kv
  BY DEF StoreOK, Sound
<1>4. CASE TakeNode
  <2>1. PICK n \in todo : todo' = todo \ {n} /\ ways' = ways \cup kv.nodeToWays[n]
    BY <1>4 DEF TakeNode, NodeAffects
  <2>2. /\ Applied' = Applied \cup {n} /\ Dirtied' = Dirtied /\ Current' = Current /\ rels' = rels
        /\ n \in Nodes /\ n \notin Ways /\ n \notin Relations
    BY <1>1, <1>4, <2>1, Taken, IdsAssumption DEF TakeNode, StoreOK
  <2>3. \A w \in Ways \ Dirtied : n \in Held(RefsIn(Current, w)) => w \in ways'
    <3> TAKE w \in Ways \ Dirtied
    <3>1. Right(kv, Current, w)
      BY <1>2 DEF Sure, Objects
    <3> QED
      BY <2>1, <2>2, <3>1 DEF Right
  <2>4. ways' \subseteq Ways
    BY <1>3, <2>1, <2>2 DEF Covered, Kv
  <2> QED
    BY <2>1, <2>2, <2>3, <2>4 DEF Covered
<1>5. CASE TakeWay
  <2>1. PICK w \in todo : /\ todo' = todo \ {w} /\ rels' = rels \cup kv.wayToRelations[w]
                          /\ ways' = IF batch[w] = Gone THEN ways ELSE ways \cup {w}
    BY <1>5 DEF TakeWay, WayAffects
  <2>2. /\ Applied' = Applied \cup {w} /\ Dirtied' = Dirtied /\ Current' = Current
        /\ w \in Ways /\ w \notin Nodes /\ w \notin Relations /\ w \in DOMAIN batch
    BY <1>1, <1>5, <2>1, Taken, IdsAssumption DEF TakeWay, StoreOK
  <2>3. \A r \in Relations \ Dirtied : w \in Held(RefsIn(Current, r)) => r \in rels'
    <3> TAKE r \in Relations \ Dirtied
    <3>1. Right(kv, Current, r)
      BY <1>2 DEF Sure, Objects
    <3> QED
      BY <2>1, <2>2, <3>1 DEF Right
  <2>4. ways' \subseteq Ways /\ rels' \subseteq Relations
    BY <1>3, <2>1, <2>2 DEF Covered, Kv
  <2>5. batch[w] = Current[w]
    BY <2>2, CurrentData
  <2> QED
    BY <2>1, <2>2, <2>3, <2>4, <2>5 DEF Covered
<1>6. CASE TakeRelation
  <2>1. PICK r \in todo : /\ todo' = todo \ {r} /\ ways' = ways
                          /\ rels' = IF batch[r] = Gone THEN rels ELSE rels \cup {r}
    BY <1>6 DEF TakeRelation
  <2>2. /\ Applied' = Applied \cup {r} /\ Dirtied' = Dirtied /\ Current' = Current
        /\ r \in Relations /\ r \notin Nodes /\ r \notin Ways /\ r \in DOMAIN batch
    BY <1>1, <1>6, <2>1, Taken, IdsAssumption DEF TakeRelation, StoreOK
  <2>3. batch[r] = Current[r]
    BY <2>2, CurrentData
  <2> QED
    BY <2>1, <2>2, <2>3 DEF Covered
<1> QED
  BY <1>4, <1>5, <1>6

\* Between batches nothing is applied.
LEMMA CoveredNext == Batched /\ StoreOK /\ Covered /\ Batched' /\ [Next]_vars => Covered'
<1> SUFFICES ASSUME Batched, StoreOK, Covered, Batched', [Next]_vars PROVE Covered'
  OBVIOUS
<1>1. CASE TakeNode \/ TakeWay \/ TakeRelation
  BY <1>1, CoveredTaken
<1>2. CASE \/ KvWrite
           \/ EndNodes \/ EndWays \/ EndRelations \/ RebuildWays \/ RebuildRelations
  <2>1. Applied' = Applied /\ Dirtied' = Dirtied /\ Current' = Current
    BY <1>2, Stays
  <2>2. ways' = ways /\ rels' = rels
    BY <1>2 DEF KvWrite, EndNodes, EndWays, EndRelations, RebuildWays, RebuildRelations
  <2> QED
    BY <2>1, <2>2 DEF Covered
<1>3. CASE BeginBatch \/ CommitBatch \/ FailBatch
  <2>1. Applied' = {}
    BY <1>3, Begun, Committed, Failed
  <2>2. ways' = {} /\ rels' = {}
    BY <1>3 DEF BeginBatch, CommitBatch, FailBatch
  <2> QED
    BY <2>1, <2>2 DEF Covered
<1>4. CASE Publish \/ StartRun \/ EndRun
  <2>1. ~InBatch' /\ ways' = ways /\ rels' = rels
    BY <1>4 DEF Publish, StartRun, EndRun, InBatch, txnVars
  <2>2. Applied' = {}
    BY <2>1 DEF Batched, Applied
  <2> QED
    BY <2>1, <2>2 DEF Covered
<1>5. CASE UNCHANGED vars
  <2>1. UNCHANGED <<feed, base, size, ahead, batch, phase, todo, ways, rels>>
    BY <1>5 DEF vars, upstream, committed, txnVars, history
  <2>2. Applied' = Applied /\ Dirtied' = Dirtied /\ Current' = Current
    BY <2>1, SameBatch DEF Applied, InBatch
  <2> QED
    BY <2>1, <2>2 DEF Covered
<1> QED
  BY <1>1, <1>2, <1>3, <1>4, <1>5 DEF Next

-------------------------------------------------------------------------------
(* What import osm serves of an object.                                    *)

LineIn(d, w) == [i \in DOMAIN d[w].refs |-> d[d[w].refs[i]].at]
Geometry(d, o) ==
  CASE o \in Nodes -> <<<<d[o].at>>>>
    [] o \in Ways -> <<LineIn(d, o)>>
    [] o \in Relations -> [i \in DOMAIN d[o].refs |-> LineIn(d, d[o].refs[i])]
Shown(d, o) == /\ d[o] # Gone /\ d[o].tags # Untagged
               /\ o \in Relations => d[o].refs # <<>>
\* What an object's row is made from.
Under(d, o) == IF o \in Ways \cup Relations THEN Held(RefsIn(d, o)) ELSE {}
Support(d, o) == {o} \cup Under(d, o) \cup UNION {Under(d, q) : q \in Under(d, o)}

\* A row, if it is shown, and else none.
LEMMA ImportedRow ==
  ASSUME NEW d, NEW o \in Objects
  PROVE  /\ ImportedRows(d)[o] =
              IF Shown(d, o) THEN [tags |-> d[o].tags, at |-> Geometry(d, o)] ELSE NoRow
         /\ ImportedRows(d)[o] = NoRow <=> ~Shown(d, o)
<1>1. ImportedRows(d)[o] =
        IF Shown(d, o) THEN [tags |-> d[o].tags, at |-> Geometry(d, o)] ELSE NoRow
  BY DEF ImportedRows, Shown, Geometry, LineIn
<1> QED
  BY <1>1 DEF NoRow, Shown

\* What an object refers to exists.
LEMMA Refers ==
  ASSUME NEW d, IsData(d), NEW o \in Ways \cup Relations
  PROVE  /\ d[o] = Gone => Under(d, o) = {}
         /\ d[o] # Gone =>
              /\ RefsIn(d, o) = d[o].refs /\ d[o].refs # Gone
              /\ Under(d, o) = {d[o].refs[i] : i \in DOMAIN d[o].refs}
              /\ o \in Ways => d[o].refs \in Seq(Nodes)
              /\ o \in Relations => d[o].refs \in Seq(Ways)
              /\ \A i \in DOMAIN d[o].refs :
                   /\ o \in Ways => d[o].refs[i] \in Nodes
                   /\ o \in Relations => d[o].refs[i] \in Ways
                   /\ d[d[o].refs[i]] # Gone
<1>1. CASE d[o] = Gone
  BY <1>1 DEF Under, RefsIn, Held
<1>2. CASE d[o] # Gone
  <2>1. o \in Ways => d[o].refs \in Seq(Nodes)
    BY <1>2, IdsAssumption DEF IsData, Value, Objects
  <2>2. o \in Relations => d[o].refs \in Seq(Ways)
    BY <1>2, IdsAssumption DEF IsData, Value, Objects
  <2>3. d[o].refs # Gone /\ RefsIn(d, o) = d[o].refs
    BY <1>2, <2>1, <2>2, GoneAssumption DEF RefsIn
  <2>4. Under(d, o) = {d[o].refs[i] : i \in DOMAIN d[o].refs}
    BY <2>3 DEF Under, Held, ToSet
  <2>5. \A i \in DOMAIN d[o].refs : d[d[o].refs[i]] # Gone
    BY <1>2 DEF IsData, Complete
  <2>6. \A i \in DOMAIN d[o].refs : /\ o \in Ways => d[o].refs[i] \in Nodes
                                    /\ o \in Relations => d[o].refs[i] \in Ways
    <3>1. ASSUME NEW S, d[o].refs \in Seq(S) PROVE \A i \in DOMAIN d[o].refs : d[o].refs[i] \in S
      BY <3>1, LenProperties
    <3> QED
      BY <2>1, <2>2, <3>1
  <2> QED
    BY <1>2, <2>1, <2>2, <2>3, <2>4, <2>5, <2>6
<1> QED
  BY <1>1, <1>2

\* A row rests on nothing but its object's support.
LEMMA ImportedSame ==
  ASSUME NEW d, IsData(d), NEW e, NEW o \in Objects, \A q \in Support(d, o) : d[q] = e[q]
  PROVE  /\ Support(e, o) = Support(d, o)
         /\ ImportedRows(e)[o] = ImportedRows(d)[o]
<1>1. d[o] = e[o] /\ Under(e, o) = Under(d, o)
  BY DEF Support, Under, RefsIn
<1>2. \A q \in Under(d, o) : d[q] = e[q] /\ Under(e, q) = Under(d, q)
  BY DEF Support, Under, RefsIn
<1>3. Support(e, o) = Support(d, o)
  BY <1>1, <1>2 DEF Support
<1>4. Shown(e, o) <=> Shown(d, o)
  BY <1>1 DEF Shown
<1>5. ASSUME Shown(d, o) PROVE Geometry(e, o) = Geometry(d, o)
  <2>0. d[o] # Gone
    BY <1>5 DEF Shown
  <2>1. ASSUME NEW w \in Ways, w \in {o} \cup Under(d, o), d[w] # Gone PROVE LineIn(e, w) = LineIn(d, w)
    <3>1. d[w] = e[w]
      BY <1>1, <1>2, <2>1
    <3>2. \A i \in DOMAIN d[w].refs : d[w].refs[i] \in Under(d, w)
      BY <2>1, Refers
    <3>3. Under(d, w) \subseteq Support(d, o)
      BY <2>1 DEF Support
    <3>4. \A i \in DOMAIN d[w].refs : d[d[w].refs[i]] = e[d[w].refs[i]]
      BY <3>2, <3>3
    <3> QED
      BY <3>1, <3>4 DEF LineIn
  <2>2. CASE o \in Nodes
    BY <1>1, <2>2 DEF Geometry
  <2>3. CASE o \in Ways
    BY <2>0, <2>1, <2>3, IdsAssumption DEF Geometry
  <2>4. CASE o \in Relations
    <3>1. \A i \in DOMAIN d[o].refs : LineIn(e, d[o].refs[i]) = LineIn(d, d[o].refs[i])
      BY <2>0, <2>1, <2>4, Refers
    <3> QED
      BY <1>1, <2>4, <3>1, IdsAssumption DEF Geometry
  <2> QED
    BY <2>2, <2>3, <2>4 DEF Objects
<1> QED
  BY <1>1, <1>3, <1>4, <1>5, ImportedRow

\* A line is made of positions.
LEMMA LineTyped ==
  ASSUME NEW d, IsData(d), NEW w \in Ways, d[w] # Gone
  PROVE  LineIn(d, w) \in Seq(Positions)
<1>1. /\ d[w].refs \in Seq(Nodes)
      /\ \A i \in DOMAIN d[w].refs : d[w].refs[i] \in Nodes /\ d[d[w].refs[i]] # Gone
  BY Refers
<1>2. DOMAIN d[w].refs = 1 .. Len(d[w].refs) /\ Len(d[w].refs) \in Nat
  BY <1>1, LenProperties
<1>3. \A n \in Nodes : d[n] # Gone => d[n].at \in Positions
  <2> SUFFICES ASSUME NEW n \in Nodes, d[n] # Gone PROVE d[n].at \in Positions
    OBVIOUS
  <2>1. Value(n) = NodeValue /\ d[n] \in Value(n)
    BY IdsAssumption DEF IsData, Value, Objects
  <2> QED
    BY <2>1 DEF NodeValue
<1>4. LineIn(d, w) \in [1 .. Len(d[w].refs) -> Positions]
  BY <1>1, <1>2, <1>3 DEF LineIn
<1> HIDE DEF LineIn
<1> QED
  BY <1>2, <1>4

\* Every row that import serves is one.
LEMMA RowTyped ==
  ASSUME NEW d, IsData(d), NEW o \in Objects
  PROVE  ImportedRows(d)[o] \in Row
<1>1. NoRow \in Row
  BY EmptySeq DEF NoRow, Row
<1>2. ASSUME Shown(d, o) PROVE d[o].tags \in Tags \cup {Untagged} /\ Geometry(d, o) \in Seq(Seq(Positions))
  <2>0. d[o] # Gone /\ d[o] \in Value(o)
    BY <1>2 DEF Shown, IsData
  <2>2. CASE o \in Nodes
    <3>1. d[o].at \in Positions /\ d[o].tags \in Tags \cup {Untagged}
      BY <2>0, <2>2, IdsAssumption DEF Value, NodeValue
    <3>2. Geometry(d, o) = <<<<d[o].at>>>>
      BY <2>2, IdsAssumption DEF Geometry
    <3>3. <<d[o].at>> \in Seq(Positions)
      BY <3>1
    <3>4. \A x \in Seq(Positions) : <<x>> \in Seq(Seq(Positions))
      OBVIOUS
    <3> QED
      BY <3>1, <3>2, <3>3, <3>4
  <2>3. CASE o \in Ways
    <3>1. LineIn(d, o) \in Seq(Positions)
      BY <2>0, <2>3, LineTyped
    <3>2. Geometry(d, o) = <<LineIn(d, o)>> /\ d[o].tags \in Tags \cup {Untagged}
      BY <2>0, <2>3, IdsAssumption DEF Value, Geometry
    <3>3. \A x \in Seq(Positions) : <<x>> \in Seq(Seq(Positions))
      OBVIOUS
    <3> QED
      BY <3>1, <3>2, <3>3
  <2>4. CASE o \in Relations
    <3>1. d[o].refs \in Seq(Ways) /\ \A i \in DOMAIN d[o].refs : d[o].refs[i] \in Ways /\ d[d[o].refs[i]] # Gone
      BY <2>0, <2>4, Refers
    <3>2. DOMAIN d[o].refs = 1 .. Len(d[o].refs) /\ Len(d[o].refs) \in Nat
      BY <3>1, LenProperties
    <3>3. \A i \in DOMAIN d[o].refs : LineIn(d, d[o].refs[i]) \in Seq(Positions)
      BY <3>1, LineTyped
    <3>4. Geometry(d, o) = [i \in DOMAIN d[o].refs |-> LineIn(d, d[o].refs[i])]
      BY <2>4, IdsAssumption DEF Geometry
    <3>5. Geometry(d, o) \in [1 .. Len(d[o].refs) -> Seq(Positions)]
      BY <3>2, <3>3, <3>4
    <3>6. Geometry(d, o) \in Seq(Seq(Positions))
      BY <3>2, <3>5
    <3>7. d[o].tags \in Tags \cup {Untagged}
      BY <2>0, <2>4, IdsAssumption DEF Value
    <3> QED
      BY <3>6, <3>7
  <2> QED
    BY <2>2, <2>3, <2>4 DEF Objects
<1>3. ASSUME Shown(d, o) PROVE ImportedRows(d)[o] \in Row
  <2>1. ImportedRows(d)[o] = [tags |-> d[o].tags, at |-> Geometry(d, o)]
    BY <1>3, ImportedRow
  <2> QED
    BY <1>2, <1>3, <2>1 DEF Row
<1> QED
  BY <1>1, <1>3, ImportedRow

-------------------------------------------------------------------------------
(* The rows.  A row is true to data d, but for what L may have changed, if *)
(* it has d's tags, and d's geometry too when nothing under it is in L; a   *)
(* batch smaller than a failed one may lose it.                            *)

RowTrue(row, d, o, L) ==
  /\ o \notin L => row = NoRow \/ (d[o] # Gone /\ row.tags = d[o].tags)
  /\ Support(d, o) \cap L = {} => row = ImportedRows(d)[o] \/ (split /\ row = NoRow)
RowsTrue ==
  \A o \in Objects : /\ RowTrue(rows[o], base, o, Dirtied)
                     /\ ~split => rows[o] = ImportedRows(base)[o]

\* What the running transaction has of an object: the row it had, that row
\* unless it is deleted, and then the row that the batch gives it.
Before(o) == \/ phase \in {"off", "between", "nodes"}
             \/ phase = "ways" /\ o \notin Nodes
             \/ phase = "relations" /\ o \in Relations
During(o) == \/ phase \in {"relations", "rebuildWays"} /\ o \in Ways
             \/ phase \in {"rebuildWays", "rebuildRelations"} /\ o \in Relations
Staged ==
  \A o \in Objects :
    /\ Before(o) => txnRows[o] = rows[o]
    /\ During(o) => txnRows[o] = IF o \in DOMAIN batch /\ batch[o] = Gone THEN NoRow ELSE rows[o]
    /\ ~Before(o) /\ ~During(o) => RowTrue(txnRows[o], Current, o, Later)

\* After the KV writes, the store is right but for what a larger batch left.
LEMMA AllApplied ==
  ASSUME Batched, StoreOK, phase \in {"rebuildWays", "rebuildRelations", "commit"}
  PROVE  /\ InBatch /\ Applied = DOMAIN batch
         /\ \A q \in Objects : q \notin Later \/ q \in DOMAIN batch => Right(kv, Current, q)
<1>1. todo = {} /\ writes = <<>> /\ InBatch
  BY DEF StoreOK, InBatch
<1>2. Applied = DOMAIN batch
  BY <1>1 DEF Applied
<1>3. \A q \in Objects : q \notin Later \/ q \in DOMAIN batch => q \in Sure
  BY <1>2, CurrentData DEF Sure
<1> QED
  BY <1>1, <1>2, <1>3 DEF StoreOK

\* The line of a way that is right, with its nodes.
LEMMA TrueLines ==
  ASSUME IsData(Current), NEW w \in Ways, Current[w] # Gone, Right(kv, Current, w),
         \A n \in Under(Current, w) : Right(kv, Current, n)
  PROVE  Resolves(w) /\ Line(w) = LineIn(Current, w)
<1>1. /\ kv.ways[w] = Current[w].refs /\ kv.ways[w] # Gone
      /\ \A i \in DOMAIN Current[w].refs :
           /\ Current[w].refs[i] \in Nodes /\ Current[w].refs[i] \in Under(Current, w)
           /\ Current[Current[w].refs[i]] # Gone
  BY Refers DEF Right
<1>2. \A n \in Nodes : Current[n] # Gone => Current[n].at # Gone
  BY IdsAssumption, GoneAssumption DEF IsData, Value, NodeValue, Objects
<1>3. \A i \in DOMAIN Current[w].refs :
        /\ kv.nodes[Current[w].refs[i]] = Current[Current[w].refs[i]].at
        /\ kv.nodes[Current[w].refs[i]] # Gone
  BY <1>1, <1>2 DEF Right, PlaceOf
<1> QED
  BY <1>1, <1>3 DEF Resolves, Line, LineIn

\* What a row rests on are objects.
LEMMA SupportObjects ==
  ASSUME NEW d, IsData(d), NEW o \in Objects
  PROVE  /\ Support(d, o) \subseteq Objects
         /\ o \in Ways => Under(d, o) \subseteq Nodes
         /\ o \in Relations => Under(d, o) \subseteq Ways
         /\ o \in Nodes => Under(d, o) = {}
<1>1. \A q \in Ways : Under(d, q) \subseteq Nodes
  BY Refers
<1>2. \A q \in Relations : Under(d, q) \subseteq Ways
  BY Refers
<1>3. \A q \in Nodes : Under(d, q) = {}
  BY IdsAssumption DEF Under
<1>4. \A q \in Objects : Under(d, q) \subseteq Objects
  BY <1>1, <1>2, <1>3 DEF Objects
<1> QED
  BY <1>1, <1>2, <1>3, <1>4 DEF Support

\* The row of an object on which the batch has no bearing is still true.
LEMMA Carried ==
  ASSUME Batched, NEW o \in Objects, RowTrue(rows[o], base, o, Dirtied),
         Support(base, o) \cap DOMAIN batch = {}
  PROVE  RowTrue(rows[o], Current, o, Later)
<1>1. IsData(base) /\ Dirtied = DOMAIN batch \cup Later
  BY CurrentData
<1>2. \A q \in Support(base, o) : q \in Objects
  BY <1>1, SupportObjects
<1>3. \A q \in Support(base, o) : base[q] = Current[q]
  BY <1>2, CurrentData
<1>4. Support(Current, o) = Support(base, o) /\ ImportedRows(Current)[o] = ImportedRows(base)[o]
  BY <1>1, <1>3, ImportedSame
<1>5. o \in Support(base, o)
  BY DEF Support
<1>6. base[o] = Current[o] /\ o \notin DOMAIN batch
  BY <1>3, <1>5
<1> QED
  BY <1>1, <1>4, <1>6 DEF RowTrue

\* An object that is rebuilt gets the tags it is to have.
LEMMA TagsKept ==
  ASSUME Batched, RowsTrue, Staged, NEW o \in Objects, During(o), o \notin Later,
         \/ o \in DOMAIN batch /\ Current[o] # Gone
         \/ o \notin DOMAIN batch /\ txnRows[o] # NoRow
  PROVE  Current[o] # Gone /\ RebuildTags(o) = Current[o].tags
<1>1. CASE o \in DOMAIN batch
  BY <1>1, CurrentData DEF RebuildTags
<1>2. CASE o \notin DOMAIN batch
  <2>1. txnRows[o] = rows[o] /\ rows[o] # NoRow
    BY <1>2 DEF Staged
  <2>2. o \notin Dirtied /\ Current[o] = base[o]
    BY <1>2, CurrentData
  <2>3. base[o] # Gone /\ rows[o].tags = base[o].tags
    BY <2>1, <2>2 DEF RowsTrue, RowTrue
  <2> QED
    BY <1>2, <2>1, <2>2, <2>3 DEF RebuildTags, StoredTags
<1> QED
  BY <1>1, <1>2

\* The row of an object that is not rebuilt is true if the object is deleted, has
\* no row, or rests on nothing of the batch, or on something left in doubt.
LEMMA NotRebuilt ==
  ASSUME Batched, RowsTrue, Staged, NEW o \in Objects, During(o),
         o \in DOMAIN batch => Current[o] = Gone,
         o \notin DOMAIN batch => \/ rows[o] = NoRow
                                  \/ Support(Current, o) \cap Later # {}
                                  \/ Support(base, o) \cap DOMAIN batch = {}
  PROVE  RowTrue(txnRows[o], Current, o, Later)
<1>1. CASE o \in DOMAIN batch
  <2>1. txnRows[o] = NoRow
    BY <1>1, CurrentData DEF Staged
  <2>2. ImportedRows(Current)[o] = NoRow
    BY <1>1, ImportedRow DEF Shown
  <2> QED
    BY <2>1, <2>2 DEF RowTrue
<1>2. CASE o \notin DOMAIN batch
  <2>1. txnRows[o] = rows[o]
    BY <1>2 DEF Staged
  <2>2. RowTrue(rows[o], base, o, Dirtied) /\ (~split => rows[o] = ImportedRows(base)[o])
    BY DEF RowsTrue
  <2>3. Current[o] = base[o] /\ (o \notin Later => o \notin Dirtied)
    BY <1>2, CurrentData
  <2>4. o \notin Later => rows[o] = NoRow \/ (Current[o] # Gone /\ rows[o].tags = Current[o].tags)
    BY <2>2, <2>3 DEF RowTrue
  <2>5. CASE rows[o] = NoRow
    <3>1. ~split => ImportedRows(Current)[o] = NoRow
      <4>1. ~split => ~Shown(base, o)
        BY <2>2, <2>5, ImportedRow
      <4>2. Shown(base, o) <=> Shown(Current, o)
        BY <2>3 DEF Shown
      <4> QED
        BY <4>1, <4>2, ImportedRow
    <3> QED
      BY <2>1, <2>4, <2>5, <3>1 DEF RowTrue
  <2>6. CASE Support(Current, o) \cap Later # {}
    BY <2>1, <2>4, <2>6 DEF RowTrue
  <2>7. CASE Support(base, o) \cap DOMAIN batch = {}
    BY <2>1, <2>2, <2>7, Carried
  <2> QED
    BY <1>2, <2>5, <2>6, <2>7
<1> QED
  BY <1>1, <1>2

-------------------------------------------------------------------------------
(* The rows that are rebuilt.                                              *)

WayRebuilt(w) == IF RebuildTags(w) = Untagged \/ ~Resolves(w) THEN NoRow
                 ELSE [tags |-> RebuildTags(w), at |-> <<Line(w)>>]
RelationRebuilt(r) ==
  IF \/ RebuildTags(r) = Untagged \/ kv.relations[r] = <<>>
     \/ \E i \in DOMAIN kv.relations[r] : ~Resolves(kv.relations[r][i])
  THEN NoRow
  ELSE [tags |-> RebuildTags(r),
        at |-> [i \in DOMAIN kv.relations[r] |-> Line(kv.relations[r][i])]]
WayTargets == {w \in ways : kv.ways[w] # Gone /\ (w \in DOMAIN batch \/ txnRows[w] # NoRow)}
RelationTargets ==
  {r \in rels \cup Cascade : kv.relations[r] # Gone /\ (r \in DOMAIN batch \/ txnRows[r] # NoRow)}

\* A way's row is true after its phase.
LEMMA WayRow ==
  ASSUME Batched, StoreOK, Covered, RowsTrue, Staged, phase = "rebuildWays", NEW w \in Ways
  PROVE  RowTrue(IF w \in WayTargets THEN WayRebuilt(w) ELSE txnRows[w], Current, w, Later)
<1>1. /\ w \in Objects /\ During(w) /\ IsData(Current) /\ IsData(base) /\ w \notin Relations
  BY CurrentData, IdsAssumption DEF Objects, During
<1>2. /\ Applied = DOMAIN batch
      /\ \A q \in Objects : q \notin Later \/ q \in DOMAIN batch => Right(kv, Current, q)
  BY AllApplied
<1>3. Under(Current, w) \subseteq Nodes /\ Under(Current, w) \subseteq Objects
  BY <1>1, SupportObjects DEF Objects
<1>4. Right(kv, Current, w) => (kv.ways[w] # Gone <=> Current[w] # Gone)
  BY <1>1, Refers DEF Right, RefsIn
<1>5. w \in Support(Current, w) /\ Under(Current, w) \subseteq Support(Current, w)
  BY DEF Support
<1>6. CASE w \in WayTargets
  <2>1. kv.ways[w] # Gone /\ (w \in DOMAIN batch \/ txnRows[w] # NoRow)
    BY <1>6 DEF WayTargets
  <2>2. ASSUME w \notin Later PROVE Current[w] # Gone /\ RebuildTags(w) = Current[w].tags
    <3>1. Current[w] # Gone
      BY <1>1, <1>2, <1>4, <2>1, <2>2
    <3> QED
      BY <1>1, <2>1, <2>2, <3>1, TagsKept
  <2>3. ASSUME Support(Current, w) \cap Later = {} PROVE WayRebuilt(w) = ImportedRows(Current)[w]
    <3>1. w \notin Later
      BY <1>5, <2>3
    <3>2. Right(kv, Current, w) /\ \A n \in Under(Current, w) : Right(kv, Current, n)
      BY <1>1, <1>2, <1>3, <1>5, <2>3
    <3>3. Resolves(w) /\ Line(w) = LineIn(Current, w)
      BY <1>1, <2>2, <3>1, <3>2, TrueLines
    <3>4. Shown(Current, w) <=> Current[w].tags # Untagged
      BY <1>1, <2>2, <3>1 DEF Shown
    <3>5. Geometry(Current, w) = <<LineIn(Current, w)>>
      BY IdsAssumption DEF Geometry
    <3> QED
      BY <1>1, <2>2, <3>1, <3>3, <3>4, <3>5, ImportedRow DEF WayRebuilt
  <2>4. w \notin Later => WayRebuilt(w) = NoRow \/ WayRebuilt(w).tags = Current[w].tags
    BY <2>2 DEF WayRebuilt
  <2> QED
    BY <1>6, <2>2, <2>3, <2>4 DEF RowTrue
<1>7. CASE w \notin WayTargets
  <2>1. w \in DOMAIN batch => Current[w] = Gone
    <3> SUFFICES ASSUME w \in DOMAIN batch, Current[w] # Gone PROVE FALSE
      OBVIOUS
    <3>1. w \in ways /\ kv.ways[w] # Gone
      BY <1>1, <1>2, <1>4 DEF Covered
    <3> QED
      BY <1>7, <3>1 DEF WayTargets
  <2>2. ASSUME w \notin DOMAIN batch, rows[w] # NoRow, Support(Current, w) \cap Later = {}
        PROVE  Support(base, w) \cap DOMAIN batch = {}
    <3>1. w \notin Later /\ w \notin Dirtied /\ Current[w] = base[w] /\ txnRows[w] = rows[w]
      BY <1>1, <1>5, <2>2, CurrentData DEF Staged
    <3>2. Current[w] # Gone
      BY <1>1, <2>2, <3>1 DEF RowsTrue, RowTrue
    <3>3. w \notin ways
      BY <1>1, <1>2, <1>4, <1>7, <2>2, <3>1, <3>2 DEF WayTargets
    <3>4. Under(base, w) = Under(Current, w) /\ Under(Current, w) = Held(RefsIn(Current, w))
      BY <3>1 DEF Under, RefsIn
    <3>5. \A n \in Under(base, w) : n \in Nodes /\ n \notin DOMAIN batch /\ Under(base, n) = {}
      BY <1>1, <1>2, <1>3, <3>1, <3>3, <3>4, SupportObjects DEF Covered
    <3> QED
      BY <2>2, <3>5 DEF Support
  <2>3. RowTrue(txnRows[w], Current, w, Later)
    BY <1>1, <2>1, <2>2, NotRebuilt
  <2> QED
    BY <1>7, <2>3
<1> QED
  BY <1>6, <1>7

\* So is a relation's.
LEMMA RelationRow ==
  ASSUME Batched, StoreOK, Covered, RowsTrue, Staged, phase = "rebuildRelations",
         NEW r \in Relations
  PROVE  RowTrue(IF r \in RelationTargets THEN RelationRebuilt(r) ELSE txnRows[r], Current, r, Later)
<1>1. /\ r \in Objects /\ During(r) /\ IsData(Current) /\ IsData(base) /\ r \notin Ways
  BY CurrentData, IdsAssumption DEF Objects, During
<1>2. /\ Applied = DOMAIN batch
      /\ \A q \in Objects : q \notin Later \/ q \in DOMAIN batch => Right(kv, Current, q)
  BY AllApplied
<1>3. Under(Current, r) \subseteq Ways /\ Ways \subseteq Objects /\ Nodes \subseteq Objects
  BY <1>1, SupportObjects DEF Objects
<1>4. Right(kv, Current, r) => (kv.relations[r] # Gone <=> Current[r] # Gone)
  BY <1>1, Refers DEF Right, RefsIn
<1>5. /\ r \in Support(Current, r) /\ Under(Current, r) \subseteq Support(Current, r)
      /\ \A w \in Under(Current, r) : Under(Current, w) \subseteq Support(Current, r)
  BY DEF Support
<1>6. CASE r \in RelationTargets
  <2>1. kv.relations[r] # Gone /\ (r \in DOMAIN batch \/ txnRows[r] # NoRow)
    BY <1>6 DEF RelationTargets
  <2>2. ASSUME r \notin Later PROVE Current[r] # Gone /\ RebuildTags(r) = Current[r].tags
    <3>1. Current[r] # Gone
      BY <1>1, <1>2, <1>4, <2>1, <2>2
    <3> QED
      BY <1>1, <2>1, <2>2, <3>1, TagsKept
  <2>3. ASSUME Support(Current, r) \cap Later = {} PROVE RelationRebuilt(r) = ImportedRows(Current)[r]
    <3>1. r \notin Later /\ Current[r] # Gone
      BY <1>5, <2>2, <2>3
    <3>2. /\ kv.relations[r] = Current[r].refs
          /\ \A i \in DOMAIN Current[r].refs : /\ Current[r].refs[i] \in Under(Current, r)
                                               /\ Current[r].refs[i] \in Ways
                                               /\ Current[Current[r].refs[i]] # Gone
      BY <1>1, <1>2, <3>1, Refers DEF Right
    <3>3. ASSUME NEW w \in Under(Current, r)
          PROVE  Right(kv, Current, w) /\ \A n \in Under(Current, w) : Right(kv, Current, n)
      <4>1. w \in Ways /\ w \notin Later /\ Under(Current, w) \subseteq Nodes
        BY <1>1, <1>3, <1>5, <2>3, SupportObjects
      <4>2. \A n \in Under(Current, w) : n \notin Later /\ n \in Objects
        BY <1>3, <1>5, <2>3, <4>1
      <4> QED
        BY <1>2, <1>3, <4>1, <4>2
    <3>4. \A i \in DOMAIN Current[r].refs :
            /\ Resolves(Current[r].refs[i])
            /\ Line(Current[r].refs[i]) = LineIn(Current, Current[r].refs[i])
      BY <1>1, <3>2, <3>3, TrueLines
    <3>5. Shown(Current, r) <=> Current[r].tags # Untagged /\ Current[r].refs # <<>>
      BY <3>1 DEF Shown
    <3>6. Geometry(Current, r) = [i \in DOMAIN Current[r].refs |-> LineIn(Current, Current[r].refs[i])]
      BY IdsAssumption DEF Geometry
    <3>7. [i \in DOMAIN Current[r].refs |-> Line(Current[r].refs[i])] = Geometry(Current, r)
      BY <3>4, <3>6
    <3>8. RebuildTags(r) = Current[r].tags
      BY <2>2, <3>1
    <3>9. RelationRebuilt(r) =
            IF Shown(Current, r)
            THEN [tags |-> Current[r].tags, at |-> [i \in DOMAIN Current[r].refs |-> Line(Current[r].refs[i])]]
            ELSE NoRow
      BY <3>2, <3>4, <3>5, <3>8 DEF RelationRebuilt
    <3> QED
      BY <1>1, <3>7, <3>9, ImportedRow
  <2>4. r \notin Later => RelationRebuilt(r) = NoRow \/ RelationRebuilt(r).tags = Current[r].tags
    BY <2>2 DEF RelationRebuilt
  <2> QED
    BY <1>6, <2>2, <2>3, <2>4 DEF RowTrue
<1>7. CASE r \notin RelationTargets
  <2>1. r \in DOMAIN batch => Current[r] = Gone
    <3> SUFFICES ASSUME r \in DOMAIN batch, Current[r] # Gone PROVE FALSE
      OBVIOUS
    <3>1. r \in rels /\ kv.relations[r] # Gone
      BY <1>1, <1>2, <1>4 DEF Covered
    <3> QED
      BY <1>7, <3>1 DEF RelationTargets
  <2>2. ASSUME r \notin DOMAIN batch, rows[r] # NoRow, Support(Current, r) \cap Later = {}
        PROVE  Support(base, r) \cap DOMAIN batch = {}
    <3>1. r \notin Later /\ r \notin Dirtied /\ Current[r] = base[r] /\ txnRows[r] = rows[r]
      BY <1>1, <1>5, <2>2, CurrentData DEF Staged
    <3>2. Current[r] # Gone
      BY <1>1, <2>2, <3>1 DEF RowsTrue, RowTrue
    <3>3. r \notin rels /\ r \notin Cascade
      BY <1>1, <1>2, <1>4, <1>7, <2>2, <3>1, <3>2 DEF RelationTargets
    <3>4. Under(base, r) = Under(Current, r) /\ Under(Current, r) = Held(RefsIn(Current, r))
      BY <3>1 DEF Under, RefsIn
    <3>5. ASSUME NEW w \in Under(Current, r)
          PROVE  /\ w \in Ways /\ w \notin DOMAIN batch /\ w \notin Later
                 /\ \A n \in Under(base, w) : n \notin DOMAIN batch
      <4>1. w \in Ways /\ w \notin Later
        BY <1>3, <1>5, <2>2
      <4>2. w \notin DOMAIN batch
        BY <1>2, <3>1, <3>3, <3>4, <4>1 DEF Covered
      <4>3. w \notin Dirtied /\ Current[w] = base[w]
        BY <1>3, <4>1, <4>2, CurrentData
      <4>4. w \notin ways
        <5>1. r \in kv.wayToRelations[w]
          BY <1>1, <1>2, <3>1, <3>4, <4>1 DEF Right
        <5> QED
          BY <3>3, <5>1 DEF Cascade
      <4>5. Under(base, w) \subseteq Nodes /\ Under(base, w) = Held(RefsIn(Current, w))
        BY <1>1, <1>3, <4>1, <4>3, SupportObjects DEF Under, RefsIn
      <4> QED
        BY <1>2, <4>1, <4>2, <4>3, <4>4, <4>5 DEF Covered
    <3> QED
      BY <2>2, <3>4, <3>5 DEF Support
  <2>3. RowTrue(txnRows[r], Current, r, Later)
    BY <1>1, <2>1, <2>2, NotRebuilt
  <2> QED
    BY <1>7, <2>3
<1> QED
  BY <1>6, <1>7

-------------------------------------------------------------------------------
(* The phases' SQL.                                                        *)

Typed ==
  /\ rows \in [Objects -> Row] /\ txnRows \in [Objects -> Row]
  /\ enqueued \subseteq Positions /\ dirty \subseteq Positions
\* The cells of a row that differs from the committed one are noted.
Noted ==
  \A o \in Objects :
    txnRows[o] # rows[o] => Cells(rows[o]) \cup Cells(txnRows[o]) \subseteq dirty

\* A row's cells are positions.
LEMMA CellsTyped ==
  ASSUME NEW row \in Row
  PROVE  Cells(row) \subseteq Positions
<1>1. row.at \in Seq(Seq(Positions))
  BY DEF Row
<1>2. \A i \in DOMAIN row.at : row.at[i] \in Seq(Positions)
  BY <1>1, LenProperties
<1>3. \A s \in Seq(Positions) : ToSet(s) \subseteq Positions
  BY LenProperties DEF ToSet
<1> QED
  BY <1>2, <1>3 DEF Cells

\* Rows that are replaced are noted, as they were and as they get.
LEMMA Replaced ==
  ASSUME Typed, Noted, NEW new, ReplaceRows(new), DOMAIN new \subseteq Objects,
         \A o \in DOMAIN new : new[o] \in Row, UNCHANGED <<rows, enqueued>>
  PROVE  /\ Typed' /\ Noted'
         /\ \A o \in Objects : txnRows'[o] = IF o \in DOMAIN new THEN new[o] ELSE txnRows[o]
<1>1. \A o \in Objects : txnRows'[o] = IF o \in DOMAIN new THEN new[o] ELSE txnRows[o]
  BY DEF ReplaceRows
<1>2. /\ dirty \subseteq dirty'
      /\ \A o \in DOMAIN new : Cells(txnRows[o]) \subseteq dirty' /\ Cells(new[o]) \subseteq dirty'
  BY DEF ReplaceRows, NoteOld, NoteNew
<1>3. dirty' \subseteq Positions
  <2>1. \A o \in DOMAIN new : Cells(txnRows[o]) \subseteq Positions /\ Cells(new[o]) \subseteq Positions
    BY CellsTyped DEF Typed
  <2> QED
    BY <2>1 DEF ReplaceRows, NoteOld, NoteNew, Typed
<1>4. Typed'
  <2>1. txnRows' = [o \in Objects |-> IF o \in DOMAIN new THEN new[o] ELSE txnRows[o]]
    BY DEF ReplaceRows
  <2>2. txnRows' \in [Objects -> Row]
    BY <2>1 DEF Typed
  <2> QED
    BY <1>3, <2>2 DEF Typed
<1>5. Noted'
  BY <1>1, <1>2 DEF Noted
<1> QED
  BY <1>1, <1>4, <1>5

\* A line that resolves is made of positions.
LEMMA LineResolved ==
  ASSUME Sound(kv), NEW w \in Ways, Resolves(w)
  PROVE  Line(w) \in Seq(Positions)
<1>1. kv.ways[w] \in Seq(Nodes) /\ \A i \in DOMAIN kv.ways[w] : kv.nodes[kv.ways[w][i]] # Gone
  BY DEF Sound, Kv, Resolves
<1>2. DOMAIN kv.ways[w] = 1 .. Len(kv.ways[w]) /\ Len(kv.ways[w]) \in Nat
      /\ \A i \in DOMAIN kv.ways[w] : kv.ways[w][i] \in Nodes
  BY <1>1, LenProperties
<1>3. Line(w) \in [1 .. Len(kv.ways[w]) -> Positions]
  BY <1>1, <1>2 DEF Line, Sound, Kv
<1> HIDE DEF Line
<1> QED
  BY <1>2, <1>3

\* The tags of a rebuilt object are tags.
LEMMA TagsTyped ==
  ASSUME Batched, Typed, NEW o \in Objects, o \in DOMAIN batch => Current[o] # Gone
  PROVE  RebuildTags(o) \in Tags \cup {Untagged}
<1>1. CASE o \in DOMAIN batch
  <2>1. batch[o] \in Value(o)
    BY <1>1, CurrentData DEF IsData
  <2>2. batch[o].tags \in Tags \cup {Untagged}
    BY <2>1, IdsAssumption DEF Value, NodeValue, Objects
  <2> QED
    BY <1>1, <2>2 DEF RebuildTags
<1>2. CASE o \notin DOMAIN batch
  BY <1>2 DEF RebuildTags, StoredTags, Typed, Row
<1> QED
  BY <1>1, <1>2

\* What the node phase gives the nodes it changes is what import gives them.
LEMMA NodesEnded ==
  ASSUME Batched, EndNodes
  PROVE  \E new : /\ ReplaceRows(new) /\ DOMAIN new = Nodes \cap DOMAIN batch
                  /\ \A n \in DOMAIN new : new[n] = ImportedRows(Current)[n]
<1> DEFINE row(n) == IF batch[n] = Gone \/ batch[n].tags = Untagged THEN NoRow
                     ELSE [tags |-> batch[n].tags, at |-> <<<<batch[n].at>>>>]
           new == [n \in Changed(Nodes) |-> row(n)]
<1>1. ReplaceRows(new)
  BY DEF EndNodes
<1>2. DOMAIN new = Nodes \cap DOMAIN batch
  BY DEF Changed
<1>3. ASSUME NEW n \in Nodes \cap DOMAIN batch PROVE row(n) = ImportedRows(Current)[n]
  <2>1. batch[n] = Current[n] /\ n \in Objects /\ n \notin Relations
    BY CurrentData, IdsAssumption DEF Objects
  <2>2. Geometry(Current, n) = <<<<Current[n].at>>>>
    BY IdsAssumption DEF Geometry
  <2>3. Shown(Current, n) <=> ~(batch[n] = Gone \/ batch[n].tags = Untagged)
    BY <2>1 DEF Shown
  <2> QED
    BY <2>1, <2>2, <2>3, ImportedRow
<1>4. \A n \in DOMAIN new : new[n] = ImportedRows(Current)[n]
  BY <1>2, <1>3
<1> HIDE DEF new
<1> QED
  BY <1>1, <1>2, <1>4

\* What the phases of the ways and of the relations delete.
LEMMA DeletesEnded ==
  /\ EndWays => \E new : /\ ReplaceRows(new) /\ \A o \in DOMAIN new : new[o] = NoRow
                         /\ DOMAIN new = {w \in Ways \cap DOMAIN batch : batch[w] = Gone}
  /\ EndRelations => \E new : /\ ReplaceRows(new) /\ \A o \in DOMAIN new : new[o] = NoRow
                              /\ DOMAIN new = {r \in Relations \cap DOMAIN batch : batch[r] = Gone}
<1>1. ASSUME EndWays
      PROVE  \E new : /\ ReplaceRows(new) /\ \A o \in DOMAIN new : new[o] = NoRow
                      /\ DOMAIN new = {w \in Ways \cap DOMAIN batch : batch[w] = Gone}
  <2> DEFINE new == [w \in {w \in Changed(Ways) : batch[w] = Gone} |-> NoRow]
  <2>1. ReplaceRows(new)
    BY <1>1 DEF EndWays
  <2>2. DOMAIN new = {w \in Ways \cap DOMAIN batch : batch[w] = Gone} /\ \A o \in DOMAIN new : new[o] = NoRow
    BY DEF Changed
  <2> HIDE DEF new
  <2> QED
    BY <2>1, <2>2
<1>2. ASSUME EndRelations
      PROVE  \E new : /\ ReplaceRows(new) /\ \A o \in DOMAIN new : new[o] = NoRow
                      /\ DOMAIN new = {r \in Relations \cap DOMAIN batch : batch[r] = Gone}
  <2> DEFINE new == [r \in {r \in Changed(Relations) : batch[r] = Gone} |-> NoRow]
  <2>1. ReplaceRows(new)
    BY <1>2 DEF EndRelations
  <2>2. /\ DOMAIN new = {r \in Relations \cap DOMAIN batch : batch[r] = Gone}
        /\ \A o \in DOMAIN new : new[o] = NoRow
    BY DEF Changed
  <2> HIDE DEF new
  <2> QED
    BY <2>1, <2>2
<1> QED
  BY <1>1, <1>2

\* What the rebuilds give their targets.
LEMMA WaysRebuilt ==
  ASSUME Batched, StoreOK, Covered, Typed, RebuildWays
  PROVE  \E new : /\ ReplaceRows(new) /\ DOMAIN new = WayTargets /\ WayTargets \subseteq Ways
                  /\ \A w \in WayTargets : new[w] = WayRebuilt(w) /\ WayRebuilt(w) \in Row
<1> DEFINE new == [w \in Targets({w \in ways : kv.ways[w] # Gone}) |-> WayRebuilt(w)]
<1>1. ReplaceRows(new) /\ phase = "rebuildWays"
  BY DEF RebuildWays, WayRebuilt
<1>2. DOMAIN new = WayTargets /\ WayTargets \subseteq Ways
  BY DEF Targets, WayTargets, Covered
<1>3. ASSUME NEW w \in WayTargets PROVE WayRebuilt(w) \in Row
  <2>1. w \in Ways /\ w \in Objects /\ kv.ways[w] # Gone
    BY <1>2 DEF WayTargets, Objects
  <2>2. w \in DOMAIN batch => Current[w] # Gone
    <3>1. w \in DOMAIN batch => Right(kv, Current, w)
      BY <1>1, <2>1, AllApplied
    <3> QED
      BY <2>1, <3>1 DEF Right, RefsIn
  <2>3. RebuildTags(w) \in Tags \cup {Untagged}
    BY <2>1, <2>2, TagsTyped
  <2>4. NoRow \in Row
    BY EmptySeq DEF NoRow, Row
  <2>5. ASSUME Resolves(w) PROVE <<Line(w)>> \in Seq(Seq(Positions))
    <3>1. Line(w) \in Seq(Positions)
      BY <2>1, <2>5, LineResolved DEF StoreOK
    <3>2. \A x \in Seq(Positions) : <<x>> \in Seq(Seq(Positions))
      OBVIOUS
    <3> QED
      BY <3>1, <3>2
  <2>6. ASSUME Resolves(w) PROVE [tags |-> RebuildTags(w), at |-> <<Line(w)>>] \in Row
    BY <2>3, <2>5, <2>6 DEF Row
  <2> QED
    BY <2>4, <2>6 DEF WayRebuilt
<1>4. \A w \in WayTargets : new[w] = WayRebuilt(w)
  BY <1>2
<1> HIDE DEF new
<1> QED
  BY <1>1, <1>2, <1>3, <1>4

\* A relation that is rebuilt has all of its lines, or no row.
LEMMA RelationsRebuilt ==
  ASSUME Batched, StoreOK, Covered, Typed, RebuildRelations
  PROVE  \E new : /\ ReplaceRows(new) /\ DOMAIN new = RelationTargets /\ RelationTargets \subseteq Relations
                  /\ \A r \in RelationTargets : new[r] = RelationRebuilt(r) /\ RelationRebuilt(r) \in Row
<1> DEFINE new == [r \in Targets({r \in rels \cup Cascade : kv.relations[r] # Gone}) |-> RelationRebuilt(r)]
<1>1. ReplaceRows(new) /\ phase = "rebuildRelations"
  BY DEF RebuildRelations, RelationRebuilt
<1>2. DOMAIN new = RelationTargets /\ RelationTargets \subseteq Relations
  <2>1. Cascade \subseteq Relations
    BY DEF Cascade, Covered, StoreOK, Sound, Kv
  <2> QED
    BY <2>1 DEF Targets, RelationTargets, Covered
<1>3. ASSUME NEW r \in RelationTargets PROVE RelationRebuilt(r) \in Row
  <2>1. r \in Relations /\ r \in Objects /\ kv.relations[r] # Gone
    BY <1>2 DEF RelationTargets, Objects
  <2>2. r \in DOMAIN batch => Current[r] # Gone
    <3>1. r \in DOMAIN batch => Right(kv, Current, r)
      BY <1>1, <2>1, AllApplied
    <3> QED
      BY <2>1, <3>1 DEF Right, RefsIn
  <2>3. RebuildTags(r) \in Tags \cup {Untagged}
    BY <2>1, <2>2, TagsTyped
  <2>4. NoRow \in Row
    BY EmptySeq DEF NoRow, Row
  <2> DEFINE refs == kv.relations[r]
             lines == [i \in DOMAIN refs |-> Line(refs[i])]
  <2>5. refs \in Seq(Ways) /\ DOMAIN refs = 1 .. Len(refs) /\ Len(refs) \in Nat
        /\ \A i \in DOMAIN refs : refs[i] \in Ways
    <3>1. refs \in Seq(Ways)
      BY <2>1 DEF StoreOK, Sound, Kv
    <3> QED
      BY <3>1, LenProperties
  <2>6. ASSUME \A i \in DOMAIN refs : Resolves(refs[i]) PROVE lines \in Seq(Seq(Positions))
    <3>1. \A i \in DOMAIN refs : Line(refs[i]) \in Seq(Positions)
      BY <2>5, <2>6, LineResolved DEF StoreOK
    <3>2. lines \in [1 .. Len(refs) -> Seq(Positions)]
      BY <2>5, <3>1
    <3> HIDE DEF lines
    <3> QED
      BY <2>5, <3>2
  <2>7. ASSUME \A i \in DOMAIN refs : Resolves(refs[i]) PROVE [tags |-> RebuildTags(r), at |-> lines] \in Row
    BY <2>3, <2>6, <2>7 DEF Row
  <2> QED
    BY <2>4, <2>7 DEF RelationRebuilt
<1>4. \A r \in RelationTargets : new[r] = RelationRebuilt(r)
  BY <1>2
<1> HIDE DEF new
<1> QED
  BY <1>1, <1>2, <1>3, <1>4

\* A row that import makes of an object is true to the data.
LEMMA ImportedTrue ==
  ASSUME NEW d, NEW o \in Objects, NEW L
  PROVE  RowTrue(ImportedRows(d)[o], d, o, L) /\ (d[o] = Gone => RowTrue(NoRow, d, o, L))
<1>1. ImportedRows(d)[o] = NoRow \/ (d[o] # Gone /\ ImportedRows(d)[o].tags = d[o].tags)
  <2>1. CASE Shown(d, o)
    <3>1. ImportedRows(d)[o] = [tags |-> d[o].tags, at |-> Geometry(d, o)]
      BY <2>1, ImportedRow
    <3>2. ImportedRows(d)[o].tags = d[o].tags
      BY <3>1
    <3> QED
      BY <2>1, <3>2 DEF Shown
  <2>2. CASE ~Shown(d, o)
    BY <2>2, ImportedRow
  <2> QED
    BY <2>1, <2>2
<1>2. d[o] = Gone => ImportedRows(d)[o] = NoRow
  BY ImportedRow DEF Shown
<1> QED
  BY <1>1, <1>2 DEF RowTrue

\* What is served does not change inside a batch, nor does what it is true to.
LEMMA RowsStay ==
  ASSUME RowsTrue, UNCHANGED <<rows, base, split>>, Dirtied' = Dirtied
  PROVE  RowsTrue'
BY DEF RowsTrue, RowTrue

\* The rows that the phases of the changes leave the transaction,
LEMMA ChangesEnded ==
  ASSUME Batched, StoreOK, Covered, RowsTrue, Staged, Typed, Noted,
         EndNodes \/ EndWays \/ EndRelations
  PROVE  RowsTrue' /\ Staged' /\ Typed' /\ Noted'
<1>1. /\ Current' = Current /\ Later' = Later /\ Dirtied' = Dirtied
      /\ UNCHANGED <<rows, enqueued, split, batch, base>>
  BY Stays DEF EndNodes, EndWays, EndRelations, committed, history
<1>2. RowsTrue'
  BY <1>1, RowsStay
<1>3. NoRow \in Row
  BY EmptySeq DEF NoRow, Row
<1>4. CASE EndNodes
  <2>1. PICK new : /\ ReplaceRows(new) /\ DOMAIN new = Nodes \cap DOMAIN batch
                   /\ \A n \in DOMAIN new : new[n] = ImportedRows(Current)[n]
    BY <1>4, NodesEnded
  <2>2. \A n \in DOMAIN new : n \in Objects /\ new[n] \in Row
    BY <2>1, CurrentData, RowTyped DEF Objects
  <2>3. /\ Typed' /\ Noted'
        /\ \A o \in Objects : txnRows'[o] = IF o \in DOMAIN new THEN new[o] ELSE txnRows[o]
    BY <1>1, <2>1, <2>2, Replaced
  <2>4. phase = "nodes" /\ phase' = "ways"
    BY <1>4 DEF EndNodes, PhaseDone
  <2>5. ASSUME NEW n \in Nodes PROVE RowTrue(txnRows'[n], Current, n, Later)
    <3>1. n \in Objects /\ txnRows[n] = rows[n]
      BY <2>4 DEF Staged, Before, Objects
    <3>2. CASE n \in DOMAIN batch
      BY <2>1, <2>3, <3>1, <3>2, ImportedTrue
    <3>3. CASE n \notin DOMAIN batch
      <4>1. txnRows'[n] = rows[n]
        BY <2>1, <2>3, <3>1, <3>3
      <4>2. Support(base, n) = {n}
        BY <3>1, CurrentData, SupportObjects DEF Support
      <4>3. RowTrue(rows[n], base, n, Dirtied)
        BY <3>1 DEF RowsTrue
      <4> QED
        BY <3>1, <3>3, <4>1, <4>2, <4>3, Carried
    <3> QED
      BY <3>2, <3>3
  <2>6. \A o \in Objects \ Nodes : txnRows'[o] = rows[o]
    BY <2>1, <2>3, <2>4 DEF Staged, Before
  <2>7. Staged'
    BY <1>1, <2>4, <2>5, <2>6 DEF Staged, Before, During, RowTrue, Objects
  <2> QED
    BY <1>2, <2>3, <2>7
<1>5. CASE EndWays
  <2>1. PICK new : /\ ReplaceRows(new) /\ \A o \in DOMAIN new : new[o] = NoRow
                   /\ DOMAIN new = {w \in Ways \cap DOMAIN batch : batch[w] = Gone}
    BY <1>5, DeletesEnded
  <2>2. /\ Typed' /\ Noted'
        /\ \A o \in Objects : txnRows'[o] = IF o \in DOMAIN new THEN new[o] ELSE txnRows[o]
    BY <1>1, <1>3, <2>1, Replaced DEF Objects
  <2>3. phase = "ways" /\ phase' = "relations"
    BY <1>5 DEF EndWays, PhaseDone
  <2>4. \A o \in Objects \ Nodes : txnRows[o] = rows[o]
    BY <2>3 DEF Staged, Before
  <2>5. \A n \in Nodes : RowTrue(txnRows'[n], Current, n, Later)
    <3> TAKE n \in Nodes
    <3>1. n \in Objects /\ n \notin Ways /\ n \notin Relations
      BY IdsAssumption DEF Objects
    <3>2. txnRows'[n] = txnRows[n]
      BY <2>1, <2>2, <3>1
    <3>3. ~Before(n) /\ ~During(n)
      BY <2>3, <3>1 DEF Before, During
    <3> QED
      BY <3>1, <3>2, <3>3 DEF Staged
  <2>6. \A w \in Ways : txnRows'[w] = IF w \in DOMAIN batch /\ batch[w] = Gone THEN NoRow ELSE rows[w]
    BY <2>1, <2>2, <2>4, IdsAssumption DEF Objects
  <2>7. \A r \in Relations : txnRows'[r] = rows[r]
    BY <2>1, <2>2, <2>4, IdsAssumption DEF Objects
  <2>8. Staged'
    BY <1>1, <2>3, <2>5, <2>6, <2>7, IdsAssumption DEF Staged, Before, During, RowTrue, Objects
  <2> QED
    BY <1>2, <2>2, <2>8
<1>6. CASE EndRelations
  <2>1. PICK new : /\ ReplaceRows(new) /\ \A o \in DOMAIN new : new[o] = NoRow
                   /\ DOMAIN new = {r \in Relations \cap DOMAIN batch : batch[r] = Gone}
    BY <1>6, DeletesEnded
  <2>2. /\ Typed' /\ Noted'
        /\ \A o \in Objects : txnRows'[o] = IF o \in DOMAIN new THEN new[o] ELSE txnRows[o]
    BY <1>1, <1>3, <2>1, Replaced DEF Objects
  <2>3. phase = "relations" /\ phase' = "rebuildWays"
    BY <1>6 DEF EndRelations, PhaseDone
  <2>4. \A r \in Relations : txnRows[r] = rows[r]
    BY <2>3 DEF Staged, Before, Objects
  <2>5. \A n \in Nodes : RowTrue(txnRows'[n], Current, n, Later)
    <3> TAKE n \in Nodes
    <3>1. n \in Objects /\ n \notin Ways /\ n \notin Relations
      BY IdsAssumption DEF Objects
    <3>2. txnRows'[n] = txnRows[n]
      BY <2>1, <2>2, <3>1
    <3>3. ~Before(n) /\ ~During(n)
      BY <2>3, <3>1 DEF Before, During
    <3> QED
      BY <3>1, <3>2, <3>3 DEF Staged
  <2>6. \A w \in Ways : txnRows'[w] = IF w \in DOMAIN batch /\ batch[w] = Gone THEN NoRow ELSE rows[w]
    BY <2>1, <2>2, <2>3, IdsAssumption DEF Staged, During, Objects
  <2>7. \A r \in Relations :
          txnRows'[r] = IF r \in DOMAIN batch /\ batch[r] = Gone THEN NoRow ELSE rows[r]
    BY <2>1, <2>2, <2>4 DEF Objects
  <2>8. Staged'
    BY <1>1, <2>3, <2>5, <2>6, <2>7, IdsAssumption DEF Staged, Before, During, RowTrue, Objects
  <2> QED
    BY <1>2, <2>2, <2>8
<1> QED
  BY <1>4, <1>5, <1>6

\* and those that the rebuilds do.
LEMMA RebuildsEnded ==
  ASSUME Batched, StoreOK, Covered, RowsTrue, Staged, Typed, Noted,
         RebuildWays \/ RebuildRelations
  PROVE  RowsTrue' /\ Staged' /\ Typed' /\ Noted'
<1>1. /\ Current' = Current /\ Later' = Later /\ Dirtied' = Dirtied
      /\ UNCHANGED <<rows, enqueued, split, batch, base>>
  BY Stays DEF RebuildWays, RebuildRelations, committed, history
<1>2. RowsTrue'
  BY <1>1, RowsStay
<1>3. CASE RebuildWays
  <2>1. PICK new : /\ ReplaceRows(new) /\ DOMAIN new = WayTargets /\ WayTargets \subseteq Ways
                   /\ \A w \in WayTargets : new[w] = WayRebuilt(w) /\ WayRebuilt(w) \in Row
    BY <1>3, WaysRebuilt
  <2>2. /\ Typed' /\ Noted'
        /\ \A o \in Objects : txnRows'[o] = IF o \in DOMAIN new THEN new[o] ELSE txnRows[o]
    BY <1>1, <2>1, Replaced DEF Objects
  <2>3. phase = "rebuildWays" /\ phase' = "rebuildRelations"
    BY <1>3 DEF RebuildWays
  <2>4. \A w \in Ways : RowTrue(txnRows'[w], Current, w, Later)
    <3> TAKE w \in Ways
    <3>1. txnRows'[w] = IF w \in WayTargets THEN WayRebuilt(w) ELSE txnRows[w]
      BY <2>1, <2>2 DEF Objects
    <3> QED
      BY <2>3, <3>1, WayRow
  <2>5. \A n \in Nodes : RowTrue(txnRows'[n], Current, n, Later)
    <3> TAKE n \in Nodes
    <3>1. n \in Objects /\ n \notin Ways /\ n \notin Relations
      BY IdsAssumption DEF Objects
    <3>2. txnRows'[n] = txnRows[n]
      BY <2>1, <2>2, <3>1
    <3>3. ~Before(n) /\ ~During(n)
      BY <2>3, <3>1 DEF Before, During
    <3> QED
      BY <3>1, <3>2, <3>3 DEF Staged
  <2>6. \A r \in Relations :
          txnRows'[r] = IF r \in DOMAIN batch /\ batch[r] = Gone THEN NoRow ELSE rows[r]
    BY <2>1, <2>2, <2>3, IdsAssumption DEF Staged, During, Objects
  <2>7. Staged'
    BY <1>1, <2>3, <2>4, <2>5, <2>6, IdsAssumption DEF Staged, Before, During, RowTrue, Objects
  <2> QED
    BY <1>2, <2>2, <2>7
<1>4. CASE RebuildRelations
  <2>1. PICK new :
          /\ ReplaceRows(new) /\ DOMAIN new = RelationTargets /\ RelationTargets \subseteq Relations
          /\ \A r \in RelationTargets : new[r] = RelationRebuilt(r) /\ RelationRebuilt(r) \in Row
    BY <1>4, RelationsRebuilt
  <2>2. /\ Typed' /\ Noted'
        /\ \A o \in Objects : txnRows'[o] = IF o \in DOMAIN new THEN new[o] ELSE txnRows[o]
    BY <1>1, <2>1, Replaced DEF Objects
  <2>3. phase = "rebuildRelations" /\ phase' = "commit"
    BY <1>4 DEF RebuildRelations
  <2>4. \A r \in Relations : RowTrue(txnRows'[r], Current, r, Later)
    <3> TAKE r \in Relations
    <3>1. txnRows'[r] = IF r \in RelationTargets THEN RelationRebuilt(r) ELSE txnRows[r]
      BY <2>1, <2>2 DEF Objects
    <3> QED
      BY <2>3, <3>1, RelationRow
  <2>5. \A o \in Nodes \cup Ways : RowTrue(txnRows'[o], Current, o, Later)
    <3> TAKE o \in Nodes \cup Ways
    <3>1. o \in Objects /\ o \notin Relations
      BY IdsAssumption DEF Objects
    <3>2. txnRows'[o] = txnRows[o]
      BY <2>1, <2>2, <3>1
    <3>3. ~Before(o) /\ ~During(o)
      BY <2>3, <3>1 DEF Before, During
    <3> QED
      BY <3>1, <3>2, <3>3 DEF Staged
  <2>6. Staged'
    BY <1>1, <2>3, <2>4, <2>5 DEF Staged, Before, During, RowTrue, Objects
  <2> QED
    BY <1>2, <2>2, <2>6
<1> QED
  BY <1>3, <1>4

\* Import's rows are the first.
LEMMA RowsInit == Init => RowsTrue /\ Staged /\ Typed /\ Noted
<1> SUFFICES ASSUME Init PROVE RowsTrue /\ Staged /\ Typed /\ Noted
  OBVIOUS
<1>1. /\ base = World0 /\ rows = ImportedRows(World0) /\ txnRows = rows /\ phase = "off"
      /\ enqueued = {} /\ dirty = {}
  BY DEF Init
<1>2. IsData(World0)
  BY WorldAssumption DEF IsData, DataValues
<1>3. RowsTrue
  BY <1>1, ImportedTrue DEF RowsTrue
<1>4. Staged
  BY <1>1 DEF Staged, Before, During
<1>5. Typed
  <2>1. \A o \in Objects : rows[o] \in Row
    BY <1>1, <1>2, RowTyped
  <2>2. rows = [o \in Objects |-> rows[o]]
    BY <1>1 DEF ImportedRows
  <2>3. rows \in [Objects -> Row]
    BY <2>1, <2>2
  <2> QED
    BY <1>1, <2>3 DEF Typed
<1>6. Noted
  BY <1>1 DEF Noted
<1> QED
  BY <1>3, <1>4, <1>5, <1>6

\* A commit serves the transaction's rows, which all are true by then.
LEMMA RowsCommitted ==
  ASSUME Batched, StoreOK, RowsTrue, Staged, Typed, Noted, CommitBatch
  PROVE  RowsTrue' /\ Staged' /\ Typed' /\ Noted'
<1>1. Dirtied' = Later /\ base' = Current /\ (~split => Later = {})
  BY Committed
<1>2. /\ rows' = txnRows /\ txnRows' = txnRows /\ enqueued' = dirty /\ dirty' = {} /\ split' = split
      /\ phase = "commit" /\ phase' = "between"
  BY DEF CommitBatch
<1>3. \A o \in Objects : RowTrue(txnRows[o], Current, o, Later)
  BY <1>2 DEF Staged, Before, During
<1>4. RowsTrue'
  BY <1>1, <1>2, <1>3 DEF RowsTrue, RowTrue
<1>5. Staged'
  BY <1>2 DEF Staged, Before, During
<1>6. Typed' /\ Noted'
  BY <1>2 DEF Typed, Noted
<1> QED
  BY <1>4, <1>5, <1>6

\* Every step keeps the rows' invariants.
LEMMA RowsNext ==
  Batched /\ StoreOK /\ Covered /\ RowsTrue /\ Staged /\ Typed /\ Noted /\ Batched' /\ [Next]_vars
    => RowsTrue' /\ Staged' /\ Typed' /\ Noted'
<1> SUFFICES ASSUME Batched, StoreOK, Covered, RowsTrue, Staged, Typed, Noted, Batched', [Next]_vars
             PROVE  RowsTrue' /\ Staged' /\ Typed' /\ Noted'
  OBVIOUS
<1>1. CASE EndNodes \/ EndWays \/ EndRelations
  BY <1>1, ChangesEnded
<1>2. CASE RebuildWays \/ RebuildRelations
  BY <1>2, RebuildsEnded
<1>3. CASE CommitBatch
  BY <1>3, RowsCommitted
<1>4. CASE TakeNode \/ TakeWay \/ TakeRelation \/ KvWrite
  <2>1. UNCHANGED <<phase, rows, base, txnRows, enqueued, dirty, batch, split>>
    BY <1>4 DEF TakeNode, TakeWay, TakeRelation, KvWrite, committed, history
  <2>2. Dirtied' = Dirtied /\ Later' = Later /\ Current' = Current
    <3>1. CASE KvWrite
      BY <3>1, Stays
    <3>2. CASE TakeNode \/ TakeWay \/ TakeRelation
      <4>1. UNCHANGED <<feed, base, size, ahead, batch, phase>>
        BY <3>2 DEF TakeNode, TakeWay, TakeRelation, upstream, committed, history
      <4> QED
        BY <4>1, SameBatch DEF InBatch
    <3> QED
      BY <1>4, <3>1, <3>2
  <2>3. RowsTrue'
    BY <2>1, <2>2, RowsStay
  <2>4. Staged'
    BY <2>1, <2>2 DEF Staged, Before, During, RowTrue
  <2>5. Typed' /\ Noted'
    BY <2>1 DEF Typed, Noted
  <2> QED
    BY <2>3, <2>4, <2>5
<1>5. CASE BeginBatch
  <2>1. Dirtied \subseteq Dirtied'
    BY <1>5, Begun
  <2>2. /\ UNCHANGED <<rows, base, enqueued>> /\ txnRows' = rows /\ dirty' = {} /\ phase' = "nodes"
        /\ (split => split')
    BY <1>5 DEF BeginBatch, committed
  <2>3. RowsTrue'
    BY <2>1, <2>2 DEF RowsTrue, RowTrue
  <2>4. Staged'
    BY <2>2 DEF Staged, Before, During
  <2>5. Typed' /\ Noted'
    BY <2>2 DEF Typed, Noted
  <2> QED
    BY <2>3, <2>4, <2>5
<1>6. CASE FailBatch
  <2>1. Dirtied' = Dirtied
    BY <1>6, Failed
  <2>2. /\ UNCHANGED <<rows, base, enqueued, split>> /\ txnRows' = rows /\ dirty' = {}
        /\ phase' = "off"
    BY <1>6 DEF FailBatch, committed
  <2>3. RowsTrue'
    BY <2>1, <2>2, RowsStay
  <2>4. Staged'
    BY <2>2 DEF Staged, Before, During
  <2>5. Typed' /\ Noted'
    BY <2>2 DEF Typed, Noted
  <2> QED
    BY <2>3, <2>4, <2>5
<1>7. CASE Publish \/ StartRun \/ EndRun
  <2>1. UNCHANGED <<rows, base, enqueued, split, txnRows, dirty>>
    BY <1>7 DEF Publish, StartRun, EndRun, committed, txnVars, history
  <2>2. phase \in {"off", "between"} /\ phase' \in {"off", "between"}
    BY <1>7 DEF Publish, StartRun, EndRun
  <2>3. Dirtied' = Dirtied
    <3>1. CASE Publish
      BY <3>1, Published
    <3>2. CASE StartRun \/ EndRun
      <4>1. UNCHANGED <<feed, base, size, ahead, batch>>
        BY <3>2 DEF StartRun, EndRun, upstream, committed, txnVars, history
      <4> QED
        BY <2>2, <4>1, SameBatch DEF InBatch
    <3> QED
      BY <1>7, <3>1, <3>2
  <2>4. RowsTrue'
    BY <2>1, <2>3, RowsStay
  <2>5. Staged'
    BY <2>1, <2>2 DEF Staged, Before, During
  <2>6. Typed' /\ Noted'
    BY <2>1 DEF Typed, Noted
  <2> QED
    BY <2>4, <2>5, <2>6
<1>8. CASE UNCHANGED vars
  <2>1. UNCHANGED <<phase, rows, base, txnRows, enqueued, dirty, batch, split, feed, size, ahead>>
    BY <1>8 DEF vars, upstream, committed, txnVars, history
  <2>2. Dirtied' = Dirtied /\ Later' = Later /\ Current' = Current
    BY <2>1, SameBatch DEF InBatch
  <2>3. RowsTrue'
    BY <2>1, <2>2, RowsStay
  <2>4. Staged'
    BY <2>1, <2>2 DEF Staged, Before, During, RowTrue
  <2>5. Typed' /\ Noted'
    BY <2>1 DEF Typed, Noted
  <2> QED
    BY <2>3, <2>4, <2>5
<1> QED
  BY <1>1, <1>2, <1>3, <1>4, <1>5, <1>6, <1>7, <1>8 DEF Next

-------------------------------------------------------------------------------
(* The theorems.                                                           *)

Counted == stamp \in Nat /\ failures \in Nat
IInv == Batched /\ StoreOK /\ Covered /\ RowsTrue /\ Staged /\ Typed /\ Noted /\ Counted

\* The invariant is inductive.
LEMMA Inductive == (Init => IInv) /\ (IInv /\ [Next]_vars => IInv')
<1>1. Init => Covered /\ Counted
  <2> SUFFICES ASSUME Init PROVE Covered /\ Counted
    OBVIOUS
  <2>1. ways = {} /\ rels = {} /\ DOMAIN batch = {} /\ stamp = 0 /\ failures = 0
    BY DEF Init, NoBatch
  <2> QED
    BY <2>1 DEF Covered, Counted, Applied
<1>2. Init => IInv
  BY <1>1, BatchedInit, StoreInit, RowsInit DEF IInv
<1>3. IInv /\ [Next]_vars => Batched'
  BY BatchedNext DEF IInv
<1>4. IInv /\ [Next]_vars => Counted'
  <2> SUFFICES ASSUME IInv, [Next]_vars PROVE Counted'
    OBVIOUS
  <2>1. CASE CommitBatch
    BY <2>1 DEF CommitBatch, IInv, Batched, Counted
  <2>2. CASE FailBatch
    BY <2>2 DEF FailBatch, IInv, Counted, committed
  <2>3. CASE ~CommitBatch /\ ~FailBatch
    BY <2>3 DEF Next, Publish, StartRun, EndRun, BeginBatch, TakeNode, TakeWay, TakeRelation, KvWrite,
                EndNodes, EndWays, EndRelations, RebuildWays, RebuildRelations, vars, committed, history,
                IInv, Counted
  <2> QED
    BY <2>1, <2>2, <2>3
<1>5. IInv /\ [Next]_vars => IInv'
  BY <1>3, <1>4, StoreNext, CoveredNext, RowsNext DEF IInv
<1> QED
  BY <1>2, <1>5

\* It gives every variable its type.
LEMMA WellTyped == IInv => TypeOK
<1> SUFFICES ASSUME IInv PROVE TypeOK
  OBVIOUS
<1> USE DEF IInv
<1>1. /\ \A o \in Objects : world[o] = Gone \/ world[o] \in Value(o)
      /\ \A o \in Objects : base[o] = Gone \/ base[o] \in Value(o)
  BY CurrentData DEF IsData
<1>2. \A i \in DOMAIN feed : feed[i].diff \in Diffs
  <2>1. feed \in Seq(Entries)
    BY DEF Batched, IsFeed
  <2>2. \A i \in DOMAIN feed : feed[i] \in Entries
    BY <2>1, LenProperties
  <2> QED
    BY <2>2 DEF Entries
<1>3. /\ kv.nodes \in [Nodes -> Positions \cup {Gone}]
      /\ \A w \in Ways : kv.ways[w] = Gone \/ kv.ways[w] \in Seq(Nodes)
      /\ \A r \in Relations : kv.relations[r] = Gone \/ kv.relations[r] \in Seq(Ways)
      /\ kv.nodeToWays \in [Nodes -> SUBSET Ways]
      /\ kv.wayToRelations \in [Ways -> SUBSET Relations]
  BY DEF StoreOK, Sound, Kv
<1>4. /\ \A o \in Objects : rows[o] \in Row /\ txnRows[o] \in Row
      /\ enqueued \subseteq Positions /\ dirty \subseteq Positions
  BY DEF Typed
<1>5. phase \in Phases /\ run.chunk \in Nat /\ run.left \in Nat /\ size \in Nat /\ ahead \in Nat
  BY DEF Batched
<1>6. ways \subseteq Ways /\ rels \subseteq Relations /\ todo \subseteq Objects
  BY CurrentData DEF StoreOK, Covered
<1>7. stamp \in Nat /\ failures \in Nat
  BY DEF Counted
<1>8. split \in BOOLEAN
  BY DEF Batched
<1> QED
  BY <1>1, <1>2, <1>3, <1>4, <1>5, <1>6, <1>7, <1>8 DEF TypeOK

\* Between batches, when no part of a failed one waits, nothing is in doubt.
LEMMA Settles ==
  ASSUME IInv, Settled
  PROVE  /\ kv = ImportedStore(base)
         /\ \A o \in Objects : rows[o] = ImportedRows(base)[o] \/ (split /\ rows[o] = NoRow)
<1>1. ~InBatch /\ ahead = 0 /\ Batched /\ StoreOK /\ RowsTrue
  BY DEF IInv, Settled, InBatch
<1>2. size = 0 /\ Current = base
  BY <1>1 DEF Batched, Current
<1>3. Dirtied = {}
  BY <1>1, <1>2 DEF Dirtied, Farthest, Touched
<1>4. \A o \in Objects : Right(kv, base, o)
  <2>1. writes = <<>>
    BY <1>1 DEF StoreOK, InBatch
  <2> QED
    BY <1>1, <1>2, <1>3, <2>1 DEF StoreOK, Sure
<1>5. kv = ImportedStore(base)
  BY <1>1, <1>4, CurrentData, Imported DEF StoreOK, Sound
<1> QED
  BY <1>1, <1>3, <1>5 DEF RowsTrue, RowTrue

\* Whatever fails on the way, once no part of a failed batch waits, RocksDB holds
\* what a fresh import of the data at the stamp would have put there, reverse
\* indexes included; and so do the rows, unless a failed batch was replayed in
\* parts (osm::kvstore, update::osm::apply_batch).
THEOREM StoreConverges == Spec => []Converged
<1>1. IInv => Converged
  <2> SUFFICES ASSUME IInv PROVE Converged
    OBVIOUS
  <2>1. Settled => kv = ImportedStore(base)
    BY Settles
  <2>2. ASSUME Settled, ~split PROVE rows = ImportedRows(base)
    <3>1. \A o \in Objects : rows[o] = ImportedRows(base)[o]
      BY <2>2, Settles
    <3>2. rows = [o \in Objects |-> rows[o]]
      BY DEF IInv, Typed
    <3>3. ImportedRows(base) = [o \in Objects |-> ImportedRows(base)[o]]
      BY DEF ImportedRows
    <3> QED
      BY <3>1, <3>2, <3>3
  <2> QED
    BY <2>1, <2>2, WellTyped DEF Converged
<1> QED
  BY <1>1, Inductive, PTL DEF Spec

\* Even when a failed batch is replayed in parts, an object that is served is
\* served with its current tags and geometry: the replay can lose a row, it
\* cannot leave a stale one.
THEOREM NeverStale == Spec => []NothingStale
<1>1. IInv => NothingStale
  BY Settles DEF NothingStale
<1> QED
  BY <1>1, Inductive, PTL DEF Spec

\* Only a commit changes what is served, and it enqueues the cells of every row it
\* changes, those the row leaves and those it gets (DirtyCells, update::osm).
THEOREM ChangesAreNoted == Spec => ChangesNoted
<1>1. ASSUME IInv, [Next]_vars
      PROVE  \A o \in Objects :
               rows'[o] # rows[o] => Cells(rows[o]) \cup Cells(rows'[o]) \subseteq enqueued'
  <2>1. CASE CommitBatch
    BY <1>1, <2>1 DEF CommitBatch, IInv, Noted
  <2>2. CASE ~CommitBatch
    <3>1. rows' = rows
      BY <1>1, <2>2 DEF Next, Publish, StartRun, EndRun, BeginBatch, TakeNode, TakeWay, TakeRelation,
                        KvWrite, EndNodes, EndWays, EndRelations, RebuildWays, RebuildRelations, FailBatch,
                        vars, committed
    <3> QED
      BY <3>1
  <2> QED
    BY <2>1, <2>2
<1> QED
  BY <1>1, Inductive, PTL DEF Spec, ChangesNoted

-------------------------------------------------------------------------------
(* The catch-up: its inductive invariant                                   *)

\* The loop is inside a batch that it has claimed.
HasBatch == main \in {"wait", "fetch", "download", "consume", "apply"}
\* The thread has claimed the sequence it is at.
Claimed == thread \in {"claiming", "check", "download", "landed", "failed"}

\* Where the loop is among the sequences of its run.
Progress ==
  main # "idle" =>
    /\ seq = applied + 1 /\ chunk > 0 /\ applied <= frontier
    /\ HasBatch => seq <= fetching /\ fetching <= batchEnd /\ batchEnd <= latest
                  /\ frontier = batchEnd
    /\ main = "apply" => fetching = batchEnd

\* What the thread holds while it is under way, and when it may clean up.
ThreadPlace ==
  /\ Claimed \/ thread = "claim" => next <= latest
  /\ Claimed /\ thread # "claiming" => slot = next
  /\ thread = "none" => downloaded = {}
  /\ main = "idle" => thread = "none"
  /\ main # "idle" /\ stopFlag => main = "join"
  /\ thread = "cleanup" => stopFlag

\* The thread works ahead of the loop: what it has claimed is not applied, not
\* consumed, and not what the loop is fetching once it has passed the wait.
Ahead ==
  Claimed =>
    /\ next > applied
    /\ main = "wait" => next >= fetching
    /\ main \in {"fetch", "download", "consume"} => next > fetching
    /\ main = "apply" => next > batchEnd

\* The sequences below the one being fetched have no file.
NoneBehind ==
  \A s \in files :
    /\ s > applied
    /\ HasBatch => s >= fetching
    /\ main = "apply" => s > batchEnd

\* Whose file each file is: an earlier run's, or one that somebody will remove.
Owned ==
  main # "idle" =>
    \A s \in files :
      \/ s \in leftover \/ s \in downloaded
      \/ thread = "landed" /\ s = next
      \/ main = "consume" /\ s = fetching

PrefetchInv ==
  /\ PrefetchTypeOK /\ Progress /\ ThreadPlace /\ Ahead /\ NoneBehind /\ Owned
  /\ main = "consume" => fetching \in files

\* A fresh database, an empty directory and no thread.
LEMMA PrefetchInitInv == PrefetchInit => PrefetchInv
<1> SUFFICES ASSUME PrefetchInit PROVE PrefetchInv
  OBVIOUS
<1>1. PrefetchTypeOK
  <2>1. /\ 0 \in 0..MaxSeq /\ 0 \in 0..MaxCrashes
        /\ main \in Main /\ thread \in Thread
    BY PrefetchAssumption DEF PrefetchInit, Main, Thread
  <2>2. stopFlag \in BOOLEAN /\ files = {} /\ leftover = {} /\ downloaded = {}
    BY DEF PrefetchInit
  <2> QED
    BY <2>1, <2>2 DEF PrefetchInit, PrefetchTypeOK
<1>2. Progress /\ ThreadPlace /\ Ahead /\ NoneBehind /\ Owned
  BY DEF PrefetchInit, Progress, ThreadPlace, Ahead, NoneBehind, Owned, Claimed
<1> QED
  BY <1>1, <1>2 DEF PrefetchInv, PrefetchInit

\* A batch that starts at a sequence of the backlog is not empty and ends inside it.
LEMMA BatchEndBounds ==
  ASSUME NEW first \in Nat, NEW count \in Nat \ {0}, NEW last \in Nat, first <= last
  PROVE  BatchEnd(first, count, last) \in first .. last
BY DEF BatchEnd

\* A batch holds at least one sequence.
LEMMA ChunkPositive ==
  ASSUME NEW pending \in Nat
  PROVE  RunChunk(pending) \in Nat \ {0}
BY PrefetchAssumption DEF RunChunk

-------------------------------------------------------------------------------
(* The catch-up: the steps                                                 *)

\* Every step keeps the types.
LEMMA PrefetchTypes == PrefetchInv /\ [PrefetchNext]_prefetchVars => PrefetchTypeOK'
<1> SUFFICES ASSUME PrefetchInv, [PrefetchNext]_prefetchVars PROVE PrefetchTypeOK'
  OBVIOUS
<1> USE PrefetchAssumption
    DEF PrefetchTypeOK, Main, Thread, runVars, sharedVars, threadVars, mainVars
<1>t. PrefetchTypeOK
  BY DEF PrefetchInv
<1>1. CASE Start
  <2>1. PICK head \in (applied + 1)..MaxSeq : latest' = head /\ chunk' = RunChunk(head - applied)
    BY <1>1 DEF Start
  <2>2. head - applied \in Nat /\ applied + 1 \in Nat /\ head \in 0..MaxSeq
    BY <1>t, <2>1
  <2>3. chunk' \in Nat \ {0}
    BY <2>1, <2>2, ChunkPositive
  <2>4. frontier' \in 0..MaxSeq
    <3>1. frontier' = BatchEnd(applied + 1, chunk', head)
      BY <1>1, <2>1 DEF Start
    <3>2. frontier' \in applied + 1 .. head
      BY <2>1, <2>2, <2>3, <3>1, BatchEndBounds
    <3> QED
      BY <1>t, <2>1, <3>2
  <2>5. /\ latest' \in 0..MaxSeq /\ seq' \in Nat /\ next' \in Nat
        /\ stopFlag' = FALSE /\ slot' \in 0..MaxSeq
        /\ thread' \in Thread /\ downloaded' = {} /\ leftover' = files /\ main' = "top"
        /\ UNCHANGED <<applied, files, fetching, batchEnd, crashes>>
    BY <1>1, <1>t, <2>1, <2>2 DEF Start
  <2> QED
    BY <1>t, <2>3, <2>4, <2>5
<1>2. CASE ClaimBatch
  <2>1. batchEnd' \in seq .. latest
    BY <1>2, <1>t, BatchEndBounds DEF ClaimBatch, PrefetchInv, Progress
  <2> QED
    BY <1>2, <1>t, <2>1 DEF ClaimBatch
<1>3. CASE LoopEnds \/ WaitWhileDownloading \/ Fetch \/ StepFails \/ StopThread \/ JoinThread
  BY <1>3, <1>t DEF LoopEnds, WaitWhileDownloading, Fetch, StepFails, StopThread, JoinThread
<1>4. CASE Download
  BY <1>4, <1>t DEF Download, PrefetchInv, Progress, HasBatch
<1>5. CASE Consume \/ ConsumeFails
  <2>1. files' \subseteq 1..MaxSeq
    BY <1>5, <1>t DEF Consume, ConsumeFails
  <2>2. fetching' \in 0..MaxSeq /\ main' \in Main
    BY <1>5, <1>t DEF Consume, ConsumeFails
  <2> QED
    BY <1>5, <1>t, <2>1, <2>2 DEF Consume, ConsumeFails
<1>6. CASE ApplyBatch
  BY <1>6, <1>t DEF ApplyBatch
<1>7. CASE Look
  BY <1>7, <1>t DEF Look
<1>8. CASE ClaimLoad \/ CheckFile \/ ThreadDownloadFails \/ AwaitStop
  BY <1>8, <1>t DEF ClaimLoad, CheckFile, ThreadDownloadFails, AwaitStop
<1>9. ASSUME Claimed PROVE next \in 1..MaxSeq
  BY <1>9, <1>t DEF PrefetchInv, ThreadPlace, Ahead
<1>10. CASE ClaimStore \/ ThreadDownload \/ Release
  <2>1. next \in 1..MaxSeq
    BY <1>9, <1>10 DEF ClaimStore, ThreadDownload, Release, Claimed
  <2>2. CASE ClaimStore
    BY <1>t, <2>1, <2>2 DEF ClaimStore
  <2>3. CASE ThreadDownload
    BY <1>t, <2>1, <2>3 DEF ThreadDownload
  <2>4. CASE Release
    BY <1>t, <2>1, <2>4 DEF Release
  <2> QED
    BY <1>10, <2>2, <2>3, <2>4
<1>11. CASE CleanUp
  BY <1>11, <1>t DEF CleanUp
<1>12. CASE Crash
  BY <1>12, <1>t DEF Crash
<1>13. CASE UNCHANGED prefetchVars
  BY <1>13, <1>t DEF prefetchVars
<1> QED
  BY <1>1, <1>2, <1>3, <1>4, <1>5, <1>6, <1>7, <1>8, <1>10, <1>11, <1>12, <1>13
  DEF PrefetchNext, Update, Prefetch, UpToDate

\* The run starts after what is applied, and a batch ends inside the backlog.
LEMMA ProgressStep == PrefetchInv /\ [PrefetchNext]_prefetchVars => Progress'
<1> SUFFICES ASSUME PrefetchInv, [PrefetchNext]_prefetchVars PROVE Progress'
  OBVIOUS
<1>t. PrefetchTypeOK /\ Progress
  BY DEF PrefetchInv
<1> USE DEF Progress, HasBatch, PrefetchTypeOK, Main, runVars, sharedVars, threadVars
<1>1. CASE Start
  <2>1. PICK head \in (applied + 1)..MaxSeq : latest' = head /\ chunk' = RunChunk(head - applied)
    BY <1>1 DEF Start
  <2>2. head - applied \in Nat /\ applied + 1 \in Nat /\ head \in Nat
    BY <1>t, <2>1, PrefetchAssumption
  <2>3. chunk' \in Nat \ {0}
    BY <2>1, <2>2, ChunkPositive
  <2>4. frontier' = BatchEnd(applied + 1, chunk', head)
    BY <1>1, <2>1 DEF Start
  <2>5. frontier' \in applied + 1 .. head
    BY <2>1, <2>2, <2>3, <2>4, BatchEndBounds
  <2> QED
    BY <1>1, <1>t, <2>3, <2>5 DEF Start
<1>2. CASE ClaimBatch
  <2>1. batchEnd' \in seq .. latest
    BY <1>2, <1>t, BatchEndBounds DEF ClaimBatch
  <2> QED
    BY <1>2, <1>t, <2>1 DEF ClaimBatch
<1>3. CASE LoopEnds \/ WaitWhileDownloading \/ Fetch \/ StepFails \/ StopThread \/ JoinThread
  BY <1>3, <1>t DEF LoopEnds, WaitWhileDownloading, Fetch, StepFails, StopThread, JoinThread
<1>4. CASE Download
  BY <1>4, <1>t DEF Download
<1>5. CASE Consume \/ ConsumeFails
  BY <1>5, <1>t DEF Consume, ConsumeFails
<1>6. CASE ApplyBatch
  BY <1>6, <1>t DEF ApplyBatch
<1>7. ASSUME UNCHANGED mainVars PROVE Progress'
  BY <1>7, <1>t DEF mainVars
<1>8. CASE Prefetch
  BY <1>7, <1>8 DEF Prefetch, Look, ClaimLoad, ClaimStore, CheckFile, ThreadDownload,
                    ThreadDownloadFails, Release, AwaitStop, CleanUp
<1>9. CASE Crash
  BY <1>9 DEF Crash
<1>10. CASE UNCHANGED prefetchVars
  BY <1>7, <1>10 DEF prefetchVars, mainVars
<1> QED
  BY <1>1, <1>2, <1>3, <1>4, <1>5, <1>6, <1>8, <1>9, <1>10 DEF PrefetchNext, Update, UpToDate

\* The thread claims inside the backlog, its claim is in the slot, and it cleans
\* up only once the loop has told it to stop.
LEMMA ThreadPlaceStep == PrefetchInv /\ [PrefetchNext]_prefetchVars => ThreadPlace'
<1> SUFFICES ASSUME PrefetchInv, [PrefetchNext]_prefetchVars PROVE ThreadPlace'
  OBVIOUS
<1>t. PrefetchTypeOK /\ ThreadPlace
  BY DEF PrefetchInv
<1> USE DEF ThreadPlace, Claimed, PrefetchTypeOK, runVars, sharedVars, threadVars, mainVars
<1>1. CASE Start
  BY <1>1, <1>t DEF Start
<1>2. CASE Update
  <2>1. CASE StopThread \/ JoinThread
    BY <1>t, <2>1 DEF StopThread, JoinThread
  <2>2. CASE ~(StopThread \/ JoinThread)
    <3>1. /\ main # "idle" /\ main # "join" /\ main' # "idle"
          /\ UNCHANGED <<latest, stopFlag, slot, threadVars>>
      BY <1>2, <2>2 DEF Update, ClaimBatch, LoopEnds, WaitWhileDownloading, Fetch, Download,
                        Consume, ConsumeFails, ApplyBatch, StepFails
    <3> QED
      BY <1>t, <3>1
  <2> QED
    BY <2>1, <2>2
<1>3. CASE Look \/ ClaimLoad \/ ClaimStore
  BY <1>3, <1>t DEF Look, ClaimLoad, ClaimStore
<1>4. CASE CheckFile \/ ThreadDownload \/ ThreadDownloadFails \/ Release
  BY <1>4, <1>t DEF CheckFile, ThreadDownload, ThreadDownloadFails, Release
<1>5. CASE AwaitStop \/ CleanUp
  BY <1>5, <1>t DEF AwaitStop, CleanUp
<1>6. CASE Crash
  BY <1>6, <1>t DEF Crash
<1>7. CASE UNCHANGED prefetchVars
  BY <1>7, <1>t DEF prefetchVars
<1> QED
  BY <1>1, <1>2, <1>3, <1>4, <1>5, <1>6, <1>7 DEF PrefetchNext, Prefetch, UpToDate

\* The claim keeps the thread ahead: it is refused at or below the frontier, and
\* the loop, which may move the frontier past a claim, waits when it comes to it.
LEMMA AheadStep == PrefetchInv /\ [PrefetchNext]_prefetchVars => Ahead'
<1> SUFFICES ASSUME PrefetchInv, [PrefetchNext]_prefetchVars PROVE Ahead'
  OBVIOUS
<1>t. PrefetchTypeOK /\ Progress /\ ThreadPlace /\ Ahead
  BY DEF PrefetchInv
<1> USE DEF Ahead, Claimed, PrefetchTypeOK, Main, runVars, sharedVars, threadVars
<1>1. CASE Start
  BY <1>1, <1>t DEF Start
<1>2. CASE ClaimBatch \/ LoopEnds \/ StepFails \/ StopThread \/ JoinThread
  BY <1>2, <1>t DEF ClaimBatch, LoopEnds, StepFails, StopThread, JoinThread, Progress
<1>3. CASE WaitWhileDownloading
  BY <1>3, <1>t DEF WaitWhileDownloading, Locked, ThreadPlace
<1>4. CASE Fetch \/ Download
  BY <1>4, <1>t DEF Fetch, Download
<1>5. CASE Consume \/ ConsumeFails
  BY <1>5, <1>t DEF Consume, ConsumeFails, Progress, HasBatch
<1>6. CASE ApplyBatch
  BY <1>6, <1>t DEF ApplyBatch
<1>7. CASE Look
  BY <1>7 DEF Look
<1>8. CASE ClaimLoad
  <2>1. UNCHANGED <<main, applied, fetching, batchEnd, next>>
    BY <1>8 DEF ClaimLoad, mainVars
  <2>2. CASE next <= frontier
    BY <1>8, <2>2 DEF ClaimLoad, Refused
  <2>3. CASE next > frontier
    BY <1>t, <1>8, <2>1, <2>3 DEF Progress, HasBatch, ThreadPlace, ClaimLoad
  <2> QED
    BY <1>t, <2>2, <2>3
<1>9. CASE ClaimStore \/ CheckFile \/ ThreadDownload \/ ThreadDownloadFails
  BY <1>9, <1>t DEF ClaimStore, CheckFile, ThreadDownload, ThreadDownloadFails, mainVars
<1>10. CASE Release \/ AwaitStop \/ CleanUp \/ Crash
  BY <1>10 DEF Release, AwaitStop, CleanUp, Crash
<1>11. CASE UNCHANGED prefetchVars
  BY <1>11, <1>t DEF prefetchVars
<1> QED
  BY <1>1, <1>2, <1>3, <1>4, <1>5, <1>6, <1>7, <1>8, <1>9, <1>10, <1>11
  DEF PrefetchNext, Update, Prefetch, UpToDate

\* No download of either thread lands behind the loop, which removes the file of
\* each sequence before it goes on to the next.
LEMMA NoneBehindStep == PrefetchInv /\ [PrefetchNext]_prefetchVars => NoneBehind'
<1> SUFFICES ASSUME PrefetchInv, [PrefetchNext]_prefetchVars PROVE NoneBehind'
  OBVIOUS
<1>t. PrefetchTypeOK /\ Progress /\ NoneBehind
  BY DEF PrefetchInv
<1>n. \A s \in files : s \in Nat
  BY <1>t DEF PrefetchTypeOK
<1> USE DEF NoneBehind, HasBatch, PrefetchTypeOK, runVars, sharedVars, threadVars
<1>1. CASE Start
  BY <1>1, <1>t DEF Start
<1>2. CASE ClaimBatch \/ LoopEnds \/ StepFails \/ StopThread \/ JoinThread
  <2>1. files' = files /\ applied' = applied /\ main' # "apply" /\ (HasBatch' => fetching' = seq)
    BY <1>2 DEF ClaimBatch, LoopEnds, StepFails, StopThread, JoinThread
  <2>2. HasBatch' => seq = applied + 1
    BY <1>2, <1>t DEF ClaimBatch, LoopEnds, StepFails, StopThread, JoinThread, Progress
  <2> QED
    BY <1>n, <1>t, <2>1, <2>2
<1>3. CASE WaitWhileDownloading \/ Fetch
  BY <1>3, <1>t DEF WaitWhileDownloading, Fetch
<1>4. CASE Download
  BY <1>4, <1>n, <1>t DEF Download, Progress
<1>5. CASE Consume \/ ConsumeFails
  <2>1. applied' = applied /\ files' = files \ {fetching}
    BY <1>5 DEF Consume, ConsumeFails
  <2>2. \A s \in files' : s > applied /\ s > fetching
    BY <1>5, <1>n, <1>t, <2>1 DEF Consume, ConsumeFails
  <2>3. /\ HasBatch' => fetching' <= fetching + 1
        /\ main' = "apply" => batchEnd' <= fetching
    BY <1>5, <1>t DEF Consume, ConsumeFails, Progress
  <2>4. fetching' \in Nat /\ batchEnd' \in Nat
    BY <1>5, <1>t DEF Consume, ConsumeFails
  <2> QED
    BY <1>n, <1>t, <2>1, <2>2, <2>3, <2>4
<1>6. CASE ApplyBatch
  BY <1>6, <1>n, <1>t DEF ApplyBatch
<1>7. ASSUME UNCHANGED <<main, applied, fetching, batchEnd>>, files' \subseteq files
      PROVE  NoneBehind'
  BY <1>7, <1>t
<1>8. CASE ThreadDownload
  <2>1. UNCHANGED <<main, applied, fetching, batchEnd>> /\ files' = files \cup {next}
    BY <1>8 DEF ThreadDownload, mainVars
  <2>2. /\ next > applied
        /\ HasBatch => next >= fetching
        /\ main = "apply" => next > batchEnd
    BY <1>8, <1>t DEF ThreadDownload, PrefetchInv, Ahead, Claimed, Progress
  <2> QED
    BY <1>t, <2>1, <2>2
<1>9. CASE Prefetch /\ ~ThreadDownload
  BY <1>7, <1>9 DEF Prefetch, Look, ClaimLoad, ClaimStore, CheckFile, ThreadDownloadFails,
                    Release, AwaitStop, CleanUp, mainVars
<1>10. CASE Crash
  BY <1>10, <1>t DEF Crash
<1>11. CASE UNCHANGED prefetchVars
  BY <1>7, <1>11 DEF prefetchVars
<1> QED
  BY <1>1, <1>2, <1>3, <1>4, <1>5, <1>6, <1>8, <1>9, <1>10, <1>11
  DEF PrefetchNext, Update, UpToDate

\* A file that a run has made is consumed by the loop or listed by the thread, and
\* it leaves the list only with the file.
LEMMA OwnedStep == PrefetchInv /\ [PrefetchNext]_prefetchVars => Owned'
<1> SUFFICES ASSUME PrefetchInv, [PrefetchNext]_prefetchVars PROVE Owned'
  OBVIOUS
<1>t. PrefetchTypeOK /\ Owned /\ ThreadPlace
  BY DEF PrefetchInv
<1> USE DEF Owned, runVars, sharedVars, threadVars
<1>1. CASE Start
  BY <1>1 DEF Start
<1>2. CASE \/ ClaimBatch \/ LoopEnds \/ WaitWhileDownloading \/ Fetch \/ ApplyBatch
           \/ StepFails \/ StopThread \/ JoinThread
  BY <1>2, <1>t DEF ClaimBatch, LoopEnds, WaitWhileDownloading, Fetch, ApplyBatch, StepFails,
                    StopThread, JoinThread
<1>3. CASE Download
  BY <1>3, <1>t DEF Download
<1>4. CASE Consume \/ ConsumeFails
  BY <1>4, <1>t DEF Consume, ConsumeFails
<1>5. CASE Look \/ ClaimLoad \/ ClaimStore \/ ThreadDownloadFails \/ AwaitStop
  BY <1>5, <1>t DEF Look, ClaimLoad, ClaimStore, ThreadDownloadFails, AwaitStop, mainVars
<1>6. CASE CheckFile \/ ThreadDownload
  BY <1>6, <1>t DEF CheckFile, ThreadDownload, mainVars
<1>7. CASE Release
  BY <1>7, <1>t DEF Release, mainVars
<1>8. CASE CleanUp
  BY <1>8, <1>t DEF CleanUp, mainVars
<1>9. CASE Crash
  BY <1>9 DEF Crash
<1>10. CASE UNCHANGED prefetchVars
  BY <1>10, <1>t DEF prefetchVars
<1> QED
  BY <1>1, <1>2, <1>3, <1>4, <1>5, <1>6, <1>7, <1>8, <1>9, <1>10
  DEF PrefetchNext, Update, Prefetch, UpToDate

\* The file the loop is about to open is not taken away: the thread removes files
\* only after the loop has stopped.
LEMMA ConsumeStep ==
  PrefetchInv /\ [PrefetchNext]_prefetchVars => (main = "consume" => fetching \in files)'
<1> SUFFICES ASSUME PrefetchInv, [PrefetchNext]_prefetchVars, main' = "consume"
             PROVE  fetching' \in files'
  OBVIOUS
<1>t. ThreadPlace /\ (main = "consume" => fetching \in files)
  BY DEF PrefetchInv
<1> USE DEF runVars, sharedVars, threadVars, mainVars
<1>1. CASE Start \/ Crash \/ UNCHANGED prefetchVars
  BY <1>1, <1>t DEF Start, Crash, prefetchVars
<1>2. CASE Update
  BY <1>2, <1>t DEF Update, ClaimBatch, LoopEnds, WaitWhileDownloading, Fetch, Download,
                    Consume, ConsumeFails, ApplyBatch, StepFails, StopThread, JoinThread
<1>3. CASE CleanUp
  BY <1>3, <1>t DEF CleanUp, ThreadPlace
<1>4. CASE Prefetch /\ ~CleanUp
  BY <1>4, <1>t DEF Prefetch, Look, ClaimLoad, ClaimStore, CheckFile, ThreadDownload,
                    ThreadDownloadFails, Release, AwaitStop
<1> QED
  BY <1>1, <1>2, <1>3, <1>4 DEF PrefetchNext, UpToDate

\* No diff is fetched twice at once, orphaned, deleted while it is wanted or left
\* behind by a run that ends, for any window, threshold, batch size, backlog and
\* number of crashes.
THEOREM EveryFileAccounted == PrefetchSpec => []FilesAccounted
<1>1. PrefetchInv /\ [PrefetchNext]_prefetchVars => PrefetchInv'
  BY PrefetchTypes, ProgressStep, ThreadPlaceStep, AheadStep, NoneBehindStep, OwnedStep,
     ConsumeStep DEF PrefetchInv
<1>2. PrefetchInv => FilesAccounted
  <2> SUFFICES ASSUME PrefetchInv PROVE FilesAccounted
    OBVIOUS
  <2>1. ~(main = "download" /\ thread = "download" /\ fetching = next)
    BY DEF PrefetchInv, PrefetchTypeOK, Ahead, Claimed
  <2>2. main = "join" /\ thread = "none" => files \subseteq leftover
    BY DEF PrefetchInv, Owned, ThreadPlace
  <2> QED
    BY <2>1, <2>2 DEF PrefetchInv, NoneBehind, FilesAccounted
<1> QED
  BY PrefetchInitInv, <1>1, <1>2, PTL DEF PrefetchSpec

-------------------------------------------------------------------------------
(* The values of the store (OsmStore)                                        *)

\* A non-empty set of numbers has a least one.
LEMMA LeastNumber ==
  ASSUME NEW S \in SUBSET Nat, S # {}
  PROVE  \E n \in S : \A m \in S : n <= m
<1>1. \E n \in S : \A m \in S : <<m, n>> \notin OpToRel(<, Nat)
  BY WFMin, NatLessThanWellFounded
<1>2. \A n, m \in S : <<m, n>> \notin OpToRel(<, Nat) => n <= m
  BY DEF OpToRel
<1> QED
  BY <1>1, <1>2

\* What the recursion of FlattenSeq asks of a function of the places of P.
Flattens(P, f, m) ==
  f \in [1 .. m -> Seq(Int)] /\ \A i \in 1 .. m : f[i] = IF i = 1 THEN P[i] ELSE f[i - 1] \o P[i]

\* There is such a function.
LEMMA FlatteningExists ==
  ASSUME NEW P \in Seq(Seq(Int)), NEW m \in 1 .. Len(P)
  PROVE  \E f : Flattens(P, f, m)
<1> DEFINE D == {k \in 1 .. Len(P) : ~ \E f : Flattens(P, f, k)}
<1> SUFFICES ASSUME D # {} PROVE FALSE
  OBVIOUS
<1>1. Len(P) \in Nat /\ D \in SUBSET Nat
  BY LenProperties
<1>d. \A k : k \in D <=> k \in 1 .. Len(P) /\ ~ \E f : Flattens(P, f, k)
  OBVIOUS
<1> HIDE DEF D
<1>2. PICK k \in D : \A j \in D : k <= j
  BY <1>1, LeastNumber
<1>3. k \in 1 .. Len(P) /\ P[k] \in Seq(Int)
  <2>1. k \in 1 .. Len(P)
    BY <1>d
  <2> QED
    BY <2>1
<1>4. CASE k = 1
  <2> DEFINE f == [i \in 1 .. 1 |-> P[1]]
  <2>1. Flattens(P, f, 1)
    BY <1>3, <1>4 DEF Flattens
  <2> QED
    BY <1>4, <1>d, <2>1
<1>5. CASE k # 1
  <2>1. k - 1 \in 1 .. Len(P) /\ ~(k <= k - 1) /\ k \in Nat
    BY <1>1, <1>3, <1>5
  <2>2. PICK g : Flattens(P, g, k - 1)
    BY <1>2, <1>d, <2>1
  <2> DEFINE f == [i \in 1 .. k |-> IF i = k THEN g[k - 1] \o P[k] ELSE g[i]]
  <2>3. \A i \in 1 .. k : i # k => i \in 1 .. k - 1
    BY <2>1
  <2>4. g[k - 1] \in Seq(Int) /\ g[k - 1] \o P[k] \in Seq(Int)
    <3>1. g[k - 1] \in Seq(Int)
      BY <2>1, <2>2 DEF Flattens
    <3> QED
      BY <1>3, <3>1, ConcatProperties
  <2>5. f \in [1 .. k -> Seq(Int)]
    BY <2>2, <2>3, <2>4 DEF Flattens
  <2>6. ASSUME NEW i \in 1 .. k
        PROVE  f[i] = IF i = 1 THEN P[i] ELSE f[i - 1] \o P[i]
    <3>1. CASE i = k
      <4>1. f[k - 1] = g[k - 1]
        BY <1>5, <2>1, <2>3
      <4> QED
        BY <1>5, <3>1, <4>1
    <3>2. CASE i # k
      <4>1. i \in 1 .. k - 1 /\ g[i] = IF i = 1 THEN P[i] ELSE g[i - 1] \o P[i]
        BY <2>2, <2>3, <3>2 DEF Flattens
      <4>2. i # 1 => i - 1 \in 1 .. k /\ i - 1 # k
        BY <2>1, <4>1
      <4> QED
        BY <3>2, <4>1, <4>2
    <3> QED
      BY <3>1, <3>2
  <2>7. Flattens(P, f, k)
    <3> HIDE DEF f
    <3> QED
      BY <2>5, <2>6 DEF Flattens
  <2> QED
    BY <1>3, <1>d, <2>7
<1> QED
  BY <1>4, <1>5

\* And it is one only, up to any place.
LEMMA FlatteningUnique ==
  ASSUME NEW P \in Seq(Seq(Int)), NEW m \in Nat, NEW n \in Nat, NEW f, NEW g,
         Flattens(P, f, m), Flattens(P, g, n)
  PROVE  \A i \in 1 .. m : i \in 1 .. n => f[i] = g[i]
<1> DEFINE D == {i \in 1 .. m : i \in 1 .. n /\ f[i] # g[i]}
<1> SUFFICES ASSUME D # {} PROVE FALSE
  OBVIOUS
<1>1. D \in SUBSET Nat
  OBVIOUS
<1>d. \A i : i \in D <=> i \in 1 .. m /\ i \in 1 .. n /\ f[i] # g[i]
  OBVIOUS
<1> HIDE DEF D
<1>2. PICK i \in D : \A j \in D : i <= j
  BY <1>1, LeastNumber
<1>3. i \in 1 .. m /\ i \in 1 .. n /\ f[i] # g[i]
  BY <1>d
<1>4. CASE i = 1
  BY <1>3, <1>4 DEF Flattens
<1>5. CASE i # 1
  <2>1. i - 1 \in 1 .. m /\ i - 1 \in 1 .. n /\ ~(i <= i - 1)
    BY <1>3, <1>5
  <2>2. f[i - 1] = g[i - 1]
    BY <1>2, <1>d, <2>1
  <2>3. f[i] = f[i - 1] \o P[i]
    BY <1>3, <1>5 DEF Flattens
  <2>4. g[i] = g[i - 1] \o P[i]
    BY <1>3, <1>5 DEF Flattens
  <2> QED
    BY <1>3, <2>2, <2>3, <2>4
<1> QED
  BY <1>4, <1>5

\* What FlattenSeq makes of no sequence, and of one more than it had.
LEMMA FlattenEmpty == FlattenSeq(<<>>) = <<>>
BY DEF FlattenSeq

\* FlattenSeq is the function the recursion describes, at the last place.
LEMMA FlattenIs ==
  ASSUME NEW P \in Seq(Seq(Int)), P # <<>>
  PROVE  \E f : Flattens(P, f, Len(P)) /\ FlattenSeq(P) = f[Len(P)]
<1> DEFINE m == Len(P)
           R(f) == f = [i \in 1 .. m |-> IF i = 1 THEN P[i] ELSE f[i - 1] \o P[i]]
           c == CHOOSE f : R(f)
<1>1. m \in 1 .. Len(P) /\ m \in Nat \ {0}
  BY LenProperties, EmptySeq
<1>2. FlattenSeq(P) = c[m]
  BY <1>1 DEF FlattenSeq
<1>3. PICK f : Flattens(P, f, m)
  BY <1>1, FlatteningExists
<1>4. R(f)
  BY <1>3 DEF Flattens
<1>5. R(c)
  BY <1>4
<1> HIDE DEF c
<1>6. DOMAIN c = 1 .. m /\ \A i \in 1 .. m : c[i] = IF i = 1 THEN P[i] ELSE c[i - 1] \o P[i]
  BY <1>5
<1>7. \A i \in 1 .. m : c[i] = f[i]
  <2> DEFINE D == {i \in 1 .. m : c[i] # f[i]}
  <2> SUFFICES ASSUME D # {} PROVE FALSE
    OBVIOUS
  <2>1. D \in SUBSET Nat
    BY <1>1
  <2>d. \A i : i \in D <=> i \in 1 .. m /\ c[i] # f[i]
    OBVIOUS
  <2> HIDE DEF D
  <2>2. PICK i \in D : \A j \in D : i <= j
    BY <2>1, LeastNumber
  <2>3. i \in 1 .. m /\ c[i] # f[i]
    BY <2>d
  <2>4. CASE i = 1
    BY <1>3, <1>6, <2>3, <2>4 DEF Flattens
  <2>5. CASE i # 1
    <3>1. i - 1 \in 1 .. m /\ ~(i <= i - 1)
      BY <1>1, <2>3, <2>5
    <3>2. c[i - 1] = f[i - 1]
      BY <2>2, <2>d, <3>1
    <3> QED
      BY <1>3, <1>6, <2>3, <2>5, <3>2 DEF Flattens
  <2> QED
    BY <2>4, <2>5
<1>8. c[m] = f[m]
  BY <1>1, <1>7
<1> QED
  BY <1>2, <1>3, <1>8

\* FlattenSeq, one sequence longer.
LEMMA FlattenAppend ==
  ASSUME NEW P \in Seq(Seq(Int)), NEW x \in Seq(Int)
  PROVE  FlattenSeq(P) \in Seq(Int) /\ FlattenSeq(Append(P, x)) = FlattenSeq(P) \o x
<1> DEFINE Q == Append(P, x)
           m == Len(P)
<1>1. /\ Q \in Seq(Seq(Int)) /\ Q # <<>> /\ Len(Q) = m + 1 /\ m \in Nat
      /\ Q[m + 1] = x /\ \A i \in 1 .. m : Q[i] = P[i]
  BY AppendProperties, LenProperties
<1> HIDE DEF Q
<1>2. PICK g : Flattens(Q, g, m + 1) /\ FlattenSeq(Q) = g[m + 1]
  BY <1>1, FlattenIs
<1>3. CASE P = <<>>
  <2>1. m = 0 /\ FlattenSeq(P) = <<>>
    BY <1>3, FlattenEmpty
  <2>2. FlattenSeq(Q) = x
    BY <1>1, <1>2, <2>1 DEF Flattens
  <2>3. <<>> \o x = x /\ <<>> \in Seq(Int)
    BY ConcatEmptySeq
  <2> QED
    BY <2>1, <2>2, <2>3 DEF Q
<1>4. CASE P # <<>>
  <2>1. m # 0
    BY <1>4, EmptySeq
  <2>2. PICK f : Flattens(P, f, m) /\ FlattenSeq(P) = f[m]
    BY <1>4, FlattenIs
  <2>3. Flattens(Q, f, m)
    BY <1>1, <2>2 DEF Flattens
  <2>4. m \in 1 .. m /\ m \in 1 .. m + 1 /\ m + 1 \in 1 .. m + 1 /\ m + 1 # 1 /\ (m + 1) - 1 = m
    BY <1>1, <2>1
  <2>5. f[m] = g[m]
    BY <1>1, <1>2, <2>3, <2>4, FlatteningUnique
  <2>6. g[m + 1] = g[m] \o x
    BY <1>1, <1>2, <2>4 DEF Flattens
  <2>7. f[m] \in Seq(Int)
    BY <2>2, <2>4 DEF Flattens
  <2> QED
    BY <1>2, <2>2, <2>5, <2>6, <2>7 DEF Q
<1> QED
  BY <1>3, <1>4

\* Concatenation of lists of numbers is associative.
LEMMA ConcatsAssociate ==
  ASSUME NEW a \in Seq(Int), NEW b \in Seq(Int), NEW c \in Seq(Int)
  PROVE  (a \o b) \o c = a \o (b \o c)
<1> DEFINE l == (a \o b) \o c
           r == a \o (b \o c)
<1>1. /\ Len(a) \in Nat /\ Len(b) \in Nat /\ Len(c) \in Nat
      /\ DOMAIN a = 1..Len(a) /\ DOMAIN b = 1..Len(b) /\ DOMAIN c = 1..Len(c)
  BY LenProperties
<1>2. /\ a \o b \in Seq(Int) /\ Len(a \o b) = Len(a) + Len(b)
      /\ \A i \in 1 .. Len(a) + Len(b) : (a \o b)[i] = IF i <= Len(a) THEN a[i] ELSE b[i - Len(a)]
  BY ConcatProperties
<1>3. /\ b \o c \in Seq(Int) /\ Len(b \o c) = Len(b) + Len(c)
      /\ \A i \in 1 .. Len(b) + Len(c) : (b \o c)[i] = IF i <= Len(b) THEN b[i] ELSE c[i - Len(b)]
  BY ConcatProperties
<1>4. /\ l \in Seq(Int) /\ Len(l) = Len(a) + Len(b) + Len(c)
      /\ \A i \in 1 .. Len(a) + Len(b) + Len(c) :
           l[i] = IF i <= Len(a) + Len(b) THEN (a \o b)[i] ELSE c[i - (Len(a) + Len(b))]
  BY <1>1, <1>2, ConcatProperties
<1>5. /\ r \in Seq(Int) /\ Len(r) = Len(a) + Len(b) + Len(c)
      /\ \A i \in 1 .. Len(a) + Len(b) + Len(c) :
           r[i] = IF i <= Len(a) THEN a[i] ELSE (b \o c)[i - Len(a)]
  BY <1>1, <1>3, ConcatProperties
<1> HIDE DEF l, r
<1>6. ASSUME NEW i \in 1 .. Len(a) + Len(b) + Len(c)
      PROVE  l[i] = r[i]
  <2>1. CASE i <= Len(a)
    BY <1>1, <1>2, <1>4, <1>5, <2>1
  <2>2. CASE Len(a) < i /\ i <= Len(a) + Len(b)
    BY <1>1, <1>2, <1>3, <1>4, <1>5, <2>2
  <2>3. CASE Len(a) + Len(b) < i
    <3>1. /\ ~(i <= Len(a) + Len(b)) /\ ~(i <= Len(a))
          /\ i - Len(a) \in 1 .. Len(b) + Len(c) /\ ~(i - Len(a) <= Len(b))
          /\ (i - Len(a)) - Len(b) = i - (Len(a) + Len(b))
      BY <1>1, <2>3
    <3>2. l[i] = c[i - (Len(a) + Len(b))]
      BY <1>4, <3>1
    <3>3. r[i] = (b \o c)[i - Len(a)]
      BY <1>5, <3>1
    <3>4. (b \o c)[i - Len(a)] = c[(i - Len(a)) - Len(b)]
      BY <1>3, <3>1
    <3> QED
      BY <3>1, <3>2, <3>3, <3>4
  <2> QED
    BY <1>1, <2>1, <2>2, <2>3
<1>7. l = r
  BY <1>1, <1>4, <1>5, <1>6, SeqEqual
<1> QED
  BY <1>7 DEF l, r

\* FlattenSeq of two lists of sequences, one after the other.
LEMMA FlattenConcat ==
  ASSUME NEW P \in Seq(Seq(Int)), NEW Q \in Seq(Seq(Int))
  PROVE  FlattenSeq(P \o Q) = FlattenSeq(P) \o FlattenSeq(Q)
<1> DEFINE D == {k \in 0 .. Len(Q) : FlattenSeq(P \o SubSeq(Q, 1, k)) # FlattenSeq(P) \o FlattenSeq(SubSeq(Q, 1, k))}
<1>0. Len(Q) \in Nat /\ D \in SUBSET Nat
  BY LenProperties
<1>d. \A k : k \in D <=> /\ k \in 0 .. Len(Q)
                         /\ FlattenSeq(P \o SubSeq(Q, 1, k)) # FlattenSeq(P) \o FlattenSeq(SubSeq(Q, 1, k))
  OBVIOUS
<1> HIDE DEF D
<1>1. D = {}
  <2> SUFFICES ASSUME D # {} PROVE FALSE
    OBVIOUS
  <2>1. PICK k \in D : \A j \in D : k <= j
    BY <1>0, LeastNumber
  <2>2. k \in 0 .. Len(Q)
        /\ FlattenSeq(P \o SubSeq(Q, 1, k)) # FlattenSeq(P) \o FlattenSeq(SubSeq(Q, 1, k))
    BY <1>d
  <2>3. FlattenSeq(P) \in Seq(Int)
    BY FlattenAppend
  <2>4. CASE k = 0
    <3>1. SubSeq(Q, 1, k) = <<>>
      BY <2>4, SubSeqEmpty
    <3>2. P \o <<>> = P /\ FlattenSeq(P) \o <<>> = FlattenSeq(P)
      BY <2>3, ConcatEmptySeq
    <3> QED
      BY <2>2, <3>1, <3>2, FlattenEmpty
  <2>5. CASE k # 0
    <3> DEFINE R == SubSeq(Q, 1, k - 1)
    <3>1. k - 1 \in 0 .. Len(Q) /\ ~(k <= k - 1) /\ k \in 1 .. Len(Q)
      BY <1>0, <2>2, <2>5
    <3>2. FlattenSeq(P \o R) = FlattenSeq(P) \o FlattenSeq(R)
      BY <1>d, <2>1, <3>1
    <3>3. R \in Seq(Seq(Int)) /\ Q[k] \in Seq(Int) /\ SubSeq(Q, 1, k) = Append(R, Q[k])
      <4>1. Q[k] \in Seq(Int)
        BY <3>1
      <4>2. \A i \in 1 .. k - 1 : Q[i] \in Seq(Int)
        <5>1. \A i \in 1 .. k - 1 : i \in 1 .. Len(Q)
          BY <1>0, <3>1
        <5> QED
          BY <5>1, ElementOfSeq
      <4>3. R \in Seq(Seq(Int))
        BY <3>1, <4>2, SubSeqProperties
      <4>4. SubSeq(Q, 1, k) = Append(R, Q[k])
        BY <1>0, <3>1
      <4> QED
        BY <4>1, <4>3, <4>4
    <3> HIDE DEF R
    <3>4. /\ FlattenSeq(R) \in Seq(Int) /\ FlattenSeq(Append(R, Q[k])) = FlattenSeq(R) \o Q[k]
      BY <3>3, FlattenAppend
    <3>5. P \o R \in Seq(Seq(Int)) /\ P \o Append(R, Q[k]) = Append(P \o R, Q[k])
      BY <3>3
    <3>6. FlattenSeq(Append(P \o R, Q[k])) = FlattenSeq(P \o R) \o Q[k]
      BY <3>3, <3>5, FlattenAppend
    <3>7. (FlattenSeq(P) \o FlattenSeq(R)) \o Q[k] = FlattenSeq(P) \o (FlattenSeq(R) \o Q[k])
      BY <2>3, <3>3, <3>4, ConcatsAssociate
    <3>8. FlattenSeq(P \o SubSeq(Q, 1, k)) = (FlattenSeq(P) \o FlattenSeq(R)) \o Q[k]
      BY <3>2, <3>3, <3>5, <3>6
    <3>9. FlattenSeq(SubSeq(Q, 1, k)) = FlattenSeq(R) \o Q[k]
      BY <3>3, <3>4
    <3> QED
      BY <2>2, <3>7, <3>8, <3>9
  <2> QED
    BY <2>4, <2>5
<1>2. Len(Q) \in 0 .. Len(Q) /\ SubSeq(Q, 1, Len(Q)) = Q
  BY <1>0
<1> QED
  BY <1>1, <1>2, <1>d

\* An entry of a reverse index: no value or a list that was written, and the
\* operands that wait, each one id or several that were folded.
EntriesOfLists ==
  [value : {Absent} \cup {EncodeIds(ids) : ids \in Seq(Int)}, operands : Seq(Seq(Int))]
\* The ids of its value.
BaseOf(entry) == IF entry.value = Absent THEN <<>> ELSE Tail(entry.value)

\* A list that was written is read back.
LEMMA IdsComeBack ==
  ASSUME NEW ids \in Seq(Int)
  PROVE  /\ EncodeIds(ids) \in Seq(Int) /\ EncodeIds(ids) # Absent
         /\ Tail(EncodeIds(ids)) = ids /\ DecodeIds(EncodeIds(ids)) = ids
<1> DEFINE words == <<Len(ids)>> \o ids
<1>1. Len(ids) \in Nat
  BY LenProperties
<1>2. <<Len(ids)>> \in Seq(Int) /\ Len(<<Len(ids)>>) = 1 /\ <<Len(ids)>>[1] = Len(ids)
  BY <1>1
<1>3. /\ words \in Seq(Int) /\ Len(words) = 1 + Len(ids)
      /\ \A i \in 1 .. 1 + Len(ids) : words[i] = IF i <= 1 THEN <<Len(ids)>>[i] ELSE ids[i - 1]
  BY <1>1, <1>2, ConcatProperties
<1>4. words[1] = Len(ids) /\ \A i \in 1 .. Len(ids) : words[i + 1] = ids[i]
  BY <1>1, <1>2, <1>3
<1> HIDE DEF words
<1>5. SubSeq(words, 2, words[1] + 1) = ids
  <2> DEFINE s == SubSeq(words, 2, Len(ids) + 1)
  <2>1. s \in Seq(Int) /\ Len(s) = Len(ids) /\ \A i \in 1 .. Len(ids) : s[i] = words[i + 1]
    BY <1>1, <1>3, SubSeqProperties
  <2> HIDE DEF s
  <2>2. s = ids
    BY <1>4, <2>1, SeqEqual
  <2> QED
    BY <1>4, <2>2 DEF s
<1>6. Tail(words) = ids
  <2> DEFINE s == Tail(words)
  <2>1. s \in Seq(Int) /\ Len(s) = Len(ids) /\ \A i \in 1 .. Len(ids) : s[i] = words[i + 1]
    BY <1>1, <1>3
  <2> HIDE DEF s
  <2>2. s = ids
    BY <1>4, <2>1, SeqEqual
  <2> QED
    BY <2>2 DEF s
<1>7. words # Absent
  BY <1>3, AbsentAssumption
<1> QED
  BY <1>3, <1>5, <1>6, <1>7 DEF words, EncodeIds, DecodeIds

\* What is read of an entry: the ids of its value, then those of its operands.
LEMMA ReadAre ==
  ASSUME NEW entry \in EntriesOfLists
  PROVE  /\ BaseOf(entry) \in Seq(Int) /\ FlattenSeq(entry.operands) \in Seq(Int)
         /\ ReadIds(entry) = BaseOf(entry) \o FlattenSeq(entry.operands)
         /\ FullMerge(entry.value, entry.operands) = EncodeIds(ReadIds(entry))
         /\ ReadIds(entry) \in Seq(Int)
<1> DEFINE own == BaseOf(entry)
           flat == FlattenSeq(entry.operands)
<1>1. entry.operands \in Seq(Seq(Int)) /\ (entry.value = Absent \/ \E ids \in Seq(Int) : entry.value = EncodeIds(ids))
  BY DEF EntriesOfLists
<1>2. own \in Seq(Int)
      /\ own = IF entry.value = Absent THEN <<>> ELSE DecodeIds(entry.value)
  <2>1. CASE entry.value = Absent
    BY <2>1 DEF BaseOf
  <2>2. CASE entry.value # Absent
    <3>1. PICK ids \in Seq(Int) : entry.value = EncodeIds(ids)
      BY <1>1, <2>2
    <3> QED
      BY <2>2, <3>1, IdsComeBack DEF BaseOf
  <2> QED
    BY <2>1, <2>2
<1>3. flat \in Seq(Int)
  BY <1>1, FlattenAppend
<1>4. own \o flat \in Seq(Int)
  BY <1>2, <1>3, ConcatProperties
<1>5. FullMerge(entry.value, entry.operands) = EncodeIds(own \o flat)
  BY DEF FullMerge, BaseOf
<1>6. ReadIds(entry) = own \o flat
  <2>1. CASE entry.operands = <<>>
    <3>1. flat = <<>>
      BY <2>1, FlattenEmpty
    <3>2. own \o <<>> = own
      BY <1>2, ConcatEmptySeq
    <3> QED
      BY <1>2, <2>1, <3>1, <3>2 DEF ReadIds
  <2>2. CASE entry.operands # <<>>
    <3> HIDE DEF own, flat
    <3> QED
      BY <1>4, <1>5, <2>2, IdsComeBack DEF ReadIds
  <2> QED
    BY <2>1, <2>2
<1> QED
  BY <1>2, <1>3, <1>4, <1>5, <1>6

\* Operands m to n as one: the list they flatten to is the same.
LEMMA FoldFlattens ==
  ASSUME NEW P \in Seq(Seq(Int)), NEW m \in 1 .. Len(P), NEW n \in m .. Len(P)
  PROVE  LET Q == SubSeq(P, 1, m - 1) \o <<FlattenSeq(SubSeq(P, m, n))>> \o SubSeq(P, n + 1, Len(P))
         IN Q \in Seq(Seq(Int)) /\ FlattenSeq(Q) = FlattenSeq(P)
<1> DEFINE A == SubSeq(P, 1, m - 1)
           B == SubSeq(P, m, n)
           C == SubSeq(P, n + 1, Len(P))
           b == FlattenSeq(B)
<1>1. /\ Len(P) \in Nat /\ m \in 1 .. Len(P) + 1 /\ m - 1 \in 0 .. Len(P) /\ n \in 0 .. Len(P)
      /\ n \in m - 1 .. Len(P)
  BY LenProperties
<1>2. A \in Seq(Seq(Int)) /\ B \in Seq(Seq(Int)) /\ C \in Seq(Seq(Int))
  <2>1. \A i, j \in Int : (1 <= i /\ j <= Len(P)) => SubSeq(P, i, j) \in Seq(Seq(Int))
    <3> SUFFICES ASSUME NEW i \in Int, NEW j \in Int, 1 <= i, j <= Len(P)
                 PROVE  SubSeq(P, i, j) \in Seq(Seq(Int))
      OBVIOUS
    <3>1. \A k \in i .. j : k \in 1 .. Len(P)
      BY <1>1
    <3>2. \A k \in i .. j : P[k] \in Seq(Int)
      BY <3>1, ElementOfSeq
    <3> QED
      BY <3>2, SubSeqProperties
  <2>2. 1 \in Int /\ m \in Int /\ n \in Int /\ n + 1 \in Int /\ m - 1 \in Int /\ Len(P) \in Int
        /\ 1 <= m /\ 1 <= n + 1 /\ m - 1 <= Len(P) /\ n <= Len(P)
    BY <1>1
  <2> QED
    BY <2>1, <2>2
<1>3. P = (A \o B) \o C
  <2>1. A \o B = SubSeq(P, 1, n)
    <3>1. 1 \in 1 .. Len(P) + 1 /\ m - 1 \in 1 - 1 .. Len(P) /\ (m - 1) + 1 = m
      BY <1>1
    <3>2. n \in (m - 1) .. Len(P)
      BY <1>1
    <3>3. SubSeq(P, 1, m - 1) \o SubSeq(P, (m - 1) + 1, n) = SubSeq(P, 1, n)
      BY <3>1, <3>2, ConcatAdjacentSubSeq
    <3> QED
      BY <3>1, <3>3
  <2>2. SubSeq(P, 1, n) \o C = SubSeq(P, 1, Len(P))
    <3>1. 1 \in 1 .. Len(P) + 1 /\ n \in 1 - 1 .. Len(P) /\ Len(P) \in n .. Len(P)
      BY <1>1
    <3> QED
      BY <3>1, ConcatAdjacentSubSeq
  <2>3. SubSeq(P, 1, Len(P)) = P
    BY <1>1
  <2> QED
    BY <2>1, <2>2, <2>3
<1> HIDE DEF A, B, C, b
<1>4. b \in Seq(Int) /\ <<b>> \in Seq(Seq(Int)) /\ FlattenSeq(<<b>>) = b
  <2>1. b \in Seq(Int)
    BY <1>2, FlattenAppend DEF b
  <2>2. <<>> \in Seq(Seq(Int)) /\ Append(<<>>, b) = <<b>> /\ <<>> \o b = b
    BY <2>1, ConcatEmptySeq
  <2>3. FlattenSeq(Append(<<>>, b)) = <<>> \o b
    BY <2>1, <2>2, FlattenAppend, FlattenEmpty
  <2> QED
    BY <2>1, <2>2, <2>3
<1>5. A \o <<b>> \in Seq(Seq(Int)) /\ A \o B \in Seq(Seq(Int))
  BY <1>2, <1>4, ConcatProperties
<1>6. FlattenSeq(A \o <<b>>) = FlattenSeq(A) \o b
  BY <1>2, <1>4, FlattenConcat
<1>7. FlattenSeq(A \o B) = FlattenSeq(A) \o b
  BY <1>2, FlattenConcat DEF b
<1>8. FlattenSeq((A \o <<b>>) \o C) = FlattenSeq(A \o <<b>>) \o FlattenSeq(C)
  BY <1>2, <1>5, FlattenConcat
<1>9. FlattenSeq((A \o B) \o C) = FlattenSeq(A \o B) \o FlattenSeq(C)
  BY <1>2, <1>5, FlattenConcat
<1>10. (A \o <<b>>) \o C \in Seq(Seq(Int))
  BY <1>2, <1>5, ConcatProperties
<1> QED
  BY <1>3, <1>6, <1>7, <1>8, <1>9, <1>10 DEF A, B, C, b

\* For any ids: a merge appends to what is read of an entry, and neither a fold
\* of any of its operands nor a compaction changes what is read; so after any of
\* them in any order, a reader sees the ids in the order of the merges.
THEOREM MergesInOrder ==
  ASSUME NEW entry \in EntriesOfLists
  PROVE  /\ ReadIds(entry) \in Seq(Int)
         /\ \A id \in Int : /\ MergeId(entry, id) \in EntriesOfLists
                            /\ ReadIds(MergeId(entry, id)) = Append(ReadIds(entry), id)
         /\ \A m \in DOMAIN entry.operands : \A n \in m .. Len(entry.operands) :
              /\ Folded(entry, m, n) \in EntriesOfLists
              /\ ReadIds(Folded(entry, m, n)) = ReadIds(entry)
         /\ Compacted(entry) \in EntriesOfLists /\ ReadIds(Compacted(entry)) = ReadIds(entry)
<1> DEFINE P == entry.operands
           own == BaseOf(entry)
<1>1. /\ entry = [value |-> entry.value, operands |-> P] /\ P \in Seq(Seq(Int))
      /\ entry.value \in {Absent} \cup {EncodeIds(ids) : ids \in Seq(Int)}
  BY DEF EntriesOfLists
<1>2. own \in Seq(Int) /\ FlattenSeq(P) \in Seq(Int) /\ ReadIds(entry) = own \o FlattenSeq(P)
      /\ ReadIds(entry) \in Seq(Int) /\ FullMerge(entry.value, P) = EncodeIds(ReadIds(entry))
  BY ReadAre
\* An entry with other operands.
<1>3. ASSUME NEW Q \in Seq(Seq(Int)), NEW e, e = [entry EXCEPT !.operands = Q]
      PROVE  e \in EntriesOfLists /\ ReadIds(e) = own \o FlattenSeq(Q)
  <2>1. e = [value |-> entry.value, operands |-> Q]
    BY <1>1, <1>3
  <2>2. e \in EntriesOfLists
    BY <1>1, <2>1 DEF EntriesOfLists
  <2>3. BaseOf(e) = own /\ e.operands = Q
    BY <2>1 DEF BaseOf
  <2> QED
    BY <2>2, <2>3, ReadAre
<1>4. ASSUME NEW id \in Int
      PROVE  /\ MergeId(entry, id) \in EntriesOfLists
             /\ ReadIds(MergeId(entry, id)) = Append(ReadIds(entry), id)
  <2> DEFINE Q == Append(P, <<id>>)
             f == FlattenSeq(P)
  <2>1. <<id>> \in Seq(Int) /\ Q \in Seq(Seq(Int)) /\ FlattenSeq(Q) = f \o <<id>>
    <3>1. <<id>> \in Seq(Int)
      OBVIOUS
    <3>2. Append(P, <<id>>) \in Seq(Seq(Int))
      BY <1>1, <3>1, AppendProperties
    <3> QED
      BY <1>1, <3>1, <3>2, FlattenAppend
  <2>2. MergeId(entry, id) = [entry EXCEPT !.operands = Q]
    BY DEF MergeId
  <2>3. MergeId(entry, id) \in EntriesOfLists /\ ReadIds(MergeId(entry, id)) = own \o FlattenSeq(Q)
    <3> HIDE DEF Q, own
    <3> QED
      BY <1>3, <2>1, <2>2
  <2> HIDE DEF own, f, Q
  <2>4. f \in Seq(Int)
    BY <1>2 DEF f
  <2>6. own \o (f \o <<id>>) = (own \o f) \o <<id>>
    BY <1>2, <2>1, <2>4, ConcatsAssociate
  <2>7. (own \o f) \o <<id>> = Append(own \o f, id)
    <3>1. own \o f \in Seq(Int)
      BY <1>2 DEF f
    <3> QED
      BY <3>1, AppendIsConcat
  <2>8. ReadIds(entry) = own \o f
    BY <1>2 DEF f
  <2> QED
    BY <2>1, <2>3, <2>6, <2>7, <2>8
<1>5. ASSUME NEW m \in DOMAIN P, NEW n \in m .. Len(P)
      PROVE  /\ Folded(entry, m, n) \in EntriesOfLists
             /\ ReadIds(Folded(entry, m, n)) = ReadIds(entry)
  <2> DEFINE Q == SubSeq(P, 1, m - 1) \o <<FlattenSeq(SubSeq(P, m, n))>> \o SubSeq(P, n + 1, Len(P))
  <2>1. m \in 1 .. Len(P)
    BY <1>1
  <2>2. Q \in Seq(Seq(Int)) /\ FlattenSeq(Q) = FlattenSeq(P)
    BY <1>1, <2>1, FoldFlattens
  <2>3. Folded(entry, m, n) = [entry EXCEPT !.operands = Q]
    BY DEF Folded, PartialMerge
  <2> HIDE DEF Q, own
  <2>4. /\ Folded(entry, m, n) \in EntriesOfLists
        /\ ReadIds(Folded(entry, m, n)) = own \o FlattenSeq(Q)
    BY <1>3, <2>2, <2>3
  <2> QED
    BY <1>2, <2>2, <2>4
<1>6. Compacted(entry) \in EntriesOfLists /\ ReadIds(Compacted(entry)) = ReadIds(entry)
  <2>1. CASE P = <<>>
    BY <2>1 DEF Compacted
  <2>2. CASE P # <<>>
    <3> DEFINE e == [value |-> EncodeIds(ReadIds(entry)), operands |-> <<>>]
    <3>1. Compacted(entry) = e
      BY <1>2, <2>2 DEF Compacted
    <3>2. e \in EntriesOfLists
      <4>1. EncodeIds(ReadIds(entry)) \in {EncodeIds(ids) : ids \in Seq(Int)}
        BY <1>2
      <4>2. <<>> \in Seq(Seq(Int))
        OBVIOUS
      <4> QED
        BY <4>1, <4>2 DEF EntriesOfLists
    <3>3. ReadIds(e) = ReadIds(entry)
      BY <1>2, IdsComeBack DEF ReadIds
    <3> QED
      BY <3>1, <3>2, <3>3
  <2> QED
    BY <2>1, <2>2
<1> QED
  BY <1>2, <1>4, <1>5, <1>6

\* For any formats: a clear that is cut short leaves nothing that another format
\* would be read as.
THEOREM NoFormatMisread ==
  ASSUME NEW Formats, Absent \notin Formats
  PROVE  NoOtherFormat(Formats)
<1> SUFFICES ASSUME NEW old \in Formats, NEW new \in Formats, NEW steps \in 0 .. Len(ALL_CFS) + 1
             PROVE  LET opened == OpenedBy(ClearedUpTo([f \in Range(ALL_CFS) |-> old], steps, old), new)
                    IN opened = Absent \/ \A f \in OsmFamilies : opened[f] \in {Absent, new}
  BY DEF NoOtherFormat
<1> DEFINE store == [f \in Range(ALL_CFS) |-> old]
           cleared == ClearedUpTo(store, steps, old)
           opened == OpenedBy(cleared, new)
<1>1. /\ ALL_CFS = <<"nodes", "ways", "relations", "node_to_ways", "way_to_relations", "meta", "tiles">>
      /\ Len(ALL_CFS) = 7 /\ steps \in 0 .. 8
  BY DEF ALL_CFS
<1>2. Range(ALL_CFS) = {"nodes", "ways", "relations", "node_to_ways", "way_to_relations", "meta", "tiles"}
  BY <1>1 DEF Range
<1>3. /\ OsmFamilies = {"nodes", "ways", "relations", "node_to_ways", "way_to_relations"}
      /\ \A f \in OsmFamilies : \E i \in 1 .. 5 : ALL_CFS[i] = f
  BY <1>1, <1>2 DEF OsmFamilies
<1>4. /\ DOMAIN cleared = Range(ALL_CFS)
      /\ \A f \in Range(ALL_CFS) :
           cleared[f] = CASE f = "meta" /\ steps > Len(ALL_CFS) -> old
                          [] \E i \in DOMAIN ALL_CFS : ALL_CFS[i] = f /\ i <= steps -> Absent
                          [] OTHER -> old
  BY DEF ClearedUpTo
<1>5. cleared["meta"] \in {Absent, old} /\ \A f \in OsmFamilies : cleared[f] \in {Absent, old}
  BY <1>2, <1>3, <1>4
<1>6. cleared["meta"] = Absent => \A f \in OsmFamilies : cleared[f] = Absent
  <2> SUFFICES ASSUME cleared["meta"] = Absent, NEW f \in OsmFamilies
               PROVE  cleared[f] = Absent
    OBVIOUS
  <2>1. \E i \in DOMAIN ALL_CFS : ALL_CFS[i] = "meta" /\ i <= steps
    BY <1>2, <1>4
  <2>2. steps >= 6
    BY <1>1, <2>1
  <2>3. PICK i \in 1 .. 5 : ALL_CFS[i] = f
    BY <1>3
  <2>4. i \in DOMAIN ALL_CFS /\ i <= steps
    BY <1>1, <2>2
  <2> QED
    BY <1>2, <1>3, <1>4, <2>3, <2>4
<1> HIDE DEF cleared, store
<1>7. CASE cleared["meta"] = Absent
  <2>1. opened = [cleared EXCEPT !["meta"] = new]
    BY <1>7 DEF OpenedBy
  <2>2. \A f \in OsmFamilies : f # "meta" /\ f \in Range(ALL_CFS)
    BY <1>2, <1>3
  <2>3. \A f \in OsmFamilies : opened[f] = cleared[f]
    BY <1>4, <2>1, <2>2
  <2> QED
    BY <1>6, <1>7, <2>3 DEF cleared, store
<1>8. CASE cleared["meta"] # Absent
  <2>1. cleared["meta"] = old
    BY <1>5, <1>8
  <2>2. CASE old = new
    <3>1. opened = cleared
      BY <1>8, <2>1, <2>2 DEF OpenedBy
    <3> QED
      BY <1>5, <2>2, <3>1 DEF cleared, store
  <2>3. CASE old # new
    <3>1. opened = Absent
      BY <1>8, <2>1, <2>3 DEF OpenedBy
    <3> QED
      BY <3>1 DEF cleared, store
  <2> QED
    BY <2>2, <2>3
<1> QED
  BY <1>7, <1>8

-------------------------------------------------------------------------------
(* The rows of an object, made both ways (OsmObjects)                        *)

\* Under one lifecycle rule the import and the update want the same of any tags.
LEMMA SameWants ==
  ASSUME OneLifecycleRule, NEW tags \in SUBSET TagKeys
  PROVE  ImportTags(tags) = ChangeTags(tags)
BY DEF OneLifecycleRule, ImportTags, ChangeTags

\* A line that is there has a coordinate for each ref.
LEMMA LineParts ==
  ASSUME NEW refs \in Seq(Vertices), LineOf(refs) # None
  PROVE  /\ Len(refs) >= 2 /\ Len(LineOf(refs)) = Len(refs)
         /\ LineOf(refs)[1] = CoordOf[refs[1]]
         /\ LineOf(refs)[Len(refs)] = CoordOf[refs[Len(refs)]]
<1> DEFINE line == [i \in DOMAIN refs |-> CoordOf[refs[i]]]
<1>1. Len(refs) \in Nat /\ DOMAIN refs = 1 .. Len(refs)
  BY LenProperties
<1>2. LineOf(refs) = line /\ ~(Len(refs) < 2)
  BY DEF LineOf
<1>3. line = [i \in 1 .. Len(refs) |-> CoordOf[refs[i]]] /\ Len(line) = Len(refs)
  BY <1>1
<1> HIDE DEF line
<1>4. 1 \in 1 .. Len(refs) /\ Len(refs) \in 1 .. Len(refs)
  BY <1>1, <1>2
<1> QED
  BY <1>1, <1>2, <1>3, <1>4

\* A way of which a node is missing has no line.
LEMMA NoLine ==
  ASSUME NEW refs, Unresolved(refs)
  PROVE  LineOf(refs) = None
BY DEF Unresolved, LineOf

\* For any nodes, any refs and any tags: a way has the same rows whichever path
\* made them, if both read the lifecycle keys alike, and unless its first and
\* last refs are two nodes at one place.
THEOREM WaysMadeAlike ==
  ASSUME OneLifecycleRule, NEW Refs \in SUBSET Seq(Vertices)
  PROVE  WaysAgree(Refs)
<1> SUFFICES ASSUME NEW refs \in Refs, NEW tags \in SUBSET TagKeys,
                    ~(refs # <<>> /\ refs[1] # refs[Len(refs)] /\ CoordOf[refs[1]] = CoordOf[refs[Len(refs)]])
             PROVE  ImportedWay(tags, refs) = RebuiltWay(ChangeTags(tags), refs)
  BY DEF WaysAgree
<1> DEFINE line == LineOf(refs)
           want == ChangeTags(tags)
           ring == Len(refs) >= 4 /\ refs[1] = refs[Len(refs)] /\ line # None
           made(area) == InTables(want, area, IF line = None THEN None ELSE AddressRow(want.address, line))
<1>0. refs \in Seq(Vertices) /\ Len(refs) \in Nat
  BY LenProperties
<1>1. ImportedWay(tags, refs) = made(IF ring THEN Enclosed(line) ELSE {})
  BY SameWants DEF ImportedWay
<1>2. ring <=> ClosedRing(line)
  <2>1. CASE line = None
    BY <2>1 DEF ClosedRing
  <2>2. CASE line # None
    <3>1. /\ Len(refs) >= 2 /\ Len(line) = Len(refs)
          /\ line[1] = CoordOf[refs[1]] /\ line[Len(refs)] = CoordOf[refs[Len(refs)]]
      BY <1>0, <2>2, LineParts
    <3>2. refs # <<>>
      BY <1>0, <3>1, EmptySeq
    <3>3. line[1] = line[Len(line)] <=> refs[1] = refs[Len(refs)]
      BY <3>1, <3>2
    <3> HIDE DEF line
    <3> QED
      BY <2>2, <3>1, <3>3 DEF ClosedRing
  <2> QED
    BY <2>1, <2>2
<1>3. RebuiltWay(want, refs) = IF WantsAny(want) /\ Unresolved(refs) THEN NoRows
                               ELSE made(IF ClosedRing(line) THEN Enclosed(line) ELSE {})
  BY DEF RebuiltWay
<1>4. CASE WantsAny(want) /\ Unresolved(refs)
  <2>1. line = None
    BY <1>4, NoLine
  <2>2. made({}) = NoRows
    BY <2>1 DEF InTables, PolygonRow, NoRows
  <2> QED
    BY <1>1, <1>3, <1>4, <2>1, <2>2
<1>5. CASE ~(WantsAny(want) /\ Unresolved(refs))
  BY <1>1, <1>2, <1>3, <1>5
<1> QED
  BY <1>4, <1>5

\* The rows of a way, table by table.
LEMMA RebuiltRows ==
  ASSUME NEW want, NEW refs
  PROVE  LET area == IF ClosedRing(LineOf(refs)) THEN Enclosed(LineOf(refs)) ELSE {}
             row == IF LineOf(refs) = None THEN None ELSE AddressRow(want.address, LineOf(refs))
             none == WantsAny(want) /\ Unresolved(refs)
             made == RebuiltWay(want, refs)
         IN /\ DOMAIN made = {"building", "former", "address"}
            /\ made.building = IF none THEN None ELSE PolygonRow(want.building, area)
            /\ made.former = IF none THEN None ELSE PolygonRow(want.former, area)
            /\ made.address = IF none THEN None ELSE row
<1>1. CASE WantsAny(want) /\ Unresolved(refs)
  BY <1>1 DEF RebuiltWay, NoRows
<1>2. CASE ~(WantsAny(want) /\ Unresolved(refs))
  BY <1>2 DEF RebuiltWay, InTables
<1> QED
  BY <1>1, <1>2

\* For any refs and tags: a way rebuilt from the tags of its rows has in each
\* table the row its full tags give it, or had none there to take them from.
THEOREM RowsKeepTags ==
  ASSUME NEW Refs, \A k, g : [key |-> k, geom |-> g] # None, \A a, g : [address |-> a, geom |-> g] # None
  PROVE  RebuildKeepsTags(Refs)
<1> SUFFICES ASSUME NEW old \in Refs, NEW new \in Refs, NEW tags \in SUBSET TagKeys
             PROVE  LET before == RebuiltWay(ChangeTags(tags), old)
                        full == RebuiltWay(ChangeTags(tags), new)
                        after == RebuiltWay(StoredTagsOf(before), new)
                    IN \A table \in DOMAIN before :
                         after[table] = IF before[table] = None THEN None ELSE full[table]
  BY DEF RebuildKeepsTags
<1> DEFINE want == ChangeTags(tags)
           before == RebuiltWay(want, old)
           full == RebuiltWay(want, new)
           stored == StoredTagsOf(before)
           after == RebuiltWay(stored, new)
           area == IF ClosedRing(LineOf(new)) THEN Enclosed(LineOf(new)) ELSE {}
           row(w) == IF LineOf(new) = None THEN None ELSE AddressRow(w.address, LineOf(new))
           none(w) == WantsAny(w) /\ Unresolved(new)
<1>1. /\ DOMAIN before = {"building", "former", "address"}
      /\ before.building # None =>
           want.building # None /\ before.building.key = want.building
      /\ before.former # None => want.former # None /\ before.former.key = want.former
      /\ before.address # None => want.address # None /\ before.address.address = want.address
  <2> DEFINE a == IF ClosedRing(LineOf(old)) THEN Enclosed(LineOf(old)) ELSE {}
             n == WantsAny(want) /\ Unresolved(old)
  <2>1. /\ DOMAIN before = {"building", "former", "address"}
        /\ before.building = IF n THEN None ELSE PolygonRow(want.building, a)
        /\ before.former = IF n THEN None ELSE PolygonRow(want.former, a)
        /\ before.address = IF n THEN None
                             ELSE IF LineOf(old) = None THEN None ELSE AddressRow(want.address, LineOf(old))
    BY RebuiltRows
  <2> HIDE DEF before, want, a, n
  <2>2. \A k : PolygonRow(k, a) # None => k # None /\ PolygonRow(k, a).key = k
    BY DEF PolygonRow
  <2>3. \A d, g : AddressRow(d, g) # None => d # None /\ AddressRow(d, g).address = d
    BY DEF AddressRow
  <2> QED
    BY <2>1, <2>2, <2>3
<1>2. /\ full.building = IF none(want) THEN None ELSE PolygonRow(want.building, area)
      /\ full.former = IF none(want) THEN None ELSE PolygonRow(want.former, area)
      /\ full.address = IF none(want) THEN None ELSE row(want)
  BY RebuiltRows
<1>3. /\ after.building = IF none(stored) THEN None ELSE PolygonRow(stored.building, area)
      /\ after.former = IF none(stored) THEN None ELSE PolygonRow(stored.former, area)
      /\ after.address = IF none(stored) THEN None ELSE row(stored)
  BY RebuiltRows
<1> HIDE DEF want, before, full, after, area
<1>4. /\ stored.building = IF before.building = None THEN None ELSE want.building
      /\ stored.former = IF before.former = None THEN None ELSE want.former
      /\ stored.address = IF before.address = None THEN None ELSE want.address
  BY <1>1 DEF StoredTagsOf
<1> HIDE DEF stored
<1>5. /\ stored.building # None => WantsAny(stored) /\ WantsAny(want)
      /\ stored.former # None => WantsAny(stored) /\ WantsAny(want)
      /\ stored.address # None => WantsAny(stored) /\ WantsAny(want)
  BY <1>4 DEF WantsAny
<1>6. after.building = IF before.building = None THEN None ELSE full.building
  BY <1>1, <1>2, <1>3, <1>4, <1>5 DEF PolygonRow
<1>7. after.former = IF before.former = None THEN None ELSE full.former
  BY <1>1, <1>2, <1>3, <1>4, <1>5 DEF PolygonRow
<1>8. after.address = IF before.address = None THEN None ELSE full.address
  BY <1>1, <1>2, <1>3, <1>4, <1>5 DEF AddressRow
<1> QED
  BY <1>1, <1>6, <1>7, <1>8 DEF want, before, full, after, stored
===============================================================================
