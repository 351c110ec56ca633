------------------------------- MODULE OsmStore -------------------------------
(***************************************************************************)
(* What the RocksDB store does with a value between the moment it is       *)
(* written and the moment it is read (osm::kvstore, osm::encoding): way    *)
(* refs as zigzagged differences in variable-length integers; reverse      *)
(* indexes as lists that grow by merge operands, which RocksDB may fold in *)
(* any grouping, or at a compaction; and the format stamp, without which a *)
(* store of another layout reads as plausible nonsense.                    *)
(*                                                                         *)
(* An id has IdBits bits and a byte of a variable-length integer carries   *)
(* GroupBits of them (64 and 7 in the code); in a fixed-width list the     *)
(* count and every id are one word.                                        *)
(***************************************************************************)
EXTENDS Integers, Sequences, FiniteSets, Functions, SequencesExt

CONSTANTS IdBits, GroupBits, Absent

ASSUME BitsAssumption == IdBits \in Nat \ {0} /\ GroupBits \in Nat \ {0}
ASSUME AbsentAssumption == Absent \notin Seq(Int)

-------------------------------------------------------------------------------
(* Way refs                                                                *)

Values == 2 ^ IdBits
StoredIds == -(Values \div 2) .. (Values \div 2) - 1
Unsigned == 0 .. Values - 1

\* wrapping_add and wrapping_sub.
Wrapped(v) == ((v + Values \div 2) % Values) - Values \div 2

\* zigzag_encode: (v << 1) ^ (v >> 63); the sign in the lowest bit.
ZigZag(v) == LET doubled == (2 * v) % Values IN IF v < 0 THEN Values - 1 - doubled ELSE doubled
\* zigzag_decode: (v >> 1) ^ -(v & 1).
UnZigZag(u) == IF u % 2 = 1 THEN -(u \div 2) - 1 ELSE u \div 2

\* put_uvarint: the lowest group first, every byte but the last marked.
More == 2 ^ GroupBits
Uvarint[u \in Unsigned] ==
  IF u >= More THEN <<(u % More) + More>> \o Uvarint[u \div More] ELSE <<u>>

\* get_uvarint at pos: the integer, and where the next one starts.
ReadUvarint(bytes, pos) ==
  LET last == CHOOSE i \in pos .. Len(bytes) :
                bytes[i] < More /\ \A j \in pos .. i - 1 : bytes[j] >= More
      group(i) == (bytes[i] % More) * 2 ^ (GroupBits * (i - pos))
  IN [value |-> FoldLeft(LAMBDA sum, i : sum + group(i), 0, [k \in 1 .. last - pos + 1 |-> pos + k - 1]),
      next |-> last + 1]

\* encode_delta_id_list: the length, then each ref as its difference to the
\* one before it.
EncodeRefs(ids) ==
  LET before(i) == IF i = 1 THEN 0 ELSE ids[i - 1]
  IN Uvarint[Len(ids)]
       \o FlattenSeq([i \in DOMAIN ids |-> Uvarint[ZigZag(Wrapped(ids[i] - before(i)))]])

\* decode_delta_id_list.
DecodeRefs(bytes) ==
  LET count == ReadUvarint(bytes, 1)
      Next(at, i) ==
        LET read == ReadUvarint(bytes, at.pos)
            id == Wrapped(at.prev + UnZigZag(read.value))
        IN [pos |-> read.next, prev |-> id, ids |-> Append(at.ids, id)]
  IN FoldLeft(Next, [pos |-> count.next, prev |-> 0, ids |-> <<>>],
              [i \in 1 .. count.value |-> i]).ids

-------------------------------------------------------------------------------
(* Reverse indexes: a value and the operands that wait on it               *)

\* encode_fixed_id_list and decode_fixed_id_list.
EncodeIds(ids) == <<Len(ids)>> \o ids
DecodeIds(words) == SubSeq(words, 2, words[1] + 1)

\* id_list_full_merge: the words after the count, the operands as they are,
\* and the count they make.
FullMerge(value, operands) ==
  EncodeIds((IF value = Absent THEN <<>> ELSE Tail(value)) \o FlattenSeq(operands))
\* id_list_partial_merge.
PartialMerge(operands) == FlattenSeq(operands)

\* batch_merge_node_to_way, batch_merge_way_to_relation: an operand is a bare id.
MergeId(entry, id) == [entry EXCEPT !.operands = Append(@, <<id>>)]
\* get_node_to_ways, get_way_to_relations: RocksDB merges what waits.
ReadIds(entry) ==
  IF entry.operands = <<>> THEN (IF entry.value = Absent THEN <<>> ELSE DecodeIds(entry.value))
  ELSE DecodeIds(FullMerge(entry.value, entry.operands))

\* RocksDB folds operands m .. n while it flushes or compacts.
Folded(entry, m, n) ==
  [entry EXCEPT !.operands =
     SubSeq(@, 1, m - 1) \o <<PartialMerge(SubSeq(@, m, n))>> \o SubSeq(@, n + 1, Len(@))]
\* compact_osm_families: an entry of a reverse index becomes one value.
Compacted(entry) ==
  IF entry.operands = <<>> THEN entry
  ELSE [value |-> FullMerge(entry.value, entry.operands), operands |-> <<>>]

-------------------------------------------------------------------------------
(* Families and the format stamp: a store maps a family to the format its  *)
(* contents were written in, Absent when it is empty; CF_META to the stamp *)

ALL_CFS ==
  <<"nodes", "ways", "relations", "node_to_ways", "way_to_relations", "meta", "tiles">>
OsmFamilies == Range(ALL_CFS) \ {"meta", "tiles"}

\* open_with and check_or_stamp_format_version, by a program of that format.
OpenedBy(store, format) ==
  CASE store["meta"] = Absent -> [store EXCEPT !["meta"] = format]
    [] store["meta"] = format -> store
    [] OTHER -> Absent

\* clear, stopped after so many of its steps: the families in order, then
\* stamp_format_version.
ClearedUpTo(store, steps, format) ==
  [f \in DOMAIN store |->
     CASE f = "meta" /\ steps > Len(ALL_CFS) -> format
       [] \E i \in DOMAIN ALL_CFS : ALL_CFS[i] = f /\ i <= steps -> Absent
       [] OTHER -> store[f]]

-------------------------------------------------------------------------------
(* What is owed to whoever reads a value back                              *)

\* The refs of a way come back as they went in, in order (they are the
\* vertices of its ring), wherever the differences between them wrap.
RefsComeBack(Lists) == \A ids \in Lists : DecodeRefs(EncodeRefs(ids)) = ids

\* However RocksDB groups the operands of a key, and whether or not it
\* compacts in between, its readers see the ids in the order of the merges.
MergesComeBack(Ids, Operands) ==
  \A ids \in Ids, ops \in Operands :
    LET start == [value |-> IF ids = <<>> THEN Absent ELSE EncodeIds(ids), operands |-> <<>>]
        full == FoldLeft(MergeId, start, ops)
    IN /\ ReadIds(full) = ids \o ops
       /\ ReadIds(Compacted(full)) = ids \o ops
       /\ \A m \in DOMAIN ops : \A n \in m .. Len(ops) :
            LET folded == Folded(full, m, n)
            IN /\ ReadIds(folded) = ids \o ops
               /\ \A k \in DOMAIN folded.operands : \A l \in k .. Len(folded.operands) :
                    ReadIds(Compacted(Folded(folded, k, l))) = ids \o ops

\* A clear that is cut short anywhere leaves no OSM value that a later
\* program would accept under a format it was not written in.
NoOtherFormat(Formats) ==
  \A old \in Formats, new \in Formats, steps \in 0 .. Len(ALL_CFS) + 1 :
    LET opened == OpenedBy(ClearedUpTo([f \in Range(ALL_CFS) |-> old], steps, old), new)
    IN opened = Absent \/ \A f \in OsmFamilies : opened[f] \in {Absent, new}
===============================================================================
