------------------------------ MODULE BlockCoders ------------------------------
(***************************************************************************)
(* The coders of a block in the header: BlockInfo::write_to of             *)
(* src/writer/unpack_info.rs, read_block of src/reader.rs, and what        *)
(* src/block.rs makes of their bind pairs.                                 *)
(*                                                                         *)
(* Every method has one stream in and one out, so coder i has the streams  *)
(* of number i, counted from 1.  0 stands for None.                        *)
(***************************************************************************)
EXTENDS Naturals, Sequences

CoderNumbers(block) == DOMAIN block.coders

\* mutant of write_block: the coders are bound the other way around
write_block_reversed(methods, sizes) ==
  [coders |-> methods, unpack_sizes |-> sizes,
   bind_pairs |-> [i \in 1..(Len(methods) - 1) |-> [in_index |-> i, out_index |-> i + 1]]]

\* the methods next to the output first, each bound to the one above it
write_block(methods, sizes) ==
  [coders |-> methods, unpack_sizes |-> sizes,
   bind_pairs |-> [i \in 1..(Len(methods) - 1) |-> [in_index |-> i + 1, out_index |-> i]]]

find_bind_pair_for_in_stream(block, i) ==
  {k \in DOMAIN block.bind_pairs : block.bind_pairs[k].in_index = i}

find_bind_pair_for_out_stream(block, i) ==
  {k \in DOMAIN block.bind_pairs : block.bind_pairs[k].out_index = i}

\* read_block: the packed stream is not written, it is the first stream in that
\* no pair binds; without one the block is refused
packed_stream(block) ==
  LET free == {i \in CoderNumbers(block) : find_bind_pair_for_in_stream(block, i) = {}}
  IN  IF free = {} THEN 0 ELSE CHOOSE i \in free : \A j \in free : i <= j

\* OrderedCoderIter: the coder that reads from coder i
CoderAfter(block, i) ==
  LET found == find_bind_pair_for_out_stream(block, i)
  IN  IF found = {} THEN 0
      ELSE block.bind_pairs[CHOOSE k \in found : \A l \in found : k <= l].in_index

\* the k-th coder from the packed stream on, 0 when there is none
ordered_coder_iter(block) ==
  LET at[k \in CoderNumbers(block)] ==
        IF k = 1 THEN packed_stream(block)
        ELSE IF at[k - 1] = 0 THEN 0 ELSE CoderAfter(block, at[k - 1])
  IN  at

\* the size of the stream that comes out of the block
get_unpack_size(block) ==
  LET free == {i \in CoderNumbers(block) : find_bind_pair_for_out_stream(block, i) = {}}
  IN  IF free = {} THEN 0
      ELSE block.unpack_sizes[CHOOSE i \in free : \A j \in free : j <= i]
=============================================================================
