---------------------------- MODULE ArchiveHeader ----------------------------
(***************************************************************************)
(* The 7z header as ArchiveWriter serialises it (src/writer.rs,            *)
(* src/writer/pack_info.rs, src/writer/unpack_info.rs) and as              *)
(* Archive::read parses it back (src/reader.rs).  Pure operators.          *)
(*                                                                         *)
(* A header is a record with one field per section.  A bit vector on the   *)
(* wire is the set of its one bits and the number of bytes it takes: the   *)
(* reader consumes as many bytes as it expects, so it stays in step with   *)
(* the writer only when the two byte counts agree.  What it makes of bytes *)
(* out of step depends on the characters of the names: the model admits a  *)
(* set of outcomes (HeadersRead).                                          *)
(*                                                                         *)
(* A checksum is the checksummed content itself, so it has no collisions,  *)
(* and the checksum of no bytes is NoCrc, the value 0 of CRC-32.           *)
(* Positions in files and blocks count from 1.                             *)
(***************************************************************************)
EXTENDS Integers, Sequences, SequencesExt, FiniteSets, FiniteSetsExt

CONSTANT BitsPerByte    \* bits of a header byte: 8; a smaller value puts a
                        \* byte boundary inside a small archive

ASSUME BitsPerByteAssumption == BitsPerByte \in Nat \ {0}

Crc(bytes) == bytes
NoCrc == Crc(<<>>)

\* what the last cell of a packed stream carries instead of its position: the
\* stream ends there, as it does at the end mark of LZMA2
EndMark == 0

-----------------------------------------------------------------------------
(* Bit vectors: BitSet, write_bit_set and read_bits. *)

BytesFor(bit_count) == (bit_count + BitsPerByte - 1) \div BitsPerByte

write_bit_set(S, bit_count) == [bits |-> S, bytes |-> BytesFor(bit_count)]

\* bit_count of a BitSet::new() after the members of S were inserted
GrownTo(S) == IF S = {} THEN 0 ELSE Max(S)

\* a vector that was written ends where read_bits(header, n) ends
InStep(v, n) == v.bits = {} \/ v.bytes = BytesFor(n)

\* the sets that read_bits(header, n) may return for a vector that was written: the
\* bits that it is short of are those of whatever follows it
read_bits(v, n) == {S \in SUBSET (1..n) : S \cap (1..(v.bytes * BitsPerByte)) = v.bits}

-----------------------------------------------------------------------------
(* Writing: write_header and the sections below it. *)

EmptyStreams(files) == {i \in DOMAIN files : ~files[i].has_stream}

\* empty_stream_counter when the loop reaches file i, counted from 1
EmptyCounter(files, i) == Cardinality({j \in EmptyStreams(files) : j <= i})

EmptyStreamsWhere(files, P(_)) ==
  {EmptyCounter(files, i) : i \in {j \in EmptyStreams(files) : P(files[j])}}

write_file_empty_streams(files) == write_bit_set(EmptyStreams(files), Len(files))

write_file_empty_files(files) ==
  LET S == EmptyStreamsWhere(files, LAMBDA f : ~f.is_directory)
  IN  write_bit_set(S, GrownTo(S))

\* the code marks the entries that are not anti items
write_file_anti_items(files) ==
  LET S == EmptyStreamsWhere(files, LAMBDA f : ~f.is_anti_item)
  IN  write_bit_set(S, GrownTo(S))

\* Checksum values follow the vector of defined ones only when all are defined.
write_pack_info(pack_info) ==
  LET defined == {i \in DOMAIN pack_info.crcs : pack_info.crcs[i] # NoCrc}
      all     == defined = DOMAIN pack_info.crcs
  IN  [pos     |-> pack_info.pos,
       sizes   |-> pack_info.sizes,
       defined |-> defined,
       crcs    |-> IF all THEN pack_info.crcs ELSE <<>>]

\* mutant of SizesButLast: the size the reader computes is written as well
AllSizes(block) == block.sub_stream_sizes

\* all sizes of a block but the last, which the reader computes
SizesButLast(block) ==
  IF Len(block.sub_stream_sizes) > 1 THEN Front(block.sub_stream_sizes) ELSE <<>>

BlockCrcs(block) ==
  IF block.num_sub_unpack_streams = 1 /\ block.sub_stream_crcs = <<>>
  THEN <<block.crc>>
  ELSE block.sub_stream_crcs

write_substreams(blocks) ==
  [nums      |-> IF \E b \in DOMAIN blocks : blocks[b].num_sub_unpack_streams # 1
                 THEN [b \in DOMAIN blocks |-> blocks[b].num_sub_unpack_streams]
                 ELSE <<>>,
   has_sizes |-> \E b \in DOMAIN blocks : Len(blocks[b].sub_stream_sizes) > 1,
   sizes     |-> FlattenSeq([b \in DOMAIN blocks |-> SizesButLast(blocks[b])]),
   crcs      |-> FlattenSeq([b \in DOMAIN blocks |-> BlockCrcs(blocks[b])])]

write_header(files, pack_info, blocks) ==
  [has_pack_info |-> Len(pack_info.sizes) > 0,
   pack_info     |-> write_pack_info(pack_info),
   unpack_sizes  |-> [b \in DOMAIN blocks |-> blocks[b].unpack_size],
   substreams    |-> write_substreams(blocks),
   names         |-> [i \in DOMAIN files |-> files[i].name],
   empty_streams |-> write_file_empty_streams(files),
   empty_files   |-> write_file_empty_files(files),
   anti_items    |-> write_file_anti_items(files)]

-----------------------------------------------------------------------------
(* Parsing: read_pack_info, read_sub_streams_info, read_files_info and
   calculate_stream_map.  *_ok is the absence of an error on the way. *)

\* A defined checksum is read from the bytes that follow the vector.
read_pack_info_ok(p) ==
  \/ p.defined = {}
  \/ Len(p.crcs) = Len(p.sizes)

\* Without K_NUM_UNPACK_STREAM every block has one sub stream.
NumSubStreams(h) ==
  IF h.substreams.nums = <<>>
  THEN [b \in DOMAIN h.unpack_sizes |-> 1]
  ELSE h.substreams.nums

\* One block's sub stream sizes: N - 1 of them read, the last one the rest.
TakeBlockSizes(h, acc, b) ==
  LET n    == NumSubStreams(h)[b]
      k    == IF h.substreams.has_sizes /\ n > 0 THEN n - 1 ELSE 0
      read == SubSeq(acc.unread, 1, k)
      rest == h.unpack_sizes[b] - SumFunction(read)
  IN  IF n = 0
      THEN acc
      ELSE [sizes  |-> acc.sizes \o Append(read, rest),
            unread |-> SubSeq(acc.unread, k + 1, Len(acc.unread)),
            ok     |-> acc.ok /\ rest >= 0]

read_sub_streams_info(h) ==
  LET upto[b \in 0..Len(h.unpack_sizes)] ==
        IF b = 0 THEN [sizes |-> <<>>, unread |-> h.substreams.sizes, ok |-> TRUE]
        ELSE TakeBlockSizes(h, upto[b - 1], b)
  IN  upto[Len(h.unpack_sizes)]

NumStreamFiles(h) == Len(h.names) - Cardinality(h.empty_streams.bits)

\* The names of entries whose K_NAME was not met.
NoName == 0
NoNames(h) == [i \in DOMAIN h.names |-> NoName]

\* The vectors of plain files and of anti items follow one another, then the names.
PlainFilesInStep(h) == InStep(h.empty_files, Cardinality(h.empty_streams.bits))
AntiItemsInStep(h) == InStep(h.anti_items, Cardinality(h.empty_streams.bits))
FilesInStep(h) == PlainFilesInStep(h) /\ AntiItemsInStep(h)

\* the header h with other marks and names
ReadAs(h, plain, anti, names) ==
  [h EXCEPT !.empty_files.bits = plain, !.anti_items.bits = anti, !.names = names]

\* K_ANTI is the short vector: the id of the names is taken for its bits.
NamesLost(h) ==
  {ReadAs(h, h.empty_files.bits, anti, NoNames(h)) :
     anti \in read_bits(h.anti_items, Cardinality(h.empty_streams.bits))}

\* K_EMPTY_FILE is the short vector: what follows it is lost, the anti items or, when
\* there are none, the names; behind lost anti items the names may be found.
MarksLost(h) ==
  {ReadAs(h, plain, {}, names) :
     plain \in read_bits(h.empty_files, Cardinality(h.empty_streams.bits)),
     names \in {NoNames(h)} \cup {m \in {h.names} : h.anti_items.bits # {}}}

\* What the loop of read_files_info takes h for, unless it fails.  read_bits does not
\* look at the size of the property: it takes the id of the property behind a short
\* vector for bits, and the loop goes on with what follows, skips what is no
\* property it knows, and ends at the first zero it takes for K_END.
\* The streams come before.  (No byte out of step is the id of a property here.)
HeadersRead(h) ==
  IF FilesInStep(h) THEN {h}
  ELSE IF PlainFilesInStep(h) THEN NamesLost(h) ELSE MarksLost(h)

\* The sub stream tables are long enough for the files that have a stream: indexing
\* past their end is a panic.
read_files_info_ok(h) == NumStreamFiles(h) <= Len(read_sub_streams_info(h).sizes)

\* One entry, from the bit vectors and the sub stream tables.
read_file_entry(h, i) ==
  LET empties == h.empty_streams.bits
      before  == Cardinality({j \in empties : j <= i})
      sub     == read_sub_streams_info(h)
  IN  IF i \in empties
      THEN [name |-> h.names[i], has_stream |-> FALSE,
            is_directory |-> h.empty_files.bits = {} \/ before \notin h.empty_files.bits,
            is_anti_item |-> before \in h.anti_items.bits,
            size |-> 0, has_crc |-> FALSE, crc |-> NoCrc]
      ELSE [name |-> h.names[i], has_stream |-> TRUE,
            is_directory |-> FALSE, is_anti_item |-> FALSE,
            size |-> sub.sizes[i - before],
            has_crc |-> i - before \in DOMAIN h.substreams.crcs,
            crc |-> IF i - before \in DOMAIN h.substreams.crcs
                    THEN h.substreams.crcs[i - before] ELSE NoCrc]

read_files_info(h) == [i \in DOMAIN h.names |-> read_file_entry(h, i)]

\* mutant of MapFile: a block is entered at the file after its first one
MapFileLate(h, files, acc, i) ==
  [acc EXCEPT !.first = [b \in DOMAIN @ |-> i + 1], !.of_file = Append(@, acc.block)]

\* One file of calculate_stream_map.  block and unpacked are
\* next_block_index and next_block_unpack_stream_index.
MapFile(h, files, acc, i) ==
  LET nums   == NumSubStreams(h)
      enter  == acc.unpacked = 0
      usable == {b \in acc.block .. Len(nums) : nums[b] > 0}
      b      == IF ~enter THEN acc.block
                ELSE IF usable = {} THEN Len(nums) + 1 ELSE Min(usable)
      full   == acc.unpacked + 1 >= nums[b]
  IN  IF ~acc.ok THEN acc
      ELSE IF ~files[i].has_stream /\ enter
      THEN [acc EXCEPT !.of_file = Append(@, 0)]
      ELSE IF b > Len(nums)
      THEN [acc EXCEPT !.ok = FALSE]          \* "Too few blocks in archive"
      ELSE [acc EXCEPT
             !.first = [c \in DOMAIN @ |-> IF enter /\ c \in acc.block .. b THEN i ELSE @[c]],
             !.of_file = Append(@, b),
             !.block = IF files[i].has_stream /\ full THEN b + 1 ELSE b,
             !.unpacked = IF ~files[i].has_stream THEN @
                          ELSE IF full THEN 0 ELSE @ + 1]

\* A block that no file reaches keeps the index of the first file.
calculate_stream_map(h, files) ==
  LET upto[i \in 0..Len(files)] ==
        IF i = 0 THEN [block |-> 1, unpacked |-> 0, of_file |-> <<>>, ok |-> TRUE,
                       first |-> [b \in DOMAIN h.unpack_sizes |-> 1]]
        ELSE MapFile(h, files, upto[i - 1], i)
  IN  upto[Len(files)]

\* mutants of PackOffset: the stream's own size is added before its offset is
\* taken; the size of the stream before it is not added yet
PackOffsetAfter(h, b) == h.pack_info.pos + SumFunction(SubSeq(h.pack_info.sizes, 1, b))
PackOffsetBefore(h, b) == h.pack_info.pos + SumFunction(SubSeq(h.pack_info.sizes, 1, b - 2))

\* pack_stream_offsets: where the packed stream of block b starts
PackOffset(h, b) == h.pack_info.pos + SumFunction(SubSeq(h.pack_info.sizes, 1, b - 1))

read_header_ok(h) ==
  /\ h.has_pack_info => read_pack_info_ok(h.pack_info)
  /\ read_sub_streams_info(h).ok
  /\ read_sub_streams_info(h).unread = <<>>   \* else taken for what follows them
  /\ read_files_info_ok(h)
  /\ calculate_stream_map(h, read_files_info(h)).ok

\* The parsed Archive of a header that parses.
read_header(h) ==
  LET files == read_files_info(h)
      map   == calculate_stream_map(h, files)
  IN  [files   |-> files,
       nums    |-> NumSubStreams(h),
       sizes   |-> h.unpack_sizes,
       offsets |-> [b \in DOMAIN h.unpack_sizes |-> PackOffset(h, b)],
       packed  |-> h.pack_info.sizes,
       first   |-> map.first,
       of_file |-> map.of_file,
       is_solid |-> \E b \in DOMAIN h.unpack_sizes : NumSubStreams(h)[b] > 1]
=============================================================================
