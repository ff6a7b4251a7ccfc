---------------------------- MODULE ArchiveReader ----------------------------
(***************************************************************************)
(* ArchiveReader and BlockDecoder of src/reader.rs: opening an archive and *)
(* handing its entries to the caller's closure (for_each_entries), one     *)
(* block after the other and the entries without a block at the end.       *)
(*                                                                         *)
(* The closure may read an entry to its end or only a part of it, go on or *)
(* stop, and pass an error on or swallow it.                               *)
(***************************************************************************)
EXTENDS ArchiveHeader

CONSTANTS
  Tails,      \* what else looks like a header, in it or behind it, the last first
  Closures    \* what the closure may do with an entry: read up to limit
              \* bytes of it, go_on or stop, pass_error on or swallow it

VARIABLES
  phase,    \* "closed", "failed", "open", "blocks", "empties", "done", "error", "panic"
  archive,  \* <<>> or <<the parsed Archive>>
  block,    \* block_index of for_each_entries
  next,     \* entries of the block already handed out
  cursor,   \* bytes of the block already decoded
  visits,   \* history: what the closure saw, in order
  stopped   \* history: the closure returned false at some point

rvars == <<phase, archive, block, next, cursor, visits, stopped>>

ReaderInit ==
  /\ phase = "closed"
  /\ archive = <<>>
  /\ block = 0 /\ next = 0 /\ cursor = 0
  /\ visits = <<>>
  /\ stopped = FALSE

-----------------------------------------------------------------------------
(* Decoding (build_decode_stack).  A decoder that starts at the first cell of a
   packed stream yields what the stream was packed from, and ends at its end
   mark whatever follows; cells read from anywhere else decode to junk of the
   announced length. *)

Junk(n) == [i \in 1..n |-> <<0, 0>>]

\* the first n cells are those of the stream that begins there
InOneStream(cells, n) == \A i \in 1..n : cells[i] = <<cells[1][1], i>>

IsPackedStream(cells) ==
  \/ InOneStream(cells, Len(cells)) /\ Len(cells[1][1]) <= Len(cells)
  \/ \E k \in DOMAIN cells :
       /\ InOneStream(cells, k - 1)
       /\ cells[k] = <<cells[1][1], EndMark>> /\ Len(cells[1][1]) <= k

Decode(cells, unpack_size) ==
  IF cells = <<>> THEN <<>>
  ELSE IF IsPackedStream(cells) THEN cells[1][1]
  ELSE Junk(unpack_size)

\* the bytes of block b: seek to SIGNATURE_HEADER_SIZE + pack_pos + offset and
\* decode as many cells as the packed stream has
BlockBytes(a, cells, b) ==
  Decode(SubSeq(cells, a.offsets[b] + 1, a.offsets[b] + a.packed[b]), a.sizes[b])

-----------------------------------------------------------------------------

\* the parsed Archive, or nothing when there is an error on the way
Parsed(h) == IF read_header_ok(h) THEN <<read_header(h)>> ELSE <<>>

\* init_archive at the next header: what it may return.  A packed header is decoded
\* first, and the archive of the small header dropped before the main header is
\* parsed.  Out of step with the writer it may fail at any byte.
init_archive(header, cells, header_cell) ==
  IF header.encoded => SubSeq(cells, header.pos + 1, header.pos + 1) = <<header_cell>>
  THEN {Parsed(h) : h \in HeadersRead(header.main)}
         \cup (IF FilesInStep(header.main) THEN {} ELSE {<<>>})
  ELSE {<<>>}

\* what init_archive makes of bytes in or behind the next header that look like
\* the beginning of one: K_HEADER before K_END is an archive without files, ...
Candidate(looks) ==
  IF looks = "empty"
  THEN <<read_header(write_header(<<>>, [pos |-> 0, sizes |-> <<>>, crcs |-> <<>>], <<>>))>>
  ELSE <<>>

\* mutant of try_to_locale_end_header: whatever parses is the archive
first_that_parses(archives) == archives[1]

\* The candidates from the last one on: the first with files or with an error
\* decides.
try_to_locale_end_header(archives) ==
  LET decisive == {k \in DOMAIN archives : archives[k] = <<>> \/ archives[k][1].files # <<>>}
  IN  IF decisive = {} THEN <<>> ELSE archives[Min(decisive)]

\* Archive::read: without a signature, with a start header that does not match its
\* checksum, and when the file ends before the next header does, it fails.  With
\* zeros behind the signature it searches for the next header from the end of the
\* file, behind the candidates in tail.
read(header, cells, header_cell, start, tail) ==
  LET opened == init_archive(header, cells, header_cell)
      looks  == [k \in DOMAIN tail |-> Candidate(tail[k])]
  IN  IF start = "complete" THEN opened
      ELSE IF start = "signature"
      THEN {try_to_locale_end_header(Append(looks, a)) : a \in opened}
      ELSE {<<>>}

open(header, cells, header_cell, start, tail) ==
  /\ phase = "closed"
  /\ archive' \in read(header, cells, header_cell, start, tail)
  /\ phase' = IF archive' = <<>> THEN "failed" ELSE "open"
  /\ UNCHANGED <<block, next, cursor, visits, stopped>>

NextBlock ==
  /\ block' = block + 1
  /\ next' = 0
  /\ cursor' = 0

\* ArchiveReader::for_each_entries starts at the first block
for_each_entries ==
  /\ phase = "open"
  /\ phase' = "blocks"
  /\ NextBlock
  /\ UNCHANGED <<archive, visits, stopped>>

\* BlockDecoder::for_each_entries returns Ok(true)
BlockEnds ==
  /\ phase = "blocks"
  /\ block <= Len(archive[1].nums)
  /\ next = archive[1].nums[block]
  /\ NextBlock
  /\ UNCHANGED <<phase, archive, visits, stopped>>

\* the index of the entry BlockDecoder hands out next
NextFile == archive[1].first[block] + next

\* n cells from a position on, as many as there are
Upto(bytes, at, n) == SubSeq(bytes, at + 1, IF at + n < Len(bytes) THEN at + n ELSE Len(bytes))

\* Crc32VerifyingReader compares when the last byte of the entry was read: data
\* that ends before is handed out as if it were complete
Verified(entry, data) ==
  entry.has_crc /\ entry.size > 0 /\ Len(data) = entry.size => Crc(data) = entry.crc

\* mutant of ReadEntry: nothing is verified at the end of an entry
ReadUnverified(file, cells, limit) ==
  LET entry == archive[1].files[file]
      n     == IF limit < entry.size THEN limit ELSE entry.size
  IN  [file |-> file, data |-> Upto(BlockBytes(archive[1], cells, block), cursor, n),
       to_end |-> n = entry.size, ok |-> TRUE]

\* what the closure gets when it reads up to limit bytes of the next entry: the
\* entry's reader is bounded by its size
ReadEntry(file, cells, limit) ==
  LET entry == archive[1].files[file]
      n     == IF limit < entry.size THEN limit ELSE entry.size
      data  == Upto(BlockBytes(archive[1], cells, block), cursor, n)
  IN  [file |-> file, data |-> data, to_end |-> n = entry.size, ok |-> Verified(entry, data)]

\* One entry of the block.  go_on is what the closure returns; whether it
\* returns the checksum error it got is its own choice.
Visit(cells, limit, go_on, pass_error) ==
  /\ phase = "blocks"
  /\ block <= Len(archive[1].nums)
  /\ next < archive[1].nums[block]
  /\ IF NextFile > Len(archive[1].files)
     THEN /\ phase' = "panic"
          /\ UNCHANGED <<archive, block, next, cursor, visits, stopped>>
     ELSE LET seen == ReadEntry(NextFile, cells, limit)
          IN  /\ visits' = Append(visits, seen)
              /\ stopped' = (stopped \/ ~go_on)
              /\ IF ~seen.ok /\ pass_error
                 THEN phase' = "error" /\ UNCHANGED <<block, next, cursor>>
                 ELSE /\ UNCHANGED phase
                      /\ IF go_on
                         THEN next' = next + 1 /\ cursor' = cursor + Len(seen.data)
                                               /\ UNCHANGED block
                         ELSE NextBlock
              /\ UNCHANGED archive

\* after the last block come the entries that belong to no block
BlocksEnd ==
  /\ phase = "blocks"
  /\ block > Len(archive[1].nums)
  /\ phase' = "empties"
  /\ next' = 1
  /\ UNCHANGED <<archive, block, cursor, visits, stopped>>

\* mutant of VisitEmpty: only directories are taken for entries without a block
VisitDirectory(go_on) ==
  /\ phase = "empties"
  /\ next <= Len(archive[1].files)
  /\ IF archive[1].files[next].is_directory
     THEN /\ visits' = Append(visits, [file |-> next, data |-> <<>>, to_end |-> TRUE, ok |-> TRUE])
          /\ phase' = IF go_on THEN "empties" ELSE "done"
          /\ stopped' = (stopped \/ ~go_on)
     ELSE UNCHANGED <<visits, phase, stopped>>
  /\ next' = next + 1
  /\ UNCHANGED <<archive, block, cursor>>

VisitEmpty(go_on) ==
  /\ phase = "empties"
  /\ next <= Len(archive[1].files)
  /\ IF archive[1].of_file[next] = 0
     THEN /\ visits' = Append(visits, [file |-> next, data |-> <<>>, to_end |-> TRUE, ok |-> TRUE])
          /\ phase' = IF go_on THEN "empties" ELSE "done"
          /\ stopped' = (stopped \/ ~go_on)
     ELSE UNCHANGED <<visits, phase, stopped>>
  /\ next' = next + 1
  /\ UNCHANGED <<archive, block, cursor>>

EmptiesEnd ==
  /\ phase = "empties"
  /\ next > Len(archive[1].files)
  /\ phase' = "done"
  /\ UNCHANGED <<archive, block, next, cursor, visits, stopped>>

ReaderNext(header, cells, header_cell, start) ==
  \/ \E tail \in Tails : open(header, cells, header_cell, start, tail)
  \/ for_each_entries
  \/ \E c \in Closures : Visit(cells, c.limit, c.go_on, c.pass_error)
  \/ BlockEnds
  \/ BlocksEnd
  \/ \E c \in Closures : VisitEmpty(c.go_on)
  \/ EmptiesEnd

-----------------------------------------------------------------------------
(* read_file: the data of one entry, or nothing when a checksum fails on the
   way to it.  In a solid archive the whole block is decoded up to the entry;
   otherwise the entry is the block's only one. *)

\* in place of data: a cell that neither an entry nor junk has
Unreadable == <<<<0, 1>>>>

\* the bytes of the entries before file in its block
BytesBefore(a, file) ==
  SumFunction([k \in 1..(file - a.first[a.of_file[file]]) |->
         a.files[a.first[a.of_file[file]] + k - 1].size])

\* the data of entry, found at position at of the block, or the checksum error
ReadAt(a, cells, file, at) ==
  LET data == Upto(BlockBytes(a, cells, a.of_file[file]), at, a.files[file].size)
  IN  IF Verified(a.files[file], data) THEN data ELSE Unreadable

\* mutant of read_entry: the entries before it in the block are not skipped
read_entry_unskipped(a, cells, file) == ReadAt(a, cells, file, 0)

read_entry(a, cells, file) == ReadAt(a, cells, file, BytesBefore(a, file))

read_file(a, cells, file) ==
  LET b       == a.of_file[file]
      earlier == a.first[b] .. file
  IN  IF ~a.files[file].has_stream
      THEN <<>>
      ELSE IF ~a.is_solid
      THEN ReadAt(a, cells, file, 0)
      ELSE IF file >= a.first[b] + a.nums[b] \/ a.first[b] + a.nums[b] - 1 > Len(a.files)
      THEN Unreadable
      ELSE IF \E f \in earlier : read_entry(a, cells, f) = Unreadable
      THEN Unreadable
      ELSE read_entry(a, cells, file)
=============================================================================
