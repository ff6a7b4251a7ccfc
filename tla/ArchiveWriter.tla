---------------------------- MODULE ArchiveWriter ----------------------------
(***************************************************************************)
(* ArchiveWriter of src/writer.rs: the push operations, solid and          *)
(* non-solid, their failures, and finish.                                  *)
(*                                                                         *)
(* The bytes of the n-th entry are the cells <<n, 1>>, <<n, 2>>, ...       *)
(* Packing them yields Len + content_methods cells, each naming the bytes  *)
(* it was made from: enough to tell whether a reader starts decoding at    *)
(* the right place.  output starts after the 32 bytes that ArchiveWriter   *)
(* ::new seeks over and that finish fills in last.                         *)
(***************************************************************************)
EXTENDS ArchiveHeader

CONSTANTS
  MaxEntries,    \* bound on the entries of an archive
  MaxFailures,   \* bound on the pushes that fail
  Kinds,         \* kinds of the entries a caller pushes one by one
  Sizes,         \* sizes of the data a caller pushes
  SolidLists,    \* the lists of entries pushed as one solid block
  FailingLists,  \* the lists of entries whose push fails, one entry or several
  Overheads,     \* what a codec adds to the data: 0 for COPY, 1 for LZMA2, ...
  TinyLimit      \* FileSizeThresholds::tiny_max

ASSUME WriterAssumption ==
  /\ MaxEntries \in Nat /\ MaxFailures \in Nat /\ TinyLimit \in Nat
  /\ Sizes \subseteq Nat
  /\ Kinds \subseteq [is_directory : BOOLEAN, is_anti_item : BOOLEAN, has_reader : BOOLEAN]
  /\ Overheads \subseteq Nat /\ Overheads # {}
  /\ SolidLists \cup FailingLists \subseteq Seq([size : Nat, is_directory : BOOLEAN])

VARIABLES
  content_methods,  \* the overhead of the codec in force
  output,           \* packed cells in the order they reached the file
  files,            \* entries pushed so far
  pack_info,        \* sizes and checksums of the packed streams
  blocks,           \* unpack_info.blocks
  header,           \* what finish wrote: <<>> or <<header>>
  start,            \* how far the start header got: "reserved", "complete", or, when
                    \* finish did not return, "signature", "torn"; "cut" when the
                    \* archive was copied to its output and the end is missing
  contents,         \* history: the bytes the caller pushed for each entry
  starts,           \* history: where in output each packed stream starts
  orphans,          \* history: cells left behind by pushes that failed
  clean,            \* history: entries pushed before any orphan cell
  failures          \* number of pushes that failed, bounded by MaxFailures

streams == <<pack_info, blocks, starts>>
history == <<contents, orphans, clean, failures>>
vars == <<content_methods, output, files, pack_info, blocks, header, start,
          contents, starts, orphans, clean, failures>>

Content(n, size) == [i \in 1..size |-> <<n, i>>]

\* compressing: every packed cell carries what it was packed from, and the last
\* one is the end mark; COPY has none
Pack(bytes, overhead) ==
  [i \in 1..(Len(bytes) + overhead) |->
     <<bytes, IF i = Len(bytes) + overhead /\ overhead > 0 THEN EndMark ELSE i>>]

NewEntry(n, dir, anti) ==
  [name |-> n, has_stream |-> ~dir, is_directory |-> dir, is_anti_item |-> anti,
   size |-> 0, has_crc |-> FALSE, crc |-> NoCrc]

WithStream(entry, bytes) ==
  [entry EXCEPT !.has_stream = TRUE, !.size = Len(bytes),
                !.crc = Crc(bytes), !.has_crc = TRUE]

WithoutStream(entry) ==
  [entry EXCEPT !.has_stream = FALSE, !.size = 0, !.has_crc = FALSE]

Init ==
  /\ content_methods \in Overheads
  /\ output = <<>>
  /\ files = <<>>
  /\ pack_info = [pos |-> 0, sizes |-> <<>>, crcs |-> <<>>]
  /\ blocks = <<>>
  /\ header = <<>>
  /\ start = "reserved"
  /\ contents = <<>>
  /\ starts = <<>>
  /\ orphans = 0
  /\ clean = 0
  /\ failures = 0

-----------------------------------------------------------------------------

set_content_methods(overhead) ==
  /\ header = <<>>
  /\ content_methods' = overhead
  /\ UNCHANGED <<output, files, header, start, streams, history>>

\* entries join files; their contents and whether they precede every orphan
\* are kept as history
AddFiles(entries, bytes) ==
  /\ files' = files \o entries
  /\ contents' = contents \o bytes
  /\ clean' = IF orphans = 0 THEN Len(files') ELSE clean
  /\ UNCHANGED <<orphans, failures>>

\* compress bytes into output, then pack_info.add_stream
AddPackedStream(bytes) ==
  LET packed == Pack(bytes, content_methods)
  IN  /\ output' = output \o packed
      /\ starts' = Append(starts, Len(output))
      /\ pack_info' = [pack_info EXCEPT !.sizes = Append(@, Len(packed)),
                                        !.crcs = Append(@, Crc(packed))]

\* unpack_info.add
AddBlock(bytes) ==
  blocks' = Append(blocks,
    [unpack_size |-> Len(bytes), crc |-> Crc(bytes), num_sub_unpack_streams |-> 1,
     sub_stream_sizes |-> <<>>, sub_stream_crcs |-> <<>>])

\* unpack_info.add_multiple
AddSolidBlock(bytes) ==
  blocks' = Append(blocks,
    [unpack_size |-> Len(FlattenSeq(bytes)), crc |-> Crc(FlattenSeq(bytes)),
     num_sub_unpack_streams |-> Len(bytes),
     sub_stream_sizes |-> [i \in DOMAIN bytes |-> Len(bytes[i])],
     sub_stream_crcs |-> [i \in DOMAIN bytes |-> Crc(bytes[i])]])

MayPush(n) ==
  /\ header = <<>>
  /\ Len(files) + n <= MaxEntries
  /\ Len(blocks) < MaxEntries    \* a solid block may have no entries

-----------------------------------------------------------------------------
(* The push operations that succeed. *)

\* Data for an entry that is not a directory.
CompressEntry(entry, bytes) ==
  /\ AddPackedStream(bytes)
  /\ AddBlock(bytes)
  /\ AddFiles(<<WithStream(entry, bytes)>>, <<bytes>>)

\* A directory, or no reader.
PushEmptyEntry(entry) ==
  /\ AddFiles(<<WithoutStream(entry)>>, <<<<>>>>)
  /\ UNCHANGED <<output, streams>>

push_archive_entry(kind, size) ==
  LET n     == Len(files) + 1
      entry == NewEntry(n, kind.is_directory, kind.is_anti_item)
  IN  /\ MayPush(1)
      /\ IF ~kind.is_directory /\ kind.has_reader
         THEN CompressEntry(entry, Content(n, size))
         ELSE PushEmptyEntry(entry)
      /\ UNCHANGED <<content_methods, header, start>>

\* The variants differ in the buffer the data passes through.
push_archive_entry_small(kind, size) == push_archive_entry(kind, size)
push_archive_entry_fast(kind, size) == push_archive_entry(kind, size)
push_archive_entry_with_progress(kind, size) == push_archive_entry(kind, size)
push_archive_entry_batched(kind, size) == push_archive_entry(kind, size)

\* A file pushed with no data keeps has_stream, but no stream is added for it.
PushBytesEntry(entry, bytes) ==
  IF entry.is_directory \/ bytes = <<>>
  THEN /\ AddFiles(<<[WithoutStream(entry) EXCEPT !.has_stream = ~entry.is_directory]>>,
                   <<<<>>>>)
       /\ UNCHANGED <<output, streams>>
  ELSE CompressEntry(entry, bytes)

push_archive_entry_bytes(kind, size) ==
  LET n == Len(files) + 1
  IN  /\ MayPush(1)
      /\ PushBytesEntry(NewEntry(n, kind.is_directory, kind.is_anti_item), Content(n, size))
      /\ UNCHANGED <<content_methods, header, start>>

push_archive_entry_adaptive(kind, size) ==
  IF size < TinyLimit
  THEN push_archive_entry_small([kind EXCEPT !.has_reader = TRUE], size)
  ELSE push_archive_entry_bytes(kind, size)

\* The entries of a solid block, as their caller made them, and their bytes.
SolidEntries(list) ==
  [i \in DOMAIN list |-> NewEntry(Len(files) + i, list[i].is_directory, FALSE)]
SolidBytes(list) ==
  [i \in DOMAIN list |-> Content(Len(files) + i, list[i].size)]

\* push_archive_entries leaves has_stream as the caller set it
push_archive_entries(list) ==
  LET entries == SolidEntries(list)
      bytes   == SolidBytes(list)
  IN  /\ MayPush(Len(list))
      /\ AddPackedStream(FlattenSeq(bytes))
      /\ AddSolidBlock(bytes)
      /\ AddFiles([i \in DOMAIN list |->
                     [WithStream(entries[i], bytes[i]) EXCEPT !.has_stream = entries[i].has_stream]],
                  bytes)
      /\ UNCHANGED <<content_methods, header, start>>

\* push_solid_entries_parallel does nothing for no entries, and sets has_stream
push_solid_entries_parallel(list) ==
  LET bytes == SolidBytes(list)
  IN  /\ MayPush(Len(list))
      /\ list # <<>>
      /\ AddPackedStream(FlattenSeq(bytes))
      /\ AddSolidBlock(bytes)
      /\ AddFiles([i \in DOMAIN list |-> WithStream(SolidEntries(list)[i], bytes[i])], bytes)
      /\ UNCHANGED <<content_methods, header, start>>

\* StreamingArchiveWriter passes pushes on to an ArchiveWriter in memory.
streaming_push_archive_entry(kind, size) ==
  push_archive_entry(kind, size) \/ push_archive_entry_with_progress(kind, size)

streaming_push_archive_entries(list) ==
  push_archive_entries(list) \/ push_solid_entries_parallel(list)

-----------------------------------------------------------------------------
(* A push that fails: the reader or the encoder returns an error, a stream
   is missing, or the progress callback cancels.  What the encoder has
   already passed on stays in output; nothing else changes.  The end mark is
   the last thing an encoder writes: a push whose end mark reached the output
   cannot fail any more. *)

Unfinished(packed, emitted) ==
  emitted < Len(packed) \/ (emitted = Len(packed) /\ content_methods = 0)

\* mutant of push_fails: the stream is added to pack_info before it is complete
push_fails_after_add_stream(list, emitted) ==
  LET packed == Pack(FlattenSeq(SolidBytes(list)), content_methods)
  IN  /\ MayPush(Len(list))
      /\ failures < MaxFailures
      /\ Unfinished(packed, emitted)
      /\ output' = output \o SubSeq(packed, 1, emitted)
      /\ pack_info' = [pack_info EXCEPT !.sizes = Append(@, emitted),
                                        !.crcs = Append(@, Crc(SubSeq(packed, 1, emitted)))]
      /\ failures' = failures + 1
      /\ UNCHANGED <<content_methods, files, header, start, blocks, starts, contents, orphans, clean>>

push_fails(list, emitted) ==
  LET packed == Pack(FlattenSeq(SolidBytes(list)), content_methods)
  IN  /\ MayPush(Len(list))
      /\ failures < MaxFailures
      /\ Unfinished(packed, emitted)
      /\ output' = output \o SubSeq(packed, 1, emitted)
      /\ orphans' = orphans + emitted
      /\ failures' = failures + 1
      /\ UNCHANGED <<content_methods, files, header, start, streams, contents, clean>>

\* finish writes the next header at stream_position, raw, or a small header that
\* locates the header packed there (write_encoded_header: whichever is shorter),
\* and then the start header that points to it.
HeaderCell == <<<<>>, -1>>

\* mutant of WriteNextHeader: the position is taken after the header was written
WriteNextHeaderFirst(encoded) ==
  /\ header = <<>>
  /\ header' = <<[encoded |-> encoded, pos |-> Len(output) + 1,
                  main |-> write_header(files, pack_info, blocks)]>>
  /\ output' = IF encoded THEN Append(output, HeaderCell) ELSE output
  /\ UNCHANGED <<content_methods, files, streams, history>>

WriteNextHeader(encoded) ==
  /\ header = <<>>
  /\ header' = <<[encoded |-> encoded, pos |-> Len(output),
                  main |-> write_header(files, pack_info, blocks)]>>
  /\ output' = IF encoded THEN Append(output, HeaderCell) ELSE output
  /\ UNCHANGED <<content_methods, files, streams, history>>

finish(encoded) == WriteNextHeader(encoded) /\ start' = "complete"

\* The write of the start header fails or the program ends in it: of the 32 bytes
\* none arrived, no more than the signature and the version, or more.
finish_interrupted(encoded) ==
  WriteNextHeader(encoded) /\ start' \in {"reserved", "signature", "torn"}

\* StreamingArchiveWriter finishes an archive in memory and copies it from front
\* to back: an interrupted copy has a start header, but lacks the next header.
streaming_finish(encoded) ==
  WriteNextHeader(encoded) /\ start' \in {"complete", "cut"}

Next ==
  \/ \E overhead \in Overheads : set_content_methods(overhead)
  \/ \E kind \in Kinds, size \in Sizes :
       \/ push_archive_entry(kind, size)
       \/ push_archive_entry_fast(kind, size)
       \/ push_archive_entry_with_progress(kind, size)
       \/ push_archive_entry_batched(kind, size)
       \/ streaming_push_archive_entry(kind, size)
  \/ \E kind \in Kinds, size \in Sizes : push_archive_entry_bytes(kind, size)
  \/ \E kind \in Kinds, size \in Sizes : push_archive_entry_adaptive(kind, size)
  \/ \E list \in SolidLists : push_archive_entries(list)
  \/ \E list \in SolidLists : push_solid_entries_parallel(list)
  \/ \E list \in SolidLists : streaming_push_archive_entries(list)
  \/ \E list \in FailingLists :
       \E emitted \in 0..Len(Pack(FlattenSeq(SolidBytes(list)), content_methods)) :
         push_fails(list, emitted)
  \/ \E encoded \in BOOLEAN :
       finish(encoded) \/ finish_interrupted(encoded) \/ streaming_finish(encoded)

Spec == Init /\ [][Next]_vars

-----------------------------------------------------------------------------

Entries ==
  [name : Nat, has_stream : BOOLEAN, is_directory : BOOLEAN, is_anti_item : BOOLEAN,
   size : Nat, has_crc : BOOLEAN, crc : Seq(Nat \X Nat)]

\* Types of the writer's state (ArchiveWriter, PackInfo and UnpackInfo).
TypeOK ==
  /\ content_methods \in Overheads
  /\ files \in Seq(Entries)
  /\ pack_info.pos = 0 /\ pack_info.sizes \in Seq(Nat)
  /\ Len(header) <= 1
  /\ header # <<>> => header[1].pos \in 0..Len(output)
  /\ start \in {"reserved", "signature", "torn", "complete", "cut"}
  /\ starts \in Seq(Nat)
  /\ orphans \in Nat /\ clean \in 0..Len(files) /\ failures \in 0..MaxFailures

\* Every push adds as many packed streams as blocks, and none of them for an
\* entry without a stream: each stream's cells lie in output one after the
\* other, separated by nothing but what failed pushes left behind; and while
\* nothing was orphaned, the offset the reader will compute for a packed stream is
\* where the writer put it.
StreamsTileOutput ==
  /\ Len(pack_info.sizes) = Len(blocks)
  /\ Len(pack_info.crcs) = Len(blocks)
  /\ Len(starts) = Len(blocks)
  /\ Len(contents) = Len(files)
  /\ header = <<>> => orphans + SumFunction(pack_info.sizes) = Len(output)
  /\ \A b \in DOMAIN starts : starts[b] + pack_info.sizes[b] <= Len(output)
  /\ \A b \in 1..(Len(starts) - 1) : starts[b] + pack_info.sizes[b] <= starts[b + 1]
  /\ orphans = 0 =>
       \A b \in DOMAIN starts : starts[b] = PackOffset([pack_info |-> pack_info], b)
=============================================================================
