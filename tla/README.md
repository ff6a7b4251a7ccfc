# A TLA+ model of sevenz-rust2

sevenz-rust2 reads and writes 7z archives. This directory holds TLA+ modules
translated from its source, TLC configurations that check them on small
instances, and TLAPS proofs of the results that matter most for every value of
the constants. Paths below are relative to the repository (`src/writer.rs`,
`tests/...`); `PROJECT.json` maps each definition to the lines it models.

## 1. The system

| Component | State | Operations | Interacts with |
|---|---|---|---|
| Archive writer: `ArchiveWriter`, `PackInfo`, `UnpackInfo` (`writer.rs`, `writer/pack_info.rs`, `writer/unpack_info.rs`), `StreamingArchiveWriter` (`writer/streaming.rs`) | output position, entries, packed stream sizes and checksums, blocks, codec in force | eight kinds of push, `set_content_methods`, `finish`, which may be interrupted | pulls from the caller's readers, writes to any `Write + Seek` |
| Header parser: `Archive::read` (`reader.rs`, `archive.rs`, `bitset.rs`) | the parsed `Archive` and its `StreamMap` | parse pack info, sub streams, entries; compute the stream map; search for a header whose start header is missing | consumes what `write_header` wrote |
| Archive reader: `ArchiveReader`, `BlockDecoder` (`reader.rs`) | source, archive, decoder cursor | `for_each_entries`, `read_file` | calls the caller's closure with each entry |
| Segmented writer (`writer/segmented_writer.rs`) | open volume, its length, boundaries, total | `write`, `seek`, `stream_position`, `finish` | output of a multi-volume `ArchiveWriter` |
| Background reader (`writer/parallel_reader.rs`) | thread, channel, current buffer | `read`, drop | thread and caller share an mpsc channel |
| Parallel solid push (`writer.rs`, `writer/parallel_provider.rs`) | batch, entry, statistics | `push_solid_entries_parallel` | tells a `ParallelStreamProvider` of batches, waits for its streams |
| Buffer pools (`perf.rs`) | recycled buffers, of any length | get, use, drop, `into_vec` | batched push, callers, threads |
| Prefetch queue (`perf.rs`) | items, index, lookahead | advance, extend, set lookahead, each with hints | calls back with the items to fetch |
| Statistics and configuration (`perf.rs`) | counters, settings | – | callers |
| Codecs and filters (`codec/*`, `encoder.rs`, `decoder.rs`, `block.rs`, `encryption/*`) | frame and unit buffers, coders and bind pairs | `read`, `write`, `finish` | between the writer and its output |
| Compressing paths (`util/compress.rs`), lazy, source and sequence readers (`writer/*`) | the block being gathered; current reader, counts, open file | take a path, push a block, read | below `push_archive_entries`, above the file system |
| Extracting to paths, mmap, async bridges, wasm, errors, times | – | file I/O and glue | everything above |

What is hard here:

- **Two sides that must agree.** The header leaves out what can be inferred
  (the last sub stream size, counts of one, checksums that are not defined).
  Writer and reader each infer it their own way.
- **Partial failure.** A push may fail after packed bytes left for the output;
  a volume may fail to be created after it was counted; a source may fail with
  a buffer half full.
- **Order.** Streams of a provider arrive in any order; a thread's buffers, its
  end and its error share one channel; seeks go back and forth over volumes.
- **Waiting.** The compressor waits for one stream while the provider waits
  for room; a thread must end when its reader is dropped.
- **Crash.** A writer that ends before the start header is complete leaves an
  archive that a reader may still try to recover.
- **A world that changes.** Files grow or shrink between metadata and read.
- **Any legal sequence of calls.** Closures read in part, stop, or swallow
  errors; codecs change between pushes.

`PROJECT.json` lists these as hazards, each at its line, with the properties
that watch it, or the reason none does yet.

Correctness, per component: what is pushed is what is read, whatever the mix of
operations (writer, parser, reader); a failure spoils nothing pushed before it
and never exchanges the contents of entries; volumes respect their limit and
joined are the bytes written (segmented writer); the bytes arrive in order, with
a truthful end (background reader); one block of all entries in order or nothing,
without deadlock (parallel push); every file once, in blocks within the limit, whatever
the file system answers (paths); memory bounded by the users and no entry cut short by a
buffer (pools); no item unannounced (queue).

## 2. The modules

```
ArchiveHeader ── ArchiveWriter ──┐
      └───────── ArchiveReader ──┴─ ArchiveRoundTrip ─┬─ MCArchiveRoundTrip
                                                      └─ ArchiveRoundTrip_proofs
SegmentedWriter ── SegmentedAppend ── MultiVolumeArchive ── SegmentedWriter_proofs
ByteStore  <=  SegmentedAppend
ByteStream <=  BackgroundReader ── BackgroundReader_proofs
SolidPush  <=  ParallelSolid ── ParallelSolid_proofs
EncoderChain ──┬─ DecoderStack ── CodecChain ── CodecChain_proofs ── CodecRoundTrip_proofs
BlockCoders ───┘
EncodePath ── EncodePath_proofs
BufferPool ────┬─ BatchedPush ── BatchedPush_proofs
PrefetchQueue ─┘
```

`A <= B` reads: B is shown to implement the abstract specification A.

**ArchiveHeader** is the format as pure operators: each `write_...` next to the
`read_...` that parses it. A header is a record of sections. A bit vector is the set
of its ones and its length in bytes, since the reader stays in step only if the
lengths agree. Out of step it may take the header for several others (`HeadersRead`):
`read_bits` fills the missing bits from the property that follows, and that one is
lost. What `init_archive` and `open` make of a header is therefore a set of outcomes,
of which refusal is one when a vector is short. A checksum is the content itself, so
it has no collisions.

**ArchiveWriter** has one action per push operation, one for a push that fails
after any number of packed cells (`push_fails`), `set_content_methods` and
`finish`. `start` says what became of the start header, which is written last:
`finish_interrupted` leaves none of it, the signature and the version, or more.
`StreamingArchiveWriter` is the same writer over memory, whose archive is copied from
front to back, so that an interrupted copy (`streaming_finish`) lacks the next header
instead. `output` is a sequence of packed cells, each naming the stream it was
packed from: enough to tell whether decoding starts at the right place. The
history variables `contents`, `starts`, `orphans` and `clean` remember what was
pushed, where, and what failed pushes left behind.

**ArchiveReader** opens the archive (`read`, which tries to recover one without a start
header by `try_to_locale_end_header`) and walks blocks and entries the way
`for_each_entries` does: `block` and `next` are its loop indices, `cursor` the
position in the decoded block, `visits` what the closure saw. The closure is
chosen anew at each entry from `Closures`: how much it reads, whether it goes
on, whether it passes errors on. A checksum is
compared when the last byte of an entry was read, so a partial read verifies
nothing. `read_file` is an operator.

What `Decode` makes of bytes that are not one packed stream is junk, different for
every place it starts at; it never equals pushed data.

**ArchiveRoundTrip** extends both and composes them over the same output: the reader's
steps need a header that `finish` wrote.

**SegmentedWriter** has the fields of the struct plus `disk`, the volume files,
and `current_file`, the one that is open: `switch_to_next_volume` changes the
first three fields before `File::create` may fail (`SwitchFails`). Every kind of
seek is an action. **SegmentedAppend** adds the view of a caller that only
writes; **MultiVolumeArchive** is the `ArchiveWriter` on top: leave room, write
packed data, write the next header, go back and fill in the start header.
**ByteStore** is what `Write + Seek` promises.

**BackgroundReader** interleaves the thread (read, fail, buffer full, send) with
the Read side (copy, receive, end, disconnected) and drop. A buffer is the
interval of source positions it holds. **ByteStream** is what `Read` promises.

**ParallelSolid** interleaves the compressor with the provider. The provider is
the caller's code: it is modelled by the contract in `parallel_provider.rs`, so it
fetches what it was told of in any order, holds at most `parallelism()` streams,
and may fail. **SolidPush** is what pushing a solid block promises.

**EncoderChain** is the chain that `create_writer` builds. An encoder is its held
bytes and an operator that turns one call (write, flush, the empty write that
finishes) into the calls it makes on the writer below, so a chain passes
rows of calls down.
**DecoderStack** is the stack `build_decode_stack` puts on the packed stream: a read of a
reader is an operator on the whole stack, since it may read the one below many
times and change it; loops are functions of the number of rounds, and a reader is a
function over the one below. **BlockCoders** is the way from the one to the other: the
coders, bind pairs and sizes of a block in the header, in which the packed stream is
not named but inferred. **CodecChain** is the state machine: a push in writes of any
sizes, then flush and the empty write; then the decoders are made and the
caller reads with buffers of any sizes through the `BoundedReader` of the entry.

**EncodePath** is the loop of `push_source_path`: a path is taken, its size looked up, and
the file is gathered, pushed by itself, or pushed after what was gathered. A push then
reads its files through `SeqReader`, `SourceReader` and `LazyFileReader`; `handles` are the
files open. What metadata, open and read answer is chosen anew each time.

**BufferPool** is `BufferPool` (`shared` is FALSE: its `get` is one step) and
`SyncBufferPool` (its `get` releases the lock before it allocates). A buffer is its
length, which a user may change and which it keeps in the pool. **PrefetchQueue** is the
queue with every call that sends hints. **BatchedPush** composes both with
`push_archive_entry_batched`, which takes a buffer for each item, while other users of
the pool go on.

### Abstractions

- Codecs are lossless and add a number of cells (`Overheads`), COPY none.
- `push_archive_entry_small`, `_fast`, `_with_progress` and `_batched` differ from
  `push_archive_entry` in the buffer the data passes through and in the callback,
  whose cancellation is a `push_fails`. Pool buffers have their full size there; that
  they may not is what BatchedPush is about.
- A name is a number, and 0 the empty one. Times, attributes, comments and encryption of
  the header are left out: no property reads them.
- A write to a file takes the whole buffer; short writes of the file system look
  to `write_all` like the cuts at the end of a volume, which are modelled.
- In the codec modules a frame of compressed data is its plain bytes with an end
  mark, an encrypted block names its plain text, and a header has two units.
  `LZ4` and `BROTLI` are the skippable-frame formats; their native bitstreams, BCJ
  and delta are encoders of other crates. Encryption is next to the output. The
  source returns what it is asked for while it has it, as a file does, and
  callers do not read with empty buffers.
- The search for a lost header sees the true header, and behind it candidates that only
  look like one (`Tails`): one of an empty archive, which opens, or a broken one, which
  does not.
- Where a bit vector is short, the bytes read out of step are not spelled out: the missing
  bits may be any, the property behind it is lost, names behind lost anti-items may be
  found, and the header may fail at any byte. None of these bytes is taken for the id
  of a property the reader knows, so the entries keep their streams.
- Collecting the paths below a directory is left out of EncodePath: it begins with the
  list.
- Volume sizes are positive. Arithmetic stays far from 2^64.

## 3. Runs

| Run | Question | Bounds |
|---|---|---|
| `round_trip` | Does the header parse back to what was pushed, is every entry handed out once, what survives a push that fails anywhere, read by careless closures, and is an archive without a start header recovered whole? | 3 entries of 3 kinds (files, files that are anti-items, directories), sizes 0 and 2, solid blocks of 0 to 3 files, COPY and another codec, one failure after any number of cells, three closures, up to two lookalikes, bytes of 2 bits |
| `segmented_seek` | Do the limit and the table hold under any order of writes, seeks and failures? | volumes of 2, buffers up to 3, 5 bytes, 4 switches, seeks to 0, 1 and 3 and relative ones |
| `multi_volume` | Are the volumes joined one array of bytes, and does going back for the start header leave the archive intact? | volumes of 4, start header 3, next header 6, 48 bytes in 12 volumes |
| `background_reader` | Does every interleaving deliver the stream, and end? | 8 bytes, buffers of 3, reads of up to 4, source errors |
| `parallel_solid` | Is it one ordered block or nothing, and does it end? | 5 entries of up to 2 bytes, batch 3, parallelism 2 |
| `encode_path` | Is every file pushed once, in full blocks within the limit, with the bytes that were read, one file open at a time? | 4 files, limit 4, listed sizes 0, 1, 3 and 4, up to 2 bytes read of each |
| `batched_push` | Is memory bounded, is a file cut short for want of a buffer, is every item announced? | 3 users, 1 or 2 pooled buffers, lengths 0 to 2, 3 items, lookahead 1 and 2 |
| `codecs` | Do cuts of writes and reads show, through any chain? | chains of 1 to 3 of six methods, up to 9 bytes, frames and AES blocks of 3, buffers of 1, 2, 3 and 5 |
| `next_header`, `anti_items`, `test_integrity`, `swap4` | violations, section 5 | as the runs above |

Why these are enough: the inferences of the header distinguish blocks of none,
one and several sub streams, first, middle and last positions, and empty entries
among others, all of which fit three entries. With bytes of two bits three entries
fill a vector of more than one byte, for which the code needs nine, and `round_trip` reads
what short vectors leave in every way `HeadersRead` allows. Volumes are smaller than a buffer
and than the whole, so that writes end before, at and after a boundary and span
several; `segmented_seek` is small enough to seek back over two boundaries. A
source of 8 and buffers of 3 give full buffers and a short last one; reads of 1
to 4 cut buffers and span them. Batch 3 against parallelism 2 is where a batch
has to be capped, and 5 entries give two full batches and a short one. Units of 2 and 4, frames and
blocks of 3, and 9 bytes have every remainder; the 16 bytes of a frame header are
one AES block in the code, here a header is smaller than a block. Chains of three have a
first, a middle and a last coder. Listed sizes of 0 to 4 against a limit of 4 give
files that fit, that close a block and that are pushed by themselves, in any order of four.
Three users are one that pushes and two that race for what it returns. The bounds (`MaxEntries`,
`MaxData`, `MaxChain`, `MaxFailures`, `MaxBytes`, `MaxVolumes`, `MaxSize`, `MaxRead`, `MaxItems`) are guards of the actions.
Deadlock is not checked: every one of these systems stops when its work is done.

Each property has a mutant: a plausible slip in the code (an offset taken too
late, a batch that is not capped, a cursor that is not reset), written next to the
definition it replaces, under which the property fails.

### Fairness

Three runs check liveness.

- `BackgroundReader!FairSpec`: weak fairness of the thread (a spawned thread is
  scheduled, `source.read` returns, `send` on an unbounded channel never blocks)
  and of non-empty reads (a caller that keeps reading). Dropping the reader is
  never forced. `ToldTheEnd` says that such a caller is told the end,
  `ThreadReturns` that a thread whose reader was dropped ends.
- `ParallelSolid!FairSpec`: weak fairness of the compressor (a sequential loop
  over readers that end) and of the provider as a whole: it fetches something
  when it has room, but which stream is its own choice. `Terminates` therefore
  needs the cap on the batch.
- `EncodePath!FairSpec`: weak fairness of the one thread: calls to the file system return.
  `MaxRead` bounds what is read of a file, so a file that grows as fast as it is read is
  left out. `Returns` says that the call ends.

## 4. Proofs

TLAPS checks the following for every value of the constants, from the assumptions
the modules state about them (`ReaderAssumption` of both readers, `SegmentedAssumption`,
`MultiVolumeAssumption`, `ParallelAssumption`, `BufferPoolAssumption`,
`BatchedPushAssumption`, `EncodePathAssumption`, `WriterAssumption`,
`BitsPerByteAssumption`, `EncoderAssumption`, `DecoderAssumption`, `ChainAssumption`) and from two hypotheses that are spelled out where they are used,
`FilesInBlocks` and `HeaderFits`. Together they cover every safety property of the runs
that pass.

**Folds.** The models flatten and sum with folds, which the community modules define by
CHOOSE. No induction principle can be cited for a predicate, but one over a set can
(`SetInduction`, from the well-foundedness of the naturals), and a set comprehension
stands for the predicate. What the chosen functions are comes first (`FlattenedDef`,
`SummedDef`), then what they do to a sequence one element longer, where each part of a
flattened sequence lies (`FlattenHolds`), and what the length of it is. Each proof module
that needs folds begins with the facts it uses of them, so that it can be checked alone.

**ArchiveRoundTrip_proofs.** The whole way from a push to what a caller gets back, in
invariants that rest on each other.

- `WInv`: orphan cells and the sizes in `pack_info` together are what was written
  (`StreamsTileOutput`).
- `ListInv`: the entries with data, in their order, are the data of the blocks one after
  the other (`Listed`), each block describes its data (`Describes`), and a finished
  header is `write_header` of all that.
- `OpenInv`: an archive that is open is `read_header` of one of the headers that header may
  be read as (`Opens`). Whichever it is, it has the streams of the one that was written
  (`ReadAlike`), and without a short vector it is that one. Here the parser is run
  symbolically: `read_sub_streams_info` recovers the sizes and checksums the header left
  out, by an invariant of its loop over the blocks (`AtBlock`); `read_files_info` those
  of the entries, by counting the entries without a stream; `calculate_stream_map`
  the blocks, by an invariant of its loop over the entries (`Walk`) against a
  table that says where each block's entries lie (`Table`). From it, where no vector
  is short: `RecoveredLists`. What follows holds of short vectors too: it rests on what
  is read of the streams (`OpenedStreams`), not on the names.
- `Reading`: a reader that was not stopped has visited exactly the entries before its place
  in that table. From it: `ReaderNeverPanics`, `EntriesOnce`, `ReaderNeverWrong`. The last
  needs nothing of what is decoded, only that data of an entry's length that passed
  its checksum is the entry's.
- `Clean` and `Surviving`: what was packed before the first orphan cell is where the reader
  looks for it, and a closure that reads whole entries always stands where an entry
  begins. Neither follows from the others, since a failed push shifts what comes
  after it. From them: `EarlierSurvive`, `ReadFileReturns`.

`HeaderReadsBack` needs the other direction too: which headers are refused. `HeaderParses`
goes through every check of the parser and ends at the two exceptions of
`HeaderRoundTrip`, which `Refused` carries into the state. Short vectors are outside of what
it says; `VectorsParse` shows that all others are read in step.

`FilesInBlocks` says that the lists given to solid pushes name files only, as those
of `round_trip` do. With a directory among them `push_archive_entries` counts a sub
stream that no entry claims (the hazard at `src/writer.rs:1306`), so that
the table does not hold.

To make this provable, the loops of ArchiveHeader are recursive functions instead of folds:
each loop of the parser is a function of the number of rounds.

**BackgroundReader_proofs.** `IInv` says that the unread rest of `current`, the
buffers in the channel and the thread's own buffer form one chain of intervals
from the bytes already delivered to the bytes read from the source
(`CurrentChained`, `ChannelChained`), that the end or error is the last message
(`EndIsLast`), that a thread that returned sent it (`ReturnIsTold`), and that
after it was received nothing follows (`ToldIsFinal`). `InOrder` alone is not
inductive: it says nothing of the buffers under way. From it: `TypeCorrect`,
`DeliversInOrder`, `EndIsReached`, `BrokenPipeHidesNothing`, and
`ReaderIsByteStream`, the refinement of ByteStream.

**SegmentedWriter_proofs.** Types, `VolumeLimit` and `BoundaryRecorded` are
inductive together. The step that needs an argument is seek: the volume it
chooses exists because a bounded set of boundaries at or before the position,
which holds 0, has a last one (`GreatestNat`). From it: `TypeCorrect`,
`VolumesWithinLimit`, `BoundaryAlwaysRecorded`.

For archives in volumes `MVInv` says that there is one row of bytes (the start header or the
gap left for it, the packed data, the next header, as far as they are written), that
the volumes are cuts of this row at the boundaries of the table (`Laid`), that the
writer stands at one place of it (`StandsAt`), and that `total_bytes` is what was packed
and sent. Each write is then a row that grows at its end, or is replaced at its front. From
it: `ArchiveJoined`, `MetadataRight`, `VolumesStartAtBoundaries`, `HeaderFound`, and
`WriterIsByteStore`, the refinement of ByteStore.

All of these but the first three assume `HeaderFits`: a volume is longer than the start
header, 32 bytes. The code does not ask for it, but volumes as short as that have no use. Where both
are 32, `ArchiveWriter::new` leaves the first volume empty, the next one starts with the
first write at a boundary that is 0 as well, and the start header finds its way into that one:
it replaces what was written there (TLC shows it when `HeaderSize` is set to `VolumeSize`).

**ParallelSolid_proofs.** One number carries the invariant: the count k of
streams taken. `Position(k)` gives the taken and prepared streams, the batch
around k, and for each stage what idx and the statistics are. From it:
`TypeCorrect`, `ProviderNotOverfilled` (the streams told of and not taken are the
interval from k to the end of the batch), `AskedInOrder`. For
`PushImplementsSolidPush`, `Counted` adds that the size being summed is the number of
bytes the block has of that entry; it also needs that none was written before the
entry was taken.

**EncodePath_proofs.** Three facts hold the invariant together. The files gathered and
the readers of a push come in rising order, all before the file the loop is at
(`Place`), so two readers never have the same file. The bytes written so far come
from the current reader and those before it (`FromReaders`, `Sorted`), and each count
is the number of bytes of its file (`Counted`): a read of n bytes adds n to one count and
to none of the others. And no file is open outside a push, which `OneFileOpen` needs
when the next push begins. From it: `TypeCorrect`, `OneFileOpenAlways`,
`BlocksHoldWhatWasRead`.

`BlocksWithinLimit` and `EveryFileOnce` are about which file is where, and have an invariant
of their own, `GInv`: every file the loop has left behind is in the list that is being
gathered, in the push under way or in a block (`Present`), in this order and each once
(`Paired`, `Loop`, `UnderWay`), and the file behind a block of several files would have
taken it to the limit (`Follows`). From it: `BlocksWithinLimitAlways`, `EveryFilePushedOnce`.

**BatchedPush_proofs.** `MemoryBoundedByUsers` counts: a user that takes a pooled buffer
becomes busy as the buffer leaves, and one that returns a buffer is busy no more,
so pooled buffers and busy users together never grow but by a user that was idle.
`PushesWholeFiles` needs `NoneEmptyButReturned`: a buffer of length 0 in the pool, or in the
hands of the push, was returned by somebody, since `new` clamps the size it
allocates. `HintsComeFirst` is inductive with the window of the lookahead.

**CodecChain_proofs** and **CodecRoundTrip_proofs.** Four parts, the last in a module of its own.

- Encoders. What went into encoder i of a chain is `X[i]`: its whole groups (units, frames,
  blocks), coded, are `X[i - 1]`, and what they leave is held (`Carries`). The groups of two
  pieces one after the other are those of the first, then those of what it left with the
  second (`GroupsConcat`). So every write, however cut, keeps `Carries` in every encoder of
  a chain of any length (`PushInv`), and `Carries` is determined by what went in
  (`CarriesUnique`): packed stream and sizes are those of one write (`CutsHidden`).
- Coders. `CodersComeBackInOrder`: the packed stream is found at the first coder, the others
  follow in order by induction over the chain, the size is that of the last.
- Decoders. A read from reader i of a sound stack (`Sounds`) leaves a sound one, touches no
  reader above i, and returns units, no more than it was asked for (`Sane`). That goes from
  each reader to the next one (`ReadersSane`), through the loops inside the reads by
  induction over their rounds. From it: `ChainTypes`.
- Round trip. `DecodesThePush`: whatever chain of whatever length, cuts of the pushes and sizes
  of the reads, what comes out is what was pushed, unless the chain is `Excepted`. The run
  checks that for chains of three methods and nine bytes; the theorem says that no longer
  chain adds an exception. What reader i still has to give is a sequence R with `Gives(s, i,
  R)`: there is a stream below every decoder such that each decoder, with what it holds
  back, makes the stream above it of the one below (`Level`). A read gives bytes from the
  front of R, leaves a stack that gives the rest, and gives none only of none
  (`ReadersWell`, `ReadWell`). That the one read of a frame's header gets all of it
  needs more than that, since a read may give fewer bytes than it was asked for: a decoder
  of frames is right below only where its first frame has room for a header (`Prompt`,
  `PromptReads`). From the top of the chain down, the calls on every encoder are like
  `Fed` says: they end in one empty write or, where there is a brotli below, after one flush;
  where lz4 is in the chain, they bring something; where frames come right below, no
  flush finds exactly one byte. Then the units that go into an encoder decode from
  those it sends on (`CodedAt`, `EachPasses`), so the opened stack has all of the data
  to give (`PushedDecodes`, `OpenWell`), and `out` and what the stack still has to give
  together stay the data (`DecodeInv`): the checksum fits, and there is no error.

Only model-checked: liveness (`ToldTheEnd`, `ThreadReturns`, `Terminates`, `Returns`), which is
outside the reach of the prover, as is ENABLED.

## 5. Findings

- **`next_header`.** `ArchiveWriter::new` seeks 32 bytes forward before it writes,
  which `total_bytes` of SegmentedWriter does not count, and
  `switch_to_next_volume` takes `total_bytes` for the position where the next
  volume starts. From the second volume on, positions are 32 too small, and the
  start header of a multi-volume archive points 32 bytes before its next header.
  `multi_volume` shows what does hold: the volumes joined are intact, and the
  header is found when packed data ends in the first volume.
- **`anti_items`.** `write_file_anti_items` marks the entries that are not
  anti-items; the reader takes the marked ones for anti-items.
- **`test_integrity`.** `Crc32VerifyingReader` compares a checksum only when the last byte of
  the entry was read. Behind a push that failed, an entry decodes from the wrong place, and
  where its data ends early nothing is compared: `test_integrity` counts it as good.
- **`swap4`.** `Swap4Reader` stores the bytes of a unit that did not fit the caller's
  buffer at the front of `pending` and takes them from its end. With one or two
  bytes left over it returns other bytes: in a solid block, for instance, when an
  entry's size leaves a remainder of 2 or 3.

`DecodesWhatWasPushed` of the run `codecs` excepts four more kinds of chains, all
in `Excepted`, each of which makes it fail when it is taken out:

- brotli with an encoder below that holds data back: `Encoder::Brotli` passes the empty write to
  `BrotliEncoder`, which does nothing with it (`encoder.rs:141`), although the comment
  on `write` asks for it to reach the whole chain. Encryption below loses its last
  incomplete block, Swap2 its last byte.
- Swap2 over brotli: the odd last byte follows the frame that the flush wrote. When
  that frame is empty (data that ends at a frame boundary but for this byte)
  the decoder returns 0 for it, and the caller stops one byte short.
- Swap2 over encryption: the decoder does not cut off the padding, and the filter
  pairs an odd last byte with it.
- framed lz4 of no data: nothing is written, and the decoder fails on nothing.

`HeaderRoundTrip` of the run `round_trip` says that a finished archive without a short
vector (`ShortVector`) opens and lists what was pushed, and names exactly when it does not:

- an entry was pushed by `push_archive_entry_bytes` from an empty slice, which keeps
  `has_stream` and adds no stream (`Unbacked`);
- an empty file was stored by COPY next to other data: its checksum 0 counts as
  undefined, and the vector of the defined ones is announced but not written
  (`PartlyDefined`).

A vector is short because K_EMPTY_FILE and K_ANTI end at their last inserted bit
(`BitSet::new`, `writer.rs:1563` and `1588`), while `read_bits` (`reader.rs:1073`) takes one
bit per entry without a stream and does not look at the size of the property. When
directories follow the last plain file, or anti-items the last entry that is none, and fill
another byte (nine entries are enough), it takes the id of the next property for bits.
Behind K_ANTI that is K_NAME: its size and its bytes pass for properties nobody knows,
the first zero for the end of the list (`reader.rs:513`, `643`). The archive opens without
names and without an error, or fails, as its names have it. The data of the entries is
not touched: `NeverSilentlyWrong`, `EarlierEntriesSurvive`, `ReadFileReturnsContents` and the
others hold of these archives too.

`RecoveredIsWhole` leaves out short vectors as well: when the header was not packed, the
search for it meets the length byte of a short vector, 1, which looks like a header and
fails, but a length of 2 does not, and a search that reaches the header itself opens it
in the same way.

`WholeUnlessEmptied` of `batched_push` has one exception too: a buffer that its user
emptied and returned makes the next batched push read nothing, and push an empty file.

Seen while modelling, without a run: `finish` of SegmentedWriter reports
`current_volume` volumes, which is 1 after `finish_multi_volume` seeked to the front;
`provider.cancel` is not called when a stream is missing or the encoder fails;
`for_each_entries` goes on with the next block after the closure returned
`Ok(false)`. `PROJECT.json` keeps them among the hazards.

## 6. Not modelled, and the plan

Order of work: the archive first, since it is what the library is for, then the
stateful helpers with the richest interleavings, then what feeds them. Done: everything
in section 2. Left, in this order:

1. The decoders over sources that return short reads and callers with empty
   buffers: the one read of the first frame header, `Cipher::update` with less than a
   block, an empty read that ends a frame.
2. Blocks whose coders have several streams (BCJ2, `build_decode_stack2`), and
   encrypted headers.
3. Solid lists with directories: what should become of them is not written down.
4. Extracting to a directory (`util/decompress.rs`).

Left out for good: compression and cryptography themselves (other crates),
statistics and configuration without behaviour, memory mapping, async bridges
that forward to the synchronous types, WebAssembly glue, errors and times.
