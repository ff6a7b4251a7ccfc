--------------------------- MODULE ArchiveRoundTrip ---------------------------
(***************************************************************************)
(* An archive is written by ArchiveWriter, finished, and read by           *)
(* ArchiveReader: what comes out against what was pushed.                  *)
(***************************************************************************)
EXTENDS ArchiveWriter, ArchiveReader

ASSUME ReaderAssumption ==
  /\ Closures \subseteq [limit : Nat, go_on : BOOLEAN, pass_error : BOOLEAN]
  /\ Tails \subseteq Seq({"empty", "broken"})

allvars == <<vars, rvars>>

RTInit == Init /\ ReaderInit

WriteStep == Next /\ UNCHANGED rvars

ReadStep ==
  /\ header # <<>>
  /\ ReaderNext(header[1], output, HeaderCell, start)
  /\ UNCHANGED vars

RTNext == WriteStep \/ ReadStep

RTSpec == RTInit /\ [][RTNext]_allvars

-----------------------------------------------------------------------------

\* What read_files_info must restore of an entry.
Restored(entry, file) ==
  /\ entry.name = file.name
  /\ entry.has_stream = file.has_stream
  /\ entry.is_directory = file.is_directory
  /\ entry.size = file.size
  /\ entry.has_crc = file.has_crc
  /\ entry.has_crc => entry.crc = file.crc

\* the entries pushed from an empty slice: they claim a stream nobody wrote
Unbacked == {i \in DOMAIN files : files[i].has_stream /\ ~files[i].has_crc}

\* the archive that was read lists what was pushed
ListsFiles ==
  /\ Len(archive[1].files) = Len(files)
  /\ \A i \in DOMAIN files : Restored(archive[1].files[i], files[i])

\* among the entries without a stream, those behind the last marked one begin a
\* byte of their own: the vector of the marked ones ends before it
Short(marked) ==
  LET empties == EmptyStreams(files)
  IN  /\ marked # {}
      /\ BytesFor(Cardinality({i \in empties : i <= Max(marked)})) < BytesFor(Cardinality(empties))

\* the vector of plain files is short, or that of the entries that are no anti items
ShortVector ==
  \/ Short({i \in EmptyStreams(files) : ~files[i].is_directory})
  \/ Short({i \in EmptyStreams(files) : ~files[i].is_anti_item})

\* an empty file stored by COPY beside other data: a packed stream of no bytes,
\* whose checksum 0 counts as undefined
PartlyDefined ==
  {b \in DOMAIN blocks : pack_info.sizes[b] = 0} \notin {{}, DOMAIN blocks}

\* An archive that finish completed opens, whatever was pushed and whichever
\* push failed on the way, and lists the pushed entries in order, each with
\* its name, kind, size and checksum (write_header against read_header).  There
\* are two exceptions, and the archive then does not open at all: an entry pushed
\* by push_archive_entry_bytes from an empty slice, and packed streams some of
\* which are empty.  A vector of plain files or of anti items that is short of bytes
\* is left out: such an archive may open, and without its names (HeadersRead).
HeaderRoundTrip ==
  phase # "closed" /\ start = "complete" /\ ~ShortVector =>
    /\ phase = "failed" <=> Unbacked # {} \/ PartlyDefined
    /\ archive # <<>> => ListsFiles

\* An archive whose writer did not get to complete the start header is either
\* refused or opens with every entry that was pushed: the search for its header is
\* not content with what only looks like one (try_to_locale_end_header).  A header
\* with a short vector is left out here as well: where it was written as it is and
\* no byte in it looks like another header, the search ends at it.
RecoveredIsWhole ==
  phase # "closed" /\ start # "complete" /\ ~ShortVector => phase = "failed" \/ ListsFiles

\* Iterating never runs off the entry table (BlockDecoder indexes
\* archive.files with the sub stream counts of the header).
NeverPanics == phase # "panic"

\* An entry handed out in full and without an error is what was pushed for that
\* very entry: an entry left unread in a solid block, or cells orphaned by a
\* failed push, may make later entries unreadable or cut them short but never put
\* other data in their place (Crc32VerifyingReader).
NeverSilentlyWrong ==
  \A v \in DOMAIN visits :
    LET seen == visits[v]
    IN  seen.ok /\ Len(seen.data) = Len(contents[seen.file]) /\ seen.to_end
          => seen.data = contents[seen.file]

\* A failed push cannot hurt what was pushed before it: as long as the closure
\* reads whole entries, they are all there, whole and unchanged.
EarlierEntriesSurvive ==
  (\A v \in DOMAIN visits : visits[v].to_end) =>
    \A v \in DOMAIN visits :
      visits[v].file <= clean => visits[v].ok /\ visits[v].data = contents[visits[v].file]

\* A closure that never stops is given every entry, and each of them once.
EveryEntryOnce ==
  phase = "done" /\ ~stopped =>
    /\ Len(visits) = Len(files)
    /\ {visits[v].file : v \in DOMAIN visits} = DOMAIN files

\* read_file finds an entry pushed before any orphan cell and returns its data,
\* from solid and non-solid archives alike; for the entries after one, it never
\* returns other data of the entry's length.
ReadFileReturnsContents ==
  archive # <<>> =>
    \A i \in DOMAIN files :
      LET data == read_file(archive[1], output, i)
      IN  /\ data # Unreadable /\ Len(data) = Len(contents[i]) => data = contents[i]
          /\ i <= clean => data = contents[i]

\* test_integrity "tests the integrity of the archive by decompressing all entries
\* and verifying CRCs" and returns "Err if any integrity check fails": a closure
\* that reads every entry to its end, passes errors on and never stops is told of
\* every entry whose data is not what was pushed.
IntegrityTestCatches ==
  phase = "done" /\ ~stopped =>
    \A v \in DOMAIN visits : visits[v].data = contents[visits[v].file]

\* is_anti_item says "whether this is an anti-item" of a file read back as it
\* did of the file pushed (write_file_anti_items against read_files_info).
AntiItemsRoundTrip ==
  archive # <<>> =>
    \A i \in DOMAIN files : archive[1].files[i].is_anti_item = files[i].is_anti_item
=============================================================================
