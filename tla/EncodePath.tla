------------------------------ MODULE EncodePath ------------------------------
(***************************************************************************)
(* push_source_path and push_source_path_non_solid of                      *)
(* src/util/compress.rs: the files below a path are collected first, then  *)
(* looked at one by one, grouped into solid blocks by the sizes their      *)
(* metadata gives, and read when their block is pushed, through a          *)
(* LazyFileReader in a SourceReader in a SeqReader (src/writer).           *)
(*                                                                         *)
(* Others write to the files meanwhile: metadata, open and read may each   *)
(* answer anything, whatever the answers before.  A byte is the file it    *)
(* was read from.                                                          *)
(***************************************************************************)
EXTENDS Naturals, Sequences, FiniteSets, SequencesExt

CONSTANTS
  N,              \* files below the path, in the order they were collected
  MAX_BLOCK_SIZE,
  ListedSizes,    \* the sizes metadata may give
  MaxRead         \* bound on the bytes read from one file

ASSUME EncodePathAssumption ==
  /\ N \in Nat /\ MaxRead \in Nat
  /\ MAX_BLOCK_SIZE \in Nat \ {0}
  /\ ListedSizes \subseteq Nat

VARIABLES
  solid,      \* which of the two was called
  stage,      \* "path", "listed", "gather", "open", "read", "done", "failed"
  next,       \* the file the loop is at
  listed,     \* size from its metadata
  entries,    \* the files of the block being gathered
  file_size,  \* sum of their listed sizes
  readers,    \* the files of the push under way
  current,    \* SeqReader::current, from 1
  read_count, \* SourceReader::size of each of the readers
  written,    \* history: the bytes this push passed to the encoder
  handles,    \* files open for reading
  blocks      \* history: what was pushed, in order

gathering == <<next, listed, entries, file_size>>
pushing == <<readers, current, read_count, written>>
vars == <<solid, stage, gathering, pushing, handles, blocks>>

Init ==
  /\ solid \in BOOLEAN
  /\ stage = "path"
  /\ next = 1 /\ listed = 0
  /\ entries = <<>> /\ file_size = 0
  /\ readers = <<>> /\ current = 1 /\ read_count = <<>> /\ written = <<>>
  /\ handles = {}
  /\ blocks = <<>>

Fail ==
  /\ stage' = "failed"
  /\ handles' = {}    \* the readers are dropped
  /\ UNCHANGED <<solid, gathering, pushing, blocks>>

\* push_archive_entries or push_archive_entry begins to read
StartPush(list) ==
  /\ readers' = list
  /\ current' = 1
  /\ read_count' = [i \in DOMAIN list |-> 0]
  /\ written' = <<>>
  /\ stage' = "read"

-----------------------------------------------------------------------------
(* encode_path. *)

\* the next path: the size of the file, when solid blocks are made
TakePath ==
  /\ stage = "path" /\ next <= N
  /\ stage' = IF solid THEN "listed" ELSE "open"
  /\ IF solid THEN listed' \in ListedSizes ELSE UNCHANGED listed
  /\ UNCHANGED <<solid, next, entries, file_size, pushing, handles, blocks>>

MetadataFails == stage = "path" /\ next <= N /\ solid /\ Fail

\* a file that fills a block is pushed by itself, before those gathered so far
TooLarge ==
  /\ stage = "listed"
  /\ listed >= MAX_BLOCK_SIZE
  /\ stage' = "open"
  /\ UNCHANGED <<solid, gathering, pushing, handles, blocks>>

\* mutant of BlockFull: the sum goes on
BlockFullUnreset ==
  /\ stage = "listed"
  /\ listed < MAX_BLOCK_SIZE /\ file_size + listed >= MAX_BLOCK_SIZE
  /\ StartPush(entries)
  /\ entries' = <<>>
  /\ UNCHANGED <<solid, next, listed, file_size, handles, blocks>>

\* the block would reach the limit: what was gathered is pushed first
BlockFull ==
  /\ stage = "listed"
  /\ listed < MAX_BLOCK_SIZE /\ file_size + listed >= MAX_BLOCK_SIZE
  /\ StartPush(entries)
  /\ entries' = <<>> /\ file_size' = 0
  /\ UNCHANGED <<solid, next, listed, handles, blocks>>

BlockFits ==
  /\ stage = "listed"
  /\ listed < MAX_BLOCK_SIZE /\ file_size + listed < MAX_BLOCK_SIZE
  /\ stage' = "gather"
  /\ UNCHANGED <<solid, gathering, pushing, handles, blocks>>

Gather ==
  /\ stage = "gather"
  /\ entries' = Append(entries, [path |-> next, listed |-> listed])
  /\ file_size' = file_size + listed
  /\ next' = next + 1
  /\ stage' = "path"
  /\ UNCHANGED <<solid, listed, pushing, handles, blocks>>

\* File::open for a file that is pushed by itself
OpenAlone ==
  /\ stage = "open"
  /\ StartPush(<<[path |-> next, listed |-> listed]>>)
  /\ handles' = {next}
  /\ UNCHANGED <<solid, gathering, blocks>>

OpenFails == stage = "open" /\ Fail

\* after the last path: the rest
PathsEnd ==
  /\ stage = "path" /\ next > N
  /\ IF entries = <<>>
     THEN stage' = "done" /\ UNCHANGED <<entries, pushing>>
     ELSE StartPush(entries) /\ entries' = <<>>
  /\ UNCHANGED <<solid, next, listed, file_size, handles, blocks>>

-----------------------------------------------------------------------------
(* push_archive_entries: SeqReader over SourceReader over LazyFileReader. *)

Reading == stage = "read" /\ current <= Len(readers)
Path == readers[current].path

\* mutant of LazyOpen: all the files of the block are opened
OpenAll ==
  /\ Reading
  /\ Path \notin handles
  /\ handles' = handles \cup {readers[i].path : i \in current..Len(readers)}
  /\ UNCHANGED <<solid, stage, gathering, pushing, blocks>>

\* the file is opened by the first read from it
LazyOpen ==
  /\ Reading
  /\ Path \notin handles
  /\ handles' = handles \cup {Path}
  /\ UNCHANGED <<solid, stage, gathering, pushing, blocks>>

\* mutant of Read: the count is that of the reader the block began with
ReadCountsFirst(n) ==
  /\ Reading
  /\ Path \in handles
  /\ read_count[1] + n <= MaxRead
  /\ read_count' = [read_count EXCEPT ![1] = @ + n]
  /\ written' = written \o [i \in 1..n |-> Path]
  /\ UNCHANGED <<solid, stage, gathering, readers, current, handles, blocks>>

\* n bytes, counted and passed on to the encoder
Read(n) ==
  /\ Reading
  /\ Path \in handles
  /\ read_count[current] + n <= MaxRead
  /\ read_count' = [read_count EXCEPT ![current] = @ + n]
  /\ written' = written \o [i \in 1..n |-> Path]
  /\ UNCHANGED <<solid, stage, gathering, readers, current, handles, blocks>>

\* mutant of ReaderEnds: the reader that ended is asked again
ReaderEndsAgain ==
  /\ Reading
  /\ Path \in handles
  /\ handles' = handles \ {Path}
  /\ UNCHANGED <<solid, stage, gathering, pushing, blocks>>

\* no bytes: the file is closed, the next reader's turn
ReaderEnds ==
  /\ Reading
  /\ Path \in handles
  /\ handles' = handles \ {Path}
  /\ current' = current + 1
  /\ UNCHANGED <<solid, stage, gathering, readers, read_count, written, blocks>>

\* opening, reading or encoding fails
PushFails == stage = "read" /\ Fail

Pushed == [entries |-> readers, sizes |-> read_count, bytes |-> written]

\* mutant of PushEnds: the file that did not fit the block is passed over
PushEndsNext ==
  /\ stage = "read" /\ current > Len(readers)
  /\ blocks' = Append(blocks, Pushed)
  /\ stage' = "path"
  /\ next' = IF next > N THEN next ELSE next + 1
  /\ UNCHANGED <<solid, listed, entries, file_size, pushing, handles>>

\* The block is added.  A file that was pushed by itself is done with, while the
\* one that did not fit the block has yet to be gathered.
PushEnds ==
  /\ stage = "read" /\ current > Len(readers)
  /\ blocks' = Append(blocks, Pushed)
  /\ \/ next > N /\ stage' = "path" /\ UNCHANGED next
     \/ next <= N /\ (~solid \/ listed >= MAX_BLOCK_SIZE) /\ stage' = "path" /\ next' = next + 1
     \/ next <= N /\ solid /\ listed < MAX_BLOCK_SIZE /\ stage' = "gather" /\ UNCHANGED next
  /\ UNCHANGED <<solid, listed, entries, file_size, pushing, handles>>

-----------------------------------------------------------------------------

Step ==
  \/ TakePath \/ MetadataFails \/ TooLarge \/ BlockFull \/ BlockFits \/ Gather
  \/ OpenAlone \/ OpenFails \/ PathsEnd
  \/ LazyOpen \/ (\E n \in 1..MaxRead : Read(n)) \/ ReaderEnds \/ PushFails \/ PushEnds

Spec == Init /\ [][Step]_vars

\* the calls return, and the files do not grow faster than they are read
FairSpec == Spec /\ WF_vars(Step)

-----------------------------------------------------------------------------

Entries == [path : 1..N, listed : Nat]

\* Types of the state of encode_path and of the readers.
TypeOK ==
  /\ solid \in BOOLEAN
  /\ stage \in {"path", "listed", "gather", "open", "read", "done", "failed"}
  /\ next \in 1..(N + 1) /\ listed \in Nat
  /\ entries \in Seq(Entries) /\ file_size \in Nat
  /\ readers \in Seq(Entries)
  /\ current \in 1..(Len(readers) + 1)
  /\ read_count \in Seq(Nat) /\ Len(read_count) = Len(readers)
  /\ written \in Seq(1..N)
  /\ handles \subseteq 1..N
  /\ blocks \in Seq([entries : Seq(Entries), sizes : Seq(Nat), bytes : Seq(1..N)])

\* However many files a block has, one is open at a time: that of the current
\* reader, so it is closed before the next one is opened (LazyFileReader).
OneFileOpen == handles \subseteq {readers[i].path : i \in {current} \cap DOMAIN readers}

BytesOf(path, bytes) == {k \in DOMAIN bytes : bytes[k] = path}

\* Every block is the data of its files one after the other, each with the size
\* that was read and not the one its metadata gave: a file that changes between
\* the two damages neither its own entry nor another (SourceReader, SeqReader).
BlocksHoldTheirFiles ==
  \A b \in DOMAIN blocks :
    LET bytes == blocks[b].bytes
        list  == blocks[b].entries
    IN  /\ \A i \in DOMAIN list :
             Cardinality(BytesOf(list[i].path, bytes)) = blocks[b].sizes[i]
        /\ \A k \in DOMAIN bytes : \E i \in DOMAIN list : bytes[k] = list[i].path
        /\ \A j, k \in DOMAIN bytes : j < k => bytes[j] <= bytes[k]

ListedSize(b) == SumFunction([i \in DOMAIN blocks[b].entries |-> blocks[b].entries[i].listed])

\* a file that is too large for a block of several is in a block by itself
Gathered(b) == ListedSize(b) < MAX_BLOCK_SIZE

\* No block is empty, the listed sizes of a block of several files stay below the
\* limit, and no block is closed early: the first file of the next one gathered
\* would have reached the limit.
BlocksWithinLimit ==
  solid =>
    /\ \A b \in DOMAIN blocks :
         blocks[b].entries # <<>> /\ (Gathered(b) \/ Len(blocks[b].entries) = 1)
    /\ \A b, c \in DOMAIN blocks :
         (b < c /\ Gathered(b) /\ Gathered(c) /\ \A a \in (b + 1)..(c - 1) : ~Gathered(a)) =>
           ListedSize(b) + blocks[c].entries[1].listed >= MAX_BLOCK_SIZE

PathsOf(b) == [i \in DOMAIN blocks[b].entries |-> blocks[b].entries[i].path]
AllPaths == FlattenSeq([b \in DOMAIN blocks |-> PathsOf(b)])

\* A call that succeeds has pushed every file once; the files gathered into
\* blocks keep their order, and those pushed by themselves overtake no other
\* one of them.
EveryFileOnce ==
  stage = "done" =>
    /\ Len(AllPaths) = N
    /\ ToSet(AllPaths) = 1..N
    /\ \A b, c \in DOMAIN blocks :
         b < c /\ (Gathered(b) <=> Gathered(c)) => Last(PathsOf(b)) < PathsOf(c)[1]

\* The call returns, whatever the files do.
Returns == <>(stage \in {"done", "failed"})
=============================================================================
