---------------------------- MODULE ParallelSolid ----------------------------
(***************************************************************************)
(* ArchiveWriter::push_solid_entries_parallel of src/writer.rs, and the    *)
(* ParallelStreamProvider it pulls streams from.                           *)
(*                                                                         *)
(* The provider is the caller's code; what it does is taken from the       *)
(* contract of the trait in src/writer/parallel_provider.rs: it fetches    *)
(* the streams it was told of in any order and in parallel, holds at most  *)
(* parallelism() of them, and a fetch may fail.                            *)
(***************************************************************************)
EXTENDS Naturals, Sequences, FiniteSets

CONSTANTS
  N,            \* entries.len()
  BatchSize,    \* config.batch_size
  Parallelism,  \* provider.parallelism()
  MaxSize       \* bound on the bytes of a stream

ASSUME ParallelAssumption ==
  /\ N \in Nat /\ BatchSize \in Nat /\ MaxSize \in Nat
  /\ Parallelism \in Nat \ {0}

VARIABLES
  stage,         \* "start", "prepare", "get", "read", "flush", "done", "failed"
  current_idx,   \* start of the batch
  prefetch_end,  \* and its end
  idx,           \* the entry being read
  entry_size,    \* bytes of it so far
  entry_stats,   \* sizes of the entries read
  written,       \* history: the entry of each byte passed to the encoder
  prepared,      \* provider: streams it was told of
  ready,         \* provider: fetched, waiting to be taken
  lost,          \* provider: streams that could not be fetched
  taken,         \* provider: streams the compressor took
  cancelled      \* provider: cancel was called

writing == <<stage, current_idx, prefetch_end, idx, entry_size, entry_stats, written>>
provider == <<prepared, ready, lost, taken, cancelled>>
vars == <<writing, provider>>

Lesser(m, n) == IF m <= n THEN m ELSE n

Init ==
  /\ stage = "start"
  /\ current_idx = 0 /\ prefetch_end = 0 /\ idx = 0
  /\ entry_size = 0
  /\ entry_stats = <<>>
  /\ written = <<>>
  /\ prepared = {} /\ ready = {} /\ lost = {} /\ taken = {}
  /\ cancelled = FALSE

-----------------------------------------------------------------------------
(* The compressor. *)

\* mutant of Batch: the batch the caller configured, whatever the provider holds
BatchUncapped == IF BatchSize = 0 THEN 1 ELSE BatchSize

\* config.batch_size.min(provider.parallelism()).max(1)
Batch == IF BatchSize = 0 THEN 1 ELSE Lesser(BatchSize, Parallelism)

\* provider.stream_count() is known, and too small
TooFewStreams ==
  /\ stage = "start" /\ N > 0
  /\ stage' = "failed"
  /\ UNCHANGED <<current_idx, prefetch_end, idx, entry_size, entry_stats, written, provider>>

\* nothing is done for no entries
Start ==
  /\ stage = "start"
  /\ stage' = IF N = 0 THEN "done" ELSE "prepare"
  /\ UNCHANGED <<current_idx, prefetch_end, idx, entry_size, entry_stats, written, provider>>

\* mutants of prepare_streams: the last batch is as long as the others; the first
\* stream of a batch is taken for one already told of
PrepareFullBatch ==
  /\ stage = "prepare"
  /\ prefetch_end' = current_idx + Batch
  /\ prepared' = prepared \cup (current_idx..(prefetch_end' - 1))
  /\ idx' = current_idx
  /\ stage' = "get"
  /\ UNCHANGED <<current_idx, entry_size, entry_stats, written, ready, lost, taken, cancelled>>

PrepareRest ==
  /\ stage = "prepare"
  /\ prefetch_end' = Lesser(current_idx + Batch, N)
  /\ prepared' = prepared \cup ((current_idx + 1)..(prefetch_end' - 1))
  /\ idx' = current_idx
  /\ stage' = "get"
  /\ UNCHANGED <<current_idx, entry_size, entry_stats, written, ready, lost, taken, cancelled>>

\* tell the provider of the next batch
prepare_streams ==
  /\ stage = "prepare"
  /\ prefetch_end' = Lesser(current_idx + Batch, N)
  /\ prepared' = prepared \cup (current_idx..(prefetch_end' - 1))
  /\ idx' = current_idx
  /\ stage' = "get"
  /\ UNCHANGED <<current_idx, entry_size, entry_stats, written, ready, lost, taken, cancelled>>

\* mutant of get_stream_blocking: the size goes on from the entry before
GetWithoutReset ==
  /\ stage = "get"
  /\ idx \in ready
  /\ ready' = ready \ {idx}
  /\ taken' = taken \cup {idx}
  /\ stage' = "read"
  /\ UNCHANGED <<current_idx, prefetch_end, idx, entry_size, entry_stats, written,
                 prepared, lost, cancelled>>

\* get_stream_blocking returns when the stream was fetched
get_stream_blocking ==
  /\ stage = "get"
  /\ idx \in ready
  /\ ready' = ready \ {idx}
  /\ taken' = taken \cup {idx}
  /\ entry_size' = 0
  /\ stage' = "read"
  /\ UNCHANGED <<current_idx, prefetch_end, idx, entry_stats, written,
                 prepared, lost, cancelled>>

\* it returns None: the push ends, and the provider is not told
StreamMissing ==
  /\ stage = "get"
  /\ idx \in lost
  /\ stage' = "failed"
  /\ UNCHANGED <<current_idx, prefetch_end, idx, entry_size, entry_stats, written, provider>>

\* reader.read returns n bytes, which go to the encoder
Read(n) ==
  /\ stage = "read"
  /\ entry_size + n <= MaxSize
  /\ entry_size' = entry_size + n
  /\ written' = written \o [k \in 1..n |-> idx]
  /\ UNCHANGED <<stage, current_idx, prefetch_end, idx, entry_stats, provider>>

\* reader.read returns Ok(0): on to the next entry, the next batch or the end
ReadEnds ==
  /\ stage = "read"
  /\ entry_stats' = Append(entry_stats, entry_size)
  /\ IF idx + 1 < prefetch_end
     THEN idx' = idx + 1 /\ stage' = "get" /\ UNCHANGED current_idx
     ELSE /\ current_idx' = prefetch_end
          /\ stage' = IF prefetch_end < N THEN "prepare" ELSE "flush"
          /\ UNCHANGED idx
  /\ UNCHANGED <<prefetch_end, entry_size, written, provider>>

\* reader.read returns an error
ReadFails ==
  /\ stage = "read"
  /\ cancelled' = TRUE
  /\ stage' = "failed"
  /\ UNCHANGED <<current_idx, prefetch_end, idx, entry_size, entry_stats, written,
                 prepared, ready, lost, taken>>

\* the encoder returns an error, on a write or on the flush at the end
EncodeFails ==
  /\ stage \in {"read", "flush"}
  /\ stage' = "failed"
  /\ UNCHANGED <<current_idx, prefetch_end, idx, entry_size, entry_stats, written, provider>>

\* flush, add_stream, add_multiple and files.extend
PushBlock ==
  /\ stage = "flush"
  /\ stage' = "done"
  /\ UNCHANGED <<current_idx, prefetch_end, idx, entry_size, entry_stats, written, provider>>

Compressor ==
  \/ TooFewStreams \/ Start \/ prepare_streams \/ get_stream_blocking
  \/ StreamMissing \/ (\E n \in 1..MaxSize : Read(n)) \/ ReadEnds \/ ReadFails
  \/ EncodeFails \/ PushBlock

-----------------------------------------------------------------------------
(* The provider. *)

Pending == prepared \ (ready \cup lost \cup taken)

\* the stream arrives, when there is room for it
Fetch(i) ==
  /\ i \in Pending
  /\ ~cancelled
  /\ Cardinality(ready) < Parallelism
  /\ ready' = ready \cup {i}
  /\ UNCHANGED <<writing, prepared, lost, taken, cancelled>>

\* or turns out to be missing, which a fetch begun when there was room finds out
FetchFails(i) ==
  /\ i \in Pending
  /\ ~cancelled
  /\ Cardinality(ready) < Parallelism
  /\ lost' = lost \cup {i}
  /\ UNCHANGED <<writing, prepared, ready, taken, cancelled>>

Provider == \E i \in prepared : Fetch(i) \/ FetchFails(i)

-----------------------------------------------------------------------------

Next == Compressor \/ Provider

Spec == Init /\ [][Next]_vars

\* A stream ends or fails, the encoder returns, and a provider that has room
\* fetches something; which stream it fetches first is its own choice.
FairSpec == Spec /\ WF_vars(Compressor) /\ WF_vars(Provider)

-----------------------------------------------------------------------------

TypeOK ==
  /\ stage \in {"start", "prepare", "get", "read", "flush", "done", "failed"}
  /\ current_idx \in 0..N /\ prefetch_end \in 0..N
  /\ idx \in 0..N
  /\ entry_size \in Nat
  /\ entry_stats \in Seq(Nat)
  /\ written \in Seq(Nat)
  /\ prepared \subseteq 0..(N - 1) /\ ready \subseteq prepared /\ lost \subseteq prepared
  /\ taken \subseteq prepared
  /\ cancelled \in BOOLEAN

\* The streams the provider was told of and that were not taken yet never exceed
\* what parallelism() says it can buffer at once.
WithinParallelism == Cardinality(prepared \ taken) <= Parallelism

\* "The indices are always sequential starting from the current position": the
\* streams told of are the entries up to the end of the batch, each entry is
\* taken in its turn, and the one waited for is among them.
AsksInOrder ==
  /\ prepared = 0..(prefetch_end - 1)
  /\ stage = "get" => idx \in prepared \ taken
  /\ stage \in {"get", "read"} => idx = Len(entry_stats)
  /\ taken = 0..(Cardinality(taken) - 1)
  /\ stage \in {"flush", "done"} => Len(entry_stats) = N

\* The push ends: waiting for a stream, the compressor never keeps the provider
\* full of streams it will only take later.
Terminates == <>(stage \in {"done", "failed"})

\* What the caller learns of the push.
BlockOutcome ==
  IF stage = "done" THEN "pushed" ELSE IF stage = "failed" THEN "failed" ELSE "open"

Block == INSTANCE SolidPush
  WITH block <- written, sizes <- entry_stats, outcome <- BlockOutcome

\* One solid block with the entries in order, each with its size, or nothing.
PushesSolidBlock == Block!Spec
=============================================================================
