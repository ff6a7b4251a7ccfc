----------------------------- MODULE BatchedPush -----------------------------
(***************************************************************************)
(* push_archive_entry_batched of src/writer.rs with a BufferPool, over the *)
(* items of a PrefetchQueue, as README.md shows their use.  The pool is    *)
(* also used by others in between: a reader the push calls, or a caller    *)
(* between two pushes.                                                     *)
(***************************************************************************)
EXTENDS BufferPool

CONSTANTS
  Writer,     \* the user of the pool that pushes
  FileSizes,  \* sizes of the items
  Counts, MAX_LOOKAHEAD_COUNT, MaxItems

ASSUME BatchedPushAssumption ==
  /\ Writer \in Users
  /\ FileSizes \subseteq Nat /\ Counts \subseteq Nat
  /\ MAX_LOOKAHEAD_COUNT \in Nat \ {0} /\ MaxItems \in Nat

VARIABLES
  items, current_index, lookahead_count, hinted,  \* the queue
  pushing,    \* a push is under way
  left,       \* bytes of its file not read yet
  cut         \* history: some push that succeeded left bytes of its file behind

Queue == INSTANCE PrefetchQueue

push == <<pushing, left, cut>>
queue == <<items, current_index, lookahead_count, hinted>>
vars == <<pool, queue, push>>

Init ==
  /\ PoolInit /\ Queue!QueueInit
  /\ pushing = FALSE /\ left = 0 /\ cut = FALSE

\* the next item's push begins: it takes a buffer
StartPush ==
  /\ ~shared /\ ~pushing
  /\ Queue!advance
  /\ get(Writer)
  /\ pushing' = TRUE
  /\ left' \in FileSizes
  /\ UNCHANGED cut

\* r.read(buf): some bytes, as many as the buffer has at most
Read(n) ==
  /\ pushing
  /\ n \in 1..left /\ n <= length[Writer]
  /\ left' = left - n
  /\ UNCHANGED <<pool, queue, pushing, cut>>

\* r.read(buf) is 0: at the end, or for want of a buffer.  The buffer is dropped
\* and the entry pushed with what was read.
ReadEnds ==
  /\ pushing
  /\ left = 0 \/ length[Writer] = 0
  /\ drop(Writer)
  /\ pushing' = FALSE
  /\ cut' = (cut \/ left > 0)
  /\ UNCHANGED <<queue, left>>

\* reading or encoding fails: the buffer is dropped, nothing is pushed
PushFails ==
  /\ pushing
  /\ drop(Writer)
  /\ pushing' = FALSE
  /\ UNCHANGED <<queue, left, cut>>

\* the pool is used otherwise; the buffer of a push is its own
UsePool(u) ==
  /\ pushing => u # Writer
  /\ Use(u)
  /\ UNCHANGED <<queue, push>>

UseQueue ==
  /\ \/ Queue!advance
     \/ \E count \in Counts : Queue!set_lookahead_count(count)
     \/ \E n \in 0..MaxItems : Queue!extend_items(n)
  /\ UNCHANGED <<pool, push>>

Next ==
  \/ StartPush \/ (\E n \in 1..left : Read(n)) \/ ReadEnds \/ PushFails
  \/ \E u \in Users : UsePool(u)
  \/ UseQueue

Spec == Init /\ [][Next]_vars

-----------------------------------------------------------------------------

\* An entry is pushed without a part of its file only when a user of the pool
\* returned a buffer of length 0 before: no size or count asked of new, no pool
\* that is full or empty and no failed push does it.
WholeUnlessEmptied == cut => emptied

\* No item is taken that the callback was not told of in an earlier call, however
\* the lookahead was changed and items were added meanwhile; and what comes next
\* (peek_upcoming of as many as the lookahead) has always been hinted.
HintedBeforeTaken ==
  0..(current_index - 1) \cup Queue!peek_upcoming(lookahead_count) \subseteq hinted
=============================================================================
