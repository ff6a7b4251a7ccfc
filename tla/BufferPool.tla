----------------------------- MODULE BufferPool -----------------------------
(***************************************************************************)
(* BufferPool and SyncBufferPool of src/perf.rs: buffers that go back to a *)
(* pool when they are dropped.  The first belongs to one thread, and its   *)
(* get is one step; the second is shared, and its get takes a buffer under *)
(* the lock but allocates one after releasing it.                          *)
(*                                                                         *)
(* Users are the places that hold at most one buffer at a time: variables  *)
(* of the one thread, or threads.  A buffer is its length, all that get    *)
(* and drop could tell of it, and all that reading into it depends on.     *)
(***************************************************************************)
EXTENDS Naturals, Sequences, FiniteSets, SequencesExt

CONSTANTS
  Users,
  RequestedBuffers,   \* the arguments max_buffers ...
  RequestedSizes,     \* ... and buffer_size that new may get
  MAX_BUFFERS,        \* upper end of the first clamp, 256
  SMALL_BUFFER_SIZE,  \* both ends of the second one
  MAX_BUFFER_SIZE,
  Lengths             \* lengths a user gives its buffer (DerefMut to Vec)

ASSUME BufferPoolAssumption ==
  /\ IsFiniteSet(Users)
  /\ RequestedBuffers \subseteq Nat /\ RequestedSizes \subseteq Nat
  /\ Lengths \subseteq Nat
  /\ MAX_BUFFERS \in Nat \ {0}
  /\ SMALL_BUFFER_SIZE \in Nat \ {0} /\ MAX_BUFFER_SIZE \in Nat
  /\ SMALL_BUFFER_SIZE <= MAX_BUFFER_SIZE

VARIABLES
  shared,       \* SyncBufferPool or BufferPool
  max_buffers,
  buffer_size,
  buffers,      \* the lengths of the pooled buffers, the one returned last at the end
  stage,        \* of each user: "idle", "allocates", "holds"
  length,       \* of the buffer a user holds
  emptied       \* history: a buffer of length 0 was returned

pool == <<shared, max_buffers, buffer_size, buffers, stage, length, emptied>>

Clamp(n, low, high) == IF n < low THEN low ELSE IF n > high THEN high ELSE n

\* mutant of ClampSize: the size is taken as it is requested
UnclampedSize(size) == size

ClampBuffers(count) == Clamp(count, 1, MAX_BUFFERS)
ClampSize(size) == Clamp(size, SMALL_BUFFER_SIZE, MAX_BUFFER_SIZE)

\* new
PoolInit ==
  /\ shared \in BOOLEAN
  /\ max_buffers \in {ClampBuffers(count) : count \in RequestedBuffers}
  /\ buffer_size \in {ClampSize(size) : size \in RequestedSizes}
  /\ buffers = <<>>
  /\ stage = [u \in Users |-> "idle"]
  /\ length = [u \in Users |-> 0]
  /\ emptied = FALSE

Holds(u, len) ==
  /\ stage' = [stage EXCEPT ![u] = "holds"]
  /\ length' = [length EXCEPT ![u] = len]

\* mutant of Pop: the buffer is handed out and stays in the pool
PopClone(u) ==
  /\ Holds(u, Last(buffers))
  /\ UNCHANGED buffers

Pop(u) ==
  /\ Holds(u, Last(buffers))
  /\ buffers' = Front(buffers)

\* BufferPool::get, and SyncBufferPool::get up to the end of its lock
get(u) ==
  /\ stage[u] = "idle"
  /\ \/ buffers # <<>> /\ Pop(u)
     \/ buffers = <<>> /\ ~shared /\ Holds(u, buffer_size) /\ UNCHANGED buffers
     \/ buffers = <<>> /\ shared
          /\ stage' = [stage EXCEPT ![u] = "allocates"] /\ UNCHANGED <<buffers, length>>
  /\ UNCHANGED <<shared, max_buffers, buffer_size, emptied>>

\* the rest of SyncBufferPool::get, while others return theirs
Allocate(u) ==
  /\ stage[u] = "allocates"
  /\ Holds(u, buffer_size)
  /\ UNCHANGED <<shared, max_buffers, buffer_size, buffers, emptied>>

\* clear, resize, truncate, ... of the Vec
deref_mut(u, len) ==
  /\ stage[u] = "holds"
  /\ length' = [length EXCEPT ![u] = len]
  /\ UNCHANGED <<shared, max_buffers, buffer_size, buffers, stage, emptied>>

\* the buffer leaves the pool for good
into_vec(u) ==
  /\ stage[u] = "holds"
  /\ stage' = [stage EXCEPT ![u] = "idle"]
  /\ UNCHANGED <<shared, max_buffers, buffer_size, buffers, length, emptied>>

\* return_buffer: a full pool lets the buffer go
return_buffer(len) ==
  IF Len(buffers) < max_buffers
  THEN buffers' = Append(buffers, len) /\ emptied' = (emptied \/ len = 0)
  ELSE UNCHANGED <<buffers, emptied>>

drop(u) ==
  /\ stage[u] = "holds"
  /\ return_buffer(length[u])
  /\ stage' = [stage EXCEPT ![u] = "idle"]
  /\ UNCHANGED <<shared, max_buffers, buffer_size, length>>

Use(u) ==
  \/ get(u) \/ Allocate(u) \/ into_vec(u) \/ drop(u)
  \/ \E len \in Lengths : deref_mut(u, len)

PoolNext == \E u \in Users : Use(u)

PoolSpec == PoolInit /\ [][PoolNext]_pool

-----------------------------------------------------------------------------

\* Types of the pool's state; new gives neither a pool of no buffers nor buffers
\* of no bytes, whatever it is asked for.
PoolTypeOK ==
  /\ shared \in BOOLEAN
  /\ max_buffers \in 1..MAX_BUFFERS
  /\ buffer_size \in SMALL_BUFFER_SIZE..MAX_BUFFER_SIZE
  /\ buffers \in Seq(Nat)
  /\ stage \in [Users -> {"idle", "allocates", "holds"}]
  /\ length \in [Users -> Nat]
  /\ emptied \in BOOLEAN

\* users that have a buffer or are about to
Busy == {u \in Users : stage[u] # "idle"}

\* The memory is bounded by the users and not by how often they call: the pooled
\* buffers and those in use, or about to be allocated outside the lock, are never
\* more than there are users, and no more than max_buffers are pooled.
AllocatesForUsers ==
  /\ Len(buffers) <= max_buffers
  /\ Len(buffers) + Cardinality(Busy) <= Cardinality(Users)
=============================================================================
