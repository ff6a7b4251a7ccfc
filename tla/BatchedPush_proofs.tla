-------------------------- MODULE BatchedPush_proofs --------------------------
(***************************************************************************)
(* What BatchedPush checks on three users and three items, for every       *)
(* number of users, items, sizes and lookahead counts.                     *)
(***************************************************************************)
EXTENDS BatchedPush, FiniteSetTheorems, TLAPS

QueueTypeOK ==
  /\ items \in Nat /\ current_index \in Nat /\ lookahead_count \in Nat
  /\ current_index <= items /\ lookahead_count >= 1

PushTypeOK ==
  /\ pushing \in BOOLEAN /\ left \in Nat /\ cut \in BOOLEAN
  /\ pushing => stage[Writer] = "holds"

TypeInv == PoolTypeOK /\ QueueTypeOK /\ PushTypeOK

\* a buffer of no bytes comes from the pool only when one was returned to it, and
\* the push under way has no such buffer from anywhere else
NoneEmptyButReturned ==
  /\ (\E i \in DOMAIN buffers : buffers[i] = 0) => emptied
  /\ pushing /\ length[Writer] = 0 => emptied
  /\ cut => emptied

USE DEF Clamp

-----------------------------------------------------------------------------
(* What the operators the actions are built from do. *)

\* Clamped between two bounds, a number is between them.
LEMMA ClampBounds ==
  ASSUME NEW n \in Nat, NEW low \in Nat, NEW high \in Nat, low <= high
  PROVE  Clamp(n, low, high) \in low..high
  OBVIOUS

\* What pop takes from the buffers, and what it leaves.
LEMMA PopFacts ==
  ASSUME NEW s \in Seq(Nat), s # <<>>
  PROVE  /\ Front(s) \in Seq(Nat) /\ Len(Front(s)) = Len(s) - 1
         /\ Last(s) = s[Len(s)] /\ Last(s) \in Nat /\ Len(s) \in DOMAIN s
         /\ \A i \in DOMAIN Front(s) : i \in DOMAIN s /\ Front(s)[i] = s[i]
<1>1. Len(s) \in Nat /\ Len(s) >= 1 /\ DOMAIN s = 1..Len(s)
  OBVIOUS
<1>2. Front(s) = [i \in 1..(Len(s) - 1) |-> s[i]]
  BY <1>1 DEF Front
<1>3. Front(s) \in Seq(Nat) /\ Len(Front(s)) = Len(s) - 1
  BY <1>1, <1>2
<1>4. Last(s) = s[Len(s)] /\ Last(s) \in Nat
  BY <1>1 DEF Last
<1> QED
  BY <1>1, <1>2, <1>3, <1>4

\* get, as far as the pool is concerned
LEMMA GetStep ==
  ASSUME PoolTypeOK, NEW u \in Users, get(u)
  PROVE  /\ PoolTypeOK'
         /\ stage[u] = "idle"
         /\ stage' = [stage EXCEPT ![u] = stage'[u]] /\ stage'[u] # "idle"
         /\ \/ Len(buffers') = Len(buffers) - 1
            \/ Len(buffers) = 0 /\ Len(buffers') = 0
         /\ \A i \in DOMAIN buffers' : i \in DOMAIN buffers /\ buffers'[i] = buffers[i]
         /\ stage'[u] = "holds" => \/ \E i \in DOMAIN buffers : length'[u] = buffers[i]
                                   \/ length'[u] = buffer_size
         /\ length' = [length EXCEPT ![u] = length'[u]]
         /\ UNCHANGED <<shared, max_buffers, buffer_size, emptied>>
<1> USE DEF PoolTypeOK, Holds
<1>1. CASE buffers # <<>> /\ Pop(u)
  <2>1. /\ Front(buffers) \in Seq(Nat) /\ Len(Front(buffers)) = Len(buffers) - 1
        /\ Last(buffers) = buffers[Len(buffers)] /\ Last(buffers) \in Nat
        /\ Len(buffers) \in DOMAIN buffers
        /\ \A i \in DOMAIN Front(buffers) : i \in DOMAIN buffers /\ Front(buffers)[i] = buffers[i]
    BY <1>1, PopFacts
  <2>2. /\ buffers' = Front(buffers)
        /\ stage' = [stage EXCEPT ![u] = "holds"]
        /\ length' = [length EXCEPT ![u] = Last(buffers)]
        /\ stage[u] = "idle"
        /\ UNCHANGED <<shared, max_buffers, buffer_size, emptied>>
    BY <1>1 DEF Pop, get
  <2>3. PoolTypeOK'
    BY <2>1, <2>2
  <2>4. stage'[u] = "holds" /\ length'[u] = Last(buffers)
    BY <2>2
  <2> QED
    BY <2>1, <2>2, <2>3, <2>4
<1>2. CASE buffers = <<>> /\ ~shared /\ Holds(u, buffer_size) /\ UNCHANGED buffers
  <2>1. buffer_size \in Nat
    BY BufferPoolAssumption
  <2>2. /\ stage' = [stage EXCEPT ![u] = "holds"]
        /\ length' = [length EXCEPT ![u] = buffer_size]
        /\ stage[u] = "idle"
        /\ UNCHANGED <<shared, max_buffers, buffer_size, buffers, emptied>>
    BY <1>2 DEF get
  <2>3. stage'[u] = "holds" /\ length'[u] = buffer_size
    BY <2>2
  <2> QED
    BY <1>2, <2>1, <2>2, <2>3
<1>3. CASE /\ buffers = <<>> /\ shared
           /\ stage' = [stage EXCEPT ![u] = "allocates"] /\ UNCHANGED <<buffers, length>>
  <2>1. /\ stage[u] = "idle" /\ stage'[u] = "allocates"
        /\ UNCHANGED <<shared, max_buffers, buffer_size, buffers, length, emptied>>
    BY <1>3 DEF get
  <2> QED
    BY <1>3, <2>1
<1> QED
  BY <1>1, <1>2, <1>3 DEF get

\* drop, as far as the pool is concerned
LEMMA DropStep ==
  ASSUME PoolTypeOK, NEW u \in Users, drop(u)
  PROVE  /\ PoolTypeOK'
         /\ stage[u] = "holds" /\ stage' = [stage EXCEPT ![u] = "idle"]
         /\ \/ buffers' = Append(buffers, length[u]) /\ Len(buffers) < max_buffers
                 /\ emptied' = (emptied \/ length[u] = 0)
            \/ UNCHANGED <<buffers, emptied>>
         /\ UNCHANGED <<shared, max_buffers, buffer_size, length>>
<1>1. /\ stage[u] = "holds" /\ stage' = [stage EXCEPT ![u] = "idle"]
      /\ UNCHANGED <<shared, max_buffers, buffer_size, length>>
      /\ length[u] \in Nat
  BY DEF PoolTypeOK, drop
<1>2. CASE Len(buffers) < max_buffers
  <2>1. buffers' = Append(buffers, length[u]) /\ emptied' = (emptied \/ length[u] = 0)
    BY <1>2 DEF drop, return_buffer
  <2>2. buffers' \in Seq(Nat)
    BY <1>1, <2>1 DEF PoolTypeOK
  <2>3. emptied' \in BOOLEAN
    BY <2>1
  <2> QED
    BY <1>1, <1>2, <2>1, <2>2, <2>3 DEF PoolTypeOK
<1>3. CASE ~(Len(buffers) < max_buffers)
  <2>1. UNCHANGED <<buffers, emptied>>
    BY <1>3 DEF drop, return_buffer
  <2> QED
    BY <1>1, <2>1 DEF PoolTypeOK
<1> QED
  BY <1>2, <1>3

-----------------------------------------------------------------------------
(* Types. *)

\* What a user does with the pool keeps its types and the other users' state.
LEMMA UseTypes ==
  ASSUME PoolTypeOK, NEW u \in Users, Use(u)
  PROVE  PoolTypeOK' /\ \A v \in Users \ {u} : stage'[v] = stage[v] /\ length'[v] = length[v]
<1>1. CASE get(u)
  BY <1>1, GetStep DEF PoolTypeOK
<1>2. CASE Allocate(u)
  BY <1>2, BufferPoolAssumption DEF Allocate, Holds, PoolTypeOK
<1>3. CASE into_vec(u)
  BY <1>3 DEF into_vec, PoolTypeOK
<1>4. CASE drop(u)
  BY <1>4, DropStep DEF PoolTypeOK
<1>5. CASE \E len \in Lengths : deref_mut(u, len)
  BY <1>5, BufferPoolAssumption DEF deref_mut, PoolTypeOK
<1> QED
  BY <1>1, <1>2, <1>3, <1>4, <1>5 DEF Use

\* Every operation of the queue keeps its types.
LEMMA QueueTypes ==
  ASSUME QueueTypeOK,
         \/ Queue!advance
         \/ \E count \in Counts : Queue!set_lookahead_count(count)
         \/ \E n \in 0..MaxItems : Queue!extend_items(n)
  PROVE  QueueTypeOK'
<1> USE DEF QueueTypeOK
<1>1. CASE Queue!advance
  BY <1>1 DEF Queue!advance
<1>2. CASE \E count \in Counts : Queue!set_lookahead_count(count)
  BY <1>2, BatchedPushAssumption DEF Queue!set_lookahead_count, Queue!ClampCount
<1>3. CASE \E n \in 0..MaxItems : Queue!extend_items(n)
  BY <1>3, BatchedPushAssumption DEF Queue!extend_items
<1> QED
  BY <1>1, <1>2, <1>3

\* The types are right at first.
LEMMA InitTypes == Init => TypeInv
<1> SUFFICES ASSUME Init PROVE TypeInv
  OBVIOUS
<1>1. PoolTypeOK
  <2>1. \A count \in RequestedBuffers : ClampBuffers(count) \in 1..MAX_BUFFERS
    BY BufferPoolAssumption DEF ClampBuffers
  <2>2. \A size \in RequestedSizes : ClampSize(size) \in SMALL_BUFFER_SIZE..MAX_BUFFER_SIZE
    BY BufferPoolAssumption DEF ClampSize
  <2>3. /\ max_buffers \in 1..MAX_BUFFERS
        /\ buffer_size \in SMALL_BUFFER_SIZE..MAX_BUFFER_SIZE
    BY <2>1, <2>2, Zenon DEF Init, PoolInit
  <2>4. buffers \in Seq(Nat)
    BY DEF Init, PoolInit
  <2>6. shared \in BOOLEAN /\ emptied \in BOOLEAN
    BY Zenon DEF Init, PoolInit
  <2>5. /\ stage \in [Users -> {"idle", "allocates", "holds"}]
        /\ length \in [Users -> Nat]
    BY DEF Init, PoolInit
  <2> QED
    BY <2>3, <2>4, <2>5, <2>6, Zenon DEF PoolTypeOK
<1>2. QueueTypeOK
  BY BatchedPushAssumption DEF Init, Queue!QueueInit, QueueTypeOK, Queue!ClampCount
<1>3. PushTypeOK
  BY DEF Init, PushTypeOK
<1> QED
  BY <1>1, <1>2, <1>3 DEF TypeInv

\* Every step keeps them.
LEMMA StepTypes == TypeInv /\ [Next]_vars => TypeInv'
<1> SUFFICES ASSUME TypeInv, [Next]_vars PROVE TypeInv'
  OBVIOUS
<1> USE DEF TypeInv
<1>w. Writer \in Users /\ FileSizes \subseteq Nat
  BY BatchedPushAssumption
<1>1. CASE StartPush
  <2>1. PoolTypeOK' /\ stage'[Writer] = "holds"
    <3>1. PoolTypeOK'
      BY <1>1, <1>w, GetStep DEF StartPush
    <3>2. stage'[Writer] = "holds"
      BY <1>1, <1>w DEF StartPush, get, Pop, Holds, PoolTypeOK
    <3> QED
      BY <3>1, <3>2
  <2>2. QueueTypeOK'
    BY <1>1, QueueTypes DEF StartPush
  <2> QED
    BY <1>1, <1>w, <2>1, <2>2 DEF StartPush, PushTypeOK
<1>2. CASE \E n \in 1..left : Read(n)
  BY <1>2 DEF Read, PushTypeOK, QueueTypeOK, PoolTypeOK, pool, queue
<1>3. CASE ReadEnds
  <2>1. PoolTypeOK'
    BY <1>3, <1>w, DropStep DEF ReadEnds
  <2> QED
    BY <1>3, <2>1 DEF ReadEnds, PushTypeOK, QueueTypeOK, queue
<1>4. CASE PushFails
  <2>1. PoolTypeOK'
    BY <1>4, <1>w, DropStep DEF PushFails
  <2> QED
    BY <1>4, <2>1 DEF PushFails, PushTypeOK, QueueTypeOK, queue
<1>5. CASE \E u \in Users : UsePool(u)
  <2>1. PICK u \in Users : UsePool(u)
    BY <1>5
  <2>2. PoolTypeOK' /\ (pushing => stage'[Writer] = stage[Writer])
    BY <2>1, <1>w, UseTypes DEF UsePool
  <2> QED
    BY <2>1, <2>2 DEF UsePool, PushTypeOK, QueueTypeOK, queue, push
<1>6. CASE UseQueue
  <2>1. QueueTypeOK'
    BY <1>6, QueueTypes DEF UseQueue
  <2> QED
    BY <1>6, <2>1 DEF UseQueue, PushTypeOK, PoolTypeOK, pool, push
<1>7. CASE UNCHANGED vars
  BY <1>7 DEF vars, pool, queue, push, PoolTypeOK, QueueTypeOK, PushTypeOK
<1> QED
  BY <1>1, <1>2, <1>3, <1>4, <1>5, <1>6, <1>7 DEF Next

\* Types of the pool, the queue and the push, for every size and count asked for
\* (BufferPool::new, PrefetchQueue::new).
THEOREM TypeCorrect == Spec => []TypeInv
<1>1. Init => TypeInv
  BY InitTypes
<1>2. TypeInv /\ [Next]_vars => TypeInv'
  BY StepTypes
<1> QED
  BY <1>1, <1>2, PTL DEF Spec

-----------------------------------------------------------------------------
(* Memory: Busy grows by the user that gets a buffer and shrinks by the one that
   gives it back; a get of a user that finds the pool empty is within the bound
   because that user is not busy. *)

\* There are at most as many busy users as users.
LEMMA BusyFacts ==
  ASSUME PoolTypeOK
  PROVE  /\ IsFiniteSet(Busy) /\ Cardinality(Busy) \in Nat
         /\ IsFiniteSet(Users) /\ Cardinality(Users) \in Nat
         /\ Cardinality(Busy) <= Cardinality(Users)
<1>1. Busy \subseteq Users
  BY DEF Busy
<1>2. IsFiniteSet(Users)
  BY BufferPoolAssumption
<1> QED
  BY <1>1, <1>2, FS_Subset, FS_CardinalityType

\* A user that takes or allocates a buffer is one more busy user.
LEMMA BusyGrows ==
  ASSUME PoolTypeOK, NEW u \in Users, stage[u] = "idle",
         stage' = [stage EXCEPT ![u] = stage'[u]], stage'[u] # "idle"
  PROVE  Cardinality(Busy') = Cardinality(Busy) + 1
<1>1. Busy' = Busy \cup {u} /\ u \notin Busy
  BY DEF Busy, PoolTypeOK
<1> QED
  BY <1>1, BusyFacts, FS_AddElement

\* A user that returns its buffer is one less.
LEMMA BusyShrinks ==
  ASSUME PoolTypeOK, NEW u \in Users, stage[u] = "holds",
         stage' = [stage EXCEPT ![u] = "idle"]
  PROVE  Cardinality(Busy') = Cardinality(Busy) - 1
<1>1. Busy' = Busy \ {u} /\ u \in Busy
  BY DEF Busy, PoolTypeOK
<1> QED
  BY <1>1, BusyFacts, FS_RemoveElement

\* What a user does with the pool keeps the bound on what was allocated.
LEMMA UseBounded ==
  ASSUME PoolTypeOK, AllocatesForUsers, NEW u \in Users, Use(u)
  PROVE  AllocatesForUsers'
<1>0. PoolTypeOK'
  BY UseTypes
<1>n. /\ Len(buffers) \in Nat /\ max_buffers \in Nat
      /\ Cardinality(Busy) \in Nat /\ Cardinality(Users) \in Nat
      /\ Cardinality(Busy') \in Nat /\ Cardinality(Busy') <= Cardinality(Users)
  <2>1. Cardinality(Busy)' \in Nat /\ Cardinality(Busy)' <= Cardinality(Users)
    <3>1. Busy' \subseteq Users /\ IsFiniteSet(Users)
      BY BufferPoolAssumption DEF Busy
    <3> QED
      BY <3>1, FS_Subset, FS_CardinalityType
  <2> QED
    BY <2>1, BusyFacts, BufferPoolAssumption DEF PoolTypeOK
<1>1. CASE get(u)
  <2>1. Cardinality(Busy') = Cardinality(Busy) + 1
    BY <1>1, GetStep, BusyGrows
  <2>2. /\ \/ Len(buffers') = Len(buffers) - 1
           \/ Len(buffers) = 0 /\ Len(buffers') = 0
        /\ max_buffers' = max_buffers
    BY <1>1, GetStep
  <2> QED
    BY <2>1, <2>2, <1>n DEF AllocatesForUsers
<1>2. CASE Allocate(u)
  <2>1. Busy' = Busy
    BY <1>2 DEF Allocate, Holds, Busy, PoolTypeOK
  <2> QED
    BY <1>2, <2>1 DEF Allocate, AllocatesForUsers
<1>3. CASE into_vec(u)
  <2>1. Cardinality(Busy') = Cardinality(Busy) - 1
    BY <1>3, BusyShrinks DEF into_vec
  <2> QED
    BY <1>3, <2>1, <1>n DEF into_vec, AllocatesForUsers
<1>4. CASE drop(u)
  <2>1. Cardinality(Busy') = Cardinality(Busy) - 1
    BY <1>4, DropStep, BusyShrinks
  <2>2. /\ \/ Len(buffers') = Len(buffers) + 1 /\ Len(buffers) < max_buffers
           \/ Len(buffers') = Len(buffers)
        /\ max_buffers' = max_buffers
    BY <1>4, DropStep DEF PoolTypeOK
  <2> QED
    BY <2>1, <2>2, <1>n DEF AllocatesForUsers
<1>5. CASE \E len \in Lengths : deref_mut(u, len)
  <2>1. UNCHANGED <<buffers, max_buffers>> /\ Busy' = Busy
    BY <1>5 DEF deref_mut, Busy
  <2> QED
    BY <2>1 DEF AllocatesForUsers
<1> QED
  BY <1>1, <1>2, <1>3, <1>4, <1>5 DEF Use

\* Nothing is allocated at first.
LEMMA InitBounded == Init => AllocatesForUsers
<1> SUFFICES ASSUME Init PROVE AllocatesForUsers
  OBVIOUS
<1>1. Busy = {} /\ buffers = <<>>
  BY DEF Init, PoolInit, Busy
<1>2. max_buffers \in Nat
  BY InitTypes, BufferPoolAssumption DEF TypeInv, PoolTypeOK
<1>3. Cardinality(Busy) = 0 /\ Cardinality(Users) \in Nat
  BY <1>1, FS_EmptySet, FS_CardinalityType, BufferPoolAssumption
<1> QED
  BY <1>1, <1>2, <1>3 DEF AllocatesForUsers

\* Every step keeps the bound.
LEMMA StepBounded == TypeInv /\ AllocatesForUsers /\ [Next]_vars => AllocatesForUsers'
<1> SUFFICES ASSUME TypeInv, AllocatesForUsers, [Next]_vars PROVE AllocatesForUsers'
  OBVIOUS
<1>p. PoolTypeOK /\ Writer \in Users
  BY BatchedPushAssumption DEF TypeInv
<1>1. CASE \E u \in Users : Use(u)
  BY <1>1, <1>p, UseBounded
<1>2. CASE UNCHANGED pool
  BY <1>2 DEF pool, AllocatesForUsers, Busy
<1>3. ASSUME StartPush \/ ReadEnds \/ PushFails PROVE \E u \in Users : Use(u)
  BY <1>3, <1>p DEF StartPush, ReadEnds, PushFails, Use
<1>4. ASSUME \E u \in Users : UsePool(u) PROVE \E u \in Users : Use(u)
  BY <1>4 DEF UsePool
<1>5. ASSUME (\E n \in 1..left : Read(n)) \/ UseQueue \/ UNCHANGED vars PROVE UNCHANGED pool
  BY <1>5 DEF Read, UseQueue, vars
<1> QED
  BY <1>1, <1>2, <1>3, <1>4, <1>5 DEF Next

\* The pools never hold or cause more buffers than there are users, and never pool
\* more than max_buffers, in one thread or many (SyncBufferPool::get).
THEOREM MemoryBoundedByUsers == Spec => []AllocatesForUsers
<1>1. Init => TypeInv /\ AllocatesForUsers
  BY InitTypes, InitBounded
<1>2. TypeInv /\ AllocatesForUsers /\ [Next]_vars => (TypeInv /\ AllocatesForUsers)'
  BY StepTypes, StepBounded
<1> QED
  BY <1>1, <1>2, PTL DEF Spec

-----------------------------------------------------------------------------
(* Data: NoneEmptyButReturned makes WholeUnlessEmptied inductive. *)

\* a get that leaves no buffer of length 0 unless one was returned
LEMMA GetNonEmpty ==
  ASSUME PoolTypeOK, (\E i \in DOMAIN buffers : buffers[i] = 0) => emptied,
         NEW u \in Users, get(u)
  PROVE  /\ (\E i \in DOMAIN buffers' : buffers'[i] = 0) => emptied'
         /\ stage'[u] = "holds" /\ length'[u] = 0 => emptied'
<1>1. emptied' = emptied
  BY GetStep
<1>2. \A i \in DOMAIN buffers' : i \in DOMAIN buffers /\ buffers'[i] = buffers[i]
  BY GetStep
<1>3. stage'[u] = "holds" => \/ \E i \in DOMAIN buffers : length'[u] = buffers[i]
                             \/ length'[u] = buffer_size
  BY GetStep
<1>4. buffer_size # 0
  BY BufferPoolAssumption DEF PoolTypeOK
<1> QED
  BY <1>1, <1>2, <1>3, <1>4, Zenon

\* A buffer without bytes is in the pool only if a user has returned one.
LEMMA UseNonEmpty ==
  ASSUME PoolTypeOK, (\E i \in DOMAIN buffers : buffers[i] = 0) => emptied,
         NEW u \in Users, Use(u)
  PROVE  /\ (\E i \in DOMAIN buffers' : buffers'[i] = 0) => emptied'
         /\ emptied => emptied'
<1>1. CASE get(u)
  BY <1>1, GetNonEmpty, GetStep
<1>2. CASE drop(u)
  <2>1. CASE buffers' = Append(buffers, length[u]) /\ emptied' = (emptied \/ length[u] = 0)
    <3>1. ASSUME NEW i \in DOMAIN buffers', buffers'[i] = 0
          PROVE  (i \in DOMAIN buffers /\ buffers[i] = 0) \/ length[u] = 0
      BY <2>1, <3>1 DEF PoolTypeOK
    <3> QED
      BY <2>1, <3>1, Zenon
  <2>2. CASE UNCHANGED <<buffers, emptied>>
    BY <2>2
  <2> QED
    BY <1>2, <2>1, <2>2, DropStep
<1>3. CASE Allocate(u) \/ into_vec(u) \/ \E len \in Lengths : deref_mut(u, len)
  <2>1. UNCHANGED <<buffers, emptied>>
    BY <1>3 DEF Allocate, into_vec, deref_mut
  <2> QED
    BY <2>1
<1> QED
  BY <1>1, <1>2, <1>3 DEF Use

\* There is none at first.
LEMMA InitNonEmpty == Init => NoneEmptyButReturned
  BY DEF Init, PoolInit, NoneEmptyButReturned

\* Every step keeps that.
LEMMA StepNonEmpty == TypeInv /\ NoneEmptyButReturned /\ [Next]_vars => NoneEmptyButReturned'
<1> SUFFICES ASSUME TypeInv, NoneEmptyButReturned, [Next]_vars PROVE NoneEmptyButReturned'
  OBVIOUS
<1> USE DEF TypeInv
<1>w. Writer \in Users
  BY BatchedPushAssumption
<1>t. TypeInv'
  BY StepTypes
<1>p. ASSUME NEW u \in Users, Use(u)
      PROVE  /\ (\E i \in DOMAIN buffers' : buffers'[i] = 0) => emptied'
             /\ emptied => emptied'
  BY <1>p, UseNonEmpty DEF NoneEmptyButReturned
<1>1. CASE StartPush
  <2>1. get(Writer) /\ Use(Writer) /\ UNCHANGED cut /\ pushing'
    BY <1>1 DEF StartPush, Use
  <2>2. stage'[Writer] = "holds"
    BY <1>t, <2>1 DEF PushTypeOK
  <2>3. length'[Writer] = 0 => emptied'
    BY <1>w, <2>1, <2>2, GetNonEmpty DEF NoneEmptyButReturned
  <2> QED
    BY <1>w, <1>p, <2>1, <2>3 DEF NoneEmptyButReturned
<1>2. CASE \E n \in 1..left : Read(n)
  BY <1>2 DEF Read, pool, NoneEmptyButReturned
<1>3. CASE ReadEnds
  <2>1. Use(Writer) /\ pushing /\ ~pushing' /\ cut' = (cut \/ left > 0)
    BY <1>3 DEF ReadEnds, Use
  <2>2. left > 0 => length[Writer] = 0
    BY <1>3 DEF ReadEnds, PushTypeOK
  <2>3. cut' => emptied
    BY <2>1, <2>2, Zenon DEF NoneEmptyButReturned
  <2> QED
    BY <1>w, <1>p, <2>1, <2>3 DEF NoneEmptyButReturned
<1>4. CASE PushFails
  <2>1. Use(Writer) /\ ~pushing' /\ UNCHANGED cut
    BY <1>4 DEF PushFails, Use
  <2> QED
    BY <1>w, <1>p, <2>1 DEF NoneEmptyButReturned
<1>5. CASE \E u \in Users : UsePool(u)
  <2>1. PICK u \in Users : UsePool(u)
    BY <1>5
  <2>2. Use(u) /\ UNCHANGED <<pushing, cut>> /\ (pushing => u # Writer)
    BY <2>1 DEF UsePool, push
  <2>3. pushing => length'[Writer] = length[Writer]
    BY <1>w, <2>2, UseTypes
  <2> QED
    BY <1>p, <2>2, <2>3 DEF NoneEmptyButReturned
<1>6. CASE UseQueue \/ UNCHANGED vars
  <2>1. UNCHANGED <<buffers, emptied, length, pushing, cut>>
    BY <1>6 DEF UseQueue, vars, pool, push
  <2> QED
    BY <2>1 DEF NoneEmptyButReturned
<1> QED
  BY <1>1, <1>2, <1>3, <1>4, <1>5, <1>6 DEF Next

\* A batched push that succeeds has read its whole file unless a buffer of length
\* 0 was returned to the pool before (push_archive_entry_batched).
THEOREM PushesWholeFiles == Spec => []WholeUnlessEmptied
<1>1. Init => TypeInv /\ NoneEmptyButReturned
  BY InitTypes, InitNonEmpty
<1>2. TypeInv /\ NoneEmptyButReturned /\ [Next]_vars => (TypeInv /\ NoneEmptyButReturned)'
  BY StepTypes, StepNonEmpty
<1>3. NoneEmptyButReturned => WholeUnlessEmptied
  BY DEF NoneEmptyButReturned, WholeUnlessEmptied
<1> QED
  BY <1>1, <1>2, <1>3, PTL DEF Spec

-----------------------------------------------------------------------------
(* Hints: the item taken next is within the window hinted last. *)

\* Every operation of the queue keeps what was hinted ahead of what is taken.
LEMMA StepHinted ==
  ASSUME QueueTypeOK, HintedBeforeTaken,
         \/ Queue!advance
         \/ \E count \in Counts : Queue!set_lookahead_count(count)
         \/ \E n \in 0..MaxItems : Queue!extend_items(n)
  PROVE  HintedBeforeTaken'
<1> USE DEF HintedBeforeTaken, Queue!peek_upcoming, Queue!send_hints
<1>1. CASE Queue!advance
  <2>1. /\ current_index < items /\ current_index' = current_index + 1
        /\ items' = items /\ lookahead_count' = lookahead_count
        /\ hinted' = hinted \cup Queue!Window(current_index', lookahead_count', items')
    BY <1>1 DEF Queue!advance
  <2>2. current_index \in Queue!Window(current_index, lookahead_count, items)
    BY <2>1 DEF Queue!Window, QueueTypeOK
  <2>3. 0..(current_index' - 1) = 0..(current_index - 1) \cup {current_index}
    BY <2>1 DEF QueueTypeOK
  <2> QED
    BY <2>1, <2>2, <2>3
<1>2. CASE \E count \in Counts : Queue!set_lookahead_count(count)
  BY <1>2 DEF Queue!set_lookahead_count
<1>3. CASE \E n \in 0..MaxItems : Queue!extend_items(n)
  BY <1>3 DEF Queue!extend_items
<1> QED
  BY <1>1, <1>2, <1>3

\* Every item is hinted in an earlier call than the one that takes it, for every
\* lookahead and every way of adding items (PrefetchQueue::send_hints).
THEOREM HintsComeFirst == Spec => []HintedBeforeTaken
<1>1. Init => TypeInv /\ HintedBeforeTaken
  <2> SUFFICES ASSUME Init PROVE HintedBeforeTaken
    BY InitTypes
  <2>1. current_index = 0 /\ hinted = Queue!Window(0, lookahead_count, items)
    BY DEF Init, Queue!QueueInit
  <2>2. 0..(current_index - 1) = {}
    BY <2>1
  <2> QED
    BY <2>1, <2>2 DEF HintedBeforeTaken, Queue!peek_upcoming
<1>2. TypeInv /\ HintedBeforeTaken /\ [Next]_vars => (TypeInv /\ HintedBeforeTaken)'
  <2> SUFFICES ASSUME TypeInv, HintedBeforeTaken, [Next]_vars PROVE HintedBeforeTaken'
    BY StepTypes
  <2>1. CASE \/ Queue!advance
             \/ \E count \in Counts : Queue!set_lookahead_count(count)
             \/ \E n \in 0..MaxItems : Queue!extend_items(n)
    BY <2>1, StepHinted DEF TypeInv
  <2>2. CASE UNCHANGED queue
    BY <2>2 DEF queue, HintedBeforeTaken, Queue!peek_upcoming, Queue!Window
  <2>3. ASSUME StartPush \/ UseQueue
        PROVE  \/ Queue!advance
               \/ \E count \in Counts : Queue!set_lookahead_count(count)
               \/ \E n \in 0..MaxItems : Queue!extend_items(n)
    BY <2>3 DEF StartPush, UseQueue
  <2>4. ASSUME \/ \E n \in 1..left : Read(n)
               \/ ReadEnds \/ PushFails \/ UNCHANGED vars
               \/ \E u \in Users : UsePool(u)
        PROVE  UNCHANGED queue
    BY <2>4 DEF Read, ReadEnds, PushFails, UsePool, vars
  <2> QED
    BY <2>1, <2>2, <2>3, <2>4 DEF Next
<1> QED
  BY <1>1, <1>2, PTL DEF Spec
=============================================================================
