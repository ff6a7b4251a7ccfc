------------------------- MODULE ParallelSolid_proofs -------------------------
(***************************************************************************)
(* Proofs about ParallelSolid, for every number of entries, batch size,    *)
(* stream size and provider: its types, how many streams it asks the       *)
(* provider to hold, the order it asks in, and that what it pushes is one  *)
(* solid block (SolidPush).                                                *)
(*                                                                         *)
(* All rest on one number, the count k of streams taken so far: the taken  *)
(* streams are the first k, k lies in the current batch, and every stage   *)
(* of the loop fixes idx and the number of complete entries from it.       *)
(***************************************************************************)
EXTENDS ParallelSolid, FiniteSetTheorems, SequenceTheorems, TLAPS

\* where the loop stands when k streams were taken
Position(k) ==
  /\ taken = 0..(k - 1)
  /\ prepared = 0..(prefetch_end - 1)
  /\ current_idx <= k /\ k <= prefetch_end /\ prefetch_end <= current_idx + Batch
  /\ stage \in {"start", "prepare"} => k = prefetch_end /\ k = current_idx /\ Len(entry_stats) = k
  /\ stage = "start" => k = 0
  /\ stage = "prepare" => current_idx < N
  /\ stage = "get" => idx = k /\ k < prefetch_end /\ Len(entry_stats) = k
  /\ stage = "read" => idx + 1 = k /\ Len(entry_stats) = idx
  /\ stage \in {"flush", "done"} => Len(entry_stats) = N

IInv == TypeOK /\ \E k \in Nat : Position(k)

-----------------------------------------------------------------------------
(* Helpers *)

\* A batch is one stream or more, and at most what the provider holds.
LEMMA BatchBounds ==
  Batch \in Nat /\ 1 <= Batch /\ Batch <= Parallelism
BY ParallelAssumption DEF Batch, Lesser

\* It holds before the first batch.
LEMMA InitIInv == Init => IInv
<1>. SUFFICES ASSUME Init PROVE IInv
  OBVIOUS
<1>1. TypeOK
  <2>1. <<>> \in Seq(Nat) /\ 0 \in 0..N
    BY ParallelAssumption
  <2>. QED BY <2>1, Zenon DEF Init, TypeOK
<1>2. Position(0)
  <2>1. 0..(0 - 1) = {} /\ Len(<<>>) = 0
    OBVIOUS
  <2>. QED BY <2>1, BatchBounds DEF Init, Position
<1>. QED BY <1>1, <1>2 DEF IInv

-----------------------------------------------------------------------------
(* The steps that move the loop *)

\* Asking for the next batch keeps the invariant.
LEMMA PrepareKeeps ==
  ASSUME IInv, prepare_streams
  PROVE  IInv'
<1>. USE DEF prepare_streams
<1>1. PICK k \in Nat : Position(k)
  BY DEF IInv
<1>2. k = current_idx /\ k = prefetch_end /\ k < N /\ Len(entry_stats) = k
  BY <1>1 DEF Position
<1>3. prefetch_end' \in 0..N /\ k < prefetch_end' /\ prefetch_end' <= k + Batch
  BY <1>2, BatchBounds, ParallelAssumption DEF Lesser
<1>4. prepared' = 0..(prefetch_end' - 1)
  <2>1. prepared = 0..(k - 1)
    BY <1>1, <1>2 DEF Position
  <2>2. prepared' = prepared \cup (k..(prefetch_end' - 1))
    BY <1>2
  <2>. QED BY <2>1, <2>2, <1>3
<1>5. TypeOK'
  <2>1. prepared' \subseteq 0..(N - 1) /\ prepared \subseteq prepared'
    BY <1>3, <1>4, ParallelAssumption
  <2>. QED BY <2>1, <1>2, <1>3, ParallelAssumption DEF IInv, TypeOK
<1>6. Position(k)'
  BY <1>1, <1>2, <1>3, <1>4 DEF Position
<1>. QED BY <1>5, <1>6 DEF IInv

\* Taking the stream waited for makes it the last one taken.
LEMMA GetKeeps ==
  ASSUME IInv, get_stream_blocking
  PROVE  IInv'
<1>. USE DEF get_stream_blocking
<1>1. PICK k \in Nat : Position(k)
  BY DEF IInv
<1>2. idx = k /\ k < prefetch_end /\ Len(entry_stats) = k
  BY <1>1 DEF Position
<1>3. TypeOK'
  BY DEF IInv, TypeOK
<1>4. taken' = 0..((k + 1) - 1)
  BY <1>1, <1>2 DEF Position
<1>5. Position(k + 1)'
  <2>1. prefetch_end \in Nat /\ current_idx \in Nat
    BY DEF IInv, TypeOK
  <2>. QED BY <1>1, <1>2, <1>4, <2>1 DEF Position
<1>. QED BY <1>3, <1>5 DEF IInv

\* Reading keeps the place in the loop.
LEMMA ReadKeeps ==
  ASSUME IInv, NEW n \in 1..MaxSize, Read(n)
  PROVE  IInv'
<1>. USE DEF Read
<1>1. PICK k \in Nat : Position(k)
  BY DEF IInv
<1>2. n \in Nat /\ idx \in Nat
  BY ParallelAssumption DEF IInv, TypeOK
<1>3. written' \in Seq(Nat)
  <2>1. [j \in 1..n |-> idx] \in Seq(Nat)
    BY <1>2
  <2>2. written \in Seq(Nat)
    BY DEF IInv, TypeOK
  <2>3. written' = written \o [j \in 1..n |-> idx]
    OBVIOUS
  <2>. QED BY <2>1, <2>2, <2>3, ConcatProperties, Zenon
<1>4. TypeOK'
  BY <1>2, <1>3 DEF IInv, TypeOK, provider
<1>5. Position(k)'
  BY <1>1 DEF Position, provider
<1>. QED BY <1>4, <1>5 DEF IInv

\* The end of a stream leads to the next entry, the next batch or the end.
LEMMA ReadEndsKeeps ==
  ASSUME IInv, ReadEnds
  PROVE  IInv'
<1>. USE DEF ReadEnds
<1>1. PICK k \in Nat : Position(k)
  BY DEF IInv
<1>2. idx + 1 = k /\ Len(entry_stats) = idx /\ k <= prefetch_end
  BY <1>1 DEF Position
<1>3. idx \in Nat /\ prefetch_end \in 0..N /\ entry_stats \in Seq(Nat) /\ entry_size \in Nat
  BY ParallelAssumption DEF IInv, TypeOK
<1>4. entry_stats' \in Seq(Nat) /\ Len(entry_stats') = k
  BY <1>2, <1>3
<1>5. CASE idx + 1 < prefetch_end
  <2>1. idx' = idx + 1 /\ stage' = "get" /\ current_idx' = current_idx
    BY <1>5
  <2>2. TypeOK'
    BY <1>3, <1>4, <1>5, <2>1, ParallelAssumption DEF IInv, TypeOK, provider
  <2>3. Position(k)'
    BY <1>1, <1>2, <1>3, <1>4, <1>5, <2>1 DEF Position, provider
  <2>. QED BY <2>2, <2>3 DEF IInv
<1>6. CASE ~ (idx + 1 < prefetch_end)
  <2>1. current_idx' = prefetch_end /\ idx' = idx
        /\ stage' = IF prefetch_end < N THEN "prepare" ELSE "flush"
    BY <1>6
  <2>2. k = prefetch_end
    BY <1>2, <1>3, <1>6
  <2>3. TypeOK'
    BY <1>3, <1>4, <2>1, ParallelAssumption DEF IInv, TypeOK, provider
  <2>4. Position(k)'
    BY <1>1, <1>3, <1>4, <2>1, <2>2, BatchBounds, ParallelAssumption DEF Position, provider
  <2>. QED BY <2>3, <2>4 DEF IInv
<1>. QED BY <1>5, <1>6

\* Steps that change nothing but the stage keep the place in the loop.
LEMMA StageKeeps ==
  ASSUME IInv, TooFewStreams \/ Start \/ StreamMissing \/ EncodeFails \/ PushBlock
  PROVE  IInv'
<1>. USE DEF TooFewStreams, Start, StreamMissing, EncodeFails, PushBlock
<1>1. PICK k \in Nat : Position(k)
  BY DEF IInv
<1>2. TypeOK'
  <2>1. UNCHANGED <<current_idx, prefetch_end, idx, entry_size, entry_stats, written,
                    prepared, ready, lost, taken, cancelled>>
    BY DEF provider
  <2>2. stage' \in {"prepare", "done", "failed"}
    OBVIOUS
  <2>. QED BY <2>1, <2>2 DEF IInv, TypeOK
<1>3. Position(k)'
  <2>1. UNCHANGED <<current_idx, prefetch_end, idx, entry_stats, prepared, taken>>
    BY DEF provider
  <2>2. \/ stage' = "failed"
        \/ stage = "start" /\ stage' = IF N = 0 THEN "done" ELSE "prepare"
        \/ stage = "flush" /\ stage' = "done"
    OBVIOUS
  <2>3. prefetch_end \in 0..N
    BY DEF IInv, TypeOK
  <2>. QED BY <1>1, <2>1, <2>2, <2>3, ParallelAssumption DEF Position
<1>. QED BY <1>2, <1>3 DEF IInv

\* So does a failed read, which cancels the provider.
LEMMA ReadFailsKeeps ==
  ASSUME IInv, ReadFails
  PROVE  IInv'
<1>. USE DEF ReadFails
<1>1. PICK k \in Nat : Position(k)
  BY DEF IInv
<1>2. TypeOK'
  BY DEF IInv, TypeOK
<1>3. Position(k)'
  BY <1>1 DEF Position
<1>. QED BY <1>2, <1>3 DEF IInv

\* And whatever the provider does.
LEMMA ProviderKeeps ==
  ASSUME IInv, Provider
  PROVE  IInv'
<1>1. PICK k \in Nat : Position(k)
  BY DEF IInv
<1>2. PICK i \in prepared : Fetch(i) \/ FetchFails(i)
  BY DEF Provider
<1>3. UNCHANGED writing /\ UNCHANGED <<prepared, taken, cancelled>>
  BY <1>2 DEF Fetch, FetchFails
<1>4. ready' \subseteq prepared /\ lost' \subseteq prepared
  BY <1>2 DEF Fetch, FetchFails, IInv, TypeOK
<1>5. TypeOK'
  BY <1>3, <1>4 DEF IInv, TypeOK, writing
<1>6. Position(k)'
  BY <1>1, <1>3 DEF Position, writing
<1>. QED BY <1>5, <1>6 DEF IInv

\* The invariant is inductive.
LEMMA NextIInv == IInv /\ [Next]_vars => IInv'
<1>. SUFFICES ASSUME IInv, [Next]_vars PROVE IInv'
  OBVIOUS
<1>1. CASE Compressor
  <2>1. CASE TooFewStreams \/ Start \/ StreamMissing \/ EncodeFails \/ PushBlock
    BY <2>1, StageKeeps
  <2>2. CASE prepare_streams
    BY <2>2, PrepareKeeps
  <2>3. CASE get_stream_blocking
    BY <2>3, GetKeeps
  <2>4. CASE \E n \in 1..MaxSize : Read(n)
    BY <2>4, ReadKeeps
  <2>5. CASE ReadEnds
    BY <2>5, ReadEndsKeeps
  <2>6. CASE ReadFails
    BY <2>6, ReadFailsKeeps
  <2>. QED BY <1>1, <2>1, <2>2, <2>3, <2>4, <2>5, <2>6 DEF Compressor
<1>2. CASE Provider
  BY <1>2, ProviderKeeps
<1>3. CASE UNCHANGED vars
  <2>1. PICK k \in Nat : Position(k)
    BY DEF IInv
  <2>2. TypeOK'
    BY <1>3 DEF IInv, TypeOK, vars, writing, provider
  <2>3. Position(k)'
    BY <1>3, <2>1 DEF Position, vars, writing, provider
  <2>. QED BY <2>2, <2>3 DEF IInv
<1>. QED BY <1>1, <1>2, <1>3 DEF Next

\* The invariant holds in every state of the push.
THEOREM Inductive == Spec => []IInv
BY InitIInv, NextIInv, PTL DEF Spec

-----------------------------------------------------------------------------
(* What it implies *)

\* At most a batch of streams is told of and not taken.
LEMMA FewPrepared == IInv => WithinParallelism
<1>. SUFFICES ASSUME IInv PROVE WithinParallelism
  OBVIOUS
<1>1. PICK k \in Nat : Position(k)
  BY DEF IInv
<1>2. prefetch_end \in Nat /\ current_idx \in Nat
  BY DEF IInv, TypeOK
<1>3. prepared \ taken = k..(prefetch_end - 1)
  BY <1>1, <1>2 DEF Position
<1>4. Cardinality(k..(prefetch_end - 1)) <= Batch
  <2>1. Cardinality(k..(prefetch_end - 1))
          = IF k > prefetch_end - 1 THEN 0 ELSE (prefetch_end - 1) - k + 1
    BY <1>2, FS_Interval
  <2>2. prefetch_end <= k + Batch
    BY <1>1, <1>2, BatchBounds DEF Position
  <2>. QED BY <1>2, <2>1, <2>2, BatchBounds
<1>5. Cardinality(k..(prefetch_end - 1)) \in Nat
  BY <1>2, FS_Interval, FS_CardinalityType
<1>6. Cardinality(k..(prefetch_end - 1)) <= Parallelism
  BY <1>4, <1>5, BatchBounds, ParallelAssumption
<1>. QED BY <1>3, <1>6, Zenon DEF WithinParallelism

\* The taken streams are the first ones, the next is the one waited for.
LEMMA InOrderOfEntries == IInv => AsksInOrder
<1>. SUFFICES ASSUME IInv PROVE AsksInOrder
  OBVIOUS
<1>1. PICK k \in Nat : Position(k)
  BY DEF IInv
<1>2. prefetch_end \in Nat
  BY DEF IInv, TypeOK
<1>3. Cardinality(taken) = k
  <2>1. Cardinality(0..(k - 1)) = IF 0 > k - 1 THEN 0 ELSE (k - 1) - 0 + 1
    BY FS_Interval
  <2>. QED BY <1>1, <2>1 DEF Position
<1>4. stage = "get" => idx \in prepared \ taken
  BY <1>1, <1>2 DEF Position
<1>. QED BY <1>1, <1>3, <1>4 DEF Position, AsksInOrder

\* Types of the parallel solid push: its place in the entries stays within
\* them, and the provider only holds streams it was told of.
THEOREM TypeCorrect == Spec => []TypeOK
<1>1. IInv => TypeOK
  BY DEF IInv
<1>. QED BY <1>1, Inductive, PTL

\* The compressor never tells the provider of more streams, before taking
\* them, than parallelism() says it can buffer (batch_size.min(parallelism())).
THEOREM ProviderNotOverfilled == Spec => []WithinParallelism
BY FewPrepared, Inductive, PTL

\* prepare_streams and get_stream_blocking name the entries in their order,
\* and every entry has its statistics when the block is pushed.
THEOREM AskedInOrder == Spec => []AsksInOrder
BY InOrderOfEntries, Inductive, PTL

-----------------------------------------------------------------------------
(* The push is one solid block *)

BlockVars == <<written, entry_stats, BlockOutcome>>

\* The Cardinality that SolidPush brings along is that of FiniteSets.
LEMMA SameCardinality ==
  ASSUME NEW S
  PROVE  Block!Cardinality(S) = Cardinality(S)
BY Zenon DEF Block!Cardinality, Cardinality

\* The bytes written belong to entries that are complete or being read, and
\* entry_size counts those of the one being read.
Counted ==
  /\ stage \in {"start", "prepare", "get", "flush"}
       => \A j \in DOMAIN written : written[j] < Len(entry_stats)
  /\ stage = "read" => \A j \in DOMAIN written : written[j] <= Len(entry_stats)
  /\ stage = "read" => entry_size = Block!BytesOf(Len(entry_stats))

\* Bytes of the entry being read come behind those written before and add to
\* its count.
LEMMA ReadAppends ==
  ASSUME IInv, Counted, NEW n \in 1..MaxSize, Read(n)
  PROVE  /\ n \in Nat \ {0} /\ Len(entry_stats) = idx /\ idx < N
         /\ written \in Seq(Nat) /\ written' \in Seq(Nat)
         /\ Len(written') = Len(written) + n
         /\ \A j \in 1..Len(written) : written'[j] = written[j]
         /\ \A j \in (Len(written) + 1)..Len(written') : written'[j] = idx
<1>. DEFINE s == [j \in 1..n |-> idx]
<1>1. PICK k \in Nat : Position(k)
  BY DEF IInv
<1>2. /\ idx \in Nat /\ prefetch_end \in 0..N /\ written \in Seq(Nat)
      /\ n \in Nat \ {0}
  BY ParallelAssumption DEF IInv, TypeOK
<1>3. Len(entry_stats) = idx /\ idx + 1 = k /\ k <= prefetch_end
  BY <1>1 DEF Position, Read
<1>4. s \in Seq(Nat) /\ Len(s) = n /\ \A j \in 1..n : s[j] = idx
  BY <1>2
<1>5. written' = written \o s
  BY DEF Read
<1>. HIDE DEF s
<1>6. /\ written' \in Seq(Nat) /\ Len(written') = Len(written) + n
      /\ \A j \in 1..Len(written) + n :
           written'[j] = IF j <= Len(written) THEN written[j] ELSE s[j - Len(written)]
  BY <1>2, <1>4, <1>5, ConcatProperties
<1>. QED BY <1>2, <1>3, <1>4, <1>6, ParallelAssumption, SMTT(30)

\* Counting the bytes of the entry being read.
LEMMA ReadCounts ==
  ASSUME IInv, Counted, NEW n \in 1..MaxSize, Read(n)
  PROVE  Counted'
<1>. DEFINE L == Len(written)
            i == Len(entry_stats)
            Old == {j \in DOMAIN written : written[j] = i}
            New == (L + 1)..(L + n)
<1>1. /\ n \in Nat /\ written \in Seq(Nat) /\ written' \in Seq(Nat) /\ i \in Nat
      /\ Len(written') = L + n /\ L \in Nat /\ i = idx
      /\ \A j \in 1..L : written'[j] = written[j]
      /\ \A j \in (L + 1)..Len(written') : written'[j] = i
  <2>1. n \in Nat /\ written \in Seq(Nat) /\ entry_stats \in Seq(Nat)
    BY ParallelAssumption DEF IInv, TypeOK
  <2>2. L \in Nat /\ i \in Nat
    BY <2>1
  <2>3. /\ written' \in Seq(Nat) /\ Len(written') = L + n
        /\ \A j \in 1..L : written'[j] = written[j]
        /\ \A j \in (L + 1)..Len(written') : written'[j] = i
        /\ i = idx
    BY ReadAppends
  <2>. QED BY <2>1, <2>2, <2>3
<1>2. /\ stage = "read" /\ stage' = "read" /\ entry_size' = entry_size + n
      /\ entry_stats' = entry_stats
  BY DEF Read
<1>3. DOMAIN written = 1..L /\ DOMAIN written' = 1..(L + n)
  BY <1>1
<1>4. {j \in DOMAIN written' : written'[j] = i} = Old \cup New /\ Old \cap New = {}
  BY <1>1, <1>3, SMTT(30)
<1>5. IsFiniteSet(Old) /\ IsFiniteSet(New) /\ Cardinality(New) = n
  <2>1. Old \in SUBSET (1..L)
    BY <1>3
  <2>2. IsFiniteSet(1..L) /\ IsFiniteSet(New)
    BY <1>1, FS_Interval
  <2>3. Cardinality(New) = IF L + 1 > L + n THEN 0 ELSE (L + n) - (L + 1) + 1
    BY <1>1, FS_Interval
  <2>. QED BY <1>1, <2>1, <2>2, <2>3, FS_Subset
<1>6. Cardinality(Old \cup New) = Cardinality(Old) + n
  <2>1. Cardinality(Old) \in Nat
    BY <1>5, FS_CardinalityType
  <2>2. Cardinality(Old \cup New) = Cardinality(Old) + Cardinality(New) - Cardinality({})
    BY <1>4, <1>5, FS_Union
  <2>. QED BY <1>1, <1>5, <2>1, <2>2, FS_EmptySet
<1>7. entry_size = Cardinality(Old)
  BY <1>2, SameCardinality DEF Counted, Block!BytesOf
<1>8. entry_size' = Block!BytesOf(Len(entry_stats))'
  <2>1. Block!BytesOf(Len(entry_stats))'
          = Block!Cardinality({j \in DOMAIN written' : written'[j] = i})
    BY <1>2, Zenon DEF Block!BytesOf
  <2>. QED BY <1>2, <1>4, <1>6, <1>7, <2>1, SameCardinality
<1>9. \A j \in DOMAIN written' : written'[j] <= i
  <2>1. \A j \in 1..L : written[j] <= i
    BY <1>2, <1>3 DEF Counted
  <2>2. ASSUME NEW j \in 1..(L + n) PROVE written'[j] <= i
    <3>1. CASE j \in 1..L
      BY <1>1, <2>1, <3>1
    <3>2. CASE j \in New
      BY <1>1, <3>2
    <3>. QED BY <1>1, <3>1, <3>2
  <2>. QED BY <1>3, <2>2
<1>. QED BY <1>2, <1>8, <1>9 DEF Counted

\* When an entry is taken, none of its bytes was written yet.
LEMMA GetCounts ==
  ASSUME IInv, Counted, get_stream_blocking
  PROVE  Counted'
<1>1. /\ stage = "get" /\ stage' = "read" /\ entry_size' = 0
      /\ UNCHANGED <<written, entry_stats>>
  BY DEF get_stream_blocking
<1>2. \A j \in DOMAIN written : written[j] < Len(entry_stats)
  BY <1>1 DEF Counted
<1>3. written \in Seq(Nat) /\ Len(entry_stats) \in Nat
  BY DEF IInv, TypeOK
<1>4. {j \in DOMAIN written : written[j] = Len(entry_stats)} = {}
  <2>1. \A j \in DOMAIN written : written[j] \in Nat
    BY <1>3
  <2>. QED BY <1>2, <1>3, <2>1
<1>5. Block!BytesOf(Len(entry_stats))' = 0
  <2>1. Block!BytesOf(Len(entry_stats))'
          = Block!Cardinality({j \in DOMAIN written : written[j] = Len(entry_stats)})
    BY <1>1, Zenon DEF Block!BytesOf
  <2>. QED BY <1>4, <2>1, SameCardinality, FS_EmptySet
<1>6. \A j \in DOMAIN written' : written'[j] <= Len(entry_stats')
  BY <1>1, <1>2, <1>3
<1>. QED BY <1>1, <1>5, <1>6 DEF Counted

\* The other steps write no byte; the end of an entry completes it.
LEMMA OthersCount ==
  ASSUME IInv, Counted,
         \/ TooFewStreams \/ Start \/ prepare_streams \/ StreamMissing
         \/ ReadEnds \/ ReadFails \/ EncodeFails \/ PushBlock \/ Provider \/ UNCHANGED vars
  PROVE  Counted'
<1>1. written' = written
  BY DEF TooFewStreams, Start, prepare_streams, StreamMissing, ReadEnds, ReadFails,
         EncodeFails, PushBlock, Provider, Fetch, FetchFails, vars, writing
<1>2. written \in Seq(Nat) /\ entry_stats \in Seq(Nat) /\ entry_size \in Nat
  BY DEF IInv, TypeOK
<1>3. CASE ReadEnds
  <2>1. stage = "read" /\ Len(entry_stats') = Len(entry_stats) + 1 /\ stage' # "read"
    BY <1>2, <1>3 DEF ReadEnds
  <2>2. \A j \in DOMAIN written' : written'[j] < Len(entry_stats')
    BY <1>1, <1>2, <2>1 DEF Counted
  <2>. QED BY <2>1, <2>2 DEF Counted
<1>4. CASE ReadFails \/ EncodeFails \/ StreamMissing \/ TooFewStreams \/ PushBlock
  <2>1. stage' \in {"done", "failed"}
    BY <1>4 DEF ReadFails, EncodeFails, StreamMissing, TooFewStreams, PushBlock
  <2>. QED BY <2>1 DEF Counted
<1>5. CASE Start \/ prepare_streams
  <2>1. /\ stage \in {"start", "prepare"} /\ stage' \in {"done", "prepare", "get"}
        /\ entry_stats' = entry_stats
    BY <1>5 DEF Start, prepare_streams
  <2>. QED BY <1>1, <2>1 DEF Counted
<1>6. CASE Provider \/ UNCHANGED vars
  <2>1. UNCHANGED <<stage, written, entry_stats, entry_size>>
    BY <1>6 DEF Provider, Fetch, FetchFails, vars, writing
  <2>. QED BY <2>1 DEF Counted, Block!BytesOf
<1>. QED BY <1>3, <1>4, <1>5, <1>6

\* Bytes of an entry reach the block of SolidPush behind all others.
LEMMA ReadExtends ==
  ASSUME IInv, Counted, NEW n \in 1..MaxSize, Read(n)
  PROVE  Block!Extend
<1>1. /\ n \in Nat \ {0} /\ Len(entry_stats) = idx /\ idx < N
      /\ written \in Seq(Nat) /\ written' \in Seq(Nat)
      /\ Len(written') = Len(written) + n
      /\ \A j \in 1..Len(written) : written'[j] = written[j]
      /\ \A j \in (Len(written) + 1)..Len(written') : written'[j] = idx
  BY ReadAppends
<1>2. UNCHANGED <<entry_stats, BlockOutcome>> /\ BlockOutcome = "open"
  BY DEF Read, BlockOutcome
<1>3. SubSeq(written', 1, Len(written)) = written
  BY <1>1
<1>. QED BY <1>1, <1>2, <1>3 DEF Block!Extend

\* An entry that ends is complete, with the count of its bytes for its size.
LEMMA ReadEndsCompletes ==
  ASSUME IInv, Counted, ReadEnds
  PROVE  Block!Complete
<1>1. PICK k \in Nat : Position(k)
  BY DEF IInv
<1>2. stage = "read" /\ entry_stats' = Append(entry_stats, entry_size) /\ written' = written
  BY DEF ReadEnds
<1>3. Len(entry_stats) < N
  <2>1. prefetch_end \in 0..N /\ Len(entry_stats) \in Nat
    BY DEF IInv, TypeOK
  <2>. QED BY <1>1, <1>2, <2>1, ParallelAssumption DEF Position
<1>4. entry_size = Block!BytesOf(Len(entry_stats))
  BY <1>2 DEF Counted
<1>5. UNCHANGED BlockOutcome /\ BlockOutcome = "open"
  BY DEF ReadEnds, BlockOutcome
<1>. QED BY <1>2, <1>3, <1>4, <1>5 DEF Block!Complete

\* push_solid_entries_parallel implements SolidPush: whatever the provider
\* does, the block holds the entries' bytes in their order, each entry's size
\* is the number of its bytes, and it pushes all entries or none.
THEOREM PushImplementsSolidPush == Spec => PushesSolidBlock
<1>1. Init => Block!Init
  BY DEF Init, Block!Init, BlockOutcome
<1>2. Init => Counted
  BY DEF Init, Counted
<1>3. IInv /\ Counted /\ [Next]_vars => Counted'
  BY ReadCounts, GetCounts, OthersCount DEF Next, Compressor
<1>4. IInv /\ Counted /\ [Next]_vars => [Block!Next]_BlockVars
  <2>. SUFFICES ASSUME IInv, Counted, [Next]_vars
                PROVE  [Block!Next]_BlockVars
    OBVIOUS
  <2>1. CASE TooFewStreams \/ StreamMissing \/ ReadFails \/ EncodeFails
    <3>1. UNCHANGED <<written, entry_stats>> /\ BlockOutcome = "open" /\ BlockOutcome' = "failed"
      BY <2>1 DEF TooFewStreams, StreamMissing, ReadFails, EncodeFails, BlockOutcome
    <3>. QED BY <3>1 DEF Block!Fail, Block!Next
  <2>2. CASE PushBlock \/ (Start /\ N = 0)
    <3>1. /\ UNCHANGED <<written, entry_stats>>
          /\ BlockOutcome = "open" /\ BlockOutcome' = "pushed"
      BY <2>2 DEF PushBlock, Start, BlockOutcome
    <3>2. Len(entry_stats) = N
      <4>1. PICK k \in Nat : Position(k)
        BY DEF IInv
      <4>2. stage = "flush" \/ (stage = "start" /\ N = 0)
        BY <2>2 DEF PushBlock, Start
      <4>. QED BY <4>1, <4>2 DEF Position
    <3>. QED BY <3>1, <3>2 DEF Block!Commit, Block!Next
  <2>3. CASE \/ Start /\ N # 0
             \/ prepare_streams \/ get_stream_blocking \/ Provider \/ UNCHANGED vars
    <3>1. UNCHANGED <<written, entry_stats>> /\ BlockOutcome' = BlockOutcome
      BY <2>3 DEF Start, prepare_streams, get_stream_blocking, Provider, Fetch, FetchFails,
                  vars, writing, BlockOutcome
    <3>. QED BY <3>1 DEF BlockVars
  <2>4. ASSUME NEW n \in 1..MaxSize, Read(n) PROVE Block!Next
    BY <2>4, ReadExtends DEF Block!Next
  <2>5. CASE ReadEnds
    BY <2>5, ReadEndsCompletes DEF Block!Next
  <2>. QED BY <2>1, <2>2, <2>3, <2>4, <2>5 DEF Next, Compressor
<1>. QED
  BY <1>1, <1>2, <1>3, <1>4, Inductive, PTL
     DEF Spec, PushesSolidBlock, Block!Spec, Block!svars, BlockVars
=============================================================================
