----------------------- MODULE ArchiveRoundTrip_proofs -----------------------
(***************************************************************************)
(* What is proved about ArchiveWriter and ArchiveReader together, for any  *)
(* entries, sizes, failures and closures.                                  *)
(*                                                                         *)
(* WInv: the packed streams tile the output.  ListInv: the entries with    *)
(* data are those of the blocks, one after the other, and finish writes    *)
(* them down.  From there the parser is run symbolically: sub stream       *)
(* sizes (SubStreamsRead), entries (StreamsRead, FilesRead), stream map    *)
(* (MapWhole), and which headers parse at all (HeaderParses, Refused).  A  *)
(* header with a short vector may be read without its names: what holds of *)
(* the streams holds of it too (ReadAlike, OpenedStreams).  OpenInv: what  *)
(* is open is what was pushed.  Reading: what was visited is what comes    *)
(* before the reader's place.  Clean: what was packed before the first     *)
(* orphan cell is where the reader looks for it.  Surviving: whoever       *)
(* reads to the end finds it there.                                        *)
(*                                                                         *)
(* FilesInBlocks: the lists pushed as solid blocks name files only.  A     *)
(* directory in such a list is counted as a sub stream of its block, the   *)
(* entries no longer match the blocks, and what assumes FilesInBlocks is   *)
(* not claimed then.                                                       *)
(***************************************************************************)
EXTENDS ArchiveRoundTrip,
        SequencesExt, FiniteSetTheorems, SequenceTheorems, WellFoundedInduction, TLAPS

-----------------------------------------------------------------------------
(* Induction over a set of naturals, in place of one over a predicate *)

\* Every set of naturals has a least element.
LEMMA LeastNat ==
  ASSUME NEW T, T \subseteq Nat, T # {}
  PROVE  \E x \in T : \A y \in T : x <= y
<1>. DEFINE R == {p \in Nat \X Nat : p[1] < p[2]}
<1>1. IsWellFoundedOn(R, Nat)
  <2>1. R = OpToRel(<, Nat)
    BY Zenon DEF OpToRel
  <2>. QED BY <2>1, NatLessThanWellFounded
<1>2. PICK x \in T : \A y \in T : ~ (<<y, x>> \in R)
  <2>. HIDE DEF R
  <2>. QED BY <1>1, WFMin, Zenon
<1>3. ASSUME NEW y \in T PROVE x <= y
  <2>1. x \in Nat /\ y \in Nat
    OBVIOUS
  <2>2. <<y, x>> \in Nat \X Nat
    BY <2>1
  <2>3. ~ (<<y, x>>[1] < <<y, x>>[2])
    BY <1>2, <2>2
  <2>. QED BY <2>1, <2>3
<1>. QED BY <1>3

\* A set of naturals that holds 0 and is closed under n + 1 holds them all.
LEMMA SetInduction ==
  ASSUME NEW S, 0 \in S, \A n \in Nat : n \in S => n + 1 \in S
  PROVE  Nat \subseteq S
<1>. SUFFICES ASSUME Nat \ S # {} PROVE FALSE
  OBVIOUS
<1>1. PICK x \in Nat \ S : \A y \in Nat \ S : x <= y
  BY LeastNat
<1>2. x # 0 /\ x - 1 \in Nat /\ x - 1 \in S
  BY <1>1
<1>. QED BY <1>1, <1>2

-----------------------------------------------------------------------------
(* Counting *)

\* how many members of S are at most i
CountUpTo(S, i) == Cardinality({j \in S : j <= i})

\* Counting up to the next number.
LEMMA CountStep ==
  ASSUME NEW n \in Nat, NEW S \in SUBSET (1..n)
  PROVE  /\ \A i \in Nat : CountUpTo(S, i) \in Nat
         /\ CountUpTo(S, 0) = 0 /\ CountUpTo(S, n) = Cardinality(S)
         /\ \A i \in Nat : CountUpTo(S, i + 1) = CountUpTo(S, i) + IF i + 1 \in S THEN 1 ELSE 0
<1>0. (\A k \in S : k \in Nat /\ 1 <= k /\ k <= n) /\ S \subseteq 1..n
  OBVIOUS
<1>1. IsFiniteSet(S)
  <2>1. 1 \in Int /\ n \in Int
    OBVIOUS
  <2>2. IsFiniteSet(1..n)
    BY <2>1, FS_Interval
  <2>. HIDE DEF CountUpTo
  <2>. QED BY <1>0, <2>2, FS_Subset
<1>2. \A i \in Nat : IsFiniteSet({j \in S : j <= i})
  BY <1>1, FS_Subset
<1>3. \A i \in Nat : CountUpTo(S, i) \in Nat
  BY <1>2, FS_CardinalityType DEF CountUpTo
<1>4. CountUpTo(S, 0) = 0
  <2>1. \A j \in S : ~(j <= 0)
    BY <1>0
  <2>2. {j \in S : j <= 0} = {}
    BY <2>1, Zenon
  <2>. QED BY <2>2, FS_EmptySet DEF CountUpTo
<1>5. CountUpTo(S, n) = Cardinality(S)
  <2>1. {j \in S : j <= n} = S
    BY <1>0, Zenon
  <2>. QED BY <2>1 DEF CountUpTo
<1>6. ASSUME NEW i \in Nat PROVE CountUpTo(S, i + 1) = CountUpTo(S, i) + IF i + 1 \in S THEN 1 ELSE 0
  <2>1. CASE i + 1 \in S
    <3>1. {j \in S : j <= i + 1} = {j \in S : j <= i} \cup {i + 1} /\ i + 1 \notin {j \in S : j <= i}
      <4>1. (\A j \in S : j <= i + 1 <=> j <= i \/ j = i + 1) /\ ~(i + 1 <= i)
        BY <1>0
      <4>. QED BY <2>1, <4>1, Zenon
    <3>2. Cardinality({j \in S : j <= i} \cup {i + 1}) = Cardinality({j \in S : j <= i}) + 1
      BY <1>2, <3>1, FS_AddElement
    <3>. QED BY <2>1, <3>1, <3>2 DEF CountUpTo
  <2>2. CASE i + 1 \notin S
    <3>1. {j \in S : j <= i + 1} = {j \in S : j <= i}
      <4>1. \A j \in S : j <= i + 1 <=> j <= i \/ j = i + 1
        BY <1>0
      <4>. QED BY <2>2, <4>1, Zenon
    <3>2. CountUpTo(S, i) \in Nat /\ CountUpTo(S, i + 1) = CountUpTo(S, i)
      BY <1>3, <3>1 DEF CountUpTo
    <3>. QED BY <2>2, <3>2
  <2>. QED BY <2>1, <2>2
<1>. QED BY <1>3, <1>4, <1>5, <1>6

\* It never goes down, and goes up at each member.
LEMMA CountGrows ==
  ASSUME NEW n \in Nat, NEW S \in SUBSET (1..n), NEW i \in Nat, NEW j \in Nat, i <= j
  PROVE  /\ CountUpTo(S, i) \in Nat /\ CountUpTo(S, j) \in Nat /\ CountUpTo(S, i) <= CountUpTo(S, j)
         /\ i < j /\ j \in S => CountUpTo(S, i) < CountUpTo(S, j)
<1>0. (\A k \in S : k \in Nat /\ 1 <= k /\ k <= n) /\ S \subseteq 1..n
  OBVIOUS
<1>1. IsFiniteSet(S)
  <2>1. 1 \in Int /\ n \in Int
    OBVIOUS
  <2>2. IsFiniteSet(1..n)
    BY <2>1, FS_Interval
  <2>. HIDE DEF CountUpTo
  <2>. QED BY <1>0, <2>2, FS_Subset
<1>2. PICK A, B : A = {k \in S : k <= i} /\ B = {k \in S : k <= j}
  OBVIOUS
<1>3. A \subseteq B /\ B \subseteq S /\ (i < j /\ j \in S => A # B)
  <2>1. (\A k \in S : k <= i => k <= j) /\ (i < j => ~(j <= i)) /\ j <= j
    BY <1>0
  <2>. QED BY <1>2, <2>1, Zenon
<1>4. IsFiniteSet(A) /\ IsFiniteSet(B)
  BY <1>1, <1>3, FS_Subset
<1>5. Cardinality(A) <= Cardinality(B) /\ (Cardinality(A) = Cardinality(B) => A = B)
  BY <1>3, <1>4, FS_Subset
<1>6. Cardinality(A) \in Nat /\ Cardinality(B) \in Nat
  BY <1>4, FS_CardinalityType
<1>. QED BY <1>2, <1>3, <1>5, <1>6 DEF CountUpTo

\* Two sets that share the numbers up to n.
LEMMA CountSplits ==
  ASSUME NEW n \in Nat, NEW S, NEW T, S \cup T = 1..n, S \cap T = {}, NEW i \in 0..n
  PROVE  CountUpTo(S, i) \in Nat /\ CountUpTo(T, i) \in Nat /\ CountUpTo(S, i) + CountUpTo(T, i) = i
<1>1. PICK A, B : A = {k \in S : k <= i} /\ B = {k \in T : k <= i}
  OBVIOUS
<1>2. IsFiniteSet(1..i) /\ Cardinality(1..i) = i
  BY FS_Interval
<1>3. A \cup B = 1..i /\ A \cap B = {} /\ A \subseteq 1..i /\ B \subseteq 1..i
  BY <1>1
<1>4. IsFiniteSet(A) /\ IsFiniteSet(B)
  BY <1>2, <1>3, FS_Subset
<1>5. /\ Cardinality(A) \in Nat /\ Cardinality(B) \in Nat /\ Cardinality(A \cap B) = 0
      /\ Cardinality(A \cup B) = Cardinality(A) + Cardinality(B) - Cardinality(A \cap B)
  BY <1>3, <1>4, FS_Union, FS_CardinalityType, FS_EmptySet
<1>6. Cardinality(A \cup B) = i
  BY <1>2, <1>3
<1>7. Cardinality(A) + Cardinality(B) = i
  BY <1>5, <1>6
<1>. QED BY <1>1, <1>5, <1>7 DEF CountUpTo

-----------------------------------------------------------------------------
(* FlattenSeq *)

\* what FlattenSeq chooses: the concatenation of the first i sequences, for each i
Flattened(s, n) ==
  CHOOSE f : f = [i \in 1..n |-> IF i = 1 THEN s[i] ELSE f[i-1] \o s[i]]

\* The recursive definition of FlattenSeq has a solution.
LEMMA FlattenedDef ==
  ASSUME NEW s, NEW n \in Nat
  PROVE  Flattened(s, n) =
           [i \in 1..n |-> IF i = 1 THEN s[i] ELSE Flattened(s, n)[i-1] \o s[i]]
<1>. DEFINE Solves(f, m) == f = [i \in 1..m |-> IF i = 1 THEN s[i] ELSE f[i-1] \o s[i]]
            Solved == {m \in Nat : \E f : Solves(f, m)}
<1>1. 0 \in Solved
  <2>1. Solves(<<>>, 0)
    OBVIOUS
  <2>. QED BY <2>1
<1>2. ASSUME NEW m \in Nat, m \in Solved PROVE m + 1 \in Solved
  <2>1. PICK f : Solves(f, m)
    BY <1>2
  <2>. DEFINE last == IF m + 1 = 1 THEN s[m + 1] ELSE f[m] \o s[m + 1]
              g == [i \in 1..(m + 1) |-> IF i <= m THEN f[i] ELSE last]
  <2>2. ASSUME NEW i \in 1..(m + 1)
        PROVE  g[i] = IF i = 1 THEN s[i] ELSE g[i-1] \o s[i]
    <3>1. CASE i <= m
      <4>1. i \in 1..m /\ g[i] = f[i] /\ (i # 1 => g[i-1] = f[i-1])
        BY <3>1
      <4>2. f[i] = IF i = 1 THEN s[i] ELSE f[i-1] \o s[i]
        BY <2>1, <4>1
      <4>. QED BY <4>1, <4>2
    <3>2. CASE i = m + 1
      <4>1. g[i] = last
        BY <3>2
      <4>2. i # 1 => g[i-1] = f[m]
        BY <3>2
      <4>. QED BY <3>2, <4>1, <4>2
    <3>. QED BY <3>1, <3>2
  <2>3. Solves(g, m + 1)
    BY <2>2, Zenon
  <2>4. m + 1 \in Nat
    OBVIOUS
  <2>. HIDE DEF Solves, g
  <2>. QED BY <2>3, <2>4
<1>3. n \in Solved
  <2>. HIDE DEF Solved
  <2>. QED BY <1>1, <1>2, SetInduction
<1>4. \E f : Solves(f, n)
  BY <1>3
<1>5. Solves(CHOOSE f : Solves(f, n), n)
  <2>. HIDE DEF Solves
  <2>. QED BY <1>4, Zenon
<1>. QED BY <1>5, Zenon DEF Flattened

\* FlattenSeq takes the last of them.
LEMMA FlattenSeqIs ==
  ASSUME NEW s
  PROVE FlattenSeq(s) = IF Len(s) = 0 THEN s ELSE Flattened(s, Len(s))[Len(s)]
BY Zenon DEF FlattenSeq, Flattened

\* Nothing flattened is nothing.
LEMMA FlattenEmpty == FlattenSeq(<<>>) = <<>>
  BY FlattenSeqIs

\* Flattening goes on where it stopped.
LEMMA FlattenAppend ==
  ASSUME NEW S, NEW s \in Seq(Seq(S)), NEW e \in Seq(S)
  PROVE  /\ FlattenSeq(s) \in Seq(S)
         /\ FlattenSeq(Append(s, e)) = FlattenSeq(s) \o e
<1>. DEFINE n == Len(s)
            t == Append(s, e)
            f == Flattened(s, n)
            g == Flattened(t, n + 1)
            Same == {m \in Nat : m \in 1..n => f[m] = g[m] /\ f[m] \in Seq(S)}
<1>1. n \in Nat /\ Len(t) = n + 1 /\ t[n + 1] = e /\ \A i \in 1..n : t[i] = s[i] /\ s[i] \in Seq(S)
  OBVIOUS
<1>2. \A i \in 1..n : f[i] = IF i = 1 THEN s[i] ELSE f[i-1] \o s[i]
  <2>1. f = [i \in 1..n |-> IF i = 1 THEN s[i] ELSE f[i-1] \o s[i]]
    BY <1>1, FlattenedDef
  <2>. QED BY <2>1, Zenon
<1>3. \A i \in 1..(n + 1) : g[i] = IF i = 1 THEN t[i] ELSE g[i-1] \o t[i]
  <2>1. g = [i \in 1..(n + 1) |-> IF i = 1 THEN t[i] ELSE g[i-1] \o t[i]]
    <3>1. n + 1 \in Nat
      BY <1>1
    <3>. QED BY <3>1, FlattenedDef
  <2>. QED BY <2>1, Zenon
<1>. HIDE DEF f, g, t, n
<1>4. \A m \in 1..n : f[m] = g[m] /\ f[m] \in Seq(S)
  <2>1. 0 \in Same
    OBVIOUS
  <2>2. ASSUME NEW m \in Nat, m \in Same PROVE m + 1 \in Same
    <3>1. SUFFICES ASSUME m + 1 \in 1..n PROVE f[m + 1] = g[m + 1] /\ f[m + 1] \in Seq(S)
      OBVIOUS
    <3>2. t[m + 1] = s[m + 1] /\ s[m + 1] \in Seq(S) /\ m + 1 \in 1..(n + 1)
      BY <1>1, <3>1
    <3>3. CASE m = 0
      BY <1>2, <1>3, <3>1, <3>2, <3>3
    <3>4. CASE m # 0
      <4>1. m \in 1..n /\ f[m] = g[m] /\ f[m] \in Seq(S)
        BY <1>1, <2>2, <3>1, <3>4
      <4>2. PICK k \in 1..n : k = m + 1
        BY <3>1
      <4>3. k # 1 /\ k - 1 = m /\ k \in 1..(n + 1)
        BY <3>2, <3>4, <4>2
      <4>4. f[k] = f[k-1] \o s[k] /\ g[k] = g[k-1] \o t[k]
        BY <1>2, <1>3, <4>3, Zenon
      <4>5. f[k] = f[m] \o s[k] /\ g[k] = f[m] \o s[k]
        BY <3>2, <4>1, <4>2, <4>3, <4>4
      <4>6. f[m] \o s[k] \in Seq(S)
        BY <3>2, <4>1, <4>2
      <4>. QED BY <4>2, <4>5, <4>6
    <3>. QED BY <3>3, <3>4
  <2>. HIDE DEF Same
  <2>3. Nat \subseteq Same
    BY <2>1, <2>2, SetInduction
  <2>4. \A m \in 1..n : m \in Same
    BY <1>1, <2>3
  <2>. QED BY <1>1, <2>4 DEF Same
<1>5. FlattenSeq(s) = IF n = 0 THEN <<>> ELSE f[n]
  <2>1. n = 0 => s = <<>>
    BY DEF n
  <2>. QED BY <2>1, FlattenSeqIs DEF f, n
<1>6. FlattenSeq(t) = g[n + 1]
  BY <1>1, FlattenSeqIs DEF g
<1>7. CASE n = 0
  BY <1>1, <1>3, <1>5, <1>6, <1>7 DEF t
<1>8. CASE n # 0
  <2>1. PICK k \in 1..(n + 1) : k = n + 1
    BY <1>1
  <2>2. n \in 1..n /\ k # 1 /\ k - 1 = n
    BY <1>1, <1>8, <2>1
  <2>3. g[k] = g[k-1] \o t[k]
    BY <1>3, <2>2, Zenon
  <2>. QED BY <1>1, <1>4, <1>5, <1>6, <1>8, <2>1, <2>2, <2>3 DEF t
<1>. QED BY <1>7, <1>8

\* What is flattened are elements of the sequences.
LEMMA FlattenIn ==
  ASSUME NEW S, NEW s \in Seq(Seq(S))
  PROVE  FlattenSeq(s) \in Seq(S)
<1>1. <<>> \in Seq(S)
  OBVIOUS
<1>. QED BY <1>1, FlattenAppend

-----------------------------------------------------------------------------
(* Sums *)

\* the element a fold over a set takes next
Pick(T) == CHOOSE x \in T : TRUE

\* what MapThenFoldSet chooses for a sum: the sum over each subset of S
Summed(f, S) ==
  CHOOSE g : g = [T \in SUBSET S |->
                    IF T = {} THEN 0 ELSE f[Pick(T)] + g[T \ {Pick(T)}]]

\* The recursive definition of MapThenFoldSet has a solution over a finite set.
LEMMA SummedDef ==
  ASSUME NEW f, NEW S, IsFiniteSet(S)
  PROVE  \A T \in SUBSET S :
           /\ Summed(f, S)[T] = IF T = {} THEN 0 ELSE f[Pick(T)] + Summed(f, S)[T \ {Pick(T)}]
           /\ T # {} => Pick(T) \in T
<1>. DEFINE Sum(g, T) == IF T = {} THEN 0 ELSE f[Pick(T)] + g[T \ {Pick(T)}]
            Solves(g) == g = [T \in SUBSET S |-> Sum(g, T)]
            SumsTo(g, n) == \A T \in SUBSET S : Cardinality(T) <= n => g[T] = Sum(g, T)
            Solved == {n \in Nat : \E g : SumsTo(g, n)}
<1>1. \A T \in SUBSET S : IsFiniteSet(T) /\ Cardinality(T) \in Nat /\ Cardinality(T) <= Cardinality(S)
  BY FS_Subset, FS_CardinalityType
<1>2. ASSUME NEW T \in SUBSET S, T # {}
      PROVE  T \ {Pick(T)} \in SUBSET S /\ Cardinality(T \ {Pick(T)}) = Cardinality(T) - 1
  <2>1. Pick(T) \in T
    BY <1>2 DEF Pick
  <2>. QED BY <1>1, <2>1, FS_RemoveElement
<1>3. 0 \in Solved
  <2>. DEFINE g == [T \in SUBSET S |-> 0]
  <2>1. ASSUME NEW T \in SUBSET S, Cardinality(T) <= 0 PROVE g[T] = Sum(g, T)
    <3>1. T = {}
      BY <1>1, <2>1, FS_EmptySet
    <3>. QED BY <3>1
  <2>2. SumsTo(g, 0)
    BY <2>1
  <2>. HIDE DEF g, SumsTo
  <2>. QED BY <2>2
<1>4. ASSUME NEW n \in Nat, n \in Solved PROVE n + 1 \in Solved
  <2>1. PICK g : SumsTo(g, n)
    BY <1>4
  <2>. DEFINE h == [T \in SUBSET S |-> IF Cardinality(T) <= n THEN g[T] ELSE Sum(g, T)]
  <2>2. ASSUME NEW T \in SUBSET S, Cardinality(T) <= n + 1 PROVE h[T] = Sum(h, T)
    <3>1. CASE T = {}
      <4>1. Cardinality(T) <= n
        BY <3>1, FS_EmptySet
      <4>. QED BY <2>1, <3>1, <4>1
    <3>2. CASE T # {}
      <4>1. T \ {Pick(T)} \in SUBSET S /\ Cardinality(T \ {Pick(T)}) <= n
        BY <1>1, <1>2, <2>2, <3>2
      <4>2. h[T \ {Pick(T)}] = g[T \ {Pick(T)}]
        BY <4>1
      <4>3. h[T] = Sum(g, T)
        BY <2>1
      <4>. QED BY <3>2, <4>2, <4>3
    <3>. QED BY <3>1, <3>2
  <2>3. SumsTo(h, n + 1)
    BY <2>2
  <2>4. n + 1 \in Nat
    OBVIOUS
  <2>. HIDE DEF h, SumsTo
  <2>. QED BY <2>3, <2>4
<1>5. \E g : Solves(g)
  <2>1. Cardinality(S) \in Solved
    <3>. HIDE DEF Solved
    <3>. QED BY <1>1, <1>3, <1>4, SetInduction
  <2>2. PICK g : SumsTo(g, Cardinality(S))
    BY <2>1
  <2>. DEFINE h == [T \in SUBSET S |-> g[T]]
  <2>3. ASSUME NEW T \in SUBSET S PROVE h[T] = Sum(h, T)
    <3>1. g[T] = Sum(g, T)
      BY <1>1, <2>2
    <3>2. T # {} => h[T \ {Pick(T)}] = g[T \ {Pick(T)}]
      BY <1>2
    <3>. QED BY <3>1, <3>2
  <2>4. Solves(h)
    BY <2>3, Zenon
  <2>. HIDE DEF h, Solves
  <2>. QED BY <2>4
<1>6. Solves(CHOOSE g : Solves(g))
  <2>. HIDE DEF Solves
  <2>. QED BY <1>5, Zenon
<1>7. Solves(Summed(f, S))
  BY <1>6, Zenon DEF Summed
<1>8. \A T \in SUBSET S : Summed(f, S)[T] = Sum(Summed(f, S), T)
  BY <1>7, Zenon
<1>9. \A T \in SUBSET S : T # {} => Pick(T) \in T
  BY DEF Pick
<1>. QED BY <1>8, <1>9

\* A sum is the one over the whole set.
LEMMA SumIs ==
  ASSUME NEW f, NEW S
  PROVE  SumFunctionOnSet(f, S) = Summed(f, S)[S]
BY Zenon DEF SumFunctionOnSet, FoldFunctionOnSet, MapThenFoldSet, Summed, Pick

\* A sum depends on the values that are summed, and on nothing else.
LEMMA SummedSame ==
  ASSUME NEW f, NEW g, NEW S, IsFiniteSet(S), NEW U, IsFiniteSet(U),
         NEW T, T \subseteq S, T \subseteq U, \A x \in T : f[x] = g[x]
  PROVE  Summed(f, S)[T] = Summed(g, U)[T]
<1>. DEFINE F == Summed(f, S)
            G == Summed(g, U)
            Has == {n \in Nat : \A X \in SUBSET T : Cardinality(X) <= n => F[X] = G[X]}
<1>1. \A X \in SUBSET T : IsFiniteSet(X) /\ Cardinality(X) \in Nat
  BY FS_Subset, FS_CardinalityType
<1>2. ASSUME NEW X \in SUBSET T, X # {}
      PROVE  /\ X \ {Pick(X)} \in SUBSET T /\ Cardinality(X \ {Pick(X)}) = Cardinality(X) - 1
             /\ Pick(X) \in T
  <2>1. Pick(X) \in X
    BY <1>2 DEF Pick
  <2>. QED BY <1>1, <2>1, FS_RemoveElement
<1>3. ASSUME NEW X \in SUBSET T
      PROVE  /\ F[X] = IF X = {} THEN 0 ELSE f[Pick(X)] + F[X \ {Pick(X)}]
             /\ G[X] = IF X = {} THEN 0 ELSE g[Pick(X)] + G[X \ {Pick(X)}]
  <2>1. X \in SUBSET S /\ X \in SUBSET U
    OBVIOUS
  <2>2. F[X] = IF X = {} THEN 0 ELSE f[Pick(X)] + F[X \ {Pick(X)}]
    BY <2>1, SummedDef
  <2>3. G[X] = IF X = {} THEN 0 ELSE g[Pick(X)] + G[X \ {Pick(X)}]
    BY <2>1, SummedDef
  <2>. QED BY <2>2, <2>3
<1>. HIDE DEF F, G
<1>4. 0 \in Has
  <2>1. ASSUME NEW X \in SUBSET T, Cardinality(X) <= 0 PROVE F[X] = G[X]
    <3>1. X = {}
      BY <1>1, <2>1, FS_EmptySet
    <3>. QED BY <1>3, <3>1
  <2>. QED BY <2>1
<1>5. ASSUME NEW n \in Nat, n \in Has PROVE n + 1 \in Has
  <2>1. ASSUME NEW X \in SUBSET T, Cardinality(X) <= n + 1 PROVE F[X] = G[X]
    <3>1. CASE X = {}
      BY <1>3, <3>1
    <3>2. CASE X # {}
      <4>1. F[X \ {Pick(X)}] = G[X \ {Pick(X)}]
        BY <1>1, <1>2, <1>5, <2>1, <3>2
      <4>2. f[Pick(X)] = g[Pick(X)]
        BY <1>2, <3>2
      <4>. QED BY <1>3, <3>2, <4>1, <4>2
    <3>. QED BY <3>1, <3>2
  <2>. QED BY <2>1
<1>6. Cardinality(T) \in Has
  <2>. HIDE DEF Has
  <2>. QED BY <1>1, <1>4, <1>5, SetInduction
<1>7. F[T] = G[T]
  BY <1>1, <1>6
<1>. QED BY <1>7 DEF F, G

\* Naturals can be summed in any order.
LEMMA SummedRemove ==
  ASSUME NEW f, NEW S, IsFiniteSet(S), \A x \in S : f[x] \in Nat
  PROVE  \A T \in SUBSET S :
           /\ Summed(f, S)[T] \in Nat
           /\ \A y \in T : Summed(f, S)[T] = f[y] + Summed(f, S)[T \ {y}]
<1>. DEFINE F == Summed(f, S)
            Good(X) == F[X] \in Nat /\ \A y \in X : F[X] = f[y] + F[X \ {y}]
            Has == {n \in Nat : \A X \in SUBSET S : Cardinality(X) <= n => Good(X)}
<1>1. \A X \in SUBSET S : IsFiniteSet(X) /\ Cardinality(X) \in Nat /\ Cardinality(X) <= Cardinality(S)
  BY FS_Subset, FS_CardinalityType
<1>2. ASSUME NEW X \in SUBSET S, NEW x \in X
      PROVE  X \ {x} \in SUBSET S /\ Cardinality(X \ {x}) = Cardinality(X) - 1
  BY <1>1, FS_RemoveElement
<1>3. \A X \in SUBSET S : F[X] = IF X = {} THEN 0 ELSE f[Pick(X)] + F[X \ {Pick(X)}]
  BY SummedDef, ZenonT(30)
<1>4. \A X \in SUBSET S : X # {} => Pick(X) \in X
  BY SummedDef
<1>. HIDE DEF F
<1>5. 0 \in Has
  <2>1. ASSUME NEW X \in SUBSET S, Cardinality(X) <= 0 PROVE Good(X)
    <3>1. X = {}
      BY <1>1, <2>1, FS_EmptySet
    <3>2. F[X] = 0
      BY <1>3, <3>1
    <3>. QED BY <3>1, <3>2
  <2>. HIDE DEF Good
  <2>. QED BY <2>1
<1>6. ASSUME NEW n \in Nat, n \in Has PROVE n + 1 \in Has
  <2>1. ASSUME NEW X \in SUBSET S, Cardinality(X) <= n + 1 PROVE Good(X)
    <3>1. CASE X = {}
      <4>1. F[X] = 0
        BY <1>3, <3>1
      <4>. QED BY <3>1, <4>1
    <3>2. CASE X # {}
      <4>. DEFINE x == Pick(X)
      <4>1. x \in X /\ F[X] = f[x] + F[X \ {x}]
        BY <1>3, <1>4, <3>2
      <4>. HIDE DEF x
      <4>2. ASSUME NEW z \in X PROVE Good(X \ {z})
        <5>1. X \ {z} \in SUBSET S /\ Cardinality(X \ {z}) <= n
          BY <1>1, <1>2, <2>1
        <5>. HIDE DEF Good
        <5>. QED BY <1>6, <5>1
      <4>3. F[X \ {x}] \in Nat /\ F[X] \in Nat
        BY <4>1, <4>2
      <4>4. ASSUME NEW y \in X PROVE F[X] = f[y] + F[X \ {y}]
        <5>1. CASE y = x
          BY <4>1, <5>1
        <5>2. CASE y # x
          <6>1. (X \ {x}) \ {y} = (X \ {y}) \ {x} /\ y \in X \ {x} /\ x \in X \ {y}
            BY <4>1, <5>2
          <6>2. F[X \ {x}] = f[y] + F[(X \ {x}) \ {y}] /\ F[X \ {x}] \in Nat
            BY <4>1, <4>2, <6>1
          <6>3. F[X \ {y}] = f[x] + F[(X \ {x}) \ {y}] /\ F[X \ {y}] \in Nat
            BY <4>2, <6>1
          <6>4. F[(X \ {x}) \ {y}] \in Nat
            <7>1. (X \ {x}) \ {y} \in SUBSET S /\ Cardinality((X \ {x}) \ {y}) <= n
              BY <1>1, <1>2, <2>1, <4>1, <6>1, SMTT(30)
            <7>. QED BY <1>6, <7>1
          <6>5. f[x] \in Nat /\ f[y] \in Nat
            BY <4>1
          <6>. QED BY <4>1, <6>2, <6>3, <6>4, <6>5
        <5>. QED BY <5>1, <5>2
      <4>. QED BY <4>3, <4>4
    <3>. QED BY <3>1, <3>2
  <2>. HIDE DEF Good
  <2>. QED BY <2>1
<1>7. Cardinality(S) \in Has
  <2>. HIDE DEF Has
  <2>. QED BY <1>1, <1>5, <1>6, SetInduction
<1>8. \A X \in SUBSET S : Good(X)
  <2>. HIDE DEF Good
  <2>. QED BY <1>1, <1>7
<1>. QED BY <1>8 DEF F

-----------------------------------------------------------------------------
(* What flattening and summing do *)

\* The sum over no element.
LEMMA SumEmpty ==
  ASSUME NEW f
  PROVE  SumFunctionOnSet(f, {}) = 0
<1>1. IsFiniteSet({}) /\ {} \in SUBSET {}
  BY FS_EmptySet
<1>2. Summed(f, {})[{}] = 0
  BY <1>1, SummedDef
<1>. QED BY <1>2, SumIs

\* The sum over one element more.
LEMMA SumInsert ==
  ASSUME NEW S, IsFiniteSet(S), NEW y, y \notin S,
         NEW f, \A x \in S \cup {y} : f[x] \in Nat
  PROVE  /\ SumFunctionOnSet(f, S) \in Nat
         /\ SumFunctionOnSet(f, S \cup {y}) = f[y] + SumFunctionOnSet(f, S)
<1>. DEFINE U == S \cup {y}
<1>1. /\ IsFiniteSet(U) /\ y \in U /\ U \ {y} = S /\ U \in SUBSET U /\ S \in SUBSET U
      /\ \A x \in U : f[x] \in Nat
  BY FS_AddElement
<1>2. Summed(f, U)[U] = f[y] + Summed(f, U)[S] /\ Summed(f, U)[S] \in Nat
  <2>. HIDE DEF U
  <2>1. \A T \in SUBSET U :
          /\ Summed(f, U)[T] \in Nat
          /\ \A x \in T : Summed(f, U)[T] = f[x] + Summed(f, U)[T \ {x}]
    BY <1>1, SummedRemove
  <2>2. Summed(f, U)[U] = f[y] + Summed(f, U)[U \ {y}] /\ Summed(f, U)[S] \in Nat
    BY <1>1, <2>1, Zenon
  <2>. QED BY <1>1, <2>2
<1>3. Summed(f, U)[S] = Summed(f, S)[S]
  BY <1>1, SummedSame
<1>. QED BY <1>2, <1>3, SumIs

\* Functions that agree on a set have the same sum over it.
LEMMA SumSame ==
  ASSUME NEW S, IsFiniteSet(S), NEW f, NEW g, \A x \in S : f[x] = g[x]
  PROVE  SumFunctionOnSet(f, S) = SumFunctionOnSet(g, S)
BY SummedSame, SumIs

\* The sum of no numbers.
LEMMA SumSeqEmpty == SumFunction(<<>>) = 0
<1>1. SumFunction(<<>>) = SumFunctionOnSet(<<>>, DOMAIN <<>>)
  BY DEF SumFunction
<1>. QED BY <1>1, SumEmpty

\* The sum of a sequence of naturals, one element longer.
LEMMA SumSeqAppend ==
  ASSUME NEW s \in Seq(Nat), NEW e \in Nat
  PROVE  /\ SumFunction(s) \in Nat
         /\ SumFunction(Append(s, e)) = SumFunction(s) + e
<1>. DEFINE t == Append(s, e)
            n == Len(s)
<1>1. \A r : SumFunction(r) = SumFunctionOnSet(r, DOMAIN r)
  BY DEF SumFunction
<1>2. /\ n \in Nat /\ DOMAIN s = 1..n /\ DOMAIN t = 1..n \cup {n + 1} /\ n + 1 \notin 1..n
      /\ t[n + 1] = e /\ \A i \in 1..n : t[i] = s[i] /\ t[i] \in Nat
  OBVIOUS
<1>3. IsFiniteSet(1..n)
  BY <1>2, FS_Interval
<1>. HIDE DEF n, t
<1>4. /\ SumFunctionOnSet(t, 1..n) \in Nat
      /\ SumFunctionOnSet(t, 1..n \cup {n + 1}) = e + SumFunctionOnSet(t, 1..n)
  BY <1>2, <1>3, SumInsert
<1>5. SumFunctionOnSet(t, 1..n) = SumFunctionOnSet(s, 1..n)
  BY <1>2, <1>3, SumSame
<1>6. SumFunction(t) = e + SumFunctionOnSet(s, 1..n) /\ SumFunction(s) = SumFunctionOnSet(s, 1..n)
      /\ SumFunctionOnSet(s, 1..n) \in Nat
  BY <1>1, <1>2, <1>4, <1>5
<1>7. SumFunction(t) = SumFunction(s) + e /\ SumFunction(s) \in Nat
  BY <1>6
<1>. QED BY <1>7 DEF t

\* A prefix, one element longer.
LEMMA PrefixAppend ==
  ASSUME NEW S, NEW s \in Seq(S), NEW m \in Nat, m + 1 \in 1..Len(s)
  PROVE  /\ SubSeq(s, 1, m) \in Seq(S) /\ Len(SubSeq(s, 1, m)) = m
         /\ \A i \in 1..m : SubSeq(s, 1, m)[i] = s[i]
         /\ s[m + 1] \in S
         /\ SubSeq(s, 1, m + 1) = Append(SubSeq(s, 1, m), s[m + 1])
<1>. DEFINE p == SubSeq(s, 1, m)
            q == SubSeq(s, 1, m + 1)
            t == Append(p, s[m + 1])
<1>1. Len(s) \in Nat /\ (\A i \in 1..(m + 1) : s[i] \in S) /\ m + 1 \in Nat /\ m + 1 \in 1..(m + 1)
  OBVIOUS
<1>2. p \in Seq(S) /\ Len(p) = m /\ \A i \in 1..m : p[i] = s[i]
  BY <1>1
<1>3. q \in Seq(S) /\ Len(q) = m + 1 /\ \A i \in 1..(m + 1) : q[i] = s[i]
  BY <1>1
<1>. HIDE DEF p, q
<1>4. /\ t \in Seq(S) /\ Len(t) = m + 1 /\ t[m + 1] = s[m + 1]
      /\ \A i \in 1..m : t[i] = p[i]
  BY <1>1, <1>2
<1>. HIDE DEF t
<1>5. \A i \in 1..(m + 1) : q[i] = t[i]
  BY <1>2, <1>3, <1>4
<1>6. q = t
  BY <1>3, <1>4, <1>5, SeqEqual
<1>. QED BY <1>1, <1>2, <1>6 DEF p, q, t

\* A sequence is the row of its elements.
LEMMA RowOf ==
  ASSUME NEW S, NEW q \in Seq(S), NEW cell, \A k \in 1..Len(q) : q[k] = cell[k]
  PROVE  q = [k \in 1..Len(q) |-> cell[k]]
OBVIOUS

\* The sequences lie in the flattened one at the lengths of the prefixes.
LEMMA FlattenHolds ==
  ASSUME NEW S, NEW s \in Seq(Seq(S)), NEW at,
         \A m \in 0..Len(s) : at[m] = Len(FlattenSeq(SubSeq(s, 1, m)))
  PROVE  /\ at[0] = 0 /\ at[Len(s)] = Len(FlattenSeq(s))
         /\ \A m \in 0..Len(s) : at[m] \in 0..Len(FlattenSeq(s))
         /\ \A m \in 1..Len(s) :
              /\ at[m] = at[m - 1] + Len(s[m])
              /\ \A i \in 1..Len(s[m]) : FlattenSeq(s)[at[m - 1] + i] = s[m][i]
<1>. DEFINE n == Len(s)
            F == [m \in 0..n |-> FlattenSeq(SubSeq(s, 1, m))]
            Fits(m) == /\ F[m] \in Seq(S) /\ at[m] = Len(F[m])
                       /\ m # 0 => /\ at[m] = at[m - 1] + Len(s[m]) /\ at[m - 1] \in Nat
                                   /\ \A k \in 1..at[m - 1] : F[m][k] = F[m - 1][k]
                                   /\ \A i \in 1..Len(s[m]) : F[m][at[m - 1] + i] = s[m][i]
<1>1. n \in Nat /\ \A m \in 1..n : s[m] \in Seq(S) /\ Len(s[m]) \in Nat
  OBVIOUS
<1>2. SubSeq(s, 1, 0) = <<>> /\ SubSeq(s, 1, n) = s
  BY SubSeqEmpty, SubSeqFull
<1>2a. \A m \in 0..n : F[m] = FlattenSeq(SubSeq(s, 1, m))
  OBVIOUS
<1>3. ASSUME NEW m \in 1..n
      PROVE  /\ F[m - 1] \in Seq(S) /\ F[m] = F[m - 1] \o s[m]
  <2>1. m - 1 \in Nat /\ (m - 1) + 1 = m /\ (m - 1) + 1 \in 1..Len(s)
    BY <1>1
  <2>2. PICK p : p = m - 1
    OBVIOUS
  <2>3. SubSeq(s, 1, p) \in Seq(Seq(S)) /\ SubSeq(s, 1, p + 1) = Append(SubSeq(s, 1, p), s[p + 1])
    BY <2>1, <2>2, PrefixAppend
  <2>4. /\ FlattenSeq(SubSeq(s, 1, p)) \in Seq(S)
        /\ FlattenSeq(Append(SubSeq(s, 1, p), s[p + 1])) = FlattenSeq(SubSeq(s, 1, p)) \o s[p + 1]
    BY <1>1, <2>1, <2>2, <2>3, FlattenAppend
  <2>5. F[p] = FlattenSeq(SubSeq(s, 1, p)) /\ F[p + 1] = FlattenSeq(SubSeq(s, 1, p + 1))
    <3>1. p \in 0..n /\ p + 1 \in 0..n
      BY <1>1, <2>1, <2>2
    <3>. HIDE DEF F
    <3>. QED BY <1>2a, <3>1
  <2>. HIDE DEF F
  <2>. QED BY <2>1, <2>2, <2>3, <2>4, <2>5
<1>3a. \A m \in 0..n : at[m] = Len(F[m])
  BY <1>2a
<1>3b. F[0] = <<>>
  <2>1. F[0] = FlattenSeq(SubSeq(s, 1, 0))
    BY <1>1, <1>2a
  <2>. QED BY <1>2, <2>1, FlattenEmpty
<1>3c. FlattenSeq(s) = F[n]
  <2>1. F[n] = FlattenSeq(SubSeq(s, 1, n))
    BY <1>1, <1>2a
  <2>. QED BY <1>2, <2>1
<1>. HIDE DEF F
<1>4. ASSUME NEW m \in 0..n PROVE Fits(m)
  <2>1. CASE m = 0
    <3>1. F[0] \in Seq(S) /\ at[0] = Len(F[0])
      BY <1>3a, <1>3b, <1>1
    <3>. QED BY <2>1, <3>1
  <2>2. CASE m # 0
    <3>1. PICK f, e, g : f = F[m - 1] /\ e = s[m] /\ g = F[m]
      OBVIOUS
    <3>2. f \in Seq(S) /\ g = f \o e /\ e \in Seq(S) /\ m - 1 \in 0..n /\ m \in 1..n
      <4>1. m \in 1..n /\ m - 1 \in 0..n
        BY <1>1, <2>2
      <4>2. F[m - 1] \in Seq(S) /\ F[m] = F[m - 1] \o s[m] /\ s[m] \in Seq(S)
        BY <1>1, <1>3, <4>1
      <4>. QED BY <3>1, <4>1, <4>2
    <3>3. at[m] = Len(g) /\ at[m - 1] = Len(f)
      BY <1>3a, <3>1, <3>2
    <3>4. g \in Seq(S) /\ Len(g) = Len(f) + Len(e) /\ Len(f) \in Nat /\ Len(e) \in Nat
          /\ \A k \in 1..(Len(f) + Len(e)) : g[k] = IF k <= Len(f) THEN f[k] ELSE e[k - Len(f)]
      BY <3>2, ConcatProperties
    <3>5. \A k \in 1..Len(f) : g[k] = f[k]
      BY <3>4
    <3>6. \A i \in 1..Len(e) : g[Len(f) + i] = e[i]
      BY <3>4
    <3>. QED BY <2>2, <3>1, <3>2, <3>3, <3>4, <3>5, <3>6
  <2>. QED BY <2>1, <2>2
<1>5. at[0] = 0
  BY <1>3a, <1>3b, <1>1
<1>7. \A m \in 1..n : at[m] \in Nat /\ at[m - 1] \in Nat /\ at[m] = at[m - 1] + Len(s[m])
  <2>1. \A m \in 1..n : m \in 0..n /\ m # 0
    BY <1>1
  <2>. QED BY <1>1, <1>4, <2>1
<1>. DEFINE Has == {j \in Nat : \A m \in 0..n : m <= j /\ j <= n =>
                                  at[m] <= at[j] /\ \A k \in 1..at[m] : F[j][k] = F[m][k]}
<1>8. 0 \in Has
  BY <1>1, <1>5
<1>9. ASSUME NEW j \in Nat, j \in Has PROVE j + 1 \in Has
  <2>. SUFFICES ASSUME NEW m \in 0..n, m <= j + 1, j + 1 <= n
                PROVE  at[m] <= at[j + 1] /\ \A k \in 1..at[m] : F[j + 1][k] = F[m][k]
    <3>1. j + 1 \in Nat
      OBVIOUS
    <3>. HIDE DEF n
    <3>. QED BY <3>1
  <2>1. PICK x : x = j + 1
    OBVIOUS
  <2>2. x \in 1..n /\ x - 1 = j /\ x # 0 /\ x \in 0..n
    BY <2>1
  <2>3. /\ at[x] = at[j] + Len(s[x]) /\ at[j] \in Nat /\ at[x] \in Nat /\ at[j] <= at[x]
    BY <1>1, <1>7, <2>2
  <2>4. \A k \in 1..at[j] : F[x][k] = F[j][k]
    <3>1. Fits(x)
      BY <1>4, <2>2
    <3>. QED BY <2>2, <3>1
  <2>5. CASE m = x
    BY <2>1, <2>3, <2>5
  <2>6. CASE m # x
    <3>1. m <= j /\ j <= n
      BY <2>1, <2>6
    <3>2. at[m] <= at[j] /\ \A k \in 1..at[m] : F[j][k] = F[m][k]
      BY <1>9, <3>1
    <3>3. at[m] \in Nat
      BY <1>5, <1>7
    <3>. QED BY <2>1, <2>3, <2>4, <3>2, <3>3
  <2>. QED BY <2>5, <2>6
<1>10. n \in Has
  <2>. HIDE DEF Has
  <2>. QED BY <1>1, <1>8, <1>9, SetInduction
<1>11. \A m \in 0..n : at[m] <= at[n] /\ \A k \in 1..at[m] : F[n][k] = F[m][k]
  BY <1>10
<1>12. at[n] = Len(F[n]) /\ at[n] \in Nat
  <2>1. n \in 0..n
    BY <1>1
  <2>2. F[n] \in Seq(S) /\ at[n] = Len(F[n])
    BY <1>4, <2>1
  <2>. QED BY <2>2
<1>13. \A m \in 0..n : at[m] \in Nat
  BY <1>5, <1>7
<1>14. ASSUME NEW m \in 1..n, NEW i \in 1..Len(s[m]) PROVE F[n][at[m - 1] + i] = s[m][i]
  <2>1. Fits(m) /\ m \in 0..n /\ m # 0
    BY <1>1, <1>4
  <2>2. F[m][at[m - 1] + i] = s[m][i]
    BY <2>1
  <2>3. at[m - 1] + i \in 1..at[m]
    BY <1>1, <1>7
  <2>. QED BY <1>11, <2>1, <2>2, <2>3
<1>. QED BY <1>5, <1>3c, <1>7, <1>11, <1>12, <1>13, <1>14

\* The length of the flattened sequence is the sum of the lengths.
LEMMA FlattenLen ==
  ASSUME NEW S, NEW s \in Seq(Seq(S)), NEW lens \in Seq(Nat), Len(lens) = Len(s),
         \A i \in 1..Len(s) : lens[i] = Len(s[i])
  PROVE  Len(FlattenSeq(s)) = SumFunction(lens)
<1>. DEFINE n == Len(s)
            Has == {m \in Nat : m <= n => Len(FlattenSeq(SubSeq(s, 1, m))) = SumFunction(SubSeq(lens, 1, m))
                                          /\ SumFunction(SubSeq(lens, 1, m)) \in Nat}
<1>1. n \in Nat /\ SubSeq(s, 1, n) = s /\ SubSeq(lens, 1, n) = lens
  BY SubSeqFull
<1>2. 0 \in Has
  <2>1. SubSeq(s, 1, 0) = <<>> /\ SubSeq(lens, 1, 0) = <<>>
    BY SubSeqEmpty
  <2>2. Len(FlattenSeq(<<>>)) = 0 /\ SumFunction(<<>>) = 0
    BY FlattenEmpty, SumSeqEmpty
  <2>3. Len(FlattenSeq(SubSeq(s, 1, 0))) = 0 /\ SumFunction(SubSeq(lens, 1, 0)) = 0
    BY <2>1, <2>2, Zenon
  <2>. QED BY <2>3
<1>3. ASSUME NEW m \in Nat, m \in Has PROVE m + 1 \in Has
  <2>. SUFFICES ASSUME m + 1 <= n
                PROVE  Len(FlattenSeq(SubSeq(s, 1, m + 1))) = SumFunction(SubSeq(lens, 1, m + 1))
                       /\ SumFunction(SubSeq(lens, 1, m + 1)) \in Nat
    OBVIOUS
  <2>1. PICK p, q, e, k : p = SubSeq(s, 1, m) /\ q = SubSeq(lens, 1, m) /\ e = s[m + 1] /\ k = lens[m + 1]
    OBVIOUS
  <2>2. m + 1 \in 1..Len(s) /\ m + 1 \in 1..Len(lens) /\ e \in Seq(S) /\ k \in Nat /\ k = Len(e)
    BY <1>1, <2>1
  <2>3. p \in Seq(Seq(S)) /\ SubSeq(s, 1, m + 1) = Append(p, e)
    BY <2>1, <2>2, PrefixAppend
  <2>4. q \in Seq(Nat) /\ SubSeq(lens, 1, m + 1) = Append(q, k)
    BY <2>1, <2>2, PrefixAppend
  <2>5. Len(FlattenSeq(p)) = SumFunction(q) /\ SumFunction(q) \in Nat
    BY <1>3, <2>1
  <2>6. FlattenSeq(Append(p, e)) = FlattenSeq(p) \o e /\ FlattenSeq(p) \in Seq(S)
    BY <2>2, <2>3, FlattenAppend
  <2>7. SumFunction(Append(q, k)) = SumFunction(q) + k
    BY <2>2, <2>4, SumSeqAppend
  <2>8. Len(FlattenSeq(p) \o e) = Len(FlattenSeq(p)) + Len(e)
    BY <2>2, <2>6
  <2>9. Len(FlattenSeq(Append(p, e))) = SumFunction(Append(q, k)) /\ SumFunction(Append(q, k)) \in Nat
    <3>1. PICK x, y : x = FlattenSeq(p) /\ y = SumFunction(q)
      OBVIOUS
    <3>2. Len(x \o e) = y + k /\ y + k \in Nat
      BY <2>2, <2>5, <2>8, <3>1
    <3>. QED BY <2>6, <2>7, <3>1, <3>2
  <2>. QED BY <2>3, <2>4, <2>9, Zenon
<1>4. n \in Has
  <2>. HIDE DEF Has
  <2>. QED BY <1>1, <1>2, <1>3, SetInduction
<1>5. Len(FlattenSeq(SubSeq(s, 1, n))) = SumFunction(SubSeq(lens, 1, n))
  BY <1>1, <1>4
<1>. QED BY <1>1, <1>5, Zenon

-----------------------------------------------------------------------------
Data == Seq(Nat \X Nat)
Cells == Data \X Int
Blocks ==
  [unpack_size : Nat, crc : Data, num_sub_unpack_streams : Nat,
   sub_stream_sizes : Seq(Nat), sub_stream_crcs : Seq(Data)]

\* what a caller says of an entry of a solid block
Items == [size : Nat, is_directory : BOOLEAN]

-----------------------------------------------------------------------------
(* The forms a step of the writer has *)

\* the block b describes the data cs of its entries
Describes(b, cs) ==
  /\ b.unpack_size = Len(FlattenSeq(cs)) /\ b.num_sub_unpack_streams = Len(cs)
  /\ \/ /\ Len(cs) = 1 /\ b.unpack_size = Len(cs[1]) /\ b.crc = cs[1]
        /\ b.sub_stream_sizes = <<>> /\ b.sub_stream_crcs = <<>>
     \/ /\ b.sub_stream_sizes = [i \in 1..Len(cs) |-> Len(cs[i])]
        /\ b.sub_stream_crcs = cs

\* the entry describes its data
Backs(entry, bytes) == entry.size = Len(bytes) /\ entry.has_crc /\ entry.crc = bytes

\* an entry without data
Empty(entry) == entry.size = 0 /\ ~entry.has_crc /\ (entry.has_stream => ~entry.is_directory)

\* a solid block has no directories: push_solid_entries_parallel counts them as files
FilesInBlocks == \A list \in SolidLists : \A i \in DOMAIN list : ~list[i].is_directory

AddsStream(b, new, cs) ==
  /\ header = <<>> /\ UNCHANGED <<content_methods, header, start>>
  /\ cs \in Seq(Data) /\ AddPackedStream(FlattenSeq(cs))
  /\ \A i \in 1..Len(cs) : cs[i] # Unreadable
  /\ b \in Blocks /\ Describes(b, cs) /\ blocks' = Append(blocks, b)
  /\ new \in Seq(Entries) /\ Len(new) = Len(cs) /\ AddFiles(new, cs)
  /\ \A i \in 1..Len(new) : Backs(new[i], cs[i])
  /\ FilesInBlocks => \A i \in 1..Len(new) : new[i].has_stream /\ ~new[i].is_directory

AddsEmpty(entry) ==
  /\ header = <<>> /\ UNCHANGED <<content_methods, header, start, output, streams>>
  /\ entry \in Entries /\ Empty(entry)
  /\ AddFiles(<<entry>>, <<<<>>>>)

Orphans(cells) ==
  /\ header = <<>> /\ cells \in Seq(Cells)
  /\ output' = output \o cells /\ orphans' = orphans + Len(cells)
  /\ failures < MaxFailures /\ failures' = failures + 1
  /\ UNCHANGED <<content_methods, files, header, start, streams, contents, clean>>

Finishes ==
  /\ start' \in {"reserved", "signature", "torn", "complete", "cut"}
  /\ \E encoded \in BOOLEAN : WriteNextHeader(encoded)

\* The data of an entry.
LEMMA ContentIsData ==
  ASSUME NEW n \in Nat, NEW size \in Nat
  PROVE  /\ Content(n, size) \in Data /\ Len(Content(n, size)) = size
         /\ n > 0 => Content(n, size) # Unreadable
<1>1. Content(n, size) \in Data /\ Len(Content(n, size)) = size
  BY DEF Content, Data
<1>2. ASSUME n > 0, Content(n, size) = Unreadable PROVE FALSE
  <2>1. Content(n, size)[1] = <<0, 1>> /\ Len(Content(n, size)) = 1
    BY <1>2 DEF Unreadable
  <2>2. 1 \in 1..size
    BY <1>1, <2>1
  <2>3. Content(n, size)[1] = <<n, 1>>
    BY <2>2 DEF Content
  <2>. QED BY <1>2, <2>1, <2>3
<1>. QED BY <1>1, <1>2

\* Packing it.
LEMMA PackIsCells ==
  ASSUME NEW bytes \in Data, NEW overhead \in Nat
  PROVE  /\ Pack(bytes, overhead) \in Seq(Cells)
         /\ Len(Pack(bytes, overhead)) = Len(bytes) + overhead
<1>1. Len(bytes) + overhead \in Nat
  BY DEF Data
<1>2. \A i \in 1..(Len(bytes) + overhead) :
        <<bytes, IF i = Len(bytes) + overhead /\ overhead > 0 THEN EndMark ELSE i>> \in Cells
  BY <1>1 DEF Cells, EndMark
<1>. QED BY <1>1, <1>2 DEF Pack

\* One stream flattened is itself.
LEMMA FlattenOne ==
  ASSUME NEW S, NEW e \in Seq(S)
  PROVE  FlattenSeq(<<e>>) = e
<1>1. <<>> \in Seq(Seq(S)) /\ <<e>> = Append(<<>>, e)
  OBVIOUS
<1>2. FlattenSeq(<<e>>) = FlattenSeq(<<>>) \o e
  BY <1>1, FlattenAppend
<1>. QED BY <1>2, FlattenEmpty

\* What the bytes of any list flattened are.
LEMMA FlattenData ==
  ASSUME NEW cs \in Seq(Data)
  PROVE  FlattenSeq(cs) \in Data
<1>1. <<>> \in Data
  BY DEF Data
<1>2. FlattenSeq(Append(cs, <<>>)) = FlattenSeq(cs) \o <<>> /\ FlattenSeq(cs) \in Data
  BY <1>1, FlattenAppend DEF Data
<1>. QED BY <1>2

\* An entry pushed with its data.
LEMMA CompressAdds ==
  ASSUME NEW entry \in Entries, ~entry.is_directory, NEW bytes \in Data, bytes # Unreadable,
         CompressEntry(entry, bytes), header = <<>>,
         UNCHANGED <<content_methods, header, start>>
  PROVE  \E b, new, cs : AddsStream(b, new, cs)
<1>. DEFINE b == [unpack_size |-> Len(bytes), crc |-> Crc(bytes), num_sub_unpack_streams |-> 1,
                  sub_stream_sizes |-> <<>>, sub_stream_crcs |-> <<>>]
            e == WithStream(entry, bytes)
<1>1. Len(bytes) \in Nat
  BY DEF Data
<1>2. b \in Blocks
  BY <1>1 DEF Blocks, Crc
<1>3. /\ e \in Entries /\ Backs(e, bytes) /\ e.has_stream /\ ~e.is_directory
  BY <1>1 DEF Entries, WithStream, Backs, Crc, Data
<1>4. FlattenSeq(<<bytes>>) = bytes
  BY FlattenOne DEF Data
<1>5. <<bytes>> \in Seq(Data) /\ Len(<<bytes>>) = 1 /\ <<bytes>>[1] = bytes
  OBVIOUS
<1>6. Describes(b, <<bytes>>)
  BY <1>4, <1>5 DEF Describes, Crc
<1>7. /\ AddPackedStream(bytes) /\ blocks' = Append(blocks, b) /\ AddFiles(<<e>>, <<bytes>>)
  BY DEF CompressEntry, AddBlock
<1>. HIDE DEF e, b
<1>8. <<e>> \in Seq(Entries) /\ Len(<<e>>) = 1 /\ <<e>>[1] = e
  BY <1>3
<1>9. AddsStream(b, <<e>>, <<bytes>>)
  BY <1>2, <1>3, <1>4, <1>5, <1>6, <1>7, <1>8 DEF AddsStream
<1>. QED BY <1>9

\* A new entry.
LEMMA NewEntryType ==
  ASSUME NEW n \in Nat, NEW dir \in BOOLEAN, NEW anti \in BOOLEAN
  PROVE  /\ NewEntry(n, dir, anti) \in Entries
         /\ NewEntry(n, dir, anti).is_directory = dir
         /\ NewEntry(n, dir, anti).has_stream = ~dir
         /\ Empty(NewEntry(n, dir, anti))
         /\ Empty(WithoutStream(NewEntry(n, dir, anti)))
         /\ WithoutStream(NewEntry(n, dir, anti)) \in Entries
<1>1. NoCrc \in Seq(Nat \X Nat)
  BY DEF NoCrc, Crc
<1>. QED BY <1>1, Zenon DEF NewEntry, Entries, Empty, WithoutStream

\* An entry pushed by itself.
LEMMA PushOne ==
  ASSUME NEW kind, kind.is_directory \in BOOLEAN, kind.is_anti_item \in BOOLEAN,
         NEW size \in Nat, files \in Seq(Entries), push_archive_entry(kind, size)
  PROVE  (\E b, new, cs : AddsStream(b, new, cs)) \/ (\E entry : AddsEmpty(entry))
<1>. DEFINE n == Len(files) + 1
            entry == NewEntry(n, kind.is_directory, kind.is_anti_item)
<1>1. n \in Nat
  OBVIOUS
<1>2. /\ entry \in Entries /\ entry.is_directory = kind.is_directory
      /\ Empty(WithoutStream(entry)) /\ WithoutStream(entry) \in Entries
  BY <1>1, NewEntryType
<1>3. Content(n, size) \in Data /\ Content(n, size) # Unreadable
  <2>1. n > 0
    OBVIOUS
  <2>. QED BY <1>1, <2>1, ContentIsData
<1>4. header = <<>> /\ UNCHANGED <<content_methods, header, start>>
  BY DEF push_archive_entry, MayPush
<1>. HIDE DEF entry
<1>5. CASE ~kind.is_directory /\ CompressEntry(entry, Content(n, size))
  BY <1>2, <1>3, <1>4, <1>5, CompressAdds
<1>6. CASE PushEmptyEntry(entry)
  <2>1. AddsEmpty(WithoutStream(entry))
    BY <1>2, <1>4, <1>6 DEF AddsEmpty, PushEmptyEntry
  <2>. QED BY <2>1
<1>. QED BY <1>5, <1>6 DEF push_archive_entry, entry

\* Pushing a file from a slice adds its stream, or an entry without one when the
\* slice is empty.
LEMMA PushBytes ==
  ASSUME NEW kind, kind.is_directory \in BOOLEAN, kind.is_anti_item \in BOOLEAN,
         NEW size \in Nat, files \in Seq(Entries), push_archive_entry_bytes(kind, size)
  PROVE  (\E b, new, cs : AddsStream(b, new, cs)) \/ (\E entry : AddsEmpty(entry))
<1>. DEFINE n == Len(files) + 1
            entry == NewEntry(n, kind.is_directory, kind.is_anti_item)
            e == [WithoutStream(entry) EXCEPT !.has_stream = ~entry.is_directory]
<1>1. n \in Nat
  OBVIOUS
<1>2. /\ entry \in Entries /\ entry.is_directory = kind.is_directory
      /\ Empty(WithoutStream(entry)) /\ WithoutStream(entry) \in Entries
  BY <1>1, NewEntryType
<1>3. Content(n, size) \in Data /\ Content(n, size) # Unreadable
  <2>1. n > 0
    OBVIOUS
  <2>. QED BY <1>1, <2>1, ContentIsData
<1>4. header = <<>> /\ UNCHANGED <<content_methods, header, start>>
  BY DEF push_archive_entry_bytes, MayPush
<1>5. PushBytesEntry(entry, Content(n, size))
  BY DEF push_archive_entry_bytes
<1>6. Empty(e) /\ e \in Entries
  <2>1. WithoutStream(entry).is_directory = entry.is_directory
    BY <1>2 DEF WithoutStream, Entries
  <2>. HIDE DEF entry
  <2>. QED BY <1>2, <2>1 DEF Empty, Entries
<1>. HIDE DEF entry
<1>7. CASE ~entry.is_directory /\ CompressEntry(entry, Content(n, size))
  BY <1>2, <1>3, <1>4, <1>7, CompressAdds
<1>8. CASE AddFiles(<<e>>, <<<<>>>>) /\ UNCHANGED <<output, streams>>
  <2>1. AddsEmpty(e)
    BY <1>4, <1>6, <1>8 DEF AddsEmpty
  <2>. QED BY <2>1
<1>. QED BY <1>5, <1>7, <1>8 DEF PushBytesEntry

\* The bytes of the entries of a solid block.
LEMMA SolidData ==
  ASSUME files \in Seq(Entries), NEW list \in Seq(Items)
  PROVE  /\ SolidBytes(list) \in Seq(Data) /\ Len(SolidBytes(list)) = Len(list)
         /\ \A i \in 1..Len(list) :
              /\ SolidBytes(list)[i] \in Data /\ SolidBytes(list)[i] # Unreadable
              /\ SolidEntries(list)[i] \in Entries
              /\ SolidEntries(list)[i].is_directory = list[i].is_directory
              /\ SolidEntries(list)[i].has_stream = ~list[i].is_directory
<1>1. DOMAIN list = 1..Len(list) /\ Len(list) \in Nat /\ Len(files) \in Nat
  OBVIOUS
<1>2. ASSUME NEW i \in 1..Len(list)
      PROVE  /\ Content(Len(files) + i, list[i].size) \in Data
             /\ Content(Len(files) + i, list[i].size) # Unreadable
             /\ SolidEntries(list)[i] \in Entries
             /\ SolidEntries(list)[i].is_directory = list[i].is_directory
             /\ SolidEntries(list)[i].has_stream = ~list[i].is_directory
  <2>0. list[i] \in Items
    BY <1>1
  <2>1. list[i] \in [size : Nat, is_directory : BOOLEAN]
    BY <2>0 DEF Items
  <2>2. PICK n, size, dir : n = Len(files) + i /\ size = list[i].size /\ dir = list[i].is_directory
    OBVIOUS
  <2>3. n \in Nat /\ size \in Nat /\ n > 0
    BY <1>1, <2>1, <2>2
  <2>4. dir \in BOOLEAN
    BY <2>1, <2>2, Zenon
  <2>5. SolidEntries(list)[i] = NewEntry(n, dir, FALSE)
    BY <1>1, <2>2, Zenon DEF SolidEntries
  <2>6. /\ NewEntry(n, dir, FALSE) \in Entries
        /\ NewEntry(n, dir, FALSE).is_directory = dir
        /\ NewEntry(n, dir, FALSE).has_stream = ~dir
    BY <2>3, <2>4, NewEntryType
  <2>7. Content(n, size) \in Data /\ Content(n, size) # Unreadable
    BY <2>3, ContentIsData
  <2>. QED BY <2>2, <2>5, <2>6, <2>7, Zenon
<1>3. SolidBytes(list) = [i \in 1..Len(list) |-> Content(Len(files) + i, list[i].size)]
  BY <1>1 DEF SolidBytes
<1>. QED BY <1>1, <1>2, <1>3

\* The entries of a solid block, as they are added.
LEMMA SolidAdds ==
  ASSUME files \in Seq(Entries), NEW list \in SolidLists,
         NEW new, new = [i \in DOMAIN list |-> new[i]],
         \A i \in DOMAIN list :
           LET e == WithStream(SolidEntries(list)[i], SolidBytes(list)[i])
           IN  \E has : new[i] = [e EXCEPT !.has_stream = has]
                        /\ has \in {TRUE, ~list[i].is_directory},
         header = <<>>, UNCHANGED <<content_methods, header, start>>,
         AddPackedStream(FlattenSeq(SolidBytes(list))), AddSolidBlock(SolidBytes(list)),
         AddFiles(new, SolidBytes(list))
  PROVE  \E b, ns, cs : AddsStream(b, ns, cs)
<1>. DEFINE cs == SolidBytes(list)
            b == [unpack_size |-> Len(FlattenSeq(cs)), crc |-> Crc(FlattenSeq(cs)),
                  num_sub_unpack_streams |-> Len(cs),
                  sub_stream_sizes |-> [i \in DOMAIN cs |-> Len(cs[i])],
                  sub_stream_crcs |-> [i \in DOMAIN cs |-> Crc(cs[i])]]
<1>1. list \in Seq(Items) /\ DOMAIN list = 1..Len(list)
      /\ Len(list) \in Nat /\ \A i \in 1..Len(list) : list[i].is_directory \in BOOLEAN
  <2>1. list \in Seq(Items)
    BY WriterAssumption DEF Items
  <2>2. DOMAIN list = 1..Len(list) /\ Len(list) \in Nat
    BY <2>1
  <2>3. ASSUME NEW i \in 1..Len(list) PROVE list[i].is_directory \in BOOLEAN
    <3>1. list[i] \in Items
      BY <2>1, <2>2
    <3>2. list[i] \in [size : Nat, is_directory : BOOLEAN]
      BY <3>1 DEF Items
    <3>. QED BY <3>2, Zenon
  <2>. QED BY <2>1, <2>2, <2>3
<1>2. /\ cs \in Seq(Data) /\ Len(cs) = Len(list)
      /\ \A i \in 1..Len(list) :
              /\ cs[i] \in Data /\ cs[i] # Unreadable
              /\ SolidEntries(list)[i] \in Entries
              /\ SolidEntries(list)[i].is_directory = list[i].is_directory
  BY <1>1, SolidData
<1>3. AddPackedStream(FlattenSeq(cs)) /\ blocks' = Append(blocks, b) /\ AddFiles(new, cs)
  BY DEF AddSolidBlock
<1>. HIDE DEF cs
<1>4. ASSUME NEW i \in 1..Len(list)
      PROVE  /\ new[i] \in Entries /\ Backs(new[i], cs[i])
             /\ ~list[i].is_directory => new[i].has_stream /\ ~new[i].is_directory
  <2>. DEFINE e == SolidEntries(list)[i]
              w == WithStream(e, cs[i])
  <2>1. PICK has : new[i] = [w EXCEPT !.has_stream = has] /\ has \in {TRUE, ~list[i].is_directory}
    BY <1>1 DEF cs
  <2>2. Len(cs[i]) \in Nat /\ cs[i] \in Seq(Nat \X Nat)
    BY <1>2 DEF Data
  <2>3. e \in Entries /\ e.is_directory = list[i].is_directory
    BY <1>2
  <2>. HIDE DEF e
  <2>4. w \in Entries /\ w.is_directory = list[i].is_directory /\ Backs(w, cs[i])
    BY <2>2, <2>3 DEF WithStream, Entries, Crc, Backs
  <2>. HIDE DEF w
  <2>5. has \in BOOLEAN
    BY <1>1, <2>1
  <2>6. new[i] \in Entries /\ Backs(new[i], cs[i]) /\ new[i].has_stream = has
        /\ new[i].is_directory = list[i].is_directory
    BY <2>1, <2>4, <2>5 DEF Entries, Backs
  <2>. QED BY <2>1, <2>6
<1>5. new \in Seq(Entries) /\ Len(new) = Len(cs)
  <2>1. new = [i \in 1..Len(list) |-> new[i]]
    BY <1>1
  <2>. QED BY <1>1, <1>2, <1>4, <2>1
<1>6. DOMAIN cs = 1..Len(cs) /\ Len(cs) \in Nat
      /\ \A i \in 1..Len(cs) : Len(cs[i]) \in Nat /\ cs[i] \in Data
  BY <1>1, <1>2 DEF Data
<1>7. FlattenSeq(cs) \in Data /\ Len(FlattenSeq(cs)) \in Nat
  <2>1. FlattenSeq(cs) \in Data
    BY <1>2, FlattenData
  <2>. QED BY <2>1 DEF Data
<1>8. b \in Blocks /\ Describes(b, cs)
  <2>1. [i \in DOMAIN cs |-> Crc(cs[i])] = cs
    BY <1>2, <1>6, RowOf DEF Crc
  <2>2. [i \in DOMAIN cs |-> Len(cs[i])] \in Seq(Nat)
    BY <1>6
  <2>. QED BY <1>2, <1>6, <1>7, <2>1, <2>2 DEF Blocks, Describes, Crc
<1>. HIDE DEF b
<1>9. FilesInBlocks => \A i \in 1..Len(new) : new[i].has_stream /\ ~new[i].is_directory
  BY <1>1, <1>2, <1>4, <1>5 DEF FilesInBlocks
<1>10. AddsStream(b, new, cs)
  BY <1>2, <1>3, <1>4, <1>5, <1>8, <1>9 DEF AddsStream
<1>. QED BY <1>10

\* Every step of the writer has one of these forms.
Steps ==
  \/ \E b, new, cs : AddsStream(b, new, cs)
  \/ \E entry : AddsEmpty(entry)
  \/ \E cells : Orphans(cells)
  \/ \E overhead \in Overheads : set_content_methods(overhead)
  \/ Finishes

\* The kinds of the entries have their flags.
LEMMA KindFlags ==
  ASSUME NEW kind \in Kinds
  PROVE  kind.is_directory \in BOOLEAN /\ kind.is_anti_item \in BOOLEAN
<1>1. kind \in [is_directory : BOOLEAN, is_anti_item : BOOLEAN, has_reader : BOOLEAN]
  BY WriterAssumption
<1>. QED BY <1>1, Zenon

\* A failed push leaves the cells it had written.
LEMMA FailOrphans ==
  ASSUME files \in Seq(Entries), content_methods \in Overheads, NEW list \in FailingLists,
         NEW emitted \in 0..Len(Pack(FlattenSeq(SolidBytes(list)), content_methods)),
         push_fails(list, emitted)
  PROVE  \E cells : Orphans(cells)
<1>. DEFINE packed == Pack(FlattenSeq(SolidBytes(list)), content_methods)
<1>1. list \in Seq(Items)
  BY WriterAssumption DEF Items
<1>2. packed \in Seq(Cells)
  <2>1. FlattenSeq(SolidBytes(list)) \in Data
    BY <1>1, SolidData, FlattenData
  <2>2. content_methods \in Nat
    BY WriterAssumption
  <2>. QED BY <2>1, <2>2, PackIsCells
<1>3. emitted \in 0..Len(packed) /\ output' = output \o SubSeq(packed, 1, emitted)
  BY DEF push_fails
<1>. HIDE DEF packed
<1>4. SubSeq(packed, 1, emitted) \in Seq(Cells) /\ Len(SubSeq(packed, 1, emitted)) = emitted
  BY <1>2, <1>3
<1>5. Orphans(SubSeq(packed, 1, emitted))
  BY <1>3, <1>4 DEF Orphans, push_fails, MayPush
<1>. QED BY <1>5

\* Every step of the writer has one of these forms.
LEMMA NextSteps ==
  ASSUME files \in Seq(Entries), content_methods \in Overheads, Next
  PROVE  Steps
<1>. DEFINE Adds == (\E b, new, cs : AddsStream(b, new, cs)) \/ (\E entry : AddsEmpty(entry))
<1>1. ASSUME NEW kind \in Kinds, NEW size \in Sizes, push_archive_entry(kind, size)
      PROVE  Adds
  BY <1>1, PushOne, KindFlags, WriterAssumption
<1>2. ASSUME NEW kind \in Kinds, NEW size \in Sizes, push_archive_entry_bytes(kind, size)
      PROVE  Adds
  BY <1>2, PushBytes, KindFlags, WriterAssumption
<1>3. ASSUME NEW kind \in Kinds, NEW size \in Sizes,
             push_archive_entry([kind EXCEPT !.has_reader = TRUE], size)
      PROVE  Adds
  <2>. DEFINE k == [kind EXCEPT !.has_reader = TRUE]
  <2>1. kind \in [is_directory : BOOLEAN, is_anti_item : BOOLEAN, has_reader : BOOLEAN]
    BY WriterAssumption
  <2>2. k.is_directory = kind.is_directory /\ k.is_anti_item = kind.is_anti_item
    BY <2>1
  <2>3. push_archive_entry(k, size)
    BY <1>3
  <2>. HIDE DEF k
  <2>4. k.is_directory \in BOOLEAN /\ k.is_anti_item \in BOOLEAN
    BY <2>2, KindFlags, Zenon
  <2>5. size \in Nat
    BY WriterAssumption
  <2>. QED BY <2>3, <2>4, <2>5, PushOne
<1>4. ASSUME NEW kind \in Kinds, NEW size \in Sizes, push_archive_entry_adaptive(kind, size)
      PROVE  Adds
  BY <1>2, <1>3, <1>4 DEF push_archive_entry_adaptive, push_archive_entry_small
<1>5. ASSUME NEW list \in SolidLists, push_archive_entries(list)
      PROVE  Adds
  <2>. DEFINE new == [i \in DOMAIN list |->
                        [WithStream(SolidEntries(list)[i], SolidBytes(list)[i])
                           EXCEPT !.has_stream = SolidEntries(list)[i].has_stream]]
  <2>1. list \in Seq(Items) /\ DOMAIN list = 1..Len(list)
    BY WriterAssumption DEF Items
  <2>2. ASSUME NEW i \in DOMAIN list
        PROVE  \E has : new[i] = [WithStream(SolidEntries(list)[i], SolidBytes(list)[i])
                                    EXCEPT !.has_stream = has]
                        /\ has \in {TRUE, ~list[i].is_directory}
    <3>1. SolidEntries(list)[i].has_stream = ~list[i].is_directory
      BY <2>1, SolidData
    <3>. QED BY <3>1
  <2>3. /\ header = <<>> /\ UNCHANGED <<content_methods, header, start>>
        /\ AddPackedStream(FlattenSeq(SolidBytes(list))) /\ AddSolidBlock(SolidBytes(list))
        /\ AddFiles(new, SolidBytes(list))
    BY <1>5 DEF push_archive_entries, MayPush
  <2>4. new = [i \in DOMAIN list |-> new[i]]
    OBVIOUS
  <2>. HIDE DEF new
  <2>. QED BY <2>2, <2>3, <2>4, SolidAdds
<1>6. ASSUME NEW list \in SolidLists, push_solid_entries_parallel(list)
      PROVE  Adds
  <2>. DEFINE new == [i \in DOMAIN list |-> WithStream(SolidEntries(list)[i], SolidBytes(list)[i])]
  <2>1. list \in Seq(Items) /\ DOMAIN list = 1..Len(list)
    BY WriterAssumption DEF Items
  <2>2. ASSUME NEW i \in DOMAIN list
        PROVE  \E has : new[i] = [WithStream(SolidEntries(list)[i], SolidBytes(list)[i])
                                    EXCEPT !.has_stream = has]
                        /\ has \in {TRUE, ~list[i].is_directory}
    <3>. DEFINE e == SolidEntries(list)[i]
    <3>1. e \in Entries
      BY <2>1, SolidData
    <3>. HIDE DEF e
    <3>2. WithStream(e, SolidBytes(list)[i])
            = [WithStream(e, SolidBytes(list)[i]) EXCEPT !.has_stream = TRUE]
      BY <3>1 DEF WithStream, Entries
    <3>. QED BY <3>2 DEF e
  <2>3. /\ header = <<>> /\ UNCHANGED <<content_methods, header, start>>
        /\ AddPackedStream(FlattenSeq(SolidBytes(list))) /\ AddSolidBlock(SolidBytes(list))
        /\ AddFiles(new, SolidBytes(list))
    BY <1>6 DEF push_solid_entries_parallel, MayPush
  <2>4. new = [i \in DOMAIN list |-> new[i]]
    OBVIOUS
  <2>. HIDE DEF new
  <2>. QED BY <2>2, <2>3, <2>4, SolidAdds
<1>7. ASSUME NEW list \in FailingLists,
             NEW emitted \in 0..Len(Pack(FlattenSeq(SolidBytes(list)), content_methods)),
             push_fails(list, emitted)
      PROVE  \E cells : Orphans(cells)
  BY <1>7, FailOrphans
<1>8. ASSUME NEW encoded \in BOOLEAN,
             finish(encoded) \/ finish_interrupted(encoded) \/ streaming_finish(encoded)
      PROVE  Finishes
  BY <1>8 DEF finish, finish_interrupted, streaming_finish, Finishes
<1>. HIDE DEF Adds
<1>9. Adds \/ (\E cells : Orphans(cells)) \/ (\E o \in Overheads : set_content_methods(o)) \/ Finishes
  BY <1>1, <1>2, <1>4, <1>5, <1>6, <1>7, <1>8
     DEF Next, push_archive_entry_fast, push_archive_entry_with_progress,
         push_archive_entry_batched, streaming_push_archive_entry, streaming_push_archive_entries
<1>. QED BY <1>9 DEF Steps, Adds

-----------------------------------------------------------------------------
(* The writer's invariant *)

Types ==
  /\ content_methods \in Overheads
  /\ output \in Seq(Cells)
  /\ files \in Seq(Entries) /\ contents \in Seq(Data)
  /\ pack_info \in [pos : {0}, sizes : Seq(Nat), crcs : Seq(Seq(Cells))]
  /\ blocks \in Seq(Blocks)
  /\ starts \in Seq(Nat)
  /\ header = <<>> \/ \E h : header = <<h>> /\ h.pos \in 0..Len(output)
  /\ start \in {"reserved", "signature", "torn", "complete", "cut"}
  /\ orphans \in Nat /\ clean \in 0..Len(files) /\ failures \in 0..MaxFailures

WInv == Types /\ StreamsTileOutput

\* The first state of a writer.
LEMMA InitWInv == Init => WInv
<1>. SUFFICES ASSUME Init PROVE WInv
  OBVIOUS
<1>. USE DEF Init
<1>1. pack_info \in [pos : {0}, sizes : Seq(Nat), crcs : Seq(Seq(Cells))]
      /\ pack_info.sizes = <<>> /\ pack_info.crcs = <<>>
  OBVIOUS
<1>2. Types
  BY <1>1, WriterAssumption DEF Types
<1>3. StreamsTileOutput
  BY <1>1, SumSeqEmpty DEF StreamsTileOutput
<1>. QED BY <1>2, <1>3 DEF WInv

\* Adding a number at the end leaves the sums before it.
LEMMA SumBefore ==
  ASSUME NEW s \in Seq(Nat), NEW e \in Nat
  PROVE  /\ \A b \in 1..Len(s) : SubSeq(Append(s, e), 1, b - 1) = SubSeq(s, 1, b - 1)
         /\ SubSeq(Append(s, e), 1, Len(s)) = s
<1>. DEFINE t == Append(s, e)
<1>1. t \in Seq(Nat) /\ Len(t) = Len(s) + 1 /\ Len(s) \in Nat /\ \A i \in 1..Len(s) : t[i] = s[i]
  OBVIOUS
<1>. HIDE DEF t
<1>2. ASSUME NEW m \in 0..Len(s) PROVE SubSeq(t, 1, m) = SubSeq(s, 1, m)
  <2>0. m \in Nat /\ m <= Len(t)
    BY <1>1
  <2>1. SubSeq(s, 1, m) \in Seq(Nat) /\ Len(SubSeq(s, 1, m)) = m
        /\ \A i \in 1..m : SubSeq(s, 1, m)[i] = s[i]
    BY <1>1, SMTT(30)
  <2>3. SubSeq(t, 1, m) \in Seq(Nat) /\ Len(SubSeq(t, 1, m)) = m
        /\ \A i \in 1..m : SubSeq(t, 1, m)[i] = t[i]
    BY <1>1, <2>0
  <2>2. \A i \in 1..m : SubSeq(t, 1, m)[i] = SubSeq(s, 1, m)[i]
    BY <1>1, <2>1, <2>3
  <2>. QED BY <2>1, <2>2, <2>3, SeqEqual
<1>3. SubSeq(s, 1, Len(s)) = s
  BY SubSeqFull
<1>4. SubSeq(t, 1, Len(s)) = s
  BY <1>1, <1>2, <1>3
<1>5. ASSUME NEW b \in 1..Len(s) PROVE SubSeq(t, 1, b - 1) = SubSeq(s, 1, b - 1)
  BY <1>1, <1>2
<1>. QED BY <1>4, <1>5 DEF t

\* A new stream begins where the last one ended or behind orphan cells.
LEMMA StreamTiles ==
  ASSUME WInv, NEW b, NEW new, NEW cs, AddsStream(b, new, cs)
  PROVE  WInv'
<1>. DEFINE bytes == FlattenSeq(cs)
            packed == Pack(bytes, content_methods)
<1>1. bytes \in Data /\ content_methods \in Nat
  BY FlattenData, WriterAssumption DEF WInv, Types, AddsStream
<1>2. packed \in Seq(Cells)
  BY <1>1, PackIsCells
<1>3. PICK s, crcs, e, n : s = pack_info.sizes /\ crcs = pack_info.crcs /\ e = Len(packed) /\ n = Len(blocks)
  OBVIOUS
<1>4. /\ s \in Seq(Nat) /\ crcs \in Seq(Seq(Cells)) /\ e \in Nat /\ n \in Nat
      /\ output \in Seq(Cells) /\ starts \in Seq(Nat) /\ Len(starts) = n /\ Len(s) = n /\ Len(crcs) = n
      /\ orphans \in Nat /\ orphans + SumFunction(s) = Len(output) /\ Len(output) \in Nat
      /\ pack_info.pos = 0
  BY <1>2, <1>3 DEF WInv, Types, StreamsTileOutput, AddsStream
<1>5. /\ output' = output \o packed /\ starts' = Append(starts, Len(output))
      /\ pack_info' = [pack_info EXCEPT !.sizes = Append(s, e), !.crcs = Append(crcs, packed)]
      /\ blocks' = Append(blocks, b) /\ files' = files \o new /\ contents' = contents \o cs
      /\ UNCHANGED <<content_methods, header, start, orphans, failures>>
      /\ clean' = IF orphans = 0 THEN Len(files') ELSE clean
      /\ header = <<>> /\ b \in Blocks /\ new \in Seq(Entries) /\ cs \in Seq(Data) /\ Len(new) = Len(cs)
  BY <1>3 DEF AddsStream, AddPackedStream, AddFiles, Crc
<1>. HIDE DEF packed, bytes
<1>6. /\ pack_info' \in [pos : {0}, sizes : Seq(Nat), crcs : Seq(Seq(Cells))]
      /\ pack_info'.sizes = Append(s, e) /\ pack_info'.crcs = Append(crcs, packed) /\ pack_info'.pos = 0
  <2>1. pack_info \in [pos : {0}, sizes : Seq(Nat), crcs : Seq(Seq(Cells))]
    BY DEF WInv, Types
  <2>2. Append(s, e) \in Seq(Nat) /\ Append(crcs, packed) \in Seq(Seq(Cells))
    BY <1>2, <1>4
  <2>. QED BY <1>4, <1>5, <2>1, <2>2
<1>7. output' \in Seq(Cells) /\ Len(output') = Len(output) + e
  BY <1>2, <1>3, <1>4, <1>5, ConcatProperties
<1>8. /\ files \in Seq(Entries) /\ contents \in Seq(Data) /\ Len(contents) = Len(files)
      /\ clean \in 0..Len(files)
  BY DEF WInv, Types, StreamsTileOutput
<1>9. /\ files' \in Seq(Entries) /\ Len(files') = Len(files) + Len(new)
      /\ contents' \in Seq(Data) /\ Len(contents') = Len(contents) + Len(cs)
  BY <1>5, <1>8, ConcatProperties
<1>10. Types'
  <2>1. blocks' \in Seq(Blocks) /\ starts' \in Seq(Nat)
    BY <1>4, <1>5 DEF WInv, Types
  <2>2. clean' \in 0..Len(files')
    BY <1>5, <1>8, <1>9
  <2>. QED BY <1>4, <1>5, <1>6, <1>7, <1>9, <2>1, <2>2 DEF WInv, Types
<1>11. SumFunction(s) \in Nat /\ SumFunction(Append(s, e)) = SumFunction(s) + e
  BY <1>4, SumSeqAppend
<1>12. /\ Len(starts') = n + 1 /\ Len(Append(s, e)) = n + 1 /\ Len(Append(crcs, packed)) = n + 1
       /\ Len(blocks') = n + 1 /\ starts'[n + 1] = Len(output) /\ Append(s, e)[n + 1] = e
       /\ \A k \in 1..n : starts'[k] = starts[k] /\ Append(s, e)[k] = s[k]
  <2>1. Len(Append(s, e)) = n + 1 /\ Append(s, e)[n + 1] = e /\ \A k \in 1..n : Append(s, e)[k] = s[k]
    BY <1>4
  <2>2. /\ Len(starts') = n + 1 /\ starts'[n + 1] = Len(output)
        /\ \A k \in 1..n : starts'[k] = starts[k]
    BY <1>4, <1>5
  <2>3. Len(Append(crcs, packed)) = n + 1
    BY <1>2, <1>4
  <2>4. blocks \in Seq(Blocks)
    BY DEF WInv, Types
  <2>5. Len(blocks') = n + 1
    BY <1>3, <1>5, <2>4
  <2>. QED BY <2>1, <2>2, <2>3, <2>5
<1>13. \A k \in 1..n : starts[k] \in Nat /\ s[k] \in Nat /\ starts[k] + s[k] <= Len(output)
  <2>1. DOMAIN starts = 1..n /\ \A k \in 1..n : starts[k] \in Nat /\ s[k] \in Nat
    BY <1>4
  <2>2. \A k \in DOMAIN starts : starts[k] + pack_info.sizes[k] <= Len(output)
    BY DEF WInv, StreamsTileOutput
  <2>. QED BY <1>3, <2>1, <2>2
<1>14. \A k \in 1..(n - 1) : starts[k] + s[k] <= starts[k + 1]
  BY <1>3, <1>4 DEF WInv, StreamsTileOutput
<1>15. \A k \in 1..(n + 1) : starts'[k] + Append(s, e)[k] <= Len(output')
  <2>. TAKE k \in 1..(n + 1)
  <2>1. CASE k = n + 1
    BY <1>4, <1>7, <1>12, <2>1
  <2>2. CASE k \in 1..n
    <3>1. starts[k] \in Nat /\ s[k] \in Nat /\ starts[k] + s[k] <= Len(output)
      BY <1>13, <2>2
    <3>2. starts'[k] = starts[k] /\ Append(s, e)[k] = s[k]
      BY <1>12, <2>2
    <3>. QED BY <1>4, <1>7, <3>1, <3>2, SMTT(30)
  <2>. QED BY <1>4, <2>1, <2>2
<1>16. \A k \in 1..n : starts'[k] + Append(s, e)[k] <= starts'[k + 1]
  <2>. TAKE k \in 1..n
  <2>1. CASE k = n
    BY <1>4, <1>12, <1>13, <2>1
  <2>2. CASE k # n
    <3>1. k \in 1..(n - 1) /\ k + 1 \in 1..n
      BY <1>4, <2>2
    <3>. QED BY <1>12, <1>14, <3>1
  <2>. QED BY <2>1, <2>2
<1>17. orphans = 0 => \A k \in 1..(n + 1) : starts'[k] = 0 + SumFunction(SubSeq(Append(s, e), 1, k - 1))
  <2>. SUFFICES ASSUME orphans = 0, NEW k \in 1..(n + 1)
                PROVE  starts'[k] = 0 + SumFunction(SubSeq(Append(s, e), 1, k - 1))
    OBVIOUS
  <2>1. CASE k = n + 1
    <3>1. SubSeq(Append(s, e), 1, k - 1) = s
      BY <1>4, <2>1, SumBefore
    <3>. QED BY <1>4, <1>11, <1>12, <2>1, <3>1
  <2>2. CASE k \in 1..n
    <3>1. SubSeq(Append(s, e), 1, k - 1) = SubSeq(s, 1, k - 1)
      BY <1>4, <2>2, SumBefore
    <3>2. starts[k] = 0 + SumFunction(SubSeq(s, 1, k - 1))
      BY <1>3, <1>4, <2>2 DEF WInv, StreamsTileOutput, PackOffset
    <3>. QED BY <1>12, <2>2, <3>1, <3>2
  <2>. QED BY <1>4, <2>1, <2>2
<1>18. StreamsTileOutput'
  <2>1. orphans + SumFunction(Append(s, e)) = Len(output')
    <3>1. PICK x, y, l : x = SumFunction(s) /\ y = SumFunction(Append(s, e)) /\ l = Len(output)
      OBVIOUS
    <3>2. x \in Nat /\ y = x + e /\ orphans + x = l /\ l \in Nat /\ Len(output') = l + e
      BY <1>4, <1>7, <1>11, <3>1
    <3>3. orphans + y = Len(output')
      BY <1>4, <3>2
    <3>. QED BY <3>1, <3>3
  <2>2. DOMAIN starts' = 1..(n + 1) /\ Len(starts') - 1 = n
    BY <1>4, <1>10, <1>12, SMTT(30) DEF Types
  <2>3. Len(contents') = Len(files')
    BY <1>5, <1>8, <1>9
  <2>4. orphans' = 0 => \A k \in DOMAIN starts' : starts'[k] = PackOffset([pack_info |-> pack_info'], k)
    BY <1>5, <1>6, <1>17, <2>2 DEF PackOffset
  <2>. QED BY <1>5, <1>6, <1>12, <1>15, <1>16, <2>1, <2>2, <2>3, <2>4 DEF StreamsTileOutput
<1>. QED BY <1>10, <1>18 DEF WInv

\* Steps that add no stream leave the streams where they are.
LEMMA StreamsStay ==
  ASSUME WInv, UNCHANGED <<streams>>, Len(output) <= Len(output'), Len(output') \in Nat,
         Len(contents') = Len(files'), orphans \in Nat, orphans' \in Nat, orphans <= orphans',
         header' = <<>> => header = <<>> /\ orphans' - orphans = Len(output') - Len(output)
  PROVE  StreamsTileOutput'
<1>1. UNCHANGED <<pack_info, blocks, starts>>
  BY DEF streams
<1>2. /\ starts \in Seq(Nat) /\ Len(output) \in Nat
      /\ pack_info.sizes \in Seq(Nat) /\ SumFunction(pack_info.sizes) \in Nat
      /\ Len(pack_info.sizes) = Len(starts)
  <2>1. starts \in Seq(Nat) /\ Len(output) \in Nat /\ pack_info.sizes \in Seq(Nat)
        /\ Len(pack_info.sizes) = Len(starts)
    BY DEF WInv, Types, StreamsTileOutput
  <2>. QED BY <2>1, SumSeqAppend
<1>3. \A b \in DOMAIN starts : starts[b] \in Nat /\ pack_info.sizes[b] \in Nat
  BY <1>2, SMTT(30)
<1>4. \A b \in DOMAIN starts : starts[b] + pack_info.sizes[b] <= Len(output')
  BY <1>2, <1>3, SMTT(30) DEF WInv, StreamsTileOutput
<1>5. header' = <<>> => orphans' + SumFunction(pack_info.sizes) = Len(output')
  BY <1>2, SMTT(30) DEF WInv, StreamsTileOutput
<1>6. orphans' = 0 => orphans = 0
  OBVIOUS
<1>. QED BY <1>1, <1>4, <1>5, <1>6 DEF WInv, StreamsTileOutput

\* Every step keeps the streams and the types.
LEMMA StepWInv == WInv /\ [Next]_vars => WInv'
<1>. SUFFICES ASSUME WInv, [Next]_vars PROVE WInv'
  OBVIOUS
<1>1. /\ content_methods \in Overheads /\ output \in Seq(Cells) /\ files \in Seq(Entries)
      /\ contents \in Seq(Data) /\ Len(contents) = Len(files) /\ orphans \in Nat
      /\ Len(output) \in Nat /\ Len(files) \in Nat /\ clean \in 0..Len(files) /\ failures \in 0..MaxFailures
  BY DEF WInv, Types, StreamsTileOutput
<1>2. CASE \E b, new, cs : AddsStream(b, new, cs)
  BY <1>2, StreamTiles
<1>3. CASE \E entry : AddsEmpty(entry)
  <2>1. PICK entry : AddsEmpty(entry)
    BY <1>3
  <2>2. /\ UNCHANGED <<content_methods, header, start, output, streams, orphans, failures>>
        /\ files' = files \o <<entry>> /\ contents' = contents \o <<<<>>>> /\ entry \in Entries
        /\ clean' = IF orphans = 0 THEN Len(files') ELSE clean
    BY <2>1 DEF AddsEmpty, AddFiles
  <2>3. <<>> \in Data
    BY DEF Data
  <2>4. /\ files' \in Seq(Entries) /\ Len(files') = Len(files) + 1
        /\ contents' \in Seq(Data) /\ Len(contents') = Len(contents) + 1
    BY <1>1, <2>2, <2>3, ConcatProperties
  <2>5. clean' \in 0..Len(files')
    BY <1>1, <2>2, <2>4
  <2>6. Types'
    BY <2>2, <2>4, <2>5 DEF WInv, Types, streams
  <2>7. StreamsTileOutput'
    BY <1>1, <2>2, <2>4, StreamsStay
  <2>. QED BY <2>6, <2>7 DEF WInv
<1>4. CASE \E cells : Orphans(cells)
  <2>1. PICK cells : Orphans(cells)
    BY <1>4
  <2>2. /\ UNCHANGED <<content_methods, files, header, start, streams, contents, clean>>
        /\ output' = output \o cells /\ orphans' = orphans + Len(cells) /\ cells \in Seq(Cells)
        /\ failures' = failures + 1 /\ failures < MaxFailures /\ header = <<>>
    BY <2>1 DEF Orphans
  <2>3. output' \in Seq(Cells) /\ Len(output') = Len(output) + Len(cells) /\ Len(cells) \in Nat
    BY <1>1, <2>2, ConcatProperties
  <2>4. failures' \in 0..MaxFailures
    BY <1>1, <2>2, WriterAssumption
  <2>5. Types'
    BY <1>1, <2>2, <2>3, <2>4 DEF WInv, Types, streams
  <2>6. StreamsTileOutput'
    BY <1>1, <2>2, <2>3, StreamsStay
  <2>. QED BY <2>5, <2>6 DEF WInv
<1>5. CASE \E overhead \in Overheads : set_content_methods(overhead)
  <2>1. UNCHANGED <<output, files, header, start, streams, history>> /\ content_methods' \in Overheads
    BY <1>5 DEF set_content_methods
  <2>2. Types'
    BY <2>1 DEF WInv, Types, streams, history
  <2>3. StreamsTileOutput'
    BY <1>1, <2>1, StreamsStay DEF history
  <2>. QED BY <2>2, <2>3 DEF WInv
<1>6. CASE Finishes
  <2>1. PICK encoded \in BOOLEAN : WriteNextHeader(encoded)
    BY <1>6 DEF Finishes
  <2>2. /\ UNCHANGED <<content_methods, files, streams, history>>
        /\ \E h : header' = <<h>> /\ h.pos = Len(output)
        /\ output' = IF encoded THEN Append(output, HeaderCell) ELSE output
        /\ start' \in {"reserved", "signature", "torn", "complete", "cut"}
    BY <1>6, <2>1 DEF WriteNextHeader, Finishes
  <2>3. HeaderCell \in Cells
    <3>1. <<>> \in Data /\ -1 \in Int
      BY DEF Data
    <3>. QED BY <3>1 DEF HeaderCell, Cells
  <2>4. /\ output' \in Seq(Cells) /\ Len(output') \in Nat /\ Len(output) <= Len(output')
    BY <1>1, <2>2, <2>3
  <2>5. PICK h : header' = <<h>> /\ h.pos = Len(output)
    BY <2>2
  <2>6. header' # <<>> /\ h.pos \in 0..Len(output')
    BY <1>1, <2>4, <2>5
  <2>7. Types'
    <3>1. header' = <<>> \/ \E x : header' = <<x>> /\ x.pos \in 0..Len(output')
      BY <2>5, <2>6
    <3>. QED BY <2>2, <2>4, <3>1 DEF WInv, Types, streams, history
  <2>8. StreamsTileOutput'
    BY <1>1, <2>2, <2>4, <2>6, StreamsStay DEF history
  <2>. QED BY <2>7, <2>8 DEF WInv
<1>7. CASE UNCHANGED vars
  BY <1>7 DEF vars, WInv, Types, StreamsTileOutput, PackOffset
<1>8. CASE Next
  BY <1>1, <1>2, <1>3, <1>4, <1>5, <1>6, <1>8, NextSteps DEF Steps
<1>. QED BY <1>7, <1>8

-----------------------------------------------------------------------------
(* The writer's invariants, alone and with a reader behind it. *)

\* The packed streams lie in the output one after the other, each with a block, a
\* size, a checksum and a start of its own (StreamsTileOutput with the types).
THEOREM WriterInductive == Spec => []WInv
<1>1. Init => WInv
  BY InitWInv
<1>2. WInv /\ [Next]_vars => WInv'
  BY StepWInv
<1>. QED BY <1>1, <1>2, PTL DEF Spec

\* Seen without the reader, a writer that is read from is a writer.
LEMMA WritesUnderRTSpec == RTSpec => Spec
<1>1. RTInit => Init
  BY DEF RTInit
<1>2. [RTNext]_allvars => [Next]_vars
  BY DEF RTNext, WriteStep, ReadStep, allvars
<1>. QED BY <1>1, <1>2, PTL DEF RTSpec, Spec

\* The types follow.
LEMMA TypesOfWriter == ASSUME WInv PROVE TypeOK
<1>1. /\ content_methods \in Overheads /\ files \in Seq(Entries)
      /\ start \in {"reserved", "signature", "torn", "complete", "cut"} /\ starts \in Seq(Nat)
      /\ orphans \in Nat /\ clean \in 0..Len(files) /\ failures \in 0..MaxFailures
  BY Zenon DEF WInv, Types
<1>2. pack_info.pos = 0 /\ pack_info.sizes \in Seq(Nat)
  BY DEF WInv, Types
<1>3. header = <<>> \/ \E h : header = <<h>> /\ h.pos \in 0..Len(output)
  BY Zenon DEF WInv, Types
<1>4. Len(header) <= 1 /\ (header # <<>> => header[1].pos \in 0..Len(output))
  <2>1. CASE header = <<>>
    BY <2>1
  <2>2. ASSUME NEW h, header = <<h>>, h.pos \in 0..Len(output)
        PROVE  Len(header) <= 1 /\ header[1].pos \in 0..Len(output)
    <3>1. Len(header) = 1 /\ header[1] = h
      BY <2>2
    <3>. QED BY <2>2, <3>1
  <2>. QED BY <1>3, <2>1, <2>2
<1>. QED BY <1>1, <1>2, <1>4, Zenon DEF TypeOK

\* The types of the writer's state.
THEOREM WriterTypes == RTSpec => []TypeOK
<1>1. WInv => TypeOK
  BY TypesOfWriter
<1>. QED BY <1>1, WriterInductive, WritesUnderRTSpec, PTL

\* Packed streams tile the output, but for the cells of failed pushes, and the
\* offsets the reader computes are theirs while there are none.
THEOREM StreamsTile == RTSpec => []StreamsTileOutput
<1>1. WInv => StreamsTileOutput
  BY DEF WInv
<1>. QED BY <1>1, WriterInductive, WritesUnderRTSpec, PTL

-----------------------------------------------------------------------------
(* Reading the sub streams: read_sub_streams_info against write_substreams *)

WellFormed(B) == B \in Seq(Blocks) /\ \A b \in 1..Len(B) : Describes(B[b], BlockCrcs(B[b]))

\* the data of the entries of each block, and what is written of their sizes
Datas(B) == [b \in DOMAIN B |-> BlockCrcs(B[b])]
Written(B) == [b \in DOMAIN B |-> SizesButLast(B[b])]

\* w are the sizes of a block with the data cs but the last, and the rest of the
\* block is the last one
Takes(w, cs, unpack_size) ==
  /\ Len(cs) = 0 => w = <<>>
  /\ Len(cs) > 0 => /\ Len(w) = Len(cs) - 1
                    /\ \A i \in 1..(Len(cs) - 1) : w[i] = Len(cs[i])
                    /\ unpack_size - SumFunction(w) = Len(cs[Len(cs)])

\* The sizes of a block but the last, and the last.
LEMMA BlockShape ==
  ASSUME NEW b \in Blocks, Describes(b, BlockCrcs(b))
  PROVE  /\ BlockCrcs(b) \in Seq(Data) /\ SizesButLast(b) \in Seq(Nat)
         /\ Takes(SizesButLast(b), BlockCrcs(b), b.unpack_size)
         /\ Len(BlockCrcs(b)) > 1 <=> Len(b.sub_stream_sizes) > 1
<1>0. PICK cs, n : cs = BlockCrcs(b) /\ Describes(b, cs) /\ n = Len(cs)
  OBVIOUS
<1>1. /\ b.crc \in Data /\ b.sub_stream_crcs \in Seq(Data) /\ b.sub_stream_sizes \in Seq(Nat)
      /\ b.unpack_size \in Nat
  BY DEF Blocks
<1>2. cs \in Seq(Data)
  <2>1. <<b.crc>> \in Seq(Data)
    BY <1>1
  <2>. QED BY <1>0, <1>1, <2>1 DEF BlockCrcs
<1>3. n \in Nat /\ DOMAIN cs = 1..n /\ \A i \in 1..n : cs[i] \in Data /\ Len(cs[i]) \in Nat
  BY <1>0, <1>2 DEF Data
<1>4. b.num_sub_unpack_streams = n /\ b.unpack_size = Len(FlattenSeq(cs))
  BY <1>0 DEF Describes
<1>5. (b.sub_stream_sizes = <<>> /\ n = 1) \/ b.sub_stream_sizes = [i \in 1..n |-> Len(cs[i])]
  BY <1>0 DEF Describes
<1>6. n > 1 <=> Len(b.sub_stream_sizes) > 1
  BY <1>3, <1>5
<1>. DEFINE lens == [i \in 1..(n - 1) |-> Len(cs[i])]
<1>7. n > 0 => lens \in Seq(Nat) /\ Len(lens) = n - 1 /\ \A i \in 1..(n - 1) : lens[i] = Len(cs[i])
  BY <1>3
<1>8. n > 0 => SizesButLast(b) = lens
  <2>1. CASE n > 1
    <3>1. b.sub_stream_sizes = [i \in 1..n |-> Len(cs[i])]
      BY <1>5, <2>1
    <3>2. SizesButLast(b) = SubSeq(b.sub_stream_sizes, 1, n - 1)
      BY <1>3, <1>6, <2>1, <3>1 DEF SizesButLast, Front
    <3>3. SubSeq(b.sub_stream_sizes, 1, n - 1) \in Seq(Nat)
          /\ Len(SubSeq(b.sub_stream_sizes, 1, n - 1)) = n - 1
          /\ \A i \in 1..(n - 1) : SubSeq(b.sub_stream_sizes, 1, n - 1)[i] = b.sub_stream_sizes[i]
      BY <1>1, <1>3, <2>1, <3>1
    <3>4. \A i \in 1..(n - 1) : SubSeq(b.sub_stream_sizes, 1, n - 1)[i] = lens[i]
      BY <1>3, <2>1, <3>1, <3>3
    <3>. HIDE DEF lens
    <3>5. PICK r : r = SubSeq(b.sub_stream_sizes, 1, n - 1)
      OBVIOUS
    <3>6. /\ r \in Seq(Nat) /\ lens \in Seq(Nat) /\ Len(r) = Len(lens)
          /\ \A i \in 1..Len(r) : r[i] = lens[i]
      BY <1>3, <1>7, <2>1, <3>3, <3>4, <3>5
    <3>7. r = lens
      BY <3>6, SeqEqual
    <3>. QED BY <3>2, <3>5, <3>7
  <2>2. CASE n = 1
    <3>1. lens = <<>>
      BY <2>2
    <3>. QED BY <1>6, <2>2, <3>1 DEF SizesButLast
  <2>. QED BY <1>3, <2>1, <2>2
<1>9. n = 0 => SizesButLast(b) = <<>>
  BY <1>6 DEF SizesButLast
<1>10. ASSUME n > 0 PROVE b.unpack_size - SumFunction(lens) = Len(cs[n])
  <2>1. PICK m, p, e : m = n - 1 /\ p = SubSeq(cs, 1, m) /\ e = cs[n]
    OBVIOUS
  <2>2. m \in Nat /\ m + 1 = n /\ m + 1 \in 1..Len(cs) /\ e \in Data
    BY <1>0, <1>3, <1>10, <2>1
  <2>3. /\ p \in Seq(Data) /\ Len(p) = m /\ \A i \in 1..m : p[i] = cs[i]
        /\ SubSeq(cs, 1, m + 1) = Append(p, e)
    BY <1>2, <2>1, <2>2, PrefixAppend, ZenonT(30)
  <2>4. cs = Append(p, e)
    BY <1>0, <1>2, <2>2, <2>3, SubSeqFull
  <2>. HIDE DEF lens
  <2>5. Len(FlattenSeq(p)) = SumFunction(lens)
    <3>1. p \in Seq(Seq(Nat \X Nat)) /\ lens \in Seq(Nat) /\ Len(lens) = Len(p)
      BY <1>7, <1>10, <2>1, <2>3 DEF Data
    <3>2. \A i \in 1..Len(p) : lens[i] = Len(p[i])
      BY <1>7, <1>10, <2>1, <2>3
    <3>. QED BY <3>1, <3>2, FlattenLen
  <2>6. FlattenSeq(cs) = FlattenSeq(p) \o e /\ FlattenSeq(p) \in Data
    BY <2>2, <2>3, <2>4, FlattenAppend DEF Data
  <2>7. PICK q : q = FlattenSeq(p)
    OBVIOUS
  <2>8. Len(q \o e) = Len(q) + Len(e) /\ Len(q) \in Nat /\ Len(e) \in Nat
    BY <2>2, <2>6, <2>7 DEF Data
  <2>9. PICK x : x = SumFunction(lens)
    OBVIOUS
  <2>10. b.unpack_size = Len(q) + Len(e) /\ Len(q) = x
    BY <1>4, <2>5, <2>6, <2>7, <2>8, <2>9
  <2>11. b.unpack_size - x = Len(e)
    BY <2>8, <2>10
  <2>. QED BY <2>1, <2>9, <2>11
<1>. HIDE DEF lens
<1>11. SizesButLast(b) \in Seq(Nat)
  <2>1. CASE n = 0
    BY <1>9, <2>1
  <2>2. CASE n > 0
    BY <1>7, <1>8, <2>2
  <2>. QED BY <1>3, <2>1, <2>2
<1>12. n > 0 => /\ Len(SizesButLast(b)) = n - 1
                /\ \A i \in 1..(n - 1) : SizesButLast(b)[i] = Len(cs[i])
                /\ b.unpack_size - SumFunction(SizesButLast(b)) = Len(cs[n])
  BY <1>7, <1>8, <1>10
<1>13. Takes(SizesButLast(b), cs, b.unpack_size)
  BY <1>0, <1>9, <1>12 DEF Takes
<1>. QED BY <1>0, <1>2, <1>6, <1>11, <1>13

\* the first k sizes of the data D
SizesOf(D, k) == [i \in 1..k |-> Len(D[i])]

\* They are numbers.
LEMMA SizesType ==
  ASSUME NEW D \in Seq(Data), NEW k \in 0..Len(D)
  PROVE  SizesOf(D, k) \in Seq(Nat) /\ Len(SizesOf(D, k)) = k /\ \A i \in 1..k : SizesOf(D, k)[i] = Len(D[i])
<1>1. \A i \in 1..k : Len(D[i]) \in Nat
  BY DEF Data
<1>. QED BY <1>1 DEF SizesOf

\* The sizes go on with those of the data behind the first a.
LEMMA SizesGoOn ==
  ASSUME NEW D \in Seq(Data), NEW cs \in Seq(Data), NEW a \in Nat, NEW b, b = a + Len(cs), b <= Len(D),
         \A i \in 1..Len(cs) : D[a + i] = cs[i]
  PROVE  SizesOf(D, a) \o SizesOf(cs, Len(cs)) = SizesOf(D, b)
<1>1. PICK k, z, q, r : k = Len(cs) /\ z = SizesOf(D, a) /\ q = SizesOf(cs, k) /\ r = SizesOf(D, b)
  OBVIOUS
<1>2. a \in 0..Len(D) /\ b \in 0..Len(D) /\ k \in Nat /\ k \in 0..Len(cs) /\ b = a + k
  BY <1>1
<1>3. z \in Seq(Nat) /\ Len(z) = a /\ \A i \in 1..a : z[i] = Len(D[i])
  BY <1>1, <1>2, SizesType
<1>4. q \in Seq(Nat) /\ Len(q) = k /\ \A i \in 1..k : q[i] = Len(cs[i])
  BY <1>1, <1>2, SizesType
<1>5. r \in Seq(Nat) /\ Len(r) = b /\ \A i \in 1..b : r[i] = Len(D[i])
  BY <1>1, <1>2, SizesType
<1>6. PICK zq : zq = z \o q
  OBVIOUS
<1>7. zq \in Seq(Nat) /\ Len(zq) = b /\ \A i \in 1..b : zq[i] = IF i <= a THEN z[i] ELSE q[i - a]
  <2>1. /\ z \o q \in Seq(Nat) /\ Len(z \o q) = Len(z) + Len(q)
        /\ \A i \in 1..(Len(z) + Len(q)) : (z \o q)[i] = IF i <= Len(z) THEN z[i] ELSE q[i - Len(z)]
    <3>1. z \in Seq(Nat) /\ q \in Seq(Nat)
      BY <1>3, <1>4
    <3>. QED BY <3>1, ConcatProperties, Zenon
  <2>2. \A i \in 1..(Len(z) + Len(q)) : zq[i] = IF i <= Len(z) THEN z[i] ELSE q[i - Len(z)]
    BY <1>6, <2>1
  <2>. QED BY <1>2, <1>3, <1>4, <1>6, <2>1, <2>2
<1>8. ASSUME NEW i \in 1..b PROVE zq[i] = r[i]
  <2>1. CASE i <= a
    <3>1. zq[i] = z[i] /\ i \in 1..a
      BY <1>7, <2>1
    <3>. QED BY <1>3, <1>5, <3>1
  <2>2. CASE i > a
    <3>1. PICK j : j = i - a
      OBVIOUS
    <3>2. j \in 1..k /\ a + j = i
      BY <1>2, <2>2, <3>1
    <3>3. zq[i] = q[j]
      BY <1>2, <1>7, <2>2, <3>1
    <3>4. D[a + j] = cs[j]
      BY <1>1, <3>2
    <3>. QED BY <1>4, <1>5, <3>2, <3>3, <3>4
  <2>. QED BY <1>2, <2>1, <2>2
<1>9. zq = r
  BY <1>5, <1>7, <1>8, SeqEqual
<1>. QED BY <1>1, <1>6, <1>9

\* the accumulator of read_sub_streams_info behind each block
ReadUpTo(h) ==
  CHOOSE f : f = [b \in 0..Len(h.unpack_sizes) |->
                    IF b = 0 THEN [sizes |-> <<>>, unread |-> h.substreams.sizes, ok |-> TRUE]
                    ELSE TakeBlockSizes(h, f[b - 1], b)]

\* The recursion has a solution.
LEMMA ReadUpToDef ==
  ASSUME NEW h, NEW n \in Nat, n = Len(h.unpack_sizes)
  PROVE  /\ read_sub_streams_info(h) = ReadUpTo(h)[n]
         /\ ReadUpTo(h)[0] = [sizes |-> <<>>, unread |-> h.substreams.sizes, ok |-> TRUE]
         /\ \A b \in 1..n : ReadUpTo(h)[b] = TakeBlockSizes(h, ReadUpTo(h)[b - 1], b)
<1>. DEFINE Base == [sizes |-> <<>>, unread |-> h.substreams.sizes, ok |-> TRUE]
            Solves(f, m) == f = [b \in 0..m |-> IF b = 0 THEN Base ELSE TakeBlockSizes(h, f[b - 1], b)]
            Has == {m \in Nat : \E f : Solves(f, m)}
<1>1. 0 \in Has
  <2>1. Solves([b \in 0..0 |-> Base], 0)
    OBVIOUS
  <2>. QED BY <2>1
<1>2. ASSUME NEW m \in Nat, m \in Has PROVE m + 1 \in Has
  <2>1. PICK f : Solves(f, m)
    BY <1>2
  <2>. DEFINE last == TakeBlockSizes(h, f[m], m + 1)
              g == [b \in 0..(m + 1) |-> IF b <= m THEN f[b] ELSE last]
  <2>2. ASSUME NEW b \in 0..(m + 1)
        PROVE  g[b] = IF b = 0 THEN Base ELSE TakeBlockSizes(h, g[b - 1], b)
    <3>1. CASE b <= m
      <4>1. b \in 0..m /\ g[b] = f[b] /\ (b # 0 => g[b - 1] = f[b - 1])
        BY <3>1
      <4>2. f[b] = IF b = 0 THEN Base ELSE TakeBlockSizes(h, f[b - 1], b)
        BY <2>1, <4>1
      <4>. HIDE DEF g, Base
      <4>. QED BY <4>1, <4>2
    <3>2. CASE b = m + 1
      <4>1. g[b] = last /\ b # 0 /\ b - 1 = m /\ g[b - 1] = f[m]
        BY <3>2
      <4>. HIDE DEF g, Base
      <4>. QED BY <3>2, <4>1
    <3>. QED BY <3>1, <3>2
  <2>3. Solves(g, m + 1)
    <3>. HIDE DEF Base
    <3>. QED BY <2>2, Zenon
  <2>4. m + 1 \in Nat
    OBVIOUS
  <2>. HIDE DEF Solves, g
  <2>. QED BY <2>3, <2>4
<1>3. \E f : Solves(f, n)
  <2>. HIDE DEF Solves
  <2>. QED BY <1>1, <1>2, SetInduction
<1>4. Solves(CHOOSE f : Solves(f, n), n)
  <2>. HIDE DEF Solves
  <2>. QED BY <1>3, Zenon
<1>5. Solves(ReadUpTo(h), n)
  BY <1>4, Zenon DEF ReadUpTo
<1>6. read_sub_streams_info(h) = ReadUpTo(h)[n]
  BY Zenon DEF read_sub_streams_info, ReadUpTo
<1>7. ReadUpTo(h)[0] = Base /\ \A b \in 1..n : ReadUpTo(h)[b] = TakeBlockSizes(h, ReadUpTo(h)[b - 1], b)
  <2>1. \A b \in 0..n : ReadUpTo(h)[b] = IF b = 0 THEN Base ELSE TakeBlockSizes(h, ReadUpTo(h)[b - 1], b)
    <3>. HIDE DEF Base
    <3>. QED BY <1>5, Zenon
  <2>2. 0 \in 0..n /\ \A b \in 1..n : b \in 0..n /\ b # 0
    OBVIOUS
  <2>. HIDE DEF Base
  <2>. QED BY <2>1, <2>2
<1>. QED BY <1>6, <1>7

\* The elements behind the first k.
LEMMA SubSeqFrom ==
  ASSUME NEW S, NEW s \in Seq(S), NEW k \in Nat, k <= Len(s)
  PROVE  /\ SubSeq(s, k + 1, Len(s)) \in Seq(S)
         /\ Len(SubSeq(s, k + 1, Len(s))) = Len(s) - k
         /\ \A i \in 1..(Len(s) - k) : SubSeq(s, k + 1, Len(s))[i] = s[k + i]
<1>1. PICK m, n : m = k + 1 /\ n = Len(s)
  OBVIOUS
<1>2. m \in Int /\ n \in Int /\ k + 1 = m /\ Len(s) = n /\ k <= n /\ \A i \in m..n : s[i] \in S
  BY <1>1
<1>3. SubSeq(s, m, n) \in Seq(S)
  BY <1>2, SubSeqProperties
<1>4. Len(SubSeq(s, m, n)) = IF m <= n THEN n - m + 1 ELSE 0
  BY <1>2, SubSeqProperties
<1>5. Len(SubSeq(s, m, n)) = n - k
  BY <1>2, <1>4
<1>6. \A i \in 1..(n - m + 1) : SubSeq(s, m, n)[i] = s[m + i - 1]
  BY <1>2, SubSeqProperties
<1>7. \A i \in 1..(n - k) : SubSeq(s, m, n)[i] = s[k + i]
  <2>. TAKE i \in 1..(n - k)
  <2>1. i \in 1..(n - m + 1) /\ m + i - 1 = k + i
    BY <1>2
  <2>. QED BY <1>6, <2>1
<1>. QED BY <1>2, <1>3, <1>5, <1>7

\* Reading k of the values that are left.
ReadsOn(U, x, k, left) ==
  /\ SubSeq(left, 1, k) \in Seq(Nat) /\ Len(SubSeq(left, 1, k)) = k
  /\ \A i \in 1..k : SubSeq(left, 1, k)[i] = U[x + i]
  /\ SubSeq(left, k + 1, Len(left)) = SubSeq(U, x + k + 1, Len(U))

\* Reading k of the sizes that are left.
LEMMA ReadOn ==
  ASSUME NEW U \in Seq(Nat), NEW x \in Nat, NEW k \in Nat, x + k <= Len(U)
  PROVE  ReadsOn(U, x, k, SubSeq(U, x + 1, Len(U)))
<1>. DEFINE behind == SubSeq(U, x + 1, Len(U))
<1>0. PICK left : left = behind
  OBVIOUS
<1>1. Len(U) \in Nat
  OBVIOUS
<1>2. left \in Seq(Nat) /\ Len(left) = Len(U) - x /\ \A i \in 1..(Len(U) - x) : left[i] = U[x + i]
  BY <1>0, <1>1
<1>3. /\ SubSeq(left, 1, k) \in Seq(Nat) /\ Len(SubSeq(left, 1, k)) = k
      /\ \A i \in 1..k : SubSeq(left, 1, k)[i] = left[i]
  BY <1>1, <1>2
<1>4. \A i \in 1..k : SubSeq(left, 1, k)[i] = U[x + i]
  BY <1>1, <1>2, <1>3
<1>5. PICK l, r, d, y : /\ l = SubSeq(left, k + 1, Len(left)) /\ r = SubSeq(U, y + 1, Len(U))
                         /\ d = Len(U) - x - k /\ y = x + k
  OBVIOUS
<1>6. /\ d \in Nat /\ y \in Nat /\ Len(left) - k = d /\ Len(U) - y = d
      /\ k <= Len(left) /\ y <= Len(U) /\ x + k = y
  BY <1>1, <1>2, <1>5
<1>7. l \in Seq(Nat) /\ Len(l) = d /\ \A i \in 1..d : l[i] = left[k + i]
  <2>1. /\ SubSeq(left, k + 1, Len(left)) \in Seq(Nat)
        /\ Len(SubSeq(left, k + 1, Len(left))) = Len(left) - k
        /\ \A i \in 1..(Len(left) - k) : SubSeq(left, k + 1, Len(left))[i] = left[k + i]
    <3>1. \A v \in Seq(Nat) : k <= Len(v) =>
            /\ SubSeq(v, k + 1, Len(v)) \in Seq(Nat)
            /\ Len(SubSeq(v, k + 1, Len(v))) = Len(v) - k
            /\ \A i \in 1..(Len(v) - k) : SubSeq(v, k + 1, Len(v))[i] = v[k + i]
      BY SubSeqFrom, Zenon
    <3>. QED BY <1>2, <1>6, <3>1
  <2>. QED BY <1>5, <1>6, <2>1, Zenon
<1>8. r \in Seq(Nat) /\ Len(r) = d /\ \A i \in 1..d : r[i] = U[y + i]
  <2>1. /\ SubSeq(U, y + 1, Len(U)) \in Seq(Nat)
        /\ Len(SubSeq(U, y + 1, Len(U))) = Len(U) - y
        /\ \A i \in 1..(Len(U) - y) : SubSeq(U, y + 1, Len(U))[i] = U[y + i]
    BY <1>6, SubSeqFrom, Zenon
  <2>. QED BY <1>5, <1>6, <2>1, Zenon
<1>9. \A i \in 1..d : l[i] = r[i]
  <2>. TAKE i \in 1..d
  <2>1. k + i \in 1..(Len(U) - x) /\ x + (k + i) = y + i
    BY <1>1, <1>6
  <2>. QED BY <1>2, <1>7, <1>8, <2>1
<1>10. l = r
  BY <1>7, <1>8, <1>9, SeqEqual
<1>11. SubSeq(left, k + 1, Len(left)) = SubSeq(U, x + k + 1, Len(U))
  BY <1>5, <1>10
<1>. QED BY <1>0, <1>3, <1>4, <1>11 DEF ReadsOn

\* block b of h holds the data cs; the sizes w of all but the last lie in U behind
\* the first x, which is how far acc got
AtBlock(h, b, cs, w, U, x, z, acc) ==
  /\ cs \in Seq(Data) /\ w \in Seq(Nat) /\ U \in Seq(Nat) /\ x \in Nat /\ z \in Seq(Nat)
  /\ NumSubStreams(h)[b] = Len(cs) /\ Takes(w, cs, h.unpack_sizes[b])
  /\ Len(cs) > 1 => h.substreams.has_sizes
  /\ x + Len(w) <= Len(U) /\ \A i \in 1..Len(w) : U[x + i] = w[i]
  /\ acc = [sizes |-> z, unread |-> SubSeq(U, x + 1, Len(U)), ok |-> TRUE]

\* The sizes of one block: those written, and the rest for the last.
LEMMA TakeOneBlock ==
  ASSUME NEW h, NEW b, NEW cs, NEW w, NEW U, NEW x, NEW z, NEW acc,
         AtBlock(h, b, cs, w, U, x, z, acc)
  PROVE  TakeBlockSizes(h, acc, b) =
           [sizes |-> z \o SizesOf(cs, Len(cs)),
            unread |-> SubSeq(U, x + Len(w) + 1, Len(U)), ok |-> TRUE]
<1>0. PICK n : n = Len(cs)
  OBVIOUS
<1>0a. /\ cs \in Seq(Data) /\ w \in Seq(Nat) /\ U \in Seq(Nat) /\ x \in Nat /\ z \in Seq(Nat)
       /\ NumSubStreams(h)[b] = n /\ (n > 1 => h.substreams.has_sizes)
       /\ x + Len(w) <= Len(U) /\ \A i \in 1..Len(w) : U[x + i] = w[i]
  BY <1>0 DEF AtBlock
<1>0b. acc = [sizes |-> z, unread |-> SubSeq(U, x + 1, Len(U)), ok |-> TRUE]
  BY DEF AtBlock
<1>1. /\ n \in Nat /\ \A i \in 1..n : Len(cs[i]) \in Nat
      /\ SizesOf(cs, n) \in Seq(Nat) /\ Len(SizesOf(cs, n)) = n
      /\ \A i \in 1..n : SizesOf(cs, n)[i] = Len(cs[i])
  <2>1. n \in Nat /\ n \in 0..Len(cs) /\ \A i \in 1..n : Len(cs[i]) \in Nat
    BY <1>0, <1>0a DEF Data
  <2>. QED BY <1>0a, <2>1, SizesType
<1>1a. /\ n = 0 => w = <<>>
       /\ n > 0 => /\ Len(w) = n - 1
                   /\ \A i \in 1..(n - 1) : w[i] = Len(cs[i])
                   /\ h.unpack_sizes[b] - SumFunction(w) = Len(cs[n])
  BY <1>0 DEF AtBlock, Takes
<1>2. CASE n = 0
  <2>1. TakeBlockSizes(h, acc, b) = acc
    BY <1>0a, <1>2 DEF TakeBlockSizes
  <2>2. SizesOf(cs, n) = <<>> /\ Len(w) = 0
    BY <1>1, <1>1a, <1>2
  <2>3. z \o <<>> = z
    BY <1>0a
  <2>4. x + Len(w) + 1 = x + 1
    BY <1>0a, <2>2
  <2>. QED BY <1>0, <1>0b, <2>1, <2>2, <2>3, <2>4
<1>3. CASE n # 0
  <2>. DEFINE k == IF h.substreams.has_sizes /\ n > 0 THEN n - 1 ELSE 0
              left == SubSeq(U, x + 1, Len(U))
              sizes_read == SubSeq(left, 1, k)
              rest == h.unpack_sizes[b] - SumFunction(sizes_read)
  <2>1. k = Len(w) /\ k = n - 1 /\ k \in Nat
    BY <1>0a, <1>1, <1>1a, <1>3
  <2>2. TakeBlockSizes(h, acc, b) =
          [sizes |-> z \o Append(sizes_read, rest), unread |-> SubSeq(left, k + 1, Len(left)),
           ok |-> (TRUE /\ rest >= 0)]
    <3>1. acc.sizes = z /\ acc.unread = left /\ acc.ok = TRUE
      BY <1>0b
    <3>. QED BY <1>0a, <1>3, <3>1, Zenon DEF TakeBlockSizes
  <2>. HIDE DEF k
  <2>3. /\ sizes_read \in Seq(Nat) /\ Len(sizes_read) = k /\ \A i \in 1..k : sizes_read[i] = U[x + i]
        /\ SubSeq(left, k + 1, Len(left)) = SubSeq(U, x + k + 1, Len(U))
    <3>1. x + k <= Len(U)
      BY <1>0a, <2>1
    <3>2. ReadsOn(U, x, k, left)
      BY <1>0a, <2>1, <3>1, ReadOn
    <3>. QED BY <3>2 DEF ReadsOn
  <2>. HIDE DEF sizes_read, left
  <2>4. sizes_read = w
    <3>1. PICK r : r = sizes_read
      OBVIOUS
    <3>2. /\ r \in Seq(Nat) /\ Len(r) = Len(w) /\ \A i \in 1..Len(r) : r[i] = w[i]
      <4>1. \A i \in 1..k : sizes_read[i] = w[i]
        BY <1>0a, <2>1, <2>3
      <4>2. r \in Seq(Nat) /\ Len(r) = k
        BY <2>3, <3>1
      <4>. QED BY <2>1, <3>1, <4>1, <4>2
    <3>3. r = w
      BY <1>0a, <3>2, SeqEqual
    <3>. QED BY <3>1, <3>3
  <2>5. rest = Len(cs[n]) /\ Len(cs[n]) \in Nat
    BY <1>1, <1>1a, <1>3, <2>4
  <2>. HIDE DEF rest
  <2>6. Append(sizes_read, rest) = SizesOf(cs, n)
    <3>1. PICK p, q, r : p = Append(w, r) /\ q = SizesOf(cs, n) /\ r = rest
      OBVIOUS
    <3>2. r \in Nat /\ r = Len(cs[n])
      BY <2>5, <3>1
    <3>3. p \in Seq(Nat) /\ Len(p) = n /\ p[n] = r /\ \A i \in 1..(n - 1) : p[i] = w[i]
      <4>1. /\ Append(w, r) \in Seq(Nat) /\ Len(Append(w, r)) = Len(w) + 1
            /\ Append(w, r)[Len(w) + 1] = r /\ \A i \in 1..Len(w) : Append(w, r)[i] = w[i]
        BY <1>0a, <3>2, AppendProperties
      <4>2. Len(w) + 1 = n /\ Len(w) = n - 1
        BY <1>1, <2>1
      <4>. QED BY <3>1, <4>1, <4>2
    <3>4. q \in Seq(Nat) /\ Len(q) = n /\ \A i \in 1..n : q[i] = Len(cs[i])
      BY <1>1, <3>1
    <3>5. ASSUME NEW i \in 1..n PROVE p[i] = q[i]
      <4>1. CASE i = n
        BY <3>2, <3>3, <3>4, <4>1
      <4>2. CASE i # n
        <5>1. i \in 1..(n - 1) /\ n > 0
          BY <1>1, <4>2
        <5>. QED BY <1>1a, <3>3, <3>4, <5>1
      <4>. QED BY <4>1, <4>2
    <3>6. p = q
      BY <3>3, <3>4, <3>5, SeqEqual
    <3>. QED BY <2>4, <3>1, <3>6
  <2>7. (TRUE /\ rest >= 0) = TRUE
    BY <2>5
  <2>. QED BY <1>0, <2>1, <2>2, <2>3, <2>6, <2>7
<1>. QED BY <1>1, <1>2, <1>3

\* the header h describes the blocks B
HeaderOf(h, B) ==
  /\ h.substreams = write_substreams(B)
  /\ h.unpack_sizes = [b \in DOMAIN B |-> B[b].unpack_size]

\* the data of all entries of the blocks B
AllData(B) == FlattenSeq(Datas(B))

\* The counts in the header are those of the blocks.
LEMMA CountsRead ==
  ASSUME NEW B, WellFormed(B), NEW h, HeaderOf(h, B)
  PROVE  /\ Len(h.unpack_sizes) = Len(B)
         /\ \A b \in 1..Len(B) : /\ NumSubStreams(h)[b] = Len(BlockCrcs(B[b]))
                                 /\ h.unpack_sizes[b] = B[b].unpack_size
         /\ NumSubStreams(h) = [b \in 1..Len(B) |-> Len(BlockCrcs(B[b]))]
<1>1. B \in Seq(Blocks) /\ DOMAIN B = 1..Len(B) /\ Len(B) \in Nat
  BY DEF WellFormed
<1>2. Len(h.unpack_sizes) = Len(B) /\ \A b \in 1..Len(B) : h.unpack_sizes[b] = B[b].unpack_size
  BY <1>1 DEF HeaderOf
<1>3. \A b \in 1..Len(B) : B[b].num_sub_unpack_streams = Len(BlockCrcs(B[b]))
  BY DEF WellFormed, Describes
<1>4. h.substreams.nums = IF \E b \in DOMAIN B : B[b].num_sub_unpack_streams # 1
                          THEN [b \in DOMAIN B |-> B[b].num_sub_unpack_streams] ELSE <<>>
  BY DEF HeaderOf, write_substreams
<1>5. NumSubStreams(h) = [b \in 1..Len(B) |-> B[b].num_sub_unpack_streams]
  <2>1. CASE \E b \in DOMAIN B : B[b].num_sub_unpack_streams # 1
    <3>1. h.substreams.nums = [b \in 1..Len(B) |-> B[b].num_sub_unpack_streams] /\ Len(B) # 0
      BY <1>1, <1>4, <2>1, SMTT(30)
    <3>2. [b \in 1..Len(B) |-> B[b].num_sub_unpack_streams] # <<>>
      BY <1>1, <3>1
    <3>. QED BY <3>1, <3>2 DEF NumSubStreams
  <2>2. CASE ~ \E b \in DOMAIN B : B[b].num_sub_unpack_streams # 1
    <3>1. h.substreams.nums = <<>>
      BY <1>4, <2>2
    <3>2. NumSubStreams(h) = [b \in DOMAIN h.unpack_sizes |-> 1]
      BY <3>1 DEF NumSubStreams
    <3>3. DOMAIN h.unpack_sizes = 1..Len(B)
      BY <1>1 DEF HeaderOf
    <3>4. \A b \in 1..Len(B) : B[b].num_sub_unpack_streams = 1
      BY <1>1, <2>2
    <3>. QED BY <3>2, <3>3, <3>4
  <2>. QED BY <2>1, <2>2
<1>. QED BY <1>2, <1>3, <1>5

\* The whole of read_sub_streams_info: every size comes back.
LEMMA SubStreamsRead ==
  ASSUME NEW B, WellFormed(B), NEW h, HeaderOf(h, B)
  PROVE  /\ AllData(B) \in Seq(Data) /\ h.substreams.crcs = AllData(B)
         /\ read_sub_streams_info(h) =
              [sizes |-> SizesOf(AllData(B), Len(AllData(B))), unread |-> <<>>, ok |-> TRUE]
<1>. DEFINE n == Len(B)
            C == Datas(B)
            W == Written(B)
            D == FlattenSeq(C)
            U == FlattenSeq(W)
            c == [m \in 0..n |-> Len(FlattenSeq(SubSeq(C, 1, m)))]
            w == [m \in 0..n |-> Len(FlattenSeq(SubSeq(W, 1, m)))]
            Read(m) == [sizes |-> SizesOf(D, c[m]), unread |-> SubSeq(U, w[m] + 1, Len(U)), ok |-> TRUE]
<1>1. B \in Seq(Blocks) /\ DOMAIN B = 1..n /\ n \in Nat
  BY DEF WellFormed
<1>2. ASSUME NEW b \in 1..n
      PROVE  /\ BlockCrcs(B[b]) \in Seq(Data) /\ SizesButLast(B[b]) \in Seq(Nat)
             /\ Takes(SizesButLast(B[b]), BlockCrcs(B[b]), B[b].unpack_size)
             /\ Len(BlockCrcs(B[b])) > 1 <=> Len(B[b].sub_stream_sizes) > 1
  <2>1. B[b] \in Blocks /\ Describes(B[b], BlockCrcs(B[b]))
    BY <1>1 DEF WellFormed
  <2>. QED BY <2>1, BlockShape
<1>3. C \in Seq(Seq(Data)) /\ Len(C) = n /\ \A b \in 1..n : C[b] = BlockCrcs(B[b])
  BY <1>1, <1>2 DEF Datas
<1>4. W \in Seq(Seq(Nat)) /\ Len(W) = n /\ \A b \in 1..n : W[b] = SizesButLast(B[b])
  BY <1>1, <1>2 DEF Written
<1>5. D \in Seq(Data) /\ U \in Seq(Nat)
  <2>. HIDE DEF C, W
  <2>. QED BY <1>3, <1>4, FlattenIn
<1>6. h.substreams.sizes = U /\ h.substreams.crcs = D
  BY DEF HeaderOf, write_substreams, Datas, Written
<1>7. /\ c[0] = 0 /\ c[n] = Len(D) /\ \A m \in 0..n : c[m] \in 0..Len(D)
      /\ \A m \in 1..n : /\ c[m] = c[m - 1] + Len(C[m])
                         /\ \A i \in 1..Len(C[m]) : D[c[m - 1] + i] = C[m][i]
  <2>1. \A m \in 0..Len(C) : c[m] = Len(FlattenSeq(SubSeq(C, 1, m)))
    BY <1>3
  <2>. HIDE DEF C, c
  <2>2. PICK S, s, a : S = Data /\ s = C /\ a = c
    OBVIOUS
  <2>3. s \in Seq(Seq(S)) /\ Len(s) = n /\ \A m \in 0..Len(s) : a[m] = Len(FlattenSeq(SubSeq(s, 1, m)))
    BY <1>3, <2>1, <2>2
  <2>4. /\ a[0] = 0 /\ a[Len(s)] = Len(FlattenSeq(s))
        /\ \A m \in 0..Len(s) : a[m] \in 0..Len(FlattenSeq(s))
        /\ \A m \in 1..Len(s) :
             /\ a[m] = a[m - 1] + Len(s[m])
             /\ \A i \in 1..Len(s[m]) : FlattenSeq(s)[a[m - 1] + i] = s[m][i]
    BY <2>3, FlattenHolds
  <2>. QED BY <2>2, <2>3, <2>4
<1>8. /\ w[0] = 0 /\ w[n] = Len(U) /\ \A m \in 0..n : w[m] \in 0..Len(U)
      /\ \A m \in 1..n : /\ w[m] = w[m - 1] + Len(W[m])
                         /\ \A i \in 1..Len(W[m]) : U[w[m - 1] + i] = W[m][i]
  <2>1. \A m \in 0..Len(W) : w[m] = Len(FlattenSeq(SubSeq(W, 1, m)))
    BY <1>4
  <2>. HIDE DEF W, w
  <2>. QED BY <1>4, <2>1, FlattenHolds
<1>9. /\ read_sub_streams_info(h) = ReadUpTo(h)[n]
      /\ ReadUpTo(h)[0] = [sizes |-> <<>>, unread |-> h.substreams.sizes, ok |-> TRUE]
      /\ \A b \in 1..n : ReadUpTo(h)[b] = TakeBlockSizes(h, ReadUpTo(h)[b - 1], b)
  <2>1. n = Len(h.unpack_sizes)
    BY CountsRead
  <2>. HIDE DEF n
  <2>. QED BY <1>1, <2>1, ReadUpToDef
<1>. HIDE DEF n, C, W, D, U, c, w
<1>10. ReadUpTo(h)[0] = Read(0)
  <2>1. SubSeq(U, 1, Len(U)) = U /\ Len(U) \in Nat
    BY <1>5, SubSeqFull
  <2>2. SizesOf(D, 0) = <<>>
    BY DEF SizesOf
  <2>3. w[0] + 1 = 1
    BY <1>8
  <2>. QED BY <1>6, <1>7, <1>8, <1>9, <2>1, <2>2, <2>3
<1>11. ASSUME NEW m \in 1..n, ReadUpTo(h)[m - 1] = Read(m - 1) PROVE ReadUpTo(h)[m] = Read(m)
  <2>1. PICK x, z, cs, v, k, acc : x = w[m - 1] /\ z = SizesOf(D, c[m - 1]) /\ cs = C[m] /\ v = W[m]
                                   /\ k = Len(cs) /\ acc = ReadUpTo(h)[m - 1]
    OBVIOUS
  <2>2. m - 1 \in 0..n /\ m \in 0..n
    BY <1>1
  <2>3. x \in Nat /\ c[m - 1] \in Nat /\ c[m] \in 0..Len(D) /\ Len(D) \in Nat /\ w[m] \in 0..Len(U)
    BY <1>5, <1>7, <1>8, <2>1, <2>2
  <2>4. /\ cs \in Seq(Data) /\ v \in Seq(Nat) /\ k \in Nat
        /\ Takes(v, cs, h.unpack_sizes[m])
    <3>1. cs = BlockCrcs(B[m]) /\ v = SizesButLast(B[m]) /\ h.unpack_sizes[m] = B[m].unpack_size
      BY <1>3, <1>4, <2>1, CountsRead DEF n
    <3>. QED BY <1>2, <2>1, <3>1
  <2>5. NumSubStreams(h)[m] = k
    BY <1>3, <2>1, CountsRead DEF n
  <2>6. k > 1 => h.substreams.has_sizes
    <3>1. k > 1 => Len(B[m].sub_stream_sizes) > 1
      BY <1>2, <1>3, <2>1
    <3>2. h.substreams.has_sizes = \E b \in DOMAIN B : Len(B[b].sub_stream_sizes) > 1
      BY DEF HeaderOf, write_substreams
    <3>. QED BY <1>1, <3>1, <3>2
  <2>7. x + Len(v) <= Len(U) /\ \A i \in 1..Len(v) : U[x + i] = v[i]
    BY <1>8, <2>1, <2>3, <2>4
  <2>8. z \in Seq(Nat)
    BY <1>5, <1>7, <2>1, <2>2, SizesType
  <2>9. acc = [sizes |-> z, unread |-> SubSeq(U, x + 1, Len(U)), ok |-> TRUE]
    BY <1>11, <2>1
  <2>10. TakeBlockSizes(h, acc, m) =
           [sizes |-> z \o SizesOf(cs, k),
            unread |-> SubSeq(U, x + Len(v) + 1, Len(U)), ok |-> TRUE]
    <3>1. AtBlock(h, m, cs, v, U, x, z, acc)
      BY <1>5, <2>1, <2>3, <2>4, <2>5, <2>6, <2>7, <2>8, <2>9 DEF AtBlock
    <3>2. k = Len(cs)
      BY <2>1
    <3>. QED BY <3>1, <3>2, TakeOneBlock
  <2>11. z \o SizesOf(cs, k) = SizesOf(D, c[m])
    <3>1. PICK a, b : a = c[m - 1] /\ b = c[m]
      OBVIOUS
    <3>2. a \in Nat /\ b = a + Len(cs) /\ b <= Len(D) /\ \A i \in 1..Len(cs) : D[a + i] = cs[i]
      BY <1>7, <2>1, <2>3, <3>1
    <3>3. SizesOf(D, a) \o SizesOf(cs, Len(cs)) = SizesOf(D, b)
      BY <1>5, <2>4, <3>2, SizesGoOn, ZenonT(30)
    <3>. QED BY <2>1, <3>1, <3>3
  <2>12. x + Len(v) = w[m]
    BY <1>8, <2>1
  <2>. QED BY <1>9, <2>1, <2>10, <2>11, <2>12
<1>12. \A m \in 0..n : ReadUpTo(h)[m] = Read(m)
  <2>. DEFINE Has == {m \in Nat : m <= n => ReadUpTo(h)[m] = Read(m)}
  <2>. HIDE DEF Read
  <2>1. 0 \in Has
    BY <1>10
  <2>2. \A m \in Nat : m \in Has => m + 1 \in Has
    <3>. SUFFICES ASSUME NEW m \in Nat, m \in Has, m + 1 <= n PROVE ReadUpTo(h)[m + 1] = Read(m + 1)
      OBVIOUS
    <3>1. m + 1 \in 1..n /\ (m + 1) - 1 = m /\ ReadUpTo(h)[m] = Read(m)
      BY <1>1
    <3>. QED BY <1>11, <3>1
  <2>3. Nat \subseteq Has
    <3>. HIDE DEF Has
    <3>. QED BY <2>1, <2>2, SetInduction
  <2>. QED BY <1>1, <2>3
<1>13. read_sub_streams_info(h) = Read(n)
  BY <1>1, <1>9, <1>12
<1>14. SubSeq(U, w[n] + 1, Len(U)) = <<>>
  <2>1. Len(U) \in Nat /\ w[n] + 1 > Len(U) /\ w[n] + 1 \in Int
    BY <1>5, <1>8
  <2>. QED BY <2>1, SubSeqEmpty
<1>15. AllData(B) = D /\ c[n] = Len(D)
  BY <1>7 DEF AllData, D, C
<1>. QED BY <1>5, <1>6, <1>13, <1>14, <1>15

-----------------------------------------------------------------------------
(* The entries and the blocks agree *)

\* the entries with data; the place of one among them
Backed(fs) == {i \in DOMAIN fs : fs[i].has_crc}
Rank(fs, i) == CountUpTo(Backed(fs), i)

\* an entry suits the bytes that were pushed for it
Suits(entry, bytes) ==
  /\ entry.size = Len(bytes)
  /\ entry.has_crc => entry.crc = bytes /\ entry.has_stream
  /\ ~entry.has_crc => bytes = <<>>
  /\ entry.has_stream => ~entry.is_directory

\* the data of block b are those of the entries behind entry p
BlockAt(fs, B, b, p) ==
  \A k \in 1..Len(BlockCrcs(B[b])) :
    p + k \in Backed(fs) /\ Rank(fs, p + k) = Len(AllData(SubSeq(B, 1, b - 1))) + k

\* the entries fs with the contents cs lie in the blocks B in their order, those of
\* one block without a gap
Listed(fs, cs, B) ==
  /\ fs \in Seq(Entries) /\ cs \in Seq(Data) /\ Len(cs) = Len(fs) /\ WellFormed(B)
  /\ \A i \in 1..Len(fs) : Suits(fs[i], cs[i])
  /\ Len(AllData(B)) = Cardinality(Backed(fs))
  /\ \A i \in Backed(fs) : AllData(B)[Rank(fs, i)] = cs[i]
  /\ \A b \in 1..Len(B) : \E p \in Nat : BlockAt(fs, B, b, p)

\* The entries with data are counted.
LEMMA RankFacts ==
  ASSUME NEW fs \in Seq(Entries)
  PROVE  /\ Backed(fs) \in SUBSET (1..Len(fs)) /\ Len(fs) \in Nat /\ Cardinality(Backed(fs)) \in Nat
         /\ \A i \in Nat : Rank(fs, i) \in Nat
         /\ Rank(fs, 0) = 0 /\ Rank(fs, Len(fs)) = Cardinality(Backed(fs))
         /\ \A i \in Nat : Rank(fs, i + 1) = Rank(fs, i) + IF i + 1 \in Backed(fs) THEN 1 ELSE 0
<1>1. Len(fs) \in Nat /\ Backed(fs) \in SUBSET (1..Len(fs))
  BY DEF Backed
<1>2. PICK n, S : n = Len(fs) /\ S = Backed(fs)
  OBVIOUS
<1>3. n \in Nat /\ S \in SUBSET (1..n)
  BY <1>1, <1>2
<1>4. /\ \A i \in Nat : CountUpTo(S, i) \in Nat
      /\ CountUpTo(S, 0) = 0 /\ CountUpTo(S, n) = Cardinality(S)
      /\ \A i \in Nat : CountUpTo(S, i + 1) = CountUpTo(S, i) + IF i + 1 \in S THEN 1 ELSE 0
  BY <1>3, CountStep, ZenonT(30)
<1>. QED BY <1>1, <1>2, <1>3, <1>4, Zenon DEF Rank

\* the entries all are fs and new ones
Extends(all, fs, new) ==
  /\ all \in Seq(Entries) /\ Len(all) = Len(fs) + Len(new)
  /\ \A i \in 1..Len(fs) : all[i] = fs[i] /\ (i \in Backed(all) <=> i \in Backed(fs))
  /\ \A i \in 1..Len(new) : all[Len(fs) + i] = new[i]
  /\ \A i \in 0..Len(fs) : Rank(all, i) = Rank(fs, i)

\* More entries leave the places of those before them.
LEMMA RankStays ==
  ASSUME NEW fs \in Seq(Entries), NEW new \in Seq(Entries)
  PROVE  Extends(fs \o new, fs, new)
<1>0. PICK all : all = fs \o new
  OBVIOUS
<1>1. all \in Seq(Entries) /\ Len(all) = Len(fs) + Len(new) /\ Len(fs) \in Nat /\ Len(new) \in Nat
  BY <1>0, ConcatProperties
<1>2. \A i \in 1..Len(fs) : all[i] = fs[i]
  BY <1>0
<1>3. \A i \in 1..Len(new) : all[Len(fs) + i] = new[i]
  BY <1>0
<1>4. DOMAIN all = 1..(Len(fs) + Len(new)) /\ DOMAIN fs = 1..Len(fs)
  BY <1>1
<1>5. \A i \in 1..Len(fs) : i \in Backed(all) <=> i \in Backed(fs)
  BY <1>1, <1>2, <1>4 DEF Backed
<1>6. ASSUME NEW i \in 0..Len(fs) PROVE Rank(all, i) = Rank(fs, i)
  <2>1. \A j \in Backed(all) \cup Backed(fs) : j \in Nat /\ 1 <= j
    BY <1>1, <1>4 DEF Backed
  <2>2. \A j \in Backed(all) \cup Backed(fs) : j <= i => (j \in Backed(all) <=> j \in Backed(fs))
    BY <1>1, <1>5, <2>1
  <2>3. {j \in Backed(all) : j <= i} = {j \in Backed(fs) : j <= i}
    BY <2>2, Zenon
  <2>. QED BY <2>3 DEF Rank, CountUpTo
<1>. QED BY <1>0, <1>1, <1>2, <1>3, <1>5, <1>6 DEF Extends

\* Entries with data take the next places.
LEMMA RankGoesOn ==
  ASSUME NEW fs \in Seq(Entries), NEW new \in Seq(Entries), \A i \in 1..Len(new) : new[i].has_crc
  PROVE  /\ Cardinality(Backed(fs \o new)) = Cardinality(Backed(fs)) + Len(new)
         /\ \A k \in 1..Len(new) : /\ Len(fs) + k \in Backed(fs \o new)
                                   /\ Rank(fs \o new, Len(fs) + k) = Cardinality(Backed(fs)) + k
<1>0. PICK all : all = fs \o new
  OBVIOUS
<1>. DEFINE l == Len(fs)
            c == Cardinality(Backed(fs))
            Has == {k \in Nat : k <= Len(new) => Rank(all, l + k) = c + k}
<1>1. /\ all \in Seq(Entries) /\ Len(all) = l + Len(new)
      /\ \A i \in 1..Len(new) : all[l + i] = new[i]
      /\ \A i \in 0..l : Rank(all, i) = Rank(fs, i)
  BY <1>0, RankStays DEF Extends
<1>2. l \in Nat /\ c \in Nat /\ Len(new) \in Nat /\ Rank(fs, l) = c
  BY RankFacts
<1>3. \A k \in 1..Len(new) : l + k \in Backed(all)
  BY <1>1, <1>2, SMTT(30) DEF Backed
<1>4. \A i \in Nat : Rank(all, i + 1) = Rank(all, i) + IF i + 1 \in Backed(all) THEN 1 ELSE 0
  BY <1>1, RankFacts
<1>5. Rank(all, Len(all)) = Cardinality(Backed(all))
  BY <1>1, RankFacts
<1>. HIDE DEF l, c
<1>6. 0 \in Has
  BY <1>1, <1>2
<1>7. ASSUME NEW k \in Nat, k \in Has PROVE k + 1 \in Has
  <2>. SUFFICES ASSUME k + 1 <= Len(new) PROVE Rank(all, l + (k + 1)) = c + (k + 1)
    OBVIOUS
  <2>1. Rank(all, l + k) = c + k
    BY <1>2, <1>7
  <2>2. k + 1 \in 1..Len(new) /\ l + k \in Nat /\ l + (k + 1) = (l + k) + 1
    BY <1>2
  <2>3. Rank(all, (l + k) + 1) = Rank(all, l + k) + 1
    BY <1>3, <1>4, <2>2
  <2>. QED BY <1>2, <2>1, <2>2, <2>3
<1>8. Nat \subseteq Has
  <2>. HIDE DEF Has
  <2>. QED BY <1>6, <1>7, SetInduction
<1>9. \A k \in 0..Len(new) : Rank(all, l + k) = c + k
  BY <1>2, <1>8
<1>10. Cardinality(Backed(all)) = c + Len(new)
  BY <1>1, <1>2, <1>5, <1>9
<1>. QED BY <1>0, <1>3, <1>9, <1>10 DEF l, c

\* The data of one block more.
LEMMA BlockJoins ==
  ASSUME NEW B, WellFormed(B), NEW b \in Blocks, NEW ds \in Seq(Data), Describes(b, ds)
  PROVE  /\ BlockCrcs(b) = ds /\ WellFormed(Append(B, b))
         /\ AllData(B) \in Seq(Data) /\ AllData(Append(B, b)) = AllData(B) \o ds
<1>1. BlockCrcs(b) = ds
  <2>1. Len(ds) \in Nat /\ b.num_sub_unpack_streams = Len(ds)
    BY DEF Describes
  <2>2. CASE Len(ds) = 1 /\ b.crc = ds[1] /\ b.sub_stream_crcs = <<>>
    <3>1. ds = <<ds[1]>>
      BY <2>2
    <3>. QED BY <2>1, <2>2, <3>1 DEF BlockCrcs
  <2>3. CASE b.sub_stream_crcs = ds
    <3>1. ~(b.num_sub_unpack_streams = 1 /\ b.sub_stream_crcs = <<>>)
      <4>1. Len(ds) = 1 => ds # <<>>
        OBVIOUS
      <4>. QED BY <2>1, <2>3, <4>1, Zenon
    <3>. QED BY <2>3, <3>1 DEF BlockCrcs
  <2>. QED BY <2>2, <2>3 DEF Describes
<1>2. B \in Seq(Blocks) /\ \A i \in 1..Len(B) : Describes(B[i], BlockCrcs(B[i]))
  BY DEF WellFormed
<1>3. PICK A : A = Append(B, b)
  OBVIOUS
<1>4. A \in Seq(Blocks) /\ Len(A) = Len(B) + 1 /\ A[Len(B) + 1] = b /\ \A i \in 1..Len(B) : A[i] = B[i]
  <2>1. B \in Seq(Blocks)
    BY <1>2
  <2>. QED BY <1>3, <2>1, AppendProperties
<1>5. WellFormed(A)
  <2>1. ASSUME NEW i \in 1..Len(A) PROVE Describes(A[i], BlockCrcs(A[i]))
    <3>1. i = Len(B) + 1 \/ i \in 1..Len(B)
      BY <1>2, <1>4
    <3>. QED BY <1>1, <1>2, <1>4, <3>1
  <2>. QED BY <1>4, <2>1 DEF WellFormed
<1>6. ASSUME NEW i \in 1..Len(B) PROVE BlockCrcs(B[i]) \in Seq(Data)
  BY <1>2, BlockShape
<1>7. PICK C : C = Datas(B)
  OBVIOUS
<1>8. C \in Seq(Seq(Data)) /\ Len(C) = Len(B) /\ \A i \in 1..Len(B) : C[i] = BlockCrcs(B[i])
  <2>1. DOMAIN B = 1..Len(B) /\ Len(B) \in Nat
    BY <1>2
  <2>2. C = [i \in 1..Len(B) |-> BlockCrcs(B[i])]
    BY <1>7, <2>1 DEF Datas
  <2>. QED BY <1>6, <2>1, <2>2
<1>9. Datas(A) = Append(C, ds)
  <2>1. PICK D, E : D = Datas(A) /\ E = Append(C, ds)
    OBVIOUS
  <2>2. DOMAIN A = 1..(Len(B) + 1) /\ Len(B) \in Nat
    BY <1>2, <1>4
  <2>3. E \in Seq(Seq(Data)) /\ Len(E) = Len(B) + 1 /\ E[Len(B) + 1] = ds /\ \A i \in 1..Len(B) : E[i] = C[i]
    BY <1>8, <2>1, AppendProperties
  <2>4. ASSUME NEW i \in 1..(Len(B) + 1) PROVE BlockCrcs(A[i]) = E[i]
    <3>1. i = Len(B) + 1 \/ i \in 1..Len(B)
      BY <2>2
    <3>. QED BY <1>1, <1>4, <1>8, <2>3, <3>1
  <2>5. E = [i \in 1..(Len(B) + 1) |-> E[i]]
    BY <2>2, <2>3
  <2>6. D = [i \in 1..(Len(B) + 1) |-> BlockCrcs(A[i])]
    BY <2>1, <2>2 DEF Datas
  <2>7. D = E
    BY <2>4, <2>5, <2>6, Zenon
  <2>. QED BY <2>1, <2>7
<1>10. FlattenSeq(C) \in Seq(Data) /\ FlattenSeq(Append(C, ds)) = FlattenSeq(C) \o ds
  BY <1>8, FlattenAppend
<1>. QED BY <1>1, <1>3, <1>5, <1>7, <1>9, <1>10 DEF AllData

\* Where the data of a block begin.
LEMMA PrefixOfBlocks ==
  ASSUME NEW B \in Seq(Blocks), NEW b \in Blocks
  PROVE  /\ Append(B, b) \in Seq(Blocks) /\ Len(Append(B, b)) = Len(B) + 1
         /\ Append(B, b)[Len(B) + 1] = b
         /\ \A i \in 1..Len(B) : /\ Append(B, b)[i] = B[i]
                                 /\ SubSeq(Append(B, b), 1, i - 1) = SubSeq(B, 1, i - 1)
         /\ SubSeq(Append(B, b), 1, Len(B)) = B
<1>1. PICK A, n : A = Append(B, b) /\ n = Len(B)
  OBVIOUS
<1>2. A \in Seq(Blocks) /\ Len(A) = n + 1 /\ A[n + 1] = b /\ (\A i \in 1..n : A[i] = B[i]) /\ n \in Nat
  BY <1>1, AppendProperties
<1>3. ASSUME NEW m \in 0..n PROVE SubSeq(A, 1, m) = SubSeq(B, 1, m)
  <2>1. PICK p, q : p = SubSeq(A, 1, m) /\ q = SubSeq(B, 1, m)
    OBVIOUS
  <2>2. p \in Seq(Blocks) /\ Len(p) = m /\ \A i \in 1..m : p[i] = A[i]
    <3>1. \A i \in 1..m : A[i] \in Blocks
      BY <1>2
    <3>. QED BY <1>2, <2>1, <3>1
  <2>3. q \in Seq(Blocks) /\ Len(q) = m /\ \A i \in 1..m : q[i] = B[i]
    <3>1. \A i \in 1..m : B[i] \in Blocks
      BY <1>1
    <3>. QED BY <1>1, <2>1, <3>1
  <2>4. \A i \in 1..Len(p) : p[i] = q[i]
    BY <1>2, <2>2, <2>3
  <2>5. p = q
    BY <2>2, <2>3, <2>4, SeqEqual
  <2>. QED BY <2>1, <2>5
<1>4. SubSeq(A, 1, n) = B
  BY <1>1, <1>2, <1>3, SubSeqFull
<1>5. \A i \in 1..n : SubSeq(A, 1, i - 1) = SubSeq(B, 1, i - 1)
  <2>. TAKE i \in 1..n
  <2>1. i - 1 \in 0..n
    BY <1>2
  <2>. QED BY <1>3, <2>1
<1>. QED BY <1>1, <1>2, <1>4, <1>5

\* Backed entries and the block of their data.
LEMMA StreamListed ==
  ASSUME NEW fs, NEW cs, NEW B, Listed(fs, cs, B), NEW new \in Seq(Entries), NEW ds \in Seq(Data),
         Len(new) = Len(ds), \A i \in 1..Len(new) : Backs(new[i], ds[i]) /\ new[i].has_stream /\ ~new[i].is_directory,
         NEW b \in Blocks, Describes(b, ds)
  PROVE  Listed(fs \o new, cs \o ds, Append(B, b))
<1>1. PICK all, con, A : all = fs \o new /\ con = cs \o ds /\ A = Append(B, b)
  OBVIOUS
<1>2. /\ fs \in Seq(Entries) /\ cs \in Seq(Data) /\ Len(cs) = Len(fs) /\ WellFormed(B)
      /\ \A i \in 1..Len(fs) : Suits(fs[i], cs[i])
      /\ Len(AllData(B)) = Cardinality(Backed(fs))
      /\ \A i \in Backed(fs) : AllData(B)[Rank(fs, i)] = cs[i]
      /\ \A i \in 1..Len(B) : \E p \in Nat : BlockAt(fs, B, i, p)
  BY DEF Listed
<1>3. PICK l, c, k : l = Len(fs) /\ c = Cardinality(Backed(fs)) /\ k = Len(new)
  OBVIOUS
<1>4. l \in Nat /\ c \in Nat /\ k \in Nat /\ Len(cs) = l /\ Len(ds) = k /\ Backed(fs) \in SUBSET (1..l)
  BY <1>2, <1>3, RankFacts
<1>5. /\ all \in Seq(Entries) /\ Len(all) = l + k
      /\ \A i \in 1..l : all[i] = fs[i] /\ (i \in Backed(all) <=> i \in Backed(fs))
      /\ \A i \in 1..k : all[l + i] = new[i]
      /\ \A i \in 0..l : Rank(all, i) = Rank(fs, i)
  BY <1>1, <1>2, <1>3, RankStays, ZenonT(30) DEF Extends
<1>6. /\ Cardinality(Backed(all)) = c + k
      /\ \A i \in 1..k : l + i \in Backed(all) /\ Rank(all, l + i) = c + i
  <2>1. \A i \in 1..Len(new) : new[i].has_crc
    BY DEF Backs
  <2>2. /\ Cardinality(Backed(fs \o new)) = Cardinality(Backed(fs)) + Len(new)
        /\ \A i \in 1..Len(new) : /\ Len(fs) + i \in Backed(fs \o new)
                                  /\ Rank(fs \o new, Len(fs) + i) = Cardinality(Backed(fs)) + i
    BY <1>2, <2>1, RankGoesOn
  <2>. QED BY <1>1, <1>3, <2>2
<1>7. /\ con \in Seq(Data) /\ Len(con) = l + k
      /\ \A i \in 1..l : con[i] = cs[i]
      /\ \A i \in 1..k : con[l + i] = ds[i]
  <2>1. con \in Seq(Data) /\ Len(con) = l + k
    BY <1>1, <1>2, <1>4, ConcatProperties
  <2>2. \A i \in 1..l : con[i] = cs[i]
    BY <1>1, <1>2, <1>4
  <2>3. \A i \in 1..k : con[l + i] = ds[i]
    BY <1>1, <1>2, <1>4
  <2>. QED BY <2>1, <2>2, <2>3
<1>8. /\ BlockCrcs(b) = ds /\ WellFormed(A)
      /\ AllData(B) \in Seq(Data) /\ AllData(A) = AllData(B) \o ds
  <2>1. /\ BlockCrcs(b) = ds /\ WellFormed(Append(B, b))
        /\ AllData(B) \in Seq(Data) /\ AllData(Append(B, b)) = AllData(B) \o ds
    BY <1>2, BlockJoins
  <2>. QED BY <1>1, <2>1
<1>9. PICK D, E : D = AllData(B) /\ E = AllData(A)
  OBVIOUS
<1>10. /\ D \in Seq(Data) /\ Len(D) = c /\ Len(E) = c + k
       /\ \A i \in 1..c : E[i] = D[i]
       /\ \A i \in 1..k : E[c + i] = ds[i]
  <2>1. E = D \o ds /\ D \in Seq(Data) /\ Len(D) = c
    BY <1>2, <1>3, <1>8, <1>9
  <2>2. Len(E) = c + k
    BY <1>4, <2>1, ConcatProperties
  <2>3. \A i \in 1..c : E[i] = D[i]
    BY <1>4, <2>1
  <2>4. \A i \in 1..k : E[c + i] = ds[i]
    BY <1>4, <2>1
  <2>. QED BY <2>1, <2>2, <2>3, <2>4
<1>11. \A i \in 1..(l + k) : i \in 1..l \/ \E j \in 1..k : i = l + j
  <2>. TAKE i \in 1..(l + k)
  <2>1. i \in 1..l \/ (i - l \in 1..k /\ i = l + (i - l))
    BY <1>4
  <2>. QED BY <2>1
<1>12. ASSUME NEW i \in 1..(l + k) PROVE Suits(all[i], con[i])
  <2>1. CASE i \in 1..l
    BY <1>2, <1>3, <1>5, <1>7, <2>1
  <2>2. ASSUME NEW j \in 1..k, i = l + j PROVE Suits(all[i], con[i])
    <3>1. all[i] = new[j] /\ con[i] = ds[j]
      BY <1>5, <1>7, <2>2
    <3>2. Backs(new[j], ds[j]) /\ new[j].has_stream /\ ~new[j].is_directory
      BY <1>3
    <3>. QED BY <3>1, <3>2 DEF Backs, Suits
  <2>. QED BY <1>11, <2>1, <2>2
<1>13. ASSUME NEW i \in Backed(all) PROVE E[Rank(all, i)] = con[i]
  <2>1. i \in 1..(l + k)
    BY <1>5 DEF Backed
  <2>2. CASE i \in 1..l
    <3>1. i \in Backed(fs) /\ Rank(all, i) = Rank(fs, i) /\ D[Rank(fs, i)] = cs[i] /\ con[i] = cs[i]
      BY <1>2, <1>5, <1>7, <1>9, <2>2
    <3>2. Rank(fs, i) \in 1..c
      <4>1. i - 1 \in Nat /\ (i - 1) + 1 = i /\ i \in Nat /\ i <= l
        BY <1>4, <2>2
      <4>2. Rank(fs, i) = Rank(fs, i - 1) + 1 /\ Rank(fs, i - 1) \in Nat
        BY <1>2, <3>1, <4>1, RankFacts
      <4>3. Rank(fs, i) <= Rank(fs, l) /\ Rank(fs, l) = c /\ Rank(fs, i) \in Nat
        BY <1>2, <1>3, <1>4, <4>1, RankFacts, CountGrows DEF Rank
      <4>. QED BY <1>4, <4>2, <4>3
    <3>. QED BY <1>10, <3>1, <3>2
  <2>3. ASSUME NEW j \in 1..k, i = l + j PROVE E[Rank(all, i)] = con[i]
    BY <1>6, <1>7, <1>10, <2>3
  <2>. QED BY <1>11, <2>1, <2>2, <2>3
<1>14. A \in Seq(Blocks) /\ Len(A) = Len(B) + 1 /\ A[Len(B) + 1] = b
       /\ SubSeq(A, 1, Len(B)) = B /\ Len(B) \in Nat
       /\ \A i \in 1..Len(B) : A[i] = B[i] /\ SubSeq(A, 1, i - 1) = SubSeq(B, 1, i - 1)
  <2>1. B \in Seq(Blocks)
    BY <1>2 DEF WellFormed
  <2>. QED BY <1>1, <2>1, PrefixOfBlocks
<1>15. ASSUME NEW i \in 1..Len(A) PROVE \E p \in Nat : BlockAt(all, A, i, p)
  <2>1. CASE i \in 1..Len(B)
    <3>1. PICK p \in Nat : BlockAt(fs, B, i, p)
      BY <1>2, <2>1
    <3>2. A[i] = B[i] /\ SubSeq(A, 1, i - 1) = SubSeq(B, 1, i - 1)
      BY <1>14, <2>1
    <3>3. ASSUME NEW j \in 1..Len(BlockCrcs(B[i]))
          PROVE  p + j \in Backed(all) /\ Rank(all, p + j) = Len(AllData(SubSeq(B, 1, i - 1))) + j
      <4>1. p + j \in Backed(fs) /\ Rank(fs, p + j) = Len(AllData(SubSeq(B, 1, i - 1))) + j
        BY <3>1 DEF BlockAt
      <4>2. p + j \in 1..l
        BY <1>4, <4>1
      <4>3. p + j \in 0..l
        BY <4>2
      <4>. QED BY <1>5, <4>1, <4>2, <4>3
    <3>. QED BY <3>2, <3>3 DEF BlockAt
  <2>2. CASE i = Len(B) + 1
    <3>1. A[i] = b /\ SubSeq(A, 1, i - 1) = B
      BY <1>14, <2>2
    <3>2. Len(AllData(B)) = c
      BY <1>9, <1>10
    <3>. QED BY <1>4, <1>6, <1>8, <3>1, <3>2 DEF BlockAt
  <2>. QED BY <1>14, <2>1, <2>2
<1>16. Len(E) = Cardinality(Backed(all))
  BY <1>6, <1>10
<1>17. Listed(all, con, A)
  BY <1>5, <1>7, <1>8, <1>9, <1>12, <1>13, <1>15, <1>16 DEF Listed
<1>. QED BY <1>1, <1>17

\* An entry without data.
LEMMA EmptyListed ==
  ASSUME NEW fs, NEW cs, NEW B, Listed(fs, cs, B), NEW entry \in Entries, Empty(entry)
  PROVE  Listed(fs \o <<entry>>, cs \o <<<<>>>>, B)
<1>1. PICK all, con, new : all = fs \o <<entry>> /\ con = cs \o <<<<>>>> /\ new = <<entry>>
  OBVIOUS
<1>2. /\ fs \in Seq(Entries) /\ cs \in Seq(Data) /\ Len(cs) = Len(fs) /\ WellFormed(B)
      /\ \A i \in 1..Len(fs) : Suits(fs[i], cs[i])
      /\ Len(AllData(B)) = Cardinality(Backed(fs))
      /\ \A i \in Backed(fs) : AllData(B)[Rank(fs, i)] = cs[i]
      /\ \A i \in 1..Len(B) : \E p \in Nat : BlockAt(fs, B, i, p)
  BY DEF Listed
<1>3. PICK l : l = Len(fs)
  OBVIOUS
<1>4. l \in Nat /\ Len(cs) = l /\ Backed(fs) \in SUBSET (1..l)
  BY <1>2, <1>3, RankFacts
<1>4a. new \in Seq(Entries) /\ Len(new) = 1 /\ new[1] = entry
  BY <1>1
<1>5. /\ all \in Seq(Entries) /\ Len(all) = l + 1
      /\ \A i \in 1..l : all[i] = fs[i] /\ (i \in Backed(all) <=> i \in Backed(fs))
      /\ all[l + 1] = entry
  <2>1. Extends(all, fs, new)
    BY <1>1, <1>2, <1>4a, RankStays
  <2>. QED BY <1>3, <1>4a, <2>1 DEF Extends
<1>6. Backed(all) = Backed(fs)
  <2>1. \A i \in Backed(all) : i \in 1..l
    BY <1>4, <1>5 DEF Backed, Empty
  <2>2. \A i \in Backed(fs) : i \in 1..l
    BY <1>4
  <2>. QED BY <1>5, <2>1, <2>2
<1>7. con \in Seq(Data) /\ Len(con) = l + 1 /\ (\A i \in 1..l : con[i] = cs[i]) /\ con[l + 1] = <<>>
  <2>1. <<>> \in Data
    BY DEF Data
  <2>. QED BY <1>1, <1>2, <1>4, <2>1
<1>8. ASSUME NEW i \in 1..(l + 1) PROVE Suits(all[i], con[i])
  <2>1. CASE i \in 1..l
    BY <1>2, <1>3, <1>5, <1>7, <2>1
  <2>2. CASE i = l + 1
    <3>1. all[i] = entry /\ con[i] = <<>>
      BY <1>5, <1>7, <2>2
    <3>. QED BY <3>1 DEF Suits, Empty
  <2>. QED BY <1>4, <2>1, <2>2
<1>9. \A i \in Nat : Rank(all, i) = Rank(fs, i)
  BY <1>6 DEF Rank
<1>10. ASSUME NEW i \in Backed(all) PROVE AllData(B)[Rank(all, i)] = con[i]
  <2>1. i \in Backed(fs) /\ i \in 1..l
    BY <1>4, <1>6
  <2>. QED BY <1>2, <1>7, <1>9, <2>1
<1>11. ASSUME NEW i \in 1..Len(B) PROVE \E p \in Nat : BlockAt(all, B, i, p)
  <2>1. PICK p \in Nat : BlockAt(fs, B, i, p)
    BY <1>2
  <2>2. \A j \in 1..Len(BlockCrcs(B[i])) : p + j \in Nat
    OBVIOUS
  <2>3. BlockAt(all, B, i, p)
    BY <1>6, <1>9, <2>1, <2>2 DEF BlockAt
  <2>. QED BY <2>3
<1>12. Listed(all, con, B)
  BY <1>2, <1>5, <1>6, <1>7, <1>8, <1>10, <1>11 DEF Listed
<1>. QED BY <1>1, <1>12

\* the sizes of the packed streams are those of what their checksums are of
Packed == \A b \in 1..Len(pack_info.sizes) : Len(pack_info.crcs[b]) = pack_info.sizes[b]

\* what finish wrote describes all that was pushed; a packed header lies at its place
Finished ==
  header # <<>> =>
    /\ header[1].main = write_header(files, pack_info, blocks)
    /\ header[1].pos = orphans + SumFunction(pack_info.sizes)
    /\ header[1].encoded => SubSeq(output, header[1].pos + 1, header[1].pos + 1) = <<HeaderCell>>

\* the invariant of a writer whose solid blocks have no directories
ListInv == WInv /\ Listed(files, contents, blocks) /\ Packed /\ Finished

\* Nothing is listed at the beginning.
LEMMA InitListInv == Init => ListInv
<1>. SUFFICES ASSUME Init PROVE ListInv
  OBVIOUS
<1>1. WInv
  BY InitWInv
<1>2. files = <<>> /\ contents = <<>> /\ blocks = <<>> /\ header = <<>> /\ pack_info.sizes = <<>>
  BY DEF Init
<1>3. Listed(<<>>, <<>>, <<>>)
  <2>1. WellFormed(<<>>)
    BY DEF WellFormed
  <2>2. Backed(<<>>) = {} /\ Cardinality({}) = 0
    BY FS_EmptySet DEF Backed
  <2>3. AllData(<<>>) = <<>>
    <3>1. Datas(<<>>) = <<>>
      BY DEF Datas
    <3>. QED BY <3>1, FlattenEmpty DEF AllData
  <2>4. <<>> \in Seq(Entries) /\ <<>> \in Seq(Data) /\ Len(<<>>) = 0
    OBVIOUS
  <2>5. \A i \in 1..Len(<<>>) : FALSE
    OBVIOUS
  <2>6. Len(AllData(<<>>)) = Cardinality(Backed(<<>>))
    BY <2>2, <2>3, <2>4
  <2>. QED BY <2>1, <2>2, <2>4, <2>5, <2>6, Zenon DEF Listed
<1>. QED BY <1>1, <1>2, <1>3 DEF ListInv, Packed, Finished

\* A push lists its entries in their block, a failed one lists nothing, and finish
\* writes what is listed.
LEMMA StepListInv ==
  ASSUME FilesInBlocks, ListInv, [Next]_vars
  PROVE  ListInv'
<1>1. WInv /\ WInv'
  BY StepWInv DEF ListInv
<1>2. files \in Seq(Entries) /\ content_methods \in Overheads /\ content_methods \in Nat
  BY <1>1, WriterAssumption DEF WInv, Types
<1>3. Listed(files, contents, blocks) /\ Packed /\ Finished
  BY DEF ListInv
<1>. SUFFICES Listed(files, contents, blocks)' /\ Packed' /\ Finished'
  BY <1>1 DEF ListInv
<1>4. ASSUME UNCHANGED <<files, contents, blocks, pack_info>>
      PROVE  Listed(files, contents, blocks)' /\ Packed'
  BY <1>3, <1>4 DEF Packed
<1>5. ASSUME header' = <<>> PROVE Finished'
  BY <1>5 DEF Finished
<1>6. CASE \E b, new, cs : AddsStream(b, new, cs)
  <2>1. PICK b, new, cs : AddsStream(b, new, cs)
    BY <1>6
  <2>2. /\ header' = <<>> /\ cs \in Seq(Data) /\ b \in Blocks /\ Describes(b, cs)
        /\ blocks' = Append(blocks, b) /\ new \in Seq(Entries) /\ Len(new) = Len(cs)
        /\ files' = files \o new /\ contents' = contents \o cs
        /\ \A i \in 1..Len(new) : Backs(new[i], cs[i])
        /\ \A i \in 1..Len(new) : new[i].has_stream /\ ~new[i].is_directory
    BY <2>1 DEF AddsStream, AddFiles
  <2>3. Listed(files \o new, contents \o cs, Append(blocks, b))
    BY <1>3, <2>2, StreamListed
  <2>4. Packed'
    <3>1. PICK packed : packed = Pack(FlattenSeq(cs), content_methods)
      OBVIOUS
    <3>2. Len(packed) \in Nat /\ packed \in Seq(Cells)
      <4>1. FlattenSeq(cs) \in Data
        BY <2>2, FlattenData
      <4>2. Len(FlattenSeq(cs)) \in Nat
        BY <4>1 DEF Data
      <4>. QED BY <1>2, <3>1, <4>1, <4>2, PackIsCells
    <3>3. PICK s, c : s = pack_info.sizes /\ c = pack_info.crcs
      OBVIOUS
    <3>4. s \in Seq(Nat) /\ c \in Seq(Seq(Cells)) /\ Len(s) = Len(c) /\ Len(s) \in Nat
      BY <1>1, <3>3, SMTT(30) DEF WInv, Types, StreamsTileOutput
    <3>5. pack_info'.sizes = Append(s, Len(packed)) /\ pack_info'.crcs = Append(c, packed)
      <4>1. pack_info' = [pack_info EXCEPT !.sizes = Append(@, Len(packed)),
                                           !.crcs = Append(@, Crc(packed))]
        BY <2>1, <3>1, Zenon DEF AddsStream, AddPackedStream
      <4>2. pack_info \in [pos : {0}, sizes : Seq(Nat), crcs : Seq(Seq(Cells))]
        BY <1>1 DEF WInv, Types
      <4>. QED BY <3>3, <4>1, <4>2 DEF Crc
    <3>6. \A i \in 1..Len(s) : Len(c[i]) = s[i]
      BY <1>3, <3>3 DEF Packed
    <3>7. PICK t, d : t = Append(s, Len(packed)) /\ d = Append(c, packed)
      OBVIOUS
    <3>8. /\ Len(t) = Len(s) + 1 /\ t[Len(s) + 1] = Len(packed) /\ \A i \in 1..Len(s) : t[i] = s[i]
      BY <3>2, <3>4, <3>7, AppendProperties
    <3>9. /\ d[Len(s) + 1] = packed /\ \A i \in 1..Len(s) : d[i] = c[i]
      BY <3>2, <3>4, <3>7, AppendProperties
    <3>10. \A i \in 1..Len(t) : Len(d[i]) = t[i]
      <4>. TAKE i \in 1..Len(t)
      <4>1. i \in 1..Len(s) \/ i = Len(s) + 1
        BY <3>4, <3>8
      <4>. QED BY <3>6, <3>8, <3>9, <4>1
    <3>. QED BY <3>5, <3>7, <3>10 DEF Packed
  <2>. QED BY <1>5, <2>2, <2>3, <2>4
<1>7. CASE \E entry : AddsEmpty(entry)
  <2>1. PICK entry : AddsEmpty(entry)
    BY <1>7
  <2>2. /\ header' = <<>> /\ UNCHANGED <<blocks, pack_info>> /\ entry \in Entries /\ Empty(entry)
        /\ files' = files \o <<entry>> /\ contents' = contents \o <<<<>>>>
    <3>1. UNCHANGED streams => UNCHANGED <<blocks, pack_info>>
      BY DEF streams, AddsEmpty
    <3>. QED BY <2>1, <3>1 DEF AddsEmpty, AddFiles, streams
  <2>3. Listed(files \o <<entry>>, contents \o <<<<>>>>, blocks)
    BY <1>3, <2>2, EmptyListed
  <2>4. Packed'
    BY <1>3, <2>2 DEF Packed
  <2>. QED BY <1>5, <2>2, <2>3, <2>4
<1>8. CASE \E cells : Orphans(cells)
  <2>1. UNCHANGED <<files, contents, blocks, pack_info>> /\ header' = <<>>
    BY <1>8 DEF Orphans, streams
  <2>. QED BY <1>4, <1>5, <2>1
<1>9. CASE \E overhead \in Overheads : set_content_methods(overhead)
  <2>1. UNCHANGED <<files, contents, blocks, pack_info>> /\ header' = <<>>
    BY <1>9 DEF set_content_methods, streams, history
  <2>. QED BY <1>4, <1>5, <2>1
<1>10. CASE Finishes
  <2>1. PICK encoded \in BOOLEAN : WriteNextHeader(encoded)
    BY <1>10 DEF Finishes
  <2>2. /\ UNCHANGED <<files, contents, blocks, pack_info, orphans>> /\ header = <<>>
        /\ header' = <<[encoded |-> encoded, pos |-> Len(output),
                        main |-> write_header(files, pack_info, blocks)]>>
        /\ output' = IF encoded THEN Append(output, HeaderCell) ELSE output
    BY <2>1 DEF WriteNextHeader, streams, history
  <2>3. output \in Seq(Cells) /\ output' \in Seq(Cells) /\ Len(output) \in Nat
    BY <1>1 DEF WInv, Types
  <2>4. encoded => SubSeq(output', Len(output) + 1, Len(output) + 1) = <<HeaderCell>>
    <3>. SUFFICES ASSUME encoded PROVE SubSeq(output', Len(output) + 1, Len(output) + 1) = <<HeaderCell>>
      OBVIOUS
    <3>1. PICK n, q, x : n = Len(output) + 1 /\ q = output' /\ x = HeaderCell
      OBVIOUS
    <3>2. n \in Int /\ q[n] = x /\ Len(q) = n /\ q \in Seq(Cells) /\ n \in 1..Len(q)
      BY <2>2, <2>3, <3>1
    <3>3. x \in Cells
      BY <3>2, ElementOfSeq
    <3>4. PICK r : r = SubSeq(q, n, n)
      OBVIOUS
    <3>5. \A i \in n..n : q[i] \in Cells
      BY <3>2, <3>3
    <3>6. r \in Seq(Cells) /\ Len(r) = IF n <= n THEN n - n + 1 ELSE 0
      BY <3>2, <3>4, <3>5, SubSeqProperties
    <3>7. \A i \in 1..(n - n + 1) : r[i] = q[n + i - 1]
      <4>1. \A i \in 1..(n - n + 1) : SubSeq(q, n, n)[i] = q[n + i - 1]
        BY <3>2, <3>5, SubSeqProperties
      <4>. QED BY <3>4, <4>1
    <3>8. Len(r) = 1 /\ r[1] = x
      <4>1. 1 \in 1..(n - n + 1) /\ n + 1 - 1 = n /\ n - n + 1 = 1 /\ n <= n
        BY <3>2
      <4>. QED BY <3>2, <3>6, <3>7, <4>1
    <3>9. r = <<x>>
      BY <3>6, <3>8
    <3>. QED BY <3>1, <3>4, <3>9
  <2>5. Finished'
    <3>1. PICK h : h = [encoded |-> encoded, pos |-> Len(output),
                        main |-> write_header(files, pack_info, blocks)]
      OBVIOUS
    <3>2. h.encoded = encoded /\ h.pos = Len(output) /\ h.main = write_header(files, pack_info, blocks)
      BY <3>1
    <3>3. header' = <<h>> /\ header'[1] = h
      BY <2>2, <3>1
    <3>4. write_header(files, pack_info, blocks)' = write_header(files, pack_info, blocks)
      BY <2>2
    <3>5. Len(output) = orphans + SumFunction(pack_info.sizes)
      BY <1>1, <2>2 DEF WInv, StreamsTileOutput
    <3>6. header'[1].pos = orphans' + SumFunction(pack_info'.sizes)
      BY <2>2, <3>2, <3>3, <3>5
    <3>. QED BY <2>2, <2>4, <3>2, <3>3, <3>4, <3>6 DEF Finished
  <2>. QED BY <1>4, <2>2, <2>5
<1>11. CASE UNCHANGED vars
  <2>1. UNCHANGED <<files, contents, blocks, pack_info, header, output, orphans>>
    BY <1>11 DEF vars
  <2>2. Finished'
    BY <1>3, <2>1 DEF Finished
  <2>. QED BY <1>4, <2>1, <2>2
<1>12. CASE Next
  <2>1. Steps
    BY <1>2, <1>12, NextSteps
  <2>. QED BY <1>6, <1>7, <1>8, <1>9, <1>10, <2>1 DEF Steps
<1>. QED BY <1>11, <1>12

-----------------------------------------------------------------------------
(* Reading the entries: read_files_info against write_header *)

\* the entries with a stream
Streams(fs) == {i \in DOMAIN fs : fs[i].has_stream}

\* The entries with and those without a stream; the places of the latter differ.
LEMMA EmptyFacts ==
  ASSUME NEW fs \in Seq(Entries)
  PROVE  /\ Streams(fs) \cup EmptyStreams(fs) = 1..Len(fs) /\ Streams(fs) \cap EmptyStreams(fs) = {}
         /\ EmptyStreams(fs) \in SUBSET (1..Len(fs)) /\ Streams(fs) \in SUBSET (1..Len(fs))
         /\ Cardinality(Streams(fs)) \in Nat /\ Cardinality(EmptyStreams(fs)) \in Nat
         /\ IsFiniteSet(Streams(fs)) /\ IsFiniteSet(EmptyStreams(fs))
         /\ Cardinality(Streams(fs)) + Cardinality(EmptyStreams(fs)) = Len(fs)
         /\ \A i \in 1..Len(fs) : EmptyCounter(fs, i) = CountUpTo(EmptyStreams(fs), i)
         /\ \A i, j \in EmptyStreams(fs) : EmptyCounter(fs, i) = EmptyCounter(fs, j) => i = j
<1>1. PICK n, S, T : n = Len(fs) /\ S = Streams(fs) /\ T = EmptyStreams(fs)
  OBVIOUS
<1>2. n \in Nat /\ DOMAIN fs = 1..n /\ S \cup T = 1..n /\ S \cap T = {}
  <2>1. n \in Nat /\ DOMAIN fs = 1..n
    BY <1>1
  <2>. QED BY <1>1, <2>1, Zenon DEF Streams, EmptyStreams
<1>3. S \subseteq 1..n /\ T \subseteq 1..n
  BY <1>2
<1>4. IsFiniteSet(1..n)
  <2>1. 1 \in Int /\ n \in Int
    BY <1>2
  <2>. QED BY <2>1, FS_Interval
<1>5. IsFiniteSet(S) /\ IsFiniteSet(T)
  BY <1>3, <1>4, FS_Subset
<1>6. Cardinality(S) \in Nat /\ Cardinality(T) \in Nat
  BY <1>5, FS_CardinalityType
<1>7. Cardinality(S) + Cardinality(T) = n
  <2>1. n \in 0..n
    BY <1>2
  <2>2. CountUpTo(S, n) + CountUpTo(T, n) = n
    BY <1>2, <2>1, CountSplits
  <2>3. S \in SUBSET (1..n) /\ T \in SUBSET (1..n)
    BY <1>3
  <2>4. CountUpTo(S, n) = Cardinality(S) /\ CountUpTo(T, n) = Cardinality(T)
    BY <1>2, <2>3, CountStep
  <2>. QED BY <2>2, <2>4
<1>8. \A i \in 1..n : EmptyCounter(fs, i) = CountUpTo(T, i)
  BY <1>1 DEF EmptyCounter, CountUpTo
<1>9. ASSUME NEW i \in T, NEW j \in T, CountUpTo(T, i) = CountUpTo(T, j) PROVE i = j
  <2>1. T \in SUBSET (1..n) /\ i \in Nat /\ j \in Nat
    BY <1>3
  <2>2. CASE i < j
    <3>0. i <= j
      BY <2>1, <2>2
    <3>1. CountUpTo(T, i) < CountUpTo(T, j) /\ CountUpTo(T, j) \in Nat
      BY <1>2, <2>1, <2>2, <3>0, CountGrows
    <3>. QED BY <1>9, <3>1
  <2>3. CASE j < i
    <3>0. j <= i
      BY <2>1, <2>3
    <3>1. CountUpTo(T, j) < CountUpTo(T, i) /\ CountUpTo(T, i) \in Nat
      BY <1>2, <2>1, <2>3, <3>0, CountGrows
    <3>. QED BY <1>9, <3>1
  <2>. QED BY <2>1, <2>2, <2>3
<1>10. \A i, j \in T : EmptyCounter(fs, i) = EmptyCounter(fs, j) => i = j
  BY <1>3, <1>8, <1>9
<1>11. S \in SUBSET (1..n) /\ T \in SUBSET (1..n)
  BY <1>3
<1>. QED BY <1>1, <1>2, <1>5, <1>6, <1>7, <1>8, <1>10, <1>11, Zenon

\* A table of sizes long enough for the entries with a stream says that each of
\* them has data.
LEMMA AllBacked ==
  ASSUME NEW fs, NEW cs, NEW B, Listed(fs, cs, B), Len(fs) - Cardinality(EmptyStreams(fs)) <= Len(AllData(B))
  PROVE  /\ Streams(fs) = Backed(fs)
         /\ \A i \in 1..Len(fs) : EmptyCounter(fs, i) \in Nat /\ Rank(fs, i) \in Nat
                                  /\ i - EmptyCounter(fs, i) = Rank(fs, i)
         /\ \A i \in Backed(fs) : Rank(fs, i) \in 1..Len(AllData(B))
<1>1. /\ fs \in Seq(Entries) /\ Len(AllData(B)) = Cardinality(Backed(fs))
      /\ \A i \in 1..Len(fs) : Suits(fs[i], cs[i])
  BY DEF Listed
<1>2. PICK n, S, T, K : n = Len(fs) /\ S = Streams(fs) /\ T = EmptyStreams(fs) /\ K = Backed(fs)
  OBVIOUS
<1>3. /\ S \cup T = 1..n /\ S \cap T = {} /\ IsFiniteSet(S) /\ Cardinality(S) \in Nat
      /\ Cardinality(T) \in Nat /\ Cardinality(S) + Cardinality(T) = n /\ n \in Nat
      /\ T \subseteq 1..n /\ \A i \in 1..n : EmptyCounter(fs, i) = CountUpTo(T, i)
  BY <1>1, <1>2, EmptyFacts
<1>4. K \subseteq S /\ K \subseteq 1..n
  BY <1>1, <1>2 DEF Backed, Streams, Suits
<1>5. IsFiniteSet(K) /\ Cardinality(K) <= Cardinality(S) /\ (Cardinality(S) = Cardinality(K) => S = K)
  BY <1>3, <1>4, FS_Subset
<1>6. Cardinality(K) \in Nat /\ Cardinality(S) <= Cardinality(K)
  <2>1. n - Cardinality(T) <= Cardinality(K)
    BY <1>1, <1>2
  <2>2. Cardinality(K) \in Nat
    BY <1>5, FS_CardinalityType
  <2>. QED BY <1>3, <2>1, <2>2
<1>7. S = K
  BY <1>3, <1>5, <1>6
<1>8. ASSUME NEW i \in 1..n
      PROVE  CountUpTo(K, i) \in Nat /\ CountUpTo(T, i) \in Nat /\ i - CountUpTo(T, i) = CountUpTo(K, i)
  <2>1. i \in 0..n
    BY <1>3
  <2>2. CountUpTo(K, i) \in Nat /\ CountUpTo(T, i) \in Nat /\ CountUpTo(K, i) + CountUpTo(T, i) = i
    BY <1>3, <1>7, <2>1, CountSplits
  <2>. QED BY <2>2
<1>9. ASSUME NEW i \in K PROVE CountUpTo(K, i) \in 1..Cardinality(K)
  <2>1. i \in Nat /\ 0 < i /\ i <= n /\ 0 \in Nat /\ K \in SUBSET (1..n)
    BY <1>3, <1>4
  <2>2. CountUpTo(K, 0) < CountUpTo(K, i) /\ CountUpTo(K, 0) \in Nat
    <3>1. 0 <= i
      BY <2>1
    <3>. QED BY <1>3, <2>1, <3>1, CountGrows
  <2>3. CountUpTo(K, i) <= CountUpTo(K, n) /\ CountUpTo(K, i) \in Nat
    BY <1>3, <2>1, CountGrows
  <2>4. CountUpTo(K, n) = Cardinality(K)
    BY <1>3, <2>1, CountStep
  <2>. QED BY <1>6, <2>2, <2>3, <2>4
<1>. QED BY <1>1, <1>2, <1>3, <1>7, <1>8, <1>9 DEF Rank

\* what is read of an entry's data, whatever its name and kind
Streamed(entry, file) ==
  /\ entry.has_stream = file.has_stream
  /\ entry.size = file.size
  /\ entry.has_crc = file.has_crc
  /\ entry.has_crc => entry.crc = file.crc

\* the header h describes the entries fs with their streams in the blocks B
StreamsOf(h, fs, B) ==
  /\ HeaderOf(h, B)
  /\ DOMAIN h.names = 1..Len(fs) /\ Len(h.names) = Len(fs)
  /\ h.empty_streams.bits = EmptyStreams(fs)

\* What read_files_info makes of the streams of such a header.
LEMMA StreamsRead ==
  ASSUME NEW fs, NEW cs, NEW B, Listed(fs, cs, B), NEW h, StreamsOf(h, fs, B),
         Len(fs) - Cardinality(EmptyStreams(fs)) <= Len(AllData(B))
  PROVE  /\ Len(read_files_info(h)) = Len(fs)
         /\ DOMAIN read_files_info(h) = 1..Len(fs)
         /\ \A i \in 1..Len(fs) : Streamed(read_files_info(h)[i], fs[i])
<1>1. /\ fs \in Seq(Entries) /\ WellFormed(B) /\ \A i \in 1..Len(fs) : Suits(fs[i], cs[i])
      /\ \A i \in Backed(fs) : AllData(B)[Rank(fs, i)] = cs[i]
  BY DEF Listed
<1>2. PICK n, T, K, D : n = Len(fs) /\ T = EmptyStreams(fs) /\ K = Backed(fs) /\ D = AllData(B)
  OBVIOUS
<1>3. n \in Nat /\ DOMAIN fs = 1..n
  BY <1>1, <1>2
<1>4. DOMAIN h.names = 1..n /\ h.empty_streams.bits = T /\ HeaderOf(h, B)
  BY <1>2 DEF StreamsOf
<1>6. /\ D \in Seq(Data) /\ h.substreams.crcs = D
      /\ read_sub_streams_info(h).sizes = SizesOf(D, Len(D))
  BY <1>1, <1>2, <1>4, SubStreamsRead
<1>7. /\ Streams(fs) = K /\ Streams(fs) \cup T = 1..n /\ Streams(fs) \cap T = {} /\ T \subseteq 1..n
  BY <1>1, <1>2, AllBacked, EmptyFacts
<1>8. /\ \A i \in 1..n : i - EmptyCounter(fs, i) = Rank(fs, i)
      /\ \A i \in K : Rank(fs, i) \in 1..Len(D)
  BY <1>2, AllBacked
<1>9. Len(read_files_info(h)) = n /\ DOMAIN read_files_info(h) = 1..n
      /\ \A i \in 1..n : read_files_info(h)[i] = read_file_entry(h, i)
  BY <1>3, <1>4 DEF read_files_info
<1>10. ASSUME NEW i \in 1..n
       PROVE  Cardinality({j \in h.empty_streams.bits : j <= i}) = EmptyCounter(fs, i)
  BY <1>2, <1>4 DEF EmptyCounter
<1>11. ASSUME NEW i \in T PROVE Streamed(read_file_entry(h, i), fs[i])
  <2>1. i \in 1..n /\ ~fs[i].has_stream
    BY <1>2, <1>7 DEF EmptyStreams
  <2>2. \E a, d, t :
          read_file_entry(h, i) =
            [name |-> a, has_stream |-> FALSE, is_directory |-> d, is_anti_item |-> t,
             size |-> 0, has_crc |-> FALSE, crc |-> NoCrc]
    BY <1>4, <1>11, Zenon DEF read_file_entry
  <2>3. /\ fs[i].has_stream \in BOOLEAN /\ fs[i].has_crc \in BOOLEAN /\ Suits(fs[i], cs[i])
    <3>1. fs[i] \in Entries /\ Suits(fs[i], cs[i])
      BY <1>1, <1>2, <2>1
    <3>. QED BY <3>1, Zenon DEF Entries
  <2>4. fs[i].has_crc = FALSE /\ fs[i].size = 0 /\ fs[i].has_stream = FALSE
    <3>1. ~fs[i].has_crc /\ fs[i].size = 0
      BY <2>1, <2>3 DEF Suits
    <3>. QED BY <2>1, <2>3, <3>1, Zenon
  <2>5. PICK x : x = read_file_entry(h, i)
    OBVIOUS
  <2>6. x.has_stream = FALSE /\ x.size = 0 /\ x.has_crc = FALSE
    BY <2>2, <2>5
  <2>. QED BY <2>4, <2>5, <2>6, Zenon DEF Streamed
<1>12. ASSUME NEW i \in K PROVE Streamed(read_file_entry(h, i), fs[i])
  <2>1. i \in 1..n /\ i \notin T /\ fs[i].has_stream /\ fs[i].has_crc
    BY <1>2, <1>7 DEF Streams, Backed
  <2>2. PICK r : r = Rank(fs, i)
    OBVIOUS
  <2>3. r \in 1..Len(D) /\ i - EmptyCounter(fs, i) = r
    BY <1>8, <2>1, <2>2
  <2>4. r \in DOMAIN h.substreams.crcs /\ h.substreams.crcs[r] = cs[i]
    BY <1>1, <1>2, <1>6, <2>2, <2>3
  <2>5. read_sub_streams_info(h).sizes[r] = Len(cs[i])
    BY <1>6, <2>3, <2>4 DEF SizesOf
  <2>6. read_file_entry(h, i) =
          [name |-> h.names[i], has_stream |-> TRUE, is_directory |-> FALSE, is_anti_item |-> FALSE,
           size |-> Len(cs[i]), has_crc |-> TRUE, crc |-> cs[i]]
    <3>1. read_file_entry(h, i) =
            [name |-> h.names[i], has_stream |-> TRUE,
             is_directory |-> FALSE, is_anti_item |-> FALSE,
             size |-> read_sub_streams_info(h).sizes[i - EmptyCounter(fs, i)],
             has_crc |-> i - EmptyCounter(fs, i) \in DOMAIN h.substreams.crcs,
             crc |-> IF i - EmptyCounter(fs, i) \in DOMAIN h.substreams.crcs
                     THEN h.substreams.crcs[i - EmptyCounter(fs, i)] ELSE NoCrc]
      BY <1>4, <1>10, <2>1, Zenon DEF read_file_entry
    <3>2. (r \in DOMAIN h.substreams.crcs) = TRUE
      BY <2>4, Zenon
    <3>3. (IF r \in DOMAIN h.substreams.crcs THEN h.substreams.crcs[r] ELSE NoCrc) = cs[i]
      BY <2>4, Zenon
    <3>. QED BY <2>3, <2>5, <3>1, <3>2, <3>3, Zenon
  <2>7. Suits(fs[i], cs[i]) /\ fs[i].has_stream = TRUE /\ fs[i].has_crc = TRUE
    <3>1. Suits(fs[i], cs[i]) /\ fs[i] \in Entries
      BY <1>1, <1>2, <2>1
    <3>. QED BY <2>1, <3>1, Zenon DEF Entries
  <2>8. fs[i].size = Len(cs[i]) /\ fs[i].crc = cs[i]
    BY <2>1, <2>7, Zenon DEF Suits
  <2>10. PICK x, a, d, l : x = read_file_entry(h, i) /\ a = h.names[i] /\ d = cs[i] /\ l = Len(cs[i])
    BY Zenon
  <2>11. x = [name |-> a, has_stream |-> TRUE, is_directory |-> FALSE, is_anti_item |-> FALSE,
              size |-> l, has_crc |-> TRUE, crc |-> d]
    BY <2>6, <2>10, Zenon
  <2>12. x.has_stream = TRUE /\ x.size = l /\ x.has_crc = TRUE /\ x.crc = d
    BY <2>11
  <2>. QED BY <2>7, <2>8, <2>10, <2>12, Zenon DEF Streamed
<1>13. \A i \in 1..n : i \in T \/ i \in K
  BY <1>7
<1>14. \A i \in 1..n : Streamed(read_files_info(h)[i], fs[i])
  BY <1>9, <1>11, <1>12, <1>13
<1>. QED BY <1>2, <1>9, <1>14

\* A header that has been written describes its entries.
LEMMA StreamsWritten ==
  ASSUME NEW fs \in Seq(Entries), NEW B, NEW pi, NEW h, h = write_header(fs, pi, B)
  PROVE  StreamsOf(h, fs, B)
<1>1. DOMAIN fs = 1..Len(fs) /\ Len(fs) \in Nat
  OBVIOUS
<1>2. h.names = [i \in 1..Len(fs) |-> fs[i].name] /\ h.empty_streams.bits = EmptyStreams(fs)
  BY <1>1 DEF write_header, write_file_empty_streams, write_bit_set
<1>3. HeaderOf(h, B)
  BY DEF HeaderOf, write_header
<1>. QED BY <1>1, <1>2, <1>3 DEF StreamsOf

\* What read_files_info makes of a header that has been written: the entries.
LEMMA FilesRead ==
  ASSUME NEW fs, NEW cs, NEW B, Listed(fs, cs, B), NEW pi, NEW h, h = write_header(fs, pi, B),
         Len(fs) - Cardinality(EmptyStreams(fs)) <= Len(AllData(B))
  PROVE  /\ Len(read_files_info(h)) = Len(fs)
         /\ DOMAIN read_files_info(h) = 1..Len(fs)
         /\ \A i \in 1..Len(fs) : Restored(read_files_info(h)[i], fs[i])
<1>1. fs \in Seq(Entries) /\ \A i \in 1..Len(fs) : Suits(fs[i], cs[i])
  BY DEF Listed
<1>2. PICK n, T : n = Len(fs) /\ T = EmptyStreams(fs)
  OBVIOUS
<1>3. n \in Nat /\ DOMAIN fs = 1..n
  BY <1>1, <1>2
<1>4. /\ h.names = [i \in 1..n |-> fs[i].name] /\ h.empty_streams.bits = T
      /\ h.empty_files.bits = {EmptyCounter(fs, i) : i \in {j \in T : ~fs[j].is_directory}}
  BY <1>2, <1>3 DEF write_header, write_file_empty_streams, write_file_empty_files, write_bit_set, EmptyStreamsWhere
<1>5. /\ Len(read_files_info(h)) = n /\ DOMAIN read_files_info(h) = 1..n
      /\ \A i \in 1..n : Streamed(read_files_info(h)[i], fs[i])
  BY <1>1, <1>2, StreamsWritten, StreamsRead
<1>6. /\ \A i \in 1..n : i \notin T => fs[i].has_stream
      /\ \A i, j \in T : EmptyCounter(fs, i) = EmptyCounter(fs, j) => i = j
  <2>1. \A i \in 1..n : i \notin T => fs[i].has_stream
    BY <1>2, <1>3 DEF EmptyStreams
  <2>2. \A i, j \in T : EmptyCounter(fs, i) = EmptyCounter(fs, j) => i = j
    BY <1>1, <1>2, EmptyFacts
  <2>. QED BY <2>1, <2>2
<1>7. ASSUME NEW i \in 1..n
      PROVE  /\ read_file_entry(h, i).name = fs[i].name
             /\ read_file_entry(h, i).is_directory = fs[i].is_directory
  <2>1. h.names[i] = fs[i].name
    BY <1>4
  <2>2. fs[i].is_directory \in BOOLEAN /\ Suits(fs[i], cs[i])
    <3>1. fs[i] \in Entries /\ Suits(fs[i], cs[i])
      BY <1>1, <1>2
    <3>. QED BY <3>1, Zenon DEF Entries
  <2>3. CASE i \in T
    <3>1. Cardinality({j \in h.empty_streams.bits : j <= i}) = EmptyCounter(fs, i)
      BY <1>2, <1>4 DEF EmptyCounter
    <3>2. \E t :
            read_file_entry(h, i) =
              [name |-> h.names[i], has_stream |-> FALSE,
               is_directory |-> h.empty_files.bits = {} \/ EmptyCounter(fs, i) \notin h.empty_files.bits,
               is_anti_item |-> t, size |-> 0, has_crc |-> FALSE, crc |-> NoCrc]
      BY <1>4, <2>3, <3>1, Zenon DEF read_file_entry
    <3>3. EmptyCounter(fs, i) \in h.empty_files.bits <=> ~fs[i].is_directory
      BY <1>4, <1>6, <2>3, Zenon
    <3>4. fs[i].is_directory = (h.empty_files.bits = {} \/ EmptyCounter(fs, i) \notin h.empty_files.bits)
      BY <2>2, <3>3, Zenon
    <3>5. PICK a, d : a = h.names[i] /\ d = fs[i].is_directory
      BY Zenon
    <3>6. \E t : read_file_entry(h, i) =
                   [name |-> a, has_stream |-> FALSE, is_directory |-> d, is_anti_item |-> t,
                    size |-> 0, has_crc |-> FALSE, crc |-> NoCrc]
      BY <3>2, <3>4, <3>5, Zenon
    <3>7. read_file_entry(h, i).name = a /\ read_file_entry(h, i).is_directory = d
      BY <3>6
    <3>. QED BY <2>1, <3>5, <3>7, Zenon
  <2>4. CASE i \notin T
    <3>1. \E l, p, c :
            read_file_entry(h, i) =
              [name |-> h.names[i], has_stream |-> TRUE, is_directory |-> FALSE, is_anti_item |-> FALSE,
               size |-> l, has_crc |-> p, crc |-> c]
      BY <1>4, <2>4, Zenon DEF read_file_entry
    <3>2. PICK a : a = h.names[i]
      BY Zenon
    <3>3. \E l, p, c :
            read_file_entry(h, i) =
              [name |-> a, has_stream |-> TRUE, is_directory |-> FALSE, is_anti_item |-> FALSE,
               size |-> l, has_crc |-> p, crc |-> c]
      BY <3>1, <3>2, Zenon
    <3>4. read_file_entry(h, i).name = a /\ read_file_entry(h, i).is_directory = FALSE
      BY <3>3
    <3>5. fs[i].is_directory = FALSE
      <4>1. fs[i].has_stream
        BY <1>6, <2>4
      <4>. QED BY <2>2, <4>1, Zenon DEF Suits
    <3>. QED BY <2>1, <3>2, <3>4, <3>5, Zenon
  <2>. QED BY <2>3, <2>4
<1>8. \A i \in 1..n : Restored(read_files_info(h)[i], fs[i])
  <2>. SUFFICES ASSUME NEW i \in 1..n PROVE Restored(read_files_info(h)[i], fs[i])
    OBVIOUS
  <2>1. read_files_info(h)[i] = read_file_entry(h, i)
    BY <1>4 DEF read_files_info
  <2>2. /\ read_files_info(h)[i].name = fs[i].name
        /\ read_files_info(h)[i].is_directory = fs[i].is_directory
    BY <1>7, <2>1, Zenon
  <2>3. Streamed(read_files_info(h)[i], fs[i])
    BY <1>5
  <2>. QED BY <2>2, <2>3, Zenon DEF Restored, Streamed
<1>. QED BY <1>2, <1>5, <1>8

-----------------------------------------------------------------------------
(* Opening: what read returns *)

\* a is the archive of what is read of the header main, which parses
Opens(a, main) == \E g \in HeadersRead(main) : read_header_ok(g) /\ a = <<read_header(g)>>

\* An archive without files.
LEMMA NoCandidate ==
  ASSUME NEW looks
  PROVE  Candidate(looks) = <<>> \/ \E a : Candidate(looks) = <<a>> /\ a.files = <<>>
<1>. DEFINE h == write_header(<<>>, [pos |-> 0, sizes |-> <<>>, crcs |-> <<>>], <<>>)
<1>1. h.names = [i \in {} |-> <<>>[i].name]
  BY DEF write_header
<1>2. DOMAIN h.names = {}
  BY <1>1
<1>3. read_header(h).files = read_files_info(h)
  BY DEF read_header
<1>. HIDE DEF h
<1>4. read_files_info(h) = <<>>
  BY <1>2 DEF read_files_info
<1>. QED BY <1>3, <1>4 DEF Candidate, h

\* What is opened is the archive of the next header, and nothing that looks like one.
LEMMA ReadOpens ==
  ASSUME NEW h, NEW cells, NEW cell, NEW st, NEW tail \in Seq({"empty", "broken"}),
         NEW a \in read(h, cells, cell, st, tail)
  PROVE  a = <<>> \/ Opens(a, h.main)
<1>. DEFINE looks == [k \in DOMAIN tail |-> Candidate(tail[k])]
            n == Len(tail)
<1>1. ASSUME NEW opened \in init_archive(h, cells, cell) PROVE opened = <<>> \/ Opens(opened, h.main)
  <2>1. opened = <<>> \/ \E g \in HeadersRead(h.main) : opened = Parsed(g)
    BY <1>1, Zenon DEF init_archive
  <2>. QED BY <2>1, Zenon DEF Parsed, Opens
<1>2. ASSUME NEW opened
      PROVE  LET all == Append(looks, opened)
             IN  try_to_locale_end_header(all) = <<>> \/ try_to_locale_end_header(all) = opened
  <2>. DEFINE all == Append(looks, opened)
              decisive == {k \in DOMAIN all : all[k] = <<>> \/ all[k][1].files # <<>>}
  <2>0. n \in Nat /\ DOMAIN tail = 1..n /\ DOMAIN all = 1..(n + 1) /\ all[n + 1] = opened
        /\ \A k \in 1..n : all[k] = Candidate(tail[k])
    OBVIOUS
  <2>. HIDE DEF all
  <2>1. try_to_locale_end_header(all) = IF decisive = {} THEN <<>> ELSE all[Min(decisive)]
    BY DEF try_to_locale_end_header
  <2>2. ASSUME decisive # {} PROVE Min(decisive) \in decisive
    <3>1. decisive \subseteq Nat
      BY <2>0
    <3>2. \E x \in decisive : \A y \in decisive : x <= y
      BY <2>2, <3>1, LeastNat
    <3>. QED BY <3>2 DEF Min
  <2>3. ASSUME NEW k \in decisive PROVE all[k] = <<>> \/ all[k] = opened
    <3>1. CASE k = n + 1
      BY <2>0, <3>1
    <3>2. CASE k \in 1..n
      <4>1. all[k] = Candidate(tail[k])
        BY <2>0, <3>2
      <4>2. all[k] = <<>> \/ \E x : all[k] = <<x>> /\ x.files = <<>>
        BY <4>1, NoCandidate
      <4>. QED BY <4>2
    <3>. QED BY <2>0, <3>1, <3>2
  <2>. HIDE DEF decisive
  <2>4. try_to_locale_end_header(all) = <<>> \/ try_to_locale_end_header(all) = opened
    BY <2>1, <2>2, <2>3
  <2>. QED BY <2>4 DEF all
<1>3. CASE st = "complete"
  BY <1>1, <1>3 DEF read
<1>4. CASE st = "signature"
  <2>1. PICK opened \in init_archive(h, cells, cell) : a = try_to_locale_end_header(Append(looks, opened))
    BY <1>4 DEF read
  <2>. QED BY <1>1, <1>2, <2>1
<1>5. CASE st \notin {"complete", "signature"}
  BY <1>5 DEF read
<1>. QED BY <1>3, <1>4, <1>5

\* what is open is what finish wrote
Opened ==
  /\ phase \in {"closed", "failed", "open", "blocks", "empties", "done", "error", "panic"}
  /\ phase \in {"closed", "failed"} <=> archive = <<>>
  /\ archive # <<>> => header # <<>> /\ Opens(archive, header[1].main)

OpenInv == ListInv /\ Opened

\* Nothing is written behind a header.
LEMMA NothingBehindHeader ==
  ASSUME WInv, Next, header # <<>>
  PROVE  FALSE
<1>1. Steps
  BY NextSteps DEF WInv, Types
<1>. QED BY <1>1 DEF Steps, AddsStream, AddsEmpty, Orphans, Finishes, WriteNextHeader, set_content_methods

\* The steps of a reader that is open leave the archive alone.
LEMMA ReaderKeepsArchive ==
  ASSUME NEW h, NEW cells, NEW cell, NEW st, ReaderNext(h, cells, cell, st)
  PROVE  \/ /\ phase \notin {"closed", "failed"} /\ archive' = archive
            /\ phase' \in {"blocks", "empties", "done", "error", "panic"}
         \/ /\ phase = "closed"
            /\ \E tail \in Tails : archive' \in read(h, cells, cell, st, tail)
            /\ phase' = IF archive' = <<>> THEN "failed" ELSE "open"
<1>1. ASSUME NEW c \in Closures, Visit(cells, c.limit, c.go_on, c.pass_error)
      PROVE  phase = "blocks" /\ archive' = archive /\ phase' \in {"blocks", "panic", "error"}
  BY <1>1 DEF Visit
<1>2. ASSUME NEW c \in Closures, VisitEmpty(c.go_on)
      PROVE  phase = "empties" /\ archive' = archive /\ phase' \in {"empties", "done"}
  BY <1>2 DEF VisitEmpty
<1>3. ASSUME for_each_entries \/ BlockEnds \/ BlocksEnd \/ EmptiesEnd
      PROVE  phase \in {"open", "blocks", "empties"} /\ archive' = archive /\ phase' \in {"blocks", "empties", "done"}
  BY <1>3 DEF for_each_entries, BlockEnds, BlocksEnd, EmptiesEnd
<1>4. ASSUME NEW tail \in Tails, open(h, cells, cell, st, tail)
      PROVE  /\ phase = "closed" /\ archive' \in read(h, cells, cell, st, tail)
             /\ phase' = IF archive' = <<>> THEN "failed" ELSE "open"
  BY <1>4 DEF open
<1>. QED BY <1>1, <1>2, <1>3, <1>4 DEF ReaderNext

\* A step of the writer or of the reader.
LEMMA StepOpenInv ==
  ASSUME FilesInBlocks, OpenInv, [RTNext]_allvars
  PROVE  OpenInv'
<1>1. ListInv'
  <2>1. [Next]_vars
    BY DEF RTNext, WriteStep, ReadStep, allvars
  <2>. QED BY <2>1, StepListInv DEF OpenInv
<1>2. CASE WriteStep
  <2>1. header = <<>>
    BY <1>2, NothingBehindHeader DEF WriteStep, OpenInv, ListInv
  <2>2. archive' = archive /\ phase' = phase
    BY <1>2 DEF WriteStep, rvars
  <2>. QED BY <1>1, <2>1, <2>2 DEF OpenInv, Opened
<1>3. CASE ReadStep
  <2>1. header # <<>> /\ header' = header
    BY <1>3 DEF ReadStep, vars
  <2>2. CASE phase \notin {"closed", "failed"} /\ archive' = archive
             /\ phase' \in {"blocks", "empties", "done", "error", "panic"}
    BY <1>1, <2>1, <2>2 DEF OpenInv, Opened
  <2>3. ASSUME NEW tail \in Tails, archive' \in read(header[1], output, HeaderCell, start, tail),
               phase' = IF archive' = <<>> THEN "failed" ELSE "open"
        PROVE  OpenInv'
    <3>1. tail \in Seq({"empty", "broken"})
      BY ReaderAssumption
    <3>2. archive' = <<>> \/ Opens(archive', header[1].main)
      BY <2>3, <3>1, ReadOpens
    <3>. QED BY <1>1, <2>1, <2>3, <3>2 DEF OpenInv, Opened
  <2>4. ReaderNext(header[1], output, HeaderCell, start)
    BY <1>3 DEF ReadStep
  <2>. QED BY <2>2, <2>3, <2>4, ReaderKeepsArchive
<1>4. CASE UNCHANGED allvars
  BY <1>1, <1>4 DEF OpenInv, Opened, allvars, vars, rvars
<1>. QED BY <1>2, <1>3, <1>4 DEF RTNext

\* At the beginning nothing is open.
LEMMA InitOpenInv == RTInit => OpenInv
  BY InitListInv DEF RTInit, ReaderInit, OpenInv, Opened

\* Whatever is read of a header that has been written has its streams; in step, it is
\* that header.
LEMMA ReadAlike ==
  ASSUME NEW fs \in Seq(Entries), NEW B, NEW pi, NEW h, h = write_header(fs, pi, B), NEW g \in HeadersRead(h)
  PROVE  /\ StreamsOf(g, fs, B) /\ g.pack_info = h.pack_info
         /\ FilesInStep(h) => g = h
<1>1. StreamsOf(h, fs, B)
  BY StreamsWritten
<1>2. CASE FilesInStep(h)
  <2>1. HeadersRead(h) = {h}
    BY <1>2 DEF HeadersRead
  <2>. QED BY <1>1, <2>1
<1>3. ASSUME NEW plain, NEW anti, NEW names, names = h.names \/ names = NoNames(h),
             g = ReadAs(h, plain, anti, names)
      PROVE  StreamsOf(g, fs, B) /\ g.pack_info = h.pack_info
  <2>1. DOMAIN names = 1..Len(fs) /\ Len(names) = Len(fs)
    BY <1>1, <1>3 DEF StreamsOf, NoNames
  <2>2. /\ g.names = names /\ g.substreams = h.substreams /\ g.unpack_sizes = h.unpack_sizes
        /\ g.empty_streams = h.empty_streams /\ g.pack_info = h.pack_info
    BY <1>3 DEF ReadAs, write_header
  <2>. QED BY <1>1, <2>1, <2>2 DEF StreamsOf, HeaderOf
<1>4. ASSUME g \in NamesLost(h) PROVE StreamsOf(g, fs, B) /\ g.pack_info = h.pack_info
  <2>1. PICK anti : g = ReadAs(h, h.empty_files.bits, anti, NoNames(h))
    BY <1>4 DEF NamesLost
  <2>. QED BY <1>3, <2>1
<1>5. ASSUME g \in MarksLost(h) PROVE StreamsOf(g, fs, B) /\ g.pack_info = h.pack_info
  <2>1. PICK plain, names : /\ names \in {NoNames(h)} \cup {m \in {h.names} : h.anti_items.bits # {}}
                            /\ g = ReadAs(h, plain, {}, names)
    BY <1>5 DEF MarksLost
  <2>2. names = h.names \/ names = NoNames(h)
    BY <2>1
  <2>. QED BY <1>3, <2>1, <2>2
<1>6. CASE ~FilesInStep(h)
  <2>1. g \in NamesLost(h) \/ g \in MarksLost(h)
    BY <1>6 DEF HeadersRead
  <2>. QED BY <1>4, <1>5, <1>6, <2>1
<1>. QED BY <1>2, <1>6

\* the archive that is open was read of the header g, which is that of what was pushed
ReadOf(g) ==
  /\ StreamsOf(g, files, blocks) /\ g.pack_info = write_pack_info(pack_info)
  /\ read_header_ok(g) /\ archive[1] = read_header(g)

\* What opens was read of such a header, and in step of the one that was written.
LEMMA OpenedHeader ==
  ASSUME OpenInv, archive # <<>>
  PROVE  \E g : ReadOf(g) /\ (FilesInStep(header[1].main) => g = write_header(files, pack_info, blocks))
<1>1. header # <<>> /\ Opens(archive, header[1].main) /\ Listed(files, contents, blocks) /\ Finished
  BY DEF OpenInv, Opened, ListInv
<1>2. PICK h : h = header[1].main
  OBVIOUS
<1>3. h = write_header(files, pack_info, blocks) /\ files \in Seq(Entries)
  BY <1>1, <1>2 DEF Finished, Listed
<1>4. PICK g \in HeadersRead(h) : read_header_ok(g) /\ archive = <<read_header(g)>>
  BY <1>1, <1>2 DEF Opens
<1>5. /\ StreamsOf(g, files, blocks) /\ g.pack_info = h.pack_info /\ (FilesInStep(h) => g = h)
  BY <1>3, ReadAlike
<1>6. h.pack_info = write_pack_info(pack_info)
  BY <1>3 DEF write_header
<1>7. archive[1] = read_header(g)
  BY <1>4
<1>. QED BY <1>2, <1>3, <1>4, <1>5, <1>6, <1>7 DEF ReadOf

\* The table of sizes is long enough for the entries with a stream.
LEMMA OpenedSizes ==
  ASSUME OpenInv, archive # <<>>
  PROVE  Len(files) - Cardinality(EmptyStreams(files)) <= Len(AllData(blocks))
<1>1. PICK g : ReadOf(g)
  BY OpenedHeader
<1>2. Listed(files, contents, blocks)
  BY DEF OpenInv, ListInv
<1>3. WellFormed(blocks) /\ HeaderOf(g, blocks) /\ read_files_info_ok(g)
  BY <1>1, <1>2 DEF Listed, ReadOf, StreamsOf, read_header_ok
<1>4. NumStreamFiles(g) = Len(files) - Cardinality(EmptyStreams(files))
  BY <1>1 DEF NumStreamFiles, ReadOf, StreamsOf
<1>5. read_sub_streams_info(g).sizes = SizesOf(AllData(blocks), Len(AllData(blocks)))
      /\ AllData(blocks) \in Seq(Data)
  BY <1>3, SubStreamsRead
<1>6. Len(SizesOf(AllData(blocks), Len(AllData(blocks)))) = Len(AllData(blocks))
  BY <1>5 DEF SizesOf
<1>. QED BY <1>3, <1>4, <1>5, <1>6 DEF read_files_info_ok

\* the archive that was read lists the data of what was pushed
ListsStreams ==
  /\ Len(archive[1].files) = Len(files)
  /\ \A i \in DOMAIN files : Streamed(archive[1].files[i], files[i])

\* What opens lists the data of what was pushed.
LEMMA OpenedStreams ==
  ASSUME OpenInv, archive # <<>>
  PROVE  ListsStreams
<1>1. PICK g : ReadOf(g)
  BY OpenedHeader
<1>2. Listed(files, contents, blocks) /\ files \in Seq(Entries)
  BY DEF OpenInv, ListInv, Listed
<1>3. archive[1].files = read_files_info(g) /\ StreamsOf(g, files, blocks)
  BY <1>1 DEF ReadOf, read_header
<1>4. /\ Len(read_files_info(g)) = Len(files)
      /\ \A i \in 1..Len(files) : Streamed(read_files_info(g)[i], files[i])
  BY <1>2, <1>3, OpenedSizes, StreamsRead
<1>. QED BY <1>2, <1>3, <1>4 DEF ListsStreams

\* What opens in step lists what was pushed.
LEMMA OpenedLists ==
  ASSUME OpenInv, archive # <<>>, FilesInStep(header[1].main)
  PROVE  ListsFiles
<1>1. PICK h : ReadOf(h) /\ h = write_header(files, pack_info, blocks)
  BY OpenedHeader
<1>2. Listed(files, contents, blocks) /\ files \in Seq(Entries)
  BY DEF OpenInv, ListInv, Listed
<1>3. archive[1].files = read_files_info(h)
  BY <1>1 DEF ReadOf, read_header
<1>4. /\ Len(read_files_info(h)) = Len(files)
      /\ \A i \in 1..Len(files) : Restored(read_files_info(h)[i], files[i])
  BY <1>1, <1>2, OpenedSizes, FilesRead
<1>. QED BY <1>2, <1>3, <1>4 DEF ListsFiles

\* Every entry with a stream in an archive that opens has data.
LEMMA OpenedBacked ==
  ASSUME OpenInv, archive # <<>>
  PROVE  Streams(files) = Backed(files)
<1>1. Listed(files, contents, blocks)
  BY DEF OpenInv, ListInv
<1>. QED BY <1>1, OpenedSizes, AllBacked

\* What the reader has open is the header of what was pushed (Archive::read).
THEOREM OpenInductive == ASSUME FilesInBlocks PROVE RTSpec => []OpenInv
<1>1. OpenInv /\ [RTNext]_allvars => OpenInv'
  BY StepOpenInv
<1>. QED BY <1>1, InitOpenInv, PTL DEF RTSpec

-----------------------------------------------------------------------------
(* The stream map: calculate_stream_map against the order of the entries *)

\* the entries K, n[b] of them in block b, behind the c[b - 1] of the blocks before it,
\* begin at f
Holds(K, n, c, b, f) ==
  \A k \in 1..n[b] : f + k - 1 \in K /\ CountUpTo(K, f + k - 1) = c[b - 1] + k

\* the entries K of 1..N lie in blocks of n entries, each without a gap
Table(K, N, n, c) ==
  /\ N \in Nat /\ K \in SUBSET (1..N) /\ n \in Seq(Nat) /\ c \in [0..Len(n) -> Nat]
  /\ c[0] = 0 /\ c[Len(n)] = Cardinality(K) /\ \A b \in 1..Len(n) : c[b] = c[b - 1] + n[b]
  /\ \A b \in 1..Len(n) : \E f \in Nat : Holds(K, n, c, b, f)

\* entry j belongs to block b, or to none
InBlock(K, n, c, j, b) ==
  IF j \in K THEN b \in 1..Len(n) /\ c[b - 1] < CountUpTo(K, j) /\ CountUpTo(K, j) <= c[b]
  ELSE b = 0

\* what of_file says of the first i entries
Mapped(K, n, c, i, o) == o \in Seq(Nat) /\ Len(o) = i /\ \A j \in 1..i : InBlock(K, n, c, j, o[j])

\* what calculate_stream_map has counted when it has seen i entries
Counted(K, n, c, i, a, u, g) ==
  /\ a \in 1..(Len(n) + 1) /\ u \in Nat /\ g \in [1..Len(n) -> Nat]
  /\ CountUpTo(K, i) = c[a - 1] + u
  /\ u > 0 => a <= Len(n) /\ u < n[a] /\ i \in K /\ Holds(K, n, c, a, g[a])
  /\ \A b \in 1..(a - 1) : Holds(K, n, c, b, g[b])

Walked(a, u, g, o) == [block |-> a, unpacked |-> u, of_file |-> o, ok |-> TRUE, first |-> g]

Walk(K, n, c, i, acc) ==
  \E a, u, g, o : acc = Walked(a, u, g, o) /\ Counted(K, n, c, i, a, u, g) /\ Mapped(K, n, c, i, o)

\* Two entries have different places.
LEMMA SameRank ==
  ASSUME NEW N \in Nat, NEW K \in SUBSET (1..N), NEW i \in K, NEW j \in K,
         CountUpTo(K, i) = CountUpTo(K, j)
  PROVE  i = j
<1>1. i \in Nat /\ j \in Nat
  OBVIOUS
<1>2. ASSUME NEW a \in K, NEW b \in K, a < b PROVE CountUpTo(K, a) # CountUpTo(K, b)
  <2>1. a \in Nat /\ b \in Nat /\ a <= b
    BY <1>2
  <2>2. CountUpTo(K, a) \in Nat /\ CountUpTo(K, b) \in Nat /\ CountUpTo(K, a) < CountUpTo(K, b)
    BY <1>2, <2>1, CountGrows
  <2>. QED BY <2>2
<1>. QED BY <1>1, <1>2

\* The types of what makes a table.
LEMMA TableTypes ==
  ASSUME NEW K, NEW N, NEW n, NEW c, Table(K, N, n, c)
  PROVE  /\ N \in Nat /\ Len(n) \in Nat /\ Cardinality(K) \in Nat
         /\ \A b \in 1..Len(n) : n[b] \in Nat
         /\ \A b \in 0..Len(n) : c[b] \in Nat
         /\ \A i \in K : i \in 1..N
<1>1. c[Len(n)] = Cardinality(K) /\ \A b \in 0..Len(n) : c[b] \in Nat
  BY DEF Table
<1>2. n \in Seq(Nat) /\ Len(n) \in Nat
  BY DEF Table
<1>3. N \in Nat /\ \A i \in K : i \in 1..N
  BY DEF Table
<1>. QED BY <1>1, <1>2, <1>3

\* The numbers of entries before a block grow, and only with a block that has some.
LEMMA CountsLevel ==
  ASSUME NEW K, NEW N, NEW n, NEW c, Table(K, N, n, c), NEW a \in 0..Len(n), NEW b \in 0..Len(n), a <= b
  PROVE  /\ c[a] \in Nat /\ c[b] \in Nat /\ c[a] <= c[b]
         /\ (\A x \in (a + 1)..b : n[x] = 0) => c[b] = c[a]
<1>1. /\ Len(n) \in Nat /\ \A x \in 0..Len(n) : c[x] \in Nat
      /\ \A x \in 1..Len(n) : c[x] = c[x - 1] + n[x] /\ n[x] \in Nat
  BY TableTypes DEF Table
<1>. DEFINE Has == {x \in Nat : x <= Len(n) /\ a <= x =>
                      /\ c[a] <= c[x]
                      /\ (\A y \in (a + 1)..x : n[y] = 0) => c[x] = c[a]}
<1>2. 0 \in Has
  BY <1>1
<1>3. ASSUME NEW x \in Nat, x \in Has PROVE x + 1 \in Has
  <2>1. CASE x + 1 <= Len(n) /\ a <= x
    <3>1. /\ c[x + 1] = c[x] + n[x + 1] /\ n[x + 1] \in Nat /\ c[x] \in Nat /\ c[a] \in Nat
          /\ c[x + 1] \in Nat /\ c[a] <= c[x]
      BY <1>1, <1>3, <2>1
    <3>2. ASSUME \A y \in (a + 1)..(x + 1) : n[y] = 0 PROVE c[x + 1] = c[a]
      <4>1. (\A y \in (a + 1)..x : n[y] = 0) /\ n[x + 1] = 0
        BY <2>1, <3>2
      <4>2. c[x] = c[a]
        BY <1>3, <2>1, <4>1
      <4>. QED BY <3>1, <4>1, <4>2
    <3>. QED BY <2>1, <3>1, <3>2
  <2>2. CASE x + 1 <= Len(n) /\ ~(a <= x)
    <3>1. a <= x + 1 => a = x + 1
      BY <2>2
    <3>2. c[a] \in Nat
      BY <1>1
    <3>. QED BY <3>1, <3>2
  <2>. QED BY <2>1, <2>2
<1>4. Nat \subseteq Has
  <2>. HIDE DEF Has
  <2>. QED BY <1>2, <1>3, SetInduction
<1>. QED BY <1>1, <1>4

\* An entry that is the next in its order begins the next block that has entries.
LEMMA EnterBlock ==
  ASSUME NEW K, NEW N, NEW n, NEW c, Table(K, N, n, c), NEW a \in 1..(Len(n) + 1),
         NEW i \in K, CountUpTo(K, i) = c[a - 1] + 1
  PROVE  \E b \in a..Len(n) :
           /\ b = Min({x \in a..Len(n) : n[x] > 0}) /\ {x \in a..Len(n) : n[x] > 0} # {}
           /\ n[b] > 0 /\ c[b - 1] = c[a - 1] /\ \A x \in a..(b - 1) : n[x] = 0
           /\ Holds(K, n, c, b, i)
<1>. DEFINE usable == {x \in a..Len(n) : n[x] > 0}
<1>1. /\ N \in Nat /\ K \in SUBSET (1..N) /\ Len(n) \in Nat
      /\ c[Len(n)] = Cardinality(K) /\ \A x \in 1..Len(n) : n[x] \in Nat
      /\ \A b \in 1..Len(n) : \E f \in Nat : Holds(K, n, c, b, f)
  BY TableTypes DEF Table
<1>2. i \in Nat /\ i <= N /\ a - 1 \in 0..Len(n) /\ c[a - 1] \in Nat
  <2>1. a - 1 \in 0..Len(n)
    BY <1>1
  <2>. QED BY <2>1, TableTypes
<1>3. CountUpTo(K, i) <= c[Len(n)] /\ c[Len(n)] \in Nat
  <2>1. CountUpTo(K, N) = Cardinality(K) /\ CountUpTo(K, i) <= CountUpTo(K, N)
    BY <1>1, <1>2, CountStep, CountGrows
  <2>. QED BY <1>1, <2>1, TableTypes
<1>4. usable # {}
  <2>. SUFFICES ASSUME usable = {} PROVE FALSE
    OBVIOUS
  <2>1. \A x \in a..Len(n) : n[x] = 0
    BY <1>1
  <2>2. PICK d : d = a - 1
    OBVIOUS
  <2>3. d \in 0..Len(n) /\ Len(n) \in 0..Len(n) /\ d <= Len(n) /\ \A x \in (d + 1)..Len(n) : n[x] = 0
    BY <1>1, <1>2, <2>1, <2>2
  <2>4. c[Len(n)] = c[d]
    BY <2>3, CountsLevel
  <2>. QED BY <1>2, <1>3, <2>2, <2>4
<1>5. PICK b \in usable : \A y \in usable : b <= y
  <2>1. usable \subseteq Nat
    BY <1>1
  <2>. QED BY <1>4, <2>1, LeastNat
<1>6. b = Min(usable)
  <2>1. \A x, y \in usable : x \in Nat /\ y \in Nat
    BY <1>1
  <2>2. \A x \in usable : (\A y \in usable : x <= y) => x = b
    BY <1>5, <2>1
  <2>. HIDE DEF usable
  <2>. QED BY <1>5, <2>2 DEF Min
<1>7. \A x \in a..(b - 1) : n[x] = 0
  <2>. SUFFICES ASSUME NEW x \in a..(b - 1) PROVE n[x] = 0
    OBVIOUS
  <2>1. b \in a..Len(n) /\ x \in 1..Len(n) /\ x \in a..Len(n) /\ ~(b <= x)
    BY <1>1
  <2>2. x \notin usable
    BY <1>5, <2>1
  <2>. QED BY <1>1, <2>1, <2>2
<1>8. b \in a..Len(n) /\ n[b] > 0 /\ b \in 1..Len(n)
  BY <1>1
<1>9. c[b - 1] = c[a - 1]
  <2>1. PICK d, e : d = a - 1 /\ e = b - 1
    OBVIOUS
  <2>2. d \in 0..Len(n) /\ e \in 0..Len(n) /\ d <= e /\ \A x \in (d + 1)..e : n[x] = 0
    BY <1>1, <1>2, <1>7, <1>8, <2>1
  <2>3. c[e] = c[d]
    BY <2>2, CountsLevel
  <2>. QED BY <2>1, <2>3
<1>10. Holds(K, n, c, b, i)
  <2>1. PICK f \in Nat : Holds(K, n, c, b, f)
    BY <1>1, <1>8
  <2>2. 1 \in 1..n[b] /\ f + 1 - 1 = f
    BY <1>1, <1>8
  <2>3. f \in K /\ CountUpTo(K, f) = c[b - 1] + 1
    BY <2>1, <2>2 DEF Holds
  <2>4. f = i
    BY <1>1, <1>9, <2>3, SameRank
  <2>. QED BY <2>1, <2>4
<1>. QED BY <1>4, <1>6, <1>7, <1>8, <1>9, <1>10

\* One entry more in the table.
LEMMA MappedOn ==
  ASSUME NEW K, NEW n, NEW c, NEW i \in Nat \ {0}, NEW o, Mapped(K, n, c, i - 1, o),
         NEW b \in Nat, InBlock(K, n, c, i, b)
  PROVE  Mapped(K, n, c, i, Append(o, b))
<1>1. o \in Seq(Nat) /\ Len(o) = i - 1 /\ \A j \in 1..(i - 1) : InBlock(K, n, c, j, o[j])
  BY DEF Mapped
<1>2. Append(o, b) \in Seq(Nat) /\ Len(Append(o, b)) = i /\ Append(o, b)[i] = b
      /\ \A j \in 1..(i - 1) : Append(o, b)[j] = o[j]
  BY <1>1, AppendProperties
<1>3. ASSUME NEW j \in 1..i PROVE InBlock(K, n, c, j, Append(o, b)[j])
  <2>1. CASE j = i
    BY <1>2, <2>1
  <2>2. CASE j \in 1..(i - 1)
    BY <1>1, <1>2, <2>2
  <2>3. j = i \/ j \in 1..(i - 1)
    OBVIOUS
  <2>. QED BY <2>1, <2>2, <2>3, Zenon
<1>. QED BY <1>2, <1>3 DEF Mapped

\* what is known of the block b of an entry i with data, u entries of it before
AtEntry(K, n, c, i, b, u, g, o) ==
  /\ i \in K /\ b \in 1..Len(n) /\ u \in Nat /\ u < n[b]
  /\ CountUpTo(K, i) = c[b - 1] + u + 1
  /\ g \in [1..Len(n) -> Nat] /\ \A x \in 1..b : Holds(K, n, c, x, g[x])
  /\ Mapped(K, n, c, i - 1, o)

\* what MapFile knows behind it
Behind(n, b, u, g, o) ==
  Walked(IF u + 1 >= n[b] THEN b + 1 ELSE b, IF u + 1 >= n[b] THEN 0 ELSE u + 1, g, Append(o, b))

\* An entry with data.
LEMMA WalkStream ==
  ASSUME NEW K, NEW N, NEW n, NEW c, Table(K, N, n, c), NEW i, NEW b, NEW u, NEW g, NEW o,
         AtEntry(K, n, c, i, b, u, g, o)
  PROVE  Walk(K, n, c, i, Behind(n, b, u, g, o))
<1>1. /\ Len(n) \in Nat /\ \A x \in 0..Len(n) : c[x] \in Nat
      /\ \A x \in 1..Len(n) : c[x] = c[x - 1] + n[x] /\ n[x] \in Nat
  BY TableTypes DEF Table
<1>2. i \in K /\ b \in 1..Len(n) /\ u \in Nat /\ u < n[b] /\ CountUpTo(K, i) = c[b - 1] + u + 1
  BY DEF AtEntry
<1>3. /\ g \in [1..Len(n) -> Nat] /\ \A x \in 1..b : Holds(K, n, c, x, g[x])
      /\ Mapped(K, n, c, i - 1, o)
  BY DEF AtEntry
<1>4. c[b - 1] \in Nat /\ c[b] = c[b - 1] + n[b] /\ n[b] \in Nat
  BY <1>1, <1>2
<1>5. Mapped(K, n, c, i, Append(o, b))
  <2>1. InBlock(K, n, c, i, b)
    BY <1>2, <1>4 DEF InBlock
  <2>2. i \in Nat \ {0} /\ b \in Nat
    BY <1>1, <1>2, TableTypes
  <2>. QED BY <1>3, <2>1, <2>2, MappedOn
<1>6. CASE u + 1 >= n[b]
  <2>1. Behind(n, b, u, g, o) = Walked(b + 1, 0, g, Append(o, b))
    BY <1>6, Zenon DEF Behind
  <2>2. CountUpTo(K, i) = c[b] + 0
    BY <1>2, <1>4, <1>6
  <2>3. b + 1 \in 1..(Len(n) + 1) /\ (b + 1) - 1 = b /\ ~(0 > 0) /\ 0 \in Nat
    BY <1>1, <1>2
  <2>4. Counted(K, n, c, i, b + 1, 0, g)
    BY <1>3, <2>2, <2>3 DEF Counted
  <2>. QED BY <1>5, <2>1, <2>4, Zenon DEF Walk
<1>7. CASE ~(u + 1 >= n[b])
  <2>1. Behind(n, b, u, g, o) = Walked(b, u + 1, g, Append(o, b))
    BY <1>7, Zenon DEF Behind
  <2>2. CountUpTo(K, i) = c[b - 1] + (u + 1) /\ u + 1 < n[b]
    BY <1>2, <1>4, <1>7
  <2>3. /\ b \in 1..(Len(n) + 1) /\ b <= Len(n) /\ u + 1 \in Nat /\ b \in 1..b
        /\ \A x \in 1..(b - 1) : x \in 1..b
    BY <1>1, <1>2
  <2>4. Counted(K, n, c, i, b, u + 1, g)
    BY <1>2, <1>3, <2>2, <2>3 DEF Counted
  <2>. QED BY <1>5, <2>1, <2>4, Zenon DEF Walk
<1>. QED BY <1>6, <1>7

\* the header h has the blocks of the table, and files are its entries
MapsFrom(h, fs, K, N, n, c) ==
  /\ Table(K, N, n, c) /\ NumSubStreams(h) = n
  /\ \A i \in 1..N : fs[i].has_stream \in BOOLEAN /\ (fs[i].has_stream <=> i \in K)

\* The forms of MapFile.
LEMMA MapFileForms ==
  ASSUME NEW h, NEW fs, NEW n, NumSubStreams(h) = n, NEW i, NEW a, NEW u, NEW g, NEW o
  PROVE  /\ ~fs[i].has_stream /\ u = 0
              => MapFile(h, fs, Walked(a, u, g, o), i) = Walked(a, u, g, Append(o, 0))
         /\ fs[i].has_stream /\ u # 0 /\ ~(a > Len(n)) /\ g = [x \in DOMAIN g |-> g[x]]
              => MapFile(h, fs, Walked(a, u, g, o), i) = Behind(n, a, u, g, o)
         /\ \A b : /\ fs[i].has_stream /\ u = 0 /\ ~(b > Len(n))
                   /\ b = Min({x \in a..Len(n) : n[x] > 0}) /\ {x \in a..Len(n) : n[x] > 0} # {}
                   => MapFile(h, fs, Walked(a, u, g, o), i)
                        = Behind(n, b, u, [x \in DOMAIN g |-> IF x \in a .. b THEN i ELSE g[x]], o)
<1>. DEFINE acc == Walked(a, u, g, o)
            New(b) ==
              [acc EXCEPT
                !.first = [x \in DOMAIN @ |-> IF (u = 0) /\ x \in a .. b THEN i ELSE @[x]],
                !.of_file = Append(@, b),
                !.block = IF fs[i].has_stream /\ u + 1 >= n[b] THEN b + 1 ELSE b,
                !.unpacked = IF ~fs[i].has_stream THEN @
                             ELSE IF u + 1 >= n[b] THEN 0 ELSE @ + 1]
            First(b) == [x \in DOMAIN g |-> IF (u = 0) /\ x \in a .. b THEN i ELSE g[x]]
<1>1. acc.block = a /\ acc.unpacked = u /\ acc.of_file = o /\ acc.ok = TRUE /\ acc.first = g
  BY DEF Walked
<1>2. acc = [block |-> a, unpacked |-> u, of_file |-> o, ok |-> TRUE, first |-> g]
  BY DEF Walked
<1>3. ASSUME NEW b, fs[i].has_stream PROVE New(b) = Behind(n, b, u, First(b), o)
  <2>1. PICK f, k, v : /\ f = First(b) /\ k = (IF u + 1 >= n[b] THEN b + 1 ELSE b)
                       /\ v = (IF u + 1 >= n[b] THEN 0 ELSE u + 1)
    OBVIOUS
  <2>. HIDE DEF acc, First
  <2>2. New(b) = [acc EXCEPT !.first = f, !.of_file = Append(o, b), !.block = k, !.unpacked = v]
    BY <1>1, <1>2, <1>3, <2>1 DEF First
  <2>. HIDE DEF New
  <2>3. New(b) = [block |-> k, unpacked |-> v, of_file |-> Append(o, b), ok |-> TRUE, first |-> f]
    BY <1>2, <2>2
  <2>. QED BY <2>1, <2>3, Zenon DEF Behind, Walked
<1>4. ASSUME ~fs[i].has_stream, u = 0
      PROVE  MapFile(h, fs, acc, i) = Walked(a, u, g, Append(o, 0))
  <2>. HIDE DEF acc
  <2>1. MapFile(h, fs, acc, i) = [acc EXCEPT !.of_file = Append(@, 0)]
    BY <1>1, <1>4, Zenon DEF MapFile
  <2>. QED BY <1>2, <2>1 DEF Walked
<1>5. ASSUME fs[i].has_stream, u # 0, ~(a > Len(n)), g = [x \in DOMAIN g |-> g[x]]
      PROVE  MapFile(h, fs, acc, i) = Behind(n, a, u, g, o)
  <2>1. MapFile(h, fs, acc, i) = New(a)
    <3>. HIDE DEF acc
    <3>. QED BY <1>1, <1>5, Zenon DEF MapFile
  <2>2. First(a) = g
    BY <1>5
  <2>. QED BY <1>3, <1>5, <2>1, <2>2, Zenon
<1>6. ASSUME NEW b, fs[i].has_stream, u = 0, ~(b > Len(n)),
             b = Min({x \in a..Len(n) : n[x] > 0}), {x \in a..Len(n) : n[x] > 0} # {}
      PROVE  MapFile(h, fs, acc, i)
               = Behind(n, b, u, [x \in DOMAIN g |-> IF x \in a .. b THEN i ELSE g[x]], o)
  <2>1. MapFile(h, fs, acc, i) = New(b)
    <3>. HIDE DEF acc
    <3>. QED BY <1>1, <1>6, ZenonT(30) DEF MapFile
  <2>2. First(b) = [x \in DOMAIN g |-> IF x \in a .. b THEN i ELSE g[x]]
    BY <1>6
  <2>. HIDE DEF New, First
  <2>3. New(b) = Behind(n, b, u, First(b), o)
    BY <1>3, <1>6
  <2>. QED BY <2>1, <2>2, <2>3, Zenon
<1>. HIDE DEF acc
<1>. QED BY <1>4, <1>5, <1>6, Zenon DEF acc

\* One entry of calculate_stream_map.
LEMMA WalkOn ==
  ASSUME NEW h, NEW fs, NEW K, NEW N, NEW n, NEW c, MapsFrom(h, fs, K, N, n, c),
         NEW i \in 1..N, NEW acc, Walk(K, n, c, i - 1, acc)
  PROVE  Walk(K, n, c, i, MapFile(h, fs, acc, i))
<1>1. Table(K, N, n, c)
  BY DEF MapsFrom
<1>2. NumSubStreams(h) = n /\ fs[i].has_stream \in BOOLEAN /\ (fs[i].has_stream <=> i \in K)
  BY DEF MapsFrom
<1>3. N \in Nat /\ K \in SUBSET (1..N)
  BY <1>1 DEF Table
<1>4. /\ Len(n) \in Nat /\ \A x \in 0..Len(n) : c[x] \in Nat
      /\ \A x \in 1..Len(n) : c[x] = c[x - 1] + n[x] /\ n[x] \in Nat
  BY <1>1, TableTypes DEF Table
<1>5. PICK j : j = i - 1
  OBVIOUS
<1>6. i \in Nat \ {0} /\ j \in Nat /\ j + 1 = i
  BY <1>3, <1>5
<1>7. CountUpTo(K, j) \in Nat /\ CountUpTo(K, i) = CountUpTo(K, j) + IF i \in K THEN 1 ELSE 0
  BY <1>3, <1>6, CountStep
<1>8. PICK a, u, g, o : /\ acc = Walked(a, u, g, o)
                        /\ Counted(K, n, c, j, a, u, g) /\ Mapped(K, n, c, j, o)
  BY <1>5, Zenon DEF Walk
<1>9. a \in 1..(Len(n) + 1) /\ u \in Nat /\ g \in [1..Len(n) -> Nat]
  BY <1>8 DEF Counted
<1>10. /\ CountUpTo(K, j) = c[a - 1] + u /\ \A b \in 1..(a - 1) : Holds(K, n, c, b, g[b])
       /\ u > 0 => a <= Len(n) /\ u < n[a] /\ j \in K /\ Holds(K, n, c, a, g[a])
  BY <1>8 DEF Counted
<1>11. c[a - 1] \in Nat
  BY <1>4, <1>9
<1>12. CASE i \notin K /\ u = 0
  <2>1. MapFile(h, fs, acc, i) = Walked(a, u, g, Append(o, 0))
    BY <1>2, <1>8, <1>12, MapFileForms
  <2>2. Mapped(K, n, c, i, Append(o, 0))
    <3>1. InBlock(K, n, c, i, 0) /\ 0 \in Nat
      BY <1>12 DEF InBlock
    <3>. QED BY <1>5, <1>6, <1>8, <3>1, MappedOn
  <2>3. CountUpTo(K, i) = c[a - 1] + u
    BY <1>7, <1>10, <1>11, <1>12
  <2>4. ~(u > 0)
    BY <1>12
  <2>5. Counted(K, n, c, i, a, u, g)
    BY <1>9, <1>10, <2>3, <2>4 DEF Counted
  <2>. QED BY <2>1, <2>2, <2>5, Zenon DEF Walk
<1>13. CASE i \notin K /\ u > 0
  <2>1. PICK f, m : f = g[a] /\ m = n[a]
    OBVIOUS
  <2>2. a \in 1..Len(n) /\ u < m /\ j \in K /\ Holds(K, n, c, a, f)
    BY <1>4, <1>9, <1>10, <1>13, <2>1
  <2>3. f \in Nat /\ m \in Nat
    BY <1>4, <1>9, <2>1, <2>2
  <2>4. u \in 1..m /\ u + 1 \in 1..m
    BY <1>9, <1>13, <2>2, <2>3
  <2>5. f + u - 1 \in K /\ CountUpTo(K, f + u - 1) = c[a - 1] + u /\ f + (u + 1) - 1 \in K
    BY <2>1, <2>2, <2>4 DEF Holds
  <2>6. f + u - 1 = j
    BY <1>3, <1>10, <2>2, <2>5, SameRank
  <2>7. f + (u + 1) - 1 = i
    BY <1>6, <1>9, <2>3, <2>6
  <2>. QED BY <1>13, <2>5, <2>7
<1>14. CASE i \in K /\ u > 0
  <2>1. a \in 1..Len(n) /\ u < n[a] /\ Holds(K, n, c, a, g[a]) /\ ~(a > Len(n)) /\ u # 0
    BY <1>4, <1>9, <1>10, <1>14
  <2>2. MapFile(h, fs, acc, i) = Behind(n, a, u, g, o)
    <3>1. g = [x \in DOMAIN g |-> g[x]]
      BY <1>9
    <3>. QED BY <1>2, <1>8, <1>14, <2>1, <3>1, MapFileForms
  <2>3. AtEntry(K, n, c, i, a, u, g, o)
    <3>1. \A x \in 1..a : x = a \/ x \in 1..(a - 1)
      BY <2>1
    <3>2. CountUpTo(K, i) = c[a - 1] + u + 1
      BY <1>7, <1>9, <1>10, <1>11, <1>14
    <3>3. \A x \in 1..a : Holds(K, n, c, x, g[x])
      BY <1>10, <2>1, <3>1
    <3>4. Mapped(K, n, c, i - 1, o)
      BY <1>5, <1>8
    <3>. QED BY <1>9, <1>14, <2>1, <3>2, <3>3, <3>4, Zenon DEF AtEntry
  <2>. QED BY <1>1, <2>2, <2>3, WalkStream
<1>15. CASE i \in K /\ u = 0
  <2>1. CountUpTo(K, i) = c[a - 1] + 1
    BY <1>7, <1>10, <1>11, <1>15
  <2>2. PICK b \in a..Len(n) :
          /\ b = Min({x \in a..Len(n) : n[x] > 0}) /\ {x \in a..Len(n) : n[x] > 0} # {}
          /\ n[b] > 0 /\ c[b - 1] = c[a - 1] /\ \A x \in a..(b - 1) : n[x] = 0
          /\ Holds(K, n, c, b, i)
    <3>1. i \in K /\ a \in 1..(Len(n) + 1)
      BY <1>9, <1>15
    <3>. QED BY <1>1, <2>1, <3>1, EnterBlock
  <2>3. b \in 1..Len(n) /\ ~(b > Len(n))
    BY <1>4, <1>9, <2>2
  <2>4. n[b] \in Nat /\ c[b - 1] \in Nat
    BY <1>4, <2>3
  <2>5. PICK f : f = [x \in DOMAIN g |-> IF x \in a .. b THEN i ELSE g[x]]
    OBVIOUS
  <2>6. MapFile(h, fs, acc, i) = Behind(n, b, u, f, o)
    BY <1>2, <1>8, <1>15, <2>2, <2>3, <2>5, MapFileForms
  <2>7. f \in [1..Len(n) -> Nat] /\ \A x \in 1..Len(n) : f[x] = IF x \in a .. b THEN i ELSE g[x]
    BY <1>6, <1>9, <2>5
  <2>8. ASSUME NEW x \in 1..b PROVE Holds(K, n, c, x, f[x])
    <3>1. CASE x \in 1..(a - 1)
      <4>1. f[x] = g[x]
        BY <1>9, <2>3, <2>7, <3>1
      <4>. QED BY <1>10, <3>1, <4>1
    <3>2. CASE x \in a..(b - 1)
      BY <2>2, <3>2 DEF Holds
    <3>3. CASE x = b
      <4>1. f[x] = i
        BY <2>2, <2>3, <2>7, <3>3
      <4>. QED BY <2>2, <3>3, <4>1
    <3>4. x \in 1..(a - 1) \/ x \in a..(b - 1) \/ x = b
      BY <1>9, <2>3
    <3>. QED BY <3>1, <3>2, <3>3, <3>4
  <2>9. AtEntry(K, n, c, i, b, u, f, o)
    <3>1. CountUpTo(K, i) = c[b - 1] + u + 1 /\ u < n[b]
      BY <1>11, <1>15, <2>1, <2>2, <2>4
    <3>2. Mapped(K, n, c, i - 1, o)
      BY <1>5, <1>8
    <3>. QED BY <1>9, <1>15, <2>3, <2>7, <2>8, <3>1, <3>2, Zenon DEF AtEntry
  <2>. QED BY <1>1, <2>6, <2>9, WalkStream
<1>16. u = 0 \/ u > 0
  BY <1>9
<1>. QED BY <1>12, <1>13, <1>14, <1>15, <1>16

\* calculate_stream_map goes over the entries; the recursion it makes, spelled out
MapUpTo(h, fs) ==
  CHOOSE f : f = [i \in 0..Len(fs) |->
                    IF i = 0 THEN [block |-> 1, unpacked |-> 0, of_file |-> <<>>, ok |-> TRUE,
                                   first |-> [b \in DOMAIN h.unpack_sizes |-> 1]]
                    ELSE MapFile(h, fs, f[i - 1], i)]

\* The recursion has a solution.
LEMMA MapUpToDef ==
  ASSUME NEW h, NEW fs, NEW n \in Nat, n = Len(fs)
  PROVE  /\ calculate_stream_map(h, fs) = MapUpTo(h, fs)[n]
         /\ MapUpTo(h, fs)[0] = Walked(1, 0, [b \in DOMAIN h.unpack_sizes |-> 1], <<>>)
         /\ \A i \in 1..n : MapUpTo(h, fs)[i] = MapFile(h, fs, MapUpTo(h, fs)[i - 1], i)
<1>. DEFINE Base == [block |-> 1, unpacked |-> 0, of_file |-> <<>>, ok |-> TRUE,
                     first |-> [b \in DOMAIN h.unpack_sizes |-> 1]]
            Solves(f, m) == f = [i \in 0..m |-> IF i = 0 THEN Base ELSE MapFile(h, fs, f[i - 1], i)]
            Has == {m \in Nat : \E f : Solves(f, m)}
<1>1. 0 \in Has
  <2>1. Solves([i \in 0..0 |-> Base], 0)
    <3>. HIDE DEF Base
    <3>. QED OBVIOUS
  <2>. QED BY <2>1
<1>2. ASSUME NEW m \in Nat, m \in Has PROVE m + 1 \in Has
  <2>1. PICK f : Solves(f, m)
    BY <1>2
  <2>. DEFINE last == MapFile(h, fs, f[m], m + 1)
              g == [i \in 0..(m + 1) |-> IF i <= m THEN f[i] ELSE last]
  <2>2. ASSUME NEW i \in 0..(m + 1)
        PROVE  g[i] = IF i = 0 THEN Base ELSE MapFile(h, fs, g[i - 1], i)
    <3>1. CASE i <= m
      <4>1. i \in 0..m /\ g[i] = f[i] /\ (i # 0 => g[i - 1] = f[i - 1])
        BY <3>1
      <4>2. f[i] = IF i = 0 THEN Base ELSE MapFile(h, fs, f[i - 1], i)
        BY <2>1, <4>1
      <4>. HIDE DEF g, Base
      <4>. QED BY <4>1, <4>2
    <3>2. CASE i = m + 1
      <4>1. g[i] = last /\ i # 0 /\ i - 1 = m /\ g[i - 1] = f[m]
        BY <3>2
      <4>. HIDE DEF g, Base
      <4>. QED BY <3>2, <4>1
    <3>. QED BY <3>1, <3>2
  <2>3. Solves(g, m + 1)
    <3>. HIDE DEF Base
    <3>. QED BY <2>2, Zenon
  <2>4. m + 1 \in Nat
    OBVIOUS
  <2>. HIDE DEF Solves, g
  <2>. QED BY <2>3, <2>4
<1>3. \E f : Solves(f, n)
  <2>. HIDE DEF Solves
  <2>. QED BY <1>1, <1>2, SetInduction
<1>4. Solves(CHOOSE f : Solves(f, n), n)
  <2>. HIDE DEF Solves
  <2>. QED BY <1>3, Zenon
<1>5. Solves(MapUpTo(h, fs), n)
  BY <1>4, Zenon DEF MapUpTo
<1>6. calculate_stream_map(h, fs) = MapUpTo(h, fs)[n]
  BY Zenon DEF calculate_stream_map, MapUpTo
<1>7. /\ MapUpTo(h, fs)[0] = Base
      /\ \A i \in 1..n : MapUpTo(h, fs)[i] = MapFile(h, fs, MapUpTo(h, fs)[i - 1], i)
  <2>1. \A i \in 0..n : MapUpTo(h, fs)[i] = IF i = 0 THEN Base ELSE MapFile(h, fs, MapUpTo(h, fs)[i - 1], i)
    <3>. HIDE DEF Base
    <3>. QED BY <1>5, Zenon
  <2>2. 0 \in 0..n /\ \A i \in 1..n : i \in 0..n /\ i # 0
    OBVIOUS
  <2>. HIDE DEF Base
  <2>. QED BY <2>1, <2>2
<1>8. Base = Walked(1, 0, [b \in DOMAIN h.unpack_sizes |-> 1], <<>>)
  BY DEF Walked
<1>. HIDE DEF Base
<1>. QED BY <1>6, <1>7, <1>8

\* the map of the streams: where each block begins, and the block of each entry
StreamMap(K, N, n, c, map) ==
  /\ map.ok = TRUE /\ map.first \in [1..Len(n) -> Nat]
  /\ \A b \in 1..Len(n) : Holds(K, n, c, b, map.first[b])
  /\ Mapped(K, n, c, N, map.of_file)

\* When all entries have been seen, so have all blocks.
LEMMA WalkEnds ==
  ASSUME NEW K, NEW N, NEW n, NEW c, Table(K, N, n, c), NEW map, Walk(K, n, c, N, map)
  PROVE  StreamMap(K, N, n, c, map)
<1>1. /\ Len(n) \in Nat /\ \A x \in 0..Len(n) : c[x] \in Nat
      /\ \A x \in 1..Len(n) : c[x] = c[x - 1] + n[x] /\ n[x] \in Nat
  BY TableTypes DEF Table
<1>2. N \in Nat /\ K \in SUBSET (1..N) /\ c[Len(n)] = Cardinality(K)
  BY DEF Table
<1>3. PICK a, u, g, o : /\ map = Walked(a, u, g, o)
                        /\ Counted(K, n, c, N, a, u, g) /\ Mapped(K, n, c, N, o)
  BY Zenon DEF Walk
<1>4. /\ a \in 1..(Len(n) + 1) /\ u \in Nat /\ g \in [1..Len(n) -> Nat]
      /\ CountUpTo(K, N) = c[a - 1] + u /\ (u > 0 => a <= Len(n) /\ u < n[a])
      /\ \A b \in 1..(a - 1) : Holds(K, n, c, b, g[b])
  BY <1>3 DEF Counted
<1>5. c[a - 1] + u = c[Len(n)]
  BY <1>2, <1>4, CountStep
<1>6. c[a - 1] \in Nat /\ c[Len(n)] \in Nat
  BY <1>1, <1>4
<1>7. u = 0
  <2>. SUFFICES ASSUME u > 0 PROVE FALSE
    BY <1>4
  <2>1. a \in 1..Len(n) /\ u < n[a] /\ a \in 0..Len(n) /\ Len(n) \in 0..Len(n) /\ a <= Len(n)
    BY <1>1, <1>4
  <2>2. c[a] = c[a - 1] + n[a] /\ n[a] \in Nat
    BY <1>1, <2>1
  <2>3. c[a] <= c[Len(n)] /\ c[a] \in Nat
    BY <2>1, CountsLevel
  <2>. QED BY <1>4, <1>5, <1>6, <2>1, <2>2, <2>3
<1>8. ASSUME NEW b \in 1..Len(n) PROVE Holds(K, n, c, b, g[b])
  <2>1. CASE b \in 1..(a - 1)
    BY <1>4, <2>1
  <2>2. CASE ~(b < a)
    <3>1. PICK d, e, m : d = a - 1 /\ e = b - 1 /\ m = Len(n)
      OBVIOUS
    <3>2. d \in 0..m /\ e \in 0..m /\ b \in 0..m /\ m \in 0..m /\ d <= e /\ b <= m
      BY <1>1, <1>4, <2>2, <3>1
    <3>3. c[d] <= c[e] /\ c[e] \in Nat
      BY <3>1, <3>2, CountsLevel
    <3>4. c[b] <= c[m] /\ c[b] \in Nat
      BY <3>1, <3>2, CountsLevel
    <3>5. c[b] = c[e] + n[b] /\ n[b] \in Nat
      BY <1>1, <3>1
    <3>6. c[d] = c[m] /\ c[m] \in Nat
      BY <1>5, <1>6, <1>7, <3>1
    <3>7. n[b] = 0
      BY <3>3, <3>4, <3>5, <3>6
    <3>. QED BY <3>7 DEF Holds
  <2>3. b \in 1..(a - 1) \/ ~(b < a)
    BY <1>1, <1>4
  <2>. QED BY <2>1, <2>2, <2>3
<1>9. map.ok = TRUE /\ map.first = g /\ map.of_file = o
  BY <1>3 DEF Walked
<1>. QED BY <1>3, <1>4, <1>8, <1>9 DEF StreamMap

\* The whole of calculate_stream_map.
LEMMA MapWhole ==
  ASSUME NEW h, NEW fs, NEW K, NEW N, NEW n, NEW c, MapsFrom(h, fs, K, N, n, c),
         Len(fs) = N, DOMAIN h.unpack_sizes = 1..Len(n)
  PROVE  StreamMap(K, N, n, c, calculate_stream_map(h, fs))
<1>1. Table(K, N, n, c)
  BY DEF MapsFrom
<1>2. N \in Nat /\ K \in SUBSET (1..N) /\ c[0] = 0 /\ Len(n) \in Nat
  BY <1>1, TableTypes DEF Table
<1>3. /\ calculate_stream_map(h, fs) = MapUpTo(h, fs)[N]
      /\ MapUpTo(h, fs)[0] = Walked(1, 0, [b \in 1..Len(n) |-> 1], <<>>)
      /\ \A i \in 1..N : MapUpTo(h, fs)[i] = MapFile(h, fs, MapUpTo(h, fs)[i - 1], i)
  BY <1>2, MapUpToDef
<1>. DEFINE Has == {m \in Nat : m <= N => Walk(K, n, c, m, MapUpTo(h, fs)[m])}
<1>4. 0 \in Has
  <2>1. PICK g : g = [b \in 1..Len(n) |-> 1]
    OBVIOUS
  <2>2. g \in [1..Len(n) -> Nat]
    BY <2>1
  <2>3. CountUpTo(K, 0) = 0 /\ c[1 - 1] = 0
    BY <1>2, CountStep
  <2>4. 1 \in 1..(Len(n) + 1) /\ 0 \in Nat /\ ~(0 > 0) /\ 1..(1 - 1) = {} /\ c[1 - 1] + 0 = 0
    BY <1>2, <2>3
  <2>5. Counted(K, n, c, 0, 1, 0, g)
    BY <2>2, <2>3, <2>4 DEF Counted
  <2>6. Mapped(K, n, c, 0, <<>>)
    BY DEF Mapped
  <2>7. Walk(K, n, c, 0, Walked(1, 0, g, <<>>))
    BY <2>5, <2>6, Zenon DEF Walk
  <2>. QED BY <1>3, <2>1, <2>7
<1>5. ASSUME NEW m \in Nat, m \in Has PROVE m + 1 \in Has
  <2>. SUFFICES ASSUME m + 1 <= N PROVE Walk(K, n, c, m + 1, MapUpTo(h, fs)[m + 1])
    OBVIOUS
  <2>1. PICK i, acc : i = m + 1 /\ acc = MapUpTo(h, fs)[m]
    OBVIOUS
  <2>2. i \in 1..N /\ i - 1 = m
    BY <1>2, <2>1
  <2>3. Walk(K, n, c, i - 1, acc)
    BY <1>2, <1>5, <2>1, <2>2
  <2>4. Walk(K, n, c, i, MapFile(h, fs, acc, i))
    BY <2>2, <2>3, WalkOn
  <2>5. MapUpTo(h, fs)[i] = MapFile(h, fs, acc, i)
    BY <1>3, <2>1, <2>2
  <2>. QED BY <2>1, <2>4, <2>5
<1>6. N \in Has
  <2>. HIDE DEF Has
  <2>. QED BY <1>2, <1>4, <1>5, SetInduction
<1>7. Walk(K, n, c, N, calculate_stream_map(h, fs))
  BY <1>2, <1>3, <1>6
<1>. QED BY <1>1, <1>7, WalkEnds

\* how many entries with data the blocks before block b + 1 have
Before(B) == [m \in 0..Len(B) |-> Len(AllData(SubSeq(B, 1, m)))]

\* The data of the blocks lie one after the other.
LEMMA BeforeFlattens ==
  ASSUME NEW B, WellFormed(B)
  PROVE  /\ Datas(B) \in Seq(Seq(Data)) /\ Len(Datas(B)) = Len(B)
         /\ \A b \in 1..Len(B) : Datas(B)[b] = BlockCrcs(B[b])
         /\ \A m \in 0..Len(B) : Before(B)[m] = Len(FlattenSeq(SubSeq(Datas(B), 1, m)))
<1>2. PICK C : C = Datas(B)
  OBVIOUS
<1>4. B \in Seq(Blocks) /\ Len(B) \in Nat /\ DOMAIN B = 1..Len(B)
  BY DEF WellFormed
<1>5. /\ C \in Seq(Seq(Data)) /\ Len(C) = Len(B)
      /\ \A b \in 1..Len(B) : C[b] = BlockCrcs(B[b])
  <2>1. \A b \in 1..Len(B) : BlockCrcs(B[b]) \in Seq(Data)
    BY <1>4, BlockShape DEF WellFormed
  <2>. QED BY <1>2, <1>4, <2>1 DEF Datas
<1>8. ASSUME NEW m \in 0..Len(B)
      PROVE  AllData(SubSeq(B, 1, m)) = FlattenSeq(SubSeq(C, 1, m))
  <2>1. PICK p, q : p = SubSeq(B, 1, m) /\ q = SubSeq(C, 1, m)
    OBVIOUS
  <2>2. DOMAIN p = 1..m /\ \A b \in 1..m : p[b] = B[b]
    BY <1>4, <2>1
  <2>3. DOMAIN q = 1..m /\ q = [b \in 1..m |-> C[b]]
    BY <1>4, <1>5, <2>1
  <2>4. \A b \in 1..m : C[b] = BlockCrcs(p[b])
    BY <1>4, <1>5, <2>2
  <2>5. Datas(p) = [b \in 1..m |-> BlockCrcs(p[b])]
    BY <2>2 DEF Datas
  <2>6. Datas(p) = q
    BY <2>3, <2>4, <2>5
  <2>. QED BY <2>1, <2>6 DEF AllData
<1>9. \A m \in 0..Len(B) : Before(B)[m] = Len(FlattenSeq(SubSeq(C, 1, m)))
  BY <1>8 DEF Before
<1>. QED BY <1>2, <1>5, <1>9

\* The entries and blocks that were written make a table.
LEMMA TableOf ==
  ASSUME NEW fs, NEW cs, NEW B, Listed(fs, cs, B), NEW h, HeaderOf(h, B)
  PROVE  /\ Table(Backed(fs), Len(fs), NumSubStreams(h), Before(B))
         /\ Len(NumSubStreams(h)) = Len(B) /\ DOMAIN h.unpack_sizes = 1..Len(B)
<1>1. /\ fs \in Seq(Entries) /\ WellFormed(B) /\ Len(AllData(B)) = Cardinality(Backed(fs))
      /\ \A b \in 1..Len(B) : \E p \in Nat : BlockAt(fs, B, b, p)
  BY DEF Listed
<1>2. PICK N, K, n, c, C : /\ N = Len(fs) /\ K = Backed(fs) /\ n = NumSubStreams(h)
                           /\ c = Before(B) /\ C = Datas(B)
  OBVIOUS
<1>3. N \in Nat /\ K \in SUBSET (1..N)
  BY <1>1, <1>2, RankFacts
<1>4. B \in Seq(Blocks) /\ Len(B) \in Nat /\ DOMAIN B = 1..Len(B)
  BY <1>1 DEF WellFormed
<1>5. /\ C \in Seq(Seq(Data)) /\ Len(C) = Len(B)
      /\ \A b \in 1..Len(B) : C[b] = BlockCrcs(B[b])
  BY <1>1, <1>2, BeforeFlattens
<1>6. /\ n = [b \in 1..Len(B) |-> Len(BlockCrcs(B[b]))]
      /\ DOMAIN h.unpack_sizes = 1..Len(B)
  BY <1>1, <1>2, <1>4, CountsRead DEF HeaderOf
<1>7. n \in Seq(Nat) /\ Len(n) = Len(B) /\ \A b \in 1..Len(B) : n[b] = Len(C[b])
  <2>1. \A b \in 1..Len(B) : Len(BlockCrcs(B[b])) \in Nat
    BY <1>5
  <2>. QED BY <1>4, <1>5, <1>6, <2>1
<1>9. \A m \in 0..Len(C) : c[m] = Len(FlattenSeq(SubSeq(C, 1, m)))
  BY <1>1, <1>2, <1>5, BeforeFlattens
<1>10. /\ c[0] = 0 /\ c[Len(C)] = Len(FlattenSeq(C)) /\ \A m \in 0..Len(C) : c[m] \in 0..Len(FlattenSeq(C))
       /\ \A m \in 1..Len(C) : c[m] = c[m - 1] + Len(C[m])
  <2>1. PICK S, s : S = Data /\ s = C
    OBVIOUS
  <2>2. s \in Seq(Seq(S)) /\ \A m \in 0..Len(s) : c[m] = Len(FlattenSeq(SubSeq(s, 1, m)))
    BY <1>5, <1>9, <2>1
  <2>3. /\ c[0] = 0 /\ c[Len(s)] = Len(FlattenSeq(s)) /\ \A m \in 0..Len(s) : c[m] \in 0..Len(FlattenSeq(s))
        /\ \A m \in 1..Len(s) : c[m] = c[m - 1] + Len(s[m])
    BY <2>2, FlattenHolds
  <2>. QED BY <2>1, <2>3
<1>11. FlattenSeq(C) = AllData(B) /\ Len(FlattenSeq(C)) \in Nat
  <2>1. FlattenSeq(C) \in Seq(Data)
    BY <1>5, FlattenIn
  <2>. QED BY <1>2, <2>1 DEF AllData
<1>12. c \in [0..Len(n) -> Nat]
  <2>1. c = [m \in 0..Len(n) |-> c[m]]
    BY <1>2, <1>7 DEF Before
  <2>2. \A m \in 0..Len(n) : c[m] \in Nat
    BY <1>5, <1>7, <1>10, <1>11
  <2>. QED BY <2>1, <2>2
<1>13. c[Len(n)] = Cardinality(K) /\ \A b \in 1..Len(n) : c[b] = c[b - 1] + n[b]
  BY <1>1, <1>2, <1>5, <1>7, <1>10, <1>11
<1>14. ASSUME NEW b \in 1..Len(n) PROVE \E f \in Nat : Holds(K, n, c, b, f)
  <2>1. PICK p \in Nat : BlockAt(fs, B, b, p)
    BY <1>1, <1>7
  <2>2. c[b - 1] = Len(AllData(SubSeq(B, 1, b - 1)))
    BY <1>2, <1>4, <1>7 DEF Before
  <2>3. ASSUME NEW k \in 1..n[b]
        PROVE  (p + 1) + k - 1 \in K /\ CountUpTo(K, (p + 1) + k - 1) = c[b - 1] + k
    <3>1. k \in 1..Len(BlockCrcs(B[b]))
      BY <1>5, <1>7
    <3>2. p + k \in K /\ CountUpTo(K, p + k) = c[b - 1] + k
      BY <1>2, <2>1, <2>2, <3>1 DEF BlockAt, Rank
    <3>3. n[b] \in Nat
      BY <1>7
    <3>4. (p + 1) + k - 1 = p + k
      BY <3>3
    <3>. QED BY <3>2, <3>4
  <2>4. Holds(K, n, c, b, p + 1) /\ p + 1 \in Nat
    BY <2>3 DEF Holds
  <2>. QED BY <2>4
<1>15. Table(K, N, n, c)
  BY <1>3, <1>7, <1>10, <1>12, <1>13, <1>14 DEF Table
<1>. QED BY <1>2, <1>6, <1>7, <1>15

\* the archive has the entries that were pushed, and the blocks of their data
HasEntries(a) ==
  /\ Table(Backed(files), Len(files), a.nums, Before(blocks)) /\ Len(a.nums) = Len(blocks)
  /\ a.first \in [1..Len(a.nums) -> Nat]
  /\ \A b \in 1..Len(a.nums) : Holds(Backed(files), a.nums, Before(blocks), b, a.first[b])
  /\ Mapped(Backed(files), a.nums, Before(blocks), Len(files), a.of_file)
  /\ \A i \in Backed(files) : files[i].has_stream

\* What opens has the entries where they were put.
LEMMA OpenedMap ==
  ASSUME OpenInv, archive # <<>>
  PROVE  HasEntries(archive[1])
<1>1. Listed(files, contents, blocks)
  BY DEF OpenInv, ListInv
<1>2. PICK h, fs : ReadOf(h) /\ fs = read_files_info(h)
  BY OpenedHeader
<1>3. /\ HeaderOf(h, blocks)
      /\ archive[1].files = fs /\ archive[1].nums = NumSubStreams(h)
      /\ archive[1].first = calculate_stream_map(h, fs).first
      /\ archive[1].of_file = calculate_stream_map(h, fs).of_file
  BY <1>2 DEF ReadOf, StreamsOf, read_header
<1>4. files \in Seq(Entries) /\ \A i \in 1..Len(files) : Suits(files[i], contents[i])
  BY <1>1 DEF Listed
<1>5. ListsStreams
  BY OpenedStreams
<1>6. PICK K, N, n, c : /\ K = Backed(files) /\ N = Len(files) /\ n = NumSubStreams(h)
                        /\ c = Before(blocks)
  OBVIOUS
<1>7. Table(K, N, n, c) /\ Len(n) = Len(blocks) /\ DOMAIN h.unpack_sizes = 1..Len(n)
  BY <1>1, <1>3, <1>6, TableOf
<1>8. \A i \in K : files[i].has_stream
  BY <1>4, <1>6 DEF Backed, Suits
<1>9. ASSUME NEW i \in 1..N PROVE fs[i].has_stream \in BOOLEAN /\ (fs[i].has_stream <=> i \in K)
  <2>1. fs[i].has_stream = files[i].has_stream
    BY <1>3, <1>4, <1>5, <1>6 DEF ListsStreams, Streamed
  <2>2. files[i].has_stream \in BOOLEAN
    <3>1. files[i] \in Entries
      BY <1>4, <1>6
    <3>. QED BY <3>1, Zenon DEF Entries
  <2>3. files[i].has_stream <=> i \in K
    BY <1>4, <1>6, OpenedBacked DEF Streams
  <2>. QED BY <2>1, <2>2, <2>3, Zenon
<1>10. MapsFrom(h, fs, K, N, n, c)
  BY <1>6, <1>7, <1>9 DEF MapsFrom
<1>11. Len(fs) = N
  BY <1>3, <1>5, <1>6 DEF ListsStreams
<1>12. StreamMap(K, N, n, c, calculate_stream_map(h, fs))
  BY <1>7, <1>10, <1>11, MapWhole
<1>. QED BY <1>3, <1>6, <1>7, <1>8, <1>12 DEF HasEntries, StreamMap

-----------------------------------------------------------------------------
(* What the closure is given *)

\* The sum of the first numbers of a sequence.
LEMMA SumPrefix ==
  ASSUME NEW s \in Seq(Nat), NEW k \in 1..Len(s)
  PROVE  /\ SumFunction(SubSeq(s, 1, k - 1)) \in Nat /\ SumFunction(s) \in Nat
         /\ SumFunction(SubSeq(s, 1, k - 1)) + s[k] <= SumFunction(s)
<1>. DEFINE P(m) == SumFunction(SubSeq(s, 1, m))
            Has == {m \in Nat : m <= Len(s) /\ k <= m => P(k - 1) + s[k] <= P(m)}
<1>1. ASSUME NEW m \in Nat, m + 1 <= Len(s)
      PROVE  P(m) \in Nat /\ P(m + 1) = P(m) + s[m + 1] /\ s[m + 1] \in Nat
  <2>1. PICK p : p = SubSeq(s, 1, m)
    OBVIOUS
  <2>2. m + 1 \in 1..Len(s)
    BY <1>1
  <2>3. p \in Seq(Nat) /\ s[m + 1] \in Nat /\ SubSeq(s, 1, m + 1) = Append(p, s[m + 1])
    BY <2>1, <2>2, PrefixAppend
  <2>4. SumFunction(p) \in Nat /\ SumFunction(Append(p, s[m + 1])) = SumFunction(p) + s[m + 1]
    BY <2>3, SumSeqAppend
  <2>. QED BY <2>1, <2>3, <2>4
<1>2. k \in Nat /\ k - 1 \in Nat /\ (k - 1) + 1 = k /\ k <= Len(s) /\ Len(s) \in Nat /\ 0 < k
  OBVIOUS
<1>3. P(k - 1) \in Nat /\ P(k) = P(k - 1) + s[k] /\ s[k] \in Nat
  <2>1. PICK j : j = k - 1
    OBVIOUS
  <2>. HIDE DEF P
  <2>2. P(j) \in Nat /\ P(j + 1) = P(j) + s[j + 1] /\ s[j + 1] \in Nat
    BY <1>1, <1>2, <2>1
  <2>. QED BY <1>2, <2>1, <2>2
<1>. HIDE DEF P
<1>4. 0 \in Has
  BY <1>2
<1>5. ASSUME NEW m \in Nat, m \in Has PROVE m + 1 \in Has
  <2>. SUFFICES ASSUME m + 1 <= Len(s), k <= m + 1 PROVE P(k - 1) + s[k] <= P(m + 1)
    OBVIOUS
  <2>1. CASE k = m + 1
    BY <1>3, <2>1
  <2>2. CASE k <= m
    <3>1. P(k - 1) + s[k] <= P(m)
      BY <1>2, <1>5, <2>2
    <3>2. P(m) \in Nat /\ P(m + 1) = P(m) + s[m + 1] /\ s[m + 1] \in Nat
      BY <1>1
    <3>3. PICK x, y, z, t, r : x = P(k - 1) /\ y = s[k] /\ z = P(m) /\ t = P(m + 1) /\ r = s[m + 1]
      OBVIOUS
    <3>4. x + y <= z /\ t = z + r /\ x \in Nat /\ y \in Nat /\ z \in Nat /\ r \in Nat
      BY <1>3, <3>1, <3>2, <3>3
    <3>5. x + y <= t
      BY <3>4
    <3>. QED BY <3>3, <3>5
  <2>. QED BY <1>2, <2>1, <2>2
<1>6. Len(s) \in Has
  <2>. HIDE DEF Has
  <2>. QED BY <1>2, <1>4, <1>5, SetInduction
<1>7. P(Len(s)) = SumFunction(s)
  <2>1. SubSeq(s, 1, Len(s)) = s
    BY SubSeqFull
  <2>. QED BY <2>1 DEF P
<1>8. P(Len(s)) \in Nat
  BY <1>7, SumSeqAppend
<1>. QED BY <1>2, <1>3, <1>6, <1>7, <1>8 DEF P

\* Where the reader looks for the packed stream of a block.
LEMMA StreamPlace ==
  ASSUME OpenInv, archive # <<>>, NEW b \in 1..Len(blocks)
  PROVE  /\ archive[1].offsets[b] = SumFunction(SubSeq(pack_info.sizes, 1, b - 1))
         /\ archive[1].packed[b] = pack_info.sizes[b]
         /\ archive[1].sizes[b] = blocks[b].unpack_size
<1>1. Types /\ StreamsTileOutput
  BY DEF OpenInv, ListInv, WInv
<1>2. PICK h, s, n : ReadOf(h) /\ s = pack_info.sizes /\ n = Len(blocks)
  BY OpenedHeader
<1>3. h.pack_info = write_pack_info(pack_info) /\ HeaderOf(h, blocks) /\ archive[1] = read_header(h)
  BY <1>2 DEF ReadOf, StreamsOf
<1>4. h.pack_info.pos = 0 /\ h.pack_info.sizes = s /\ h.unpack_sizes = [k \in DOMAIN blocks |-> blocks[k].unpack_size]
  <2>1. pack_info.pos = 0
    BY <1>1 DEF Types
  <2>. QED BY <1>2, <1>3, <2>1 DEF HeaderOf, write_pack_info
<1>5. s \in Seq(Nat) /\ Len(s) = n /\ n \in Nat /\ b \in 1..Len(s) /\ DOMAIN blocks = 1..n
  BY <1>1, <1>2 DEF Types, StreamsTileOutput
<1>6. archive[1].offsets[b] = SumFunction(SubSeq(s, 1, b - 1)) /\ archive[1].packed[b] = s[b]
  <2>1. SumFunction(SubSeq(s, 1, b - 1)) \in Nat
    BY <1>5, SumPrefix
  <2>2. b \in DOMAIN h.unpack_sizes
    BY <1>2, <1>4, <1>5
  <2>3. archive[1].offsets[b] = h.pack_info.pos + SumFunction(SubSeq(h.pack_info.sizes, 1, b - 1))
    BY <1>3, <2>2 DEF read_header, PackOffset
  <2>4. archive[1].packed[b] = s[b]
    BY <1>3, <1>4 DEF read_header
  <2>. QED BY <1>4, <2>1, <2>3, <2>4
<1>7. archive[1].sizes[b] = blocks[b].unpack_size
  BY <1>2, <1>3, <1>4, <1>5 DEF read_header
<1>. QED BY <1>2, <1>6, <1>7

\* The cells of a packed stream lie in what was written, and decode to data.
LEMMA BlockBytesData ==
  ASSUME OpenInv, archive # <<>>, NEW b \in 1..Len(blocks)
  PROVE  BlockBytes(archive[1], output, b) \in Data
<1>1. header # <<>> /\ Opens(archive, header[1].main) /\ Listed(files, contents, blocks) /\ Finished
      /\ Types /\ StreamsTileOutput
  BY DEF OpenInv, Opened, ListInv, WInv
<1>2. PICK s : s = pack_info.sizes
  OBVIOUS
<1>5. s \in Seq(Nat) /\ b \in 1..Len(s)
  BY <1>1, <1>2 DEF Types, StreamsTileOutput
<1>6. archive[1].offsets[b] = SumFunction(SubSeq(s, 1, b - 1)) /\ archive[1].packed[b] = s[b]
  BY <1>2, StreamPlace
<1>7. archive[1].sizes[b] \in Nat
  <2>1. blocks[b].unpack_size \in Nat
    <3>1. blocks[b] \in Blocks
      BY <1>1 DEF Types
    <3>. QED BY <3>1 DEF Blocks
  <2>. QED BY <2>1, StreamPlace
<1>8. PICK at, size, cells : /\ at = archive[1].offsets[b] /\ size = archive[1].packed[b]
                             /\ cells = SubSeq(output, at + 1, at + size)
  OBVIOUS
<1>9. at \in Nat /\ size \in Nat /\ at + size <= Len(output) /\ Len(output) \in Nat /\ output \in Seq(Cells)
  <2>1. at \in Nat /\ size \in Nat /\ at + size <= SumFunction(s) /\ SumFunction(s) \in Nat
    <3>1. s[b] \in Nat
      BY <1>5
    <3>2. SumFunction(SubSeq(s, 1, b - 1)) \in Nat /\ SumFunction(s) \in Nat
          /\ SumFunction(SubSeq(s, 1, b - 1)) + s[b] <= SumFunction(s)
      BY <1>5, SumPrefix
    <3>. QED BY <1>6, <1>8, <3>1, <3>2
  <2>2. output \in Seq(Cells) /\ orphans \in Nat
    BY <1>1 DEF Types
  <2>3. header[1].pos = orphans + SumFunction(s) /\ header[1].pos <= Len(output)
    <3>1. header[1].pos \in 0..Len(output)
      <4>1. TypeOK
        BY <1>1, TypesOfWriter DEF WInv
      <4>. QED BY <1>1, <4>1 DEF TypeOK
    <3>. QED BY <1>1, <1>2, <3>1 DEF Finished
  <2>. QED BY <2>1, <2>2, <2>3
<1>10. cells \in Seq(Cells)
  <2>1. \A i \in (at + 1)..(at + size) : output[i] \in Cells
    BY <1>9
  <2>2. PICK x, y : x = at + 1 /\ y = at + size
    OBVIOUS
  <2>3. x \in Int /\ y \in Int /\ \A i \in x..y : output[i] \in Cells
    BY <1>9, <2>1, <2>2
  <2>. QED BY <1>8, <2>2, <2>3, SubSeqProperties
<1>11. BlockBytes(archive[1], output, b) = Decode(cells, archive[1].sizes[b])
  BY <1>8 DEF BlockBytes
<1>12. cells # <<>> => cells[1][1] \in Data
  <2>. SUFFICES ASSUME cells # <<>> PROVE cells[1][1] \in Data
    OBVIOUS
  <2>1. cells[1] \in Cells
    BY <1>10
  <2>. QED BY <2>1 DEF Cells
<1>13. Junk(archive[1].sizes[b]) \in Data
  BY <1>7 DEF Junk, Data
<1>14. <<>> \in Data
  BY DEF Data
<1>. QED BY <1>11, <1>12, <1>13, <1>14 DEF Decode

\* A part of data is data.
LEMMA UptoData ==
  ASSUME NEW bytes \in Data, NEW at \in Nat, NEW n \in Nat
  PROVE  /\ Upto(bytes, at, n) \in Data /\ Len(Upto(bytes, at, n)) \in Nat
         /\ Len(Upto(bytes, at, n)) = 0 => Upto(bytes, at, n) = <<>>
<1>1. PICK x, y : x = at + 1 /\ y = IF at + n < Len(bytes) THEN at + n ELSE Len(bytes)
  OBVIOUS
<1>2. x \in Int /\ y \in Int /\ \A i \in x..y : bytes[i] \in Nat \X Nat
  BY <1>1 DEF Data
<1>3. SubSeq(bytes, x, y) \in Seq(Nat \X Nat)
  BY <1>2, SubSeqProperties
<1>4. Upto(bytes, at, n) = SubSeq(bytes, x, y)
  BY <1>1 DEF Upto
<1>. QED BY <1>3, <1>4 DEF Data

\* a visit gives the data of its entry, or does not give it whole
Handed(seen) ==
  /\ seen.file \in 1..Len(files)
  /\ seen.ok /\ Len(seen.data) = Len(contents[seen.file]) => seen.data = contents[seen.file]

Visits == [file : Nat, data : Data, to_end : BOOLEAN, ok : BOOLEAN]

\* the entries that were visited
Visited(vs) == {vs[v].file : v \in DOMAIN vs}

\* which entries of 1..N, with data those of K, a reader that has not been stopped
\* has visited
Progress(K, N, c, ph, bl, nx, vs) ==
  /\ ph = "blocks"  => /\ Len(vs) = c[bl - 1] + nx
                       /\ Visited(vs) = {i \in K : CountUpTo(K, i) <= c[bl - 1] + nx}
  /\ ph = "empties" => /\ Len(vs) + CountUpTo(K, nx - 1) = Cardinality(K) + nx - 1
                       /\ Visited(vs) = K \cup 1..(nx - 1)
  /\ ph = "done"    => Len(vs) = N /\ Visited(vs) = 1..N

\* where a reader can be in the blocks of n entries
Place(N, n, ph, bl, nx) ==
  /\ ph = "blocks" => /\ bl \in 1..(Len(n) + 1) /\ nx \in Nat
                      /\ IF bl <= Len(n) THEN nx <= n[bl] ELSE nx = 0
  /\ ph = "empties" => nx \in 1..(N + 1)

\* the invariant of a reader
Reading ==
  /\ phase # "panic"
  /\ cursor \in Nat /\ stopped \in BOOLEAN /\ visits \in Seq(Visits)
  /\ phase \in {"closed", "failed", "open"} => visits = <<>> /\ ~stopped /\ block = 0
  /\ archive # <<>> => Place(Len(files), archive[1].nums, phase, block, next)
  /\ \A v \in DOMAIN visits : Handed(visits[v])
  /\ ~stopped => Progress(Backed(files), Len(files), Before(blocks), phase, block, next, visits)

\* What the closure is given of an entry with data.
LEMMA EntryHanded ==
  ASSUME OpenInv, archive # <<>>, NEW file \in Backed(files), block \in 1..Len(blocks), cursor \in Nat,
         NEW limit \in Nat
  PROVE  /\ ReadEntry(file, output, limit) \in Visits /\ ReadEntry(file, output, limit).file = file
         /\ Handed(ReadEntry(file, output, limit))
<1>1. /\ files \in Seq(Entries) /\ contents \in Seq(Data) /\ Len(contents) = Len(files)
      /\ \A i \in 1..Len(files) : Suits(files[i], contents[i])
  BY DEF OpenInv, ListInv, Listed
<1>2. file \in 1..Len(files) /\ files[file].has_crc
  BY <1>1 DEF Backed
<1>3. PICK entry, x : entry = archive[1].files[file] /\ x = contents[file]
  OBVIOUS
<1>4. x \in Data /\ Len(x) \in Nat /\ file \in Nat
  BY <1>1, <1>2, <1>3 DEF Data
<1>5. entry.has_crc = files[file].has_crc /\ entry.size = Len(x) /\ entry.crc = x
  <2>1. Streamed(entry, files[file])
    BY <1>1, <1>2, <1>3, OpenedStreams DEF ListsStreams
  <2>2. Suits(files[file], x)
    BY <1>1, <1>2, <1>3
  <2>. QED BY <1>2, <2>1, <2>2, Zenon DEF Streamed, Suits
<1>6. PICK n, bytes, data : /\ n = (IF limit < entry.size THEN limit ELSE entry.size)
                            /\ bytes = BlockBytes(archive[1], output, block)
                            /\ data = Upto(bytes, cursor, n)
  OBVIOUS
<1>7. n \in Nat /\ (Len(x) = 0 => n = 0)
  BY <1>4, <1>5, <1>6
<1>8. data \in Data /\ Len(data) \in Nat /\ (Len(data) = 0 => data = <<>>)
  <2>1. bytes \in Data
    BY <1>6, BlockBytesData
  <2>. QED BY <1>6, <1>7, <2>1, UptoData
<1>9. PICK e, k : e = (n = entry.size) /\ k = Verified(entry, data)
  BY Zenon
<1>10. e \in BOOLEAN /\ k \in BOOLEAN
  BY <1>9, Zenon DEF Verified
<1>11. ReadEntry(file, output, limit) = [file |-> file, data |-> data, to_end |-> e, ok |-> k]
  BY <1>3, <1>6, <1>9, Zenon DEF ReadEntry
<1>12. ASSUME k, Len(data) = Len(x) PROVE data = x
  <2>1. CASE Len(x) = 0
    <3>1. x = <<>>
      BY <1>4, <2>1 DEF Data
    <3>. QED BY <1>8, <1>12, <2>1, <3>1
  <2>2. CASE Len(x) > 0
    <3>1. entry.has_crc
      BY <1>2, <1>5
    <3>. QED BY <1>5, <1>9, <1>12, <2>2, <3>1 DEF Verified, Crc
  <2>. QED BY <1>4, <2>1, <2>2
<1>13. PICK seen : seen = ReadEntry(file, output, limit)
  OBVIOUS
<1>14. seen.file = file /\ seen.data = data /\ seen.ok = k
  BY <1>11, <1>13
<1>15. Handed(seen)
  BY <1>2, <1>3, <1>12, <1>14 DEF Handed
<1>16. seen \in Visits
  BY <1>4, <1>8, <1>10, <1>11, <1>13 DEF Visits
<1>. QED BY <1>13, <1>14, <1>15, <1>16

\* One visit more.
LEMMA OneMore ==
  ASSUME NEW vs \in Seq(Visits), NEW seen \in Visits
  PROVE  /\ Append(vs, seen) \in Seq(Visits) /\ Len(Append(vs, seen)) = Len(vs) + 1
         /\ Visited(Append(vs, seen)) = Visited(vs) \cup {seen.file}
         /\ (\A v \in DOMAIN vs : Handed(vs[v])) /\ Handed(seen)
              => \A v \in DOMAIN Append(vs, seen) : Handed(Append(vs, seen)[v])
<1>1. PICK a : a = Append(vs, seen)
  OBVIOUS
<1>2. /\ a \in Seq(Visits) /\ Len(a) = Len(vs) + 1 /\ a[Len(vs) + 1] = seen
      /\ \A v \in 1..Len(vs) : a[v] = vs[v]
  BY <1>1, AppendProperties
<1>3. DOMAIN vs = 1..Len(vs) /\ Len(vs) \in Nat /\ DOMAIN a = 1..(Len(vs) + 1)
  BY <1>2
<1>4. \A v \in DOMAIN a : (v \in DOMAIN vs /\ a[v] = vs[v]) \/ (v = Len(vs) + 1 /\ a[v] = seen)
  <2>1. \A v \in DOMAIN a : v \in 1..Len(vs) \/ v = Len(vs) + 1
    BY <1>3
  <2>2. \A v \in DOMAIN vs : a[v] = vs[v]
    BY <1>2, <1>3
  <2>. TAKE v \in DOMAIN a
  <2>3. CASE v \in 1..Len(vs)
    <3>1. v \in DOMAIN vs
      BY <1>3, <2>3, Zenon
    <3>2. a[v] = vs[v]
      BY <2>2, <3>1, Zenon
    <3>. QED BY <3>1, <3>2, Zenon
  <2>4. CASE v = Len(vs) + 1
    BY <1>2, <2>4
  <2>. QED BY <2>1, <2>3, <2>4
<1>5. (\A v \in DOMAIN vs : v \in DOMAIN a /\ a[v] = vs[v]) /\ Len(vs) + 1 \in DOMAIN a
  BY <1>2, <1>3
<1>6. Visited(a) = Visited(vs) \cup {seen.file}
  BY <1>2, <1>4, <1>5 DEF Visited
<1>. QED BY <1>1, <1>2, <1>4, <1>6

\* The places of the entries with data.
LEMMA Places ==
  ASSUME NEW K, NEW N, NEW n, NEW c, Table(K, N, n, c)
  PROVE  /\ \A i \in K : CountUpTo(K, i) \in 1..Cardinality(K)
         /\ \A i \in 0..N : CountUpTo(K, i) \in Nat
         /\ \A i \in 1..N : CountUpTo(K, i) = CountUpTo(K, i - 1) + IF i \in K THEN 1 ELSE 0
         /\ CountUpTo(K, 0) = 0 /\ CountUpTo(K, N) = Cardinality(K)
<1>1. N \in Nat /\ K \in SUBSET (1..N)
  BY DEF Table
<1>2. /\ \A i \in Nat : CountUpTo(K, i) \in Nat
      /\ CountUpTo(K, 0) = 0 /\ CountUpTo(K, N) = Cardinality(K)
      /\ \A i \in Nat : CountUpTo(K, i + 1) = CountUpTo(K, i) + IF i + 1 \in K THEN 1 ELSE 0
  BY <1>1, CountStep
<1>3. ASSUME NEW i \in K PROVE CountUpTo(K, i) \in 1..Cardinality(K)
  <2>1. i \in Nat /\ 0 \in Nat /\ 0 <= i /\ 0 < i /\ i <= N
    BY <1>1
  <2>2. CountUpTo(K, 0) < CountUpTo(K, i)
    BY <1>1, <2>1, CountGrows
  <2>3. CountUpTo(K, i) <= CountUpTo(K, N)
    BY <1>1, <2>1, CountGrows
  <2>4. CountUpTo(K, i) \in Nat /\ CountUpTo(K, N) \in Nat
    BY <1>1, <1>2, <2>1
  <2>. QED BY <1>2, <2>2, <2>3, <2>4
<1>4. ASSUME NEW i \in 1..N
      PROVE  CountUpTo(K, i) = CountUpTo(K, i - 1) + IF i \in K THEN 1 ELSE 0
  <2>1. PICK j : j = i - 1
    OBVIOUS
  <2>2. j \in Nat /\ j + 1 = i
    BY <1>1, <2>1
  <2>3. CountUpTo(K, j + 1) = CountUpTo(K, j) + IF j + 1 \in K THEN 1 ELSE 0
    BY <1>2, <2>2
  <2>. QED BY <2>1, <2>2, <2>3
<1>5. \A i \in 0..N : i \in Nat
  BY <1>1
<1>. QED BY <1>2, <1>3, <1>4, <1>5

\* what an archive says of its entries K, n of them in each block
IsMap(K, N, n, c, a) ==
  /\ Table(K, N, n, c) /\ a.nums = n
  /\ a.first \in [1..Len(n) -> Nat]
  /\ \A b \in 1..Len(n) : Holds(K, n, c, b, a.first[b])
  /\ Mapped(K, n, c, N, a.of_file)

\* The entry handed out next has data and is the next one in order.
LEMMA NextInOrder ==
  ASSUME NEW K, NEW N, NEW n, NEW c, NEW a, IsMap(K, N, n, c, a),
         NEW bl \in 1..Len(n), NEW nx \in Nat, nx < n[bl]
  PROVE  /\ a.first[bl] + nx \in K
         /\ CountUpTo(K, a.first[bl] + nx) = c[bl - 1] + nx + 1
         /\ c[bl - 1] \in Nat
         /\ {i \in K : CountUpTo(K, i) <= c[bl - 1] + (nx + 1)}
              = {i \in K : CountUpTo(K, i) <= c[bl - 1] + nx} \cup {a.first[bl] + nx}
<1>1. /\ Table(K, N, n, c) /\ Holds(K, n, c, bl, a.first[bl])
  BY DEF IsMap
<1>2. N \in Nat /\ K \in SUBSET (1..N)
  BY <1>1 DEF Table
<1>3. n[bl] \in Nat /\ c[bl - 1] \in Nat
  <2>1. bl - 1 \in 0..Len(n)
    BY <1>1, TableTypes
  <2>. QED BY <1>1, <2>1, TableTypes
<1>4. PICK f, m : f = a.first[bl] /\ m = c[bl - 1]
  OBVIOUS
<1>5. nx + 1 \in 1..n[bl]
  BY <1>3
<1>6. f + (nx + 1) - 1 \in K /\ CountUpTo(K, f + (nx + 1) - 1) = m + (nx + 1)
  BY <1>1, <1>4, <1>5 DEF Holds
<1>7. f \in Int
  BY <1>4 DEF IsMap
<1>8. f + (nx + 1) - 1 = f + nx
  BY <1>7
<1>9. PICK j : j = f + nx
  OBVIOUS
<1>10. j \in K /\ CountUpTo(K, j) = m + nx + 1
  BY <1>3, <1>4, <1>6, <1>8, <1>9
<1>11. \A i \in K : CountUpTo(K, i) \in Nat
  BY <1>1, Places
<1>12. ASSUME NEW i \in K
       PROVE  CountUpTo(K, i) <= m + (nx + 1) <=> CountUpTo(K, i) <= m + nx \/ i = j
  <2>1. CountUpTo(K, i) = m + nx + 1 => i = j
    <3>1. CountUpTo(K, i) = m + nx + 1 => CountUpTo(K, i) = CountUpTo(K, j)
      BY <1>10
    <3>. QED BY <1>2, <1>10, <3>1, SameRank
  <2>2. CountUpTo(K, i) \in Nat /\ m \in Nat
    BY <1>3, <1>4, <1>11
  <2>. QED BY <1>10, <2>1, <2>2
<1>13. {i \in K : CountUpTo(K, i) <= m + (nx + 1)} = {i \in K : CountUpTo(K, i) <= m + nx} \cup {j}
  BY <1>10, <1>12, Zenon
<1>. QED BY <1>3, <1>4, <1>9, <1>10, <1>13

\* From a block to the next, and from the last to the entries without one.
LEMMA BlocksInOrder ==
  ASSUME NEW K, NEW N, NEW n, NEW c, Table(K, N, n, c)
  PROVE  /\ c[0] + 0 = 0 /\ {i \in K : CountUpTo(K, i) <= c[0] + 0} = {}
         /\ \A b \in 1..Len(n) : c[b - 1] + n[b] = c[(b + 1) - 1] + 0
         /\ c[(Len(n) + 1) - 1] + 0 = Cardinality(K)
         /\ {i \in K : CountUpTo(K, i) <= c[(Len(n) + 1) - 1] + 0} = K
<1>1. /\ c[0] = 0 /\ c[Len(n)] = Cardinality(K) /\ Cardinality(K) \in Nat /\ Len(n) \in Nat
      /\ \A b \in 1..Len(n) : c[b] = c[b - 1] + n[b] /\ c[b] \in Nat
  <2>1. \A b \in 1..Len(n) : b \in 0..Len(n)
    BY TableTypes
  <2>. QED BY <2>1, TableTypes DEF Table
<1>2. \A i \in K : CountUpTo(K, i) \in 1..Cardinality(K)
  BY Places
<1>3. c[0] + 0 = 0 /\ (Len(n) + 1) - 1 = Len(n) /\ c[Len(n)] + 0 = Cardinality(K)
  BY <1>1
<1>4. \A i \in K : ~(CountUpTo(K, i) <= 0) /\ CountUpTo(K, i) <= Cardinality(K)
  BY <1>1, <1>2
<1>5. {i \in K : CountUpTo(K, i) <= c[0] + 0} = {}
  BY <1>3, <1>4
<1>6. {i \in K : CountUpTo(K, i) <= c[(Len(n) + 1) - 1] + 0} = K
  BY <1>3, <1>4
<1>7. \A b \in 1..Len(n) : (b + 1) - 1 = b /\ c[b] + 0 = c[b - 1] + n[b]
  BY <1>1
<1>. QED BY <1>3, <1>5, <1>6, <1>7

\* An open archive is the map of what was pushed.
LEMMA OpenedIsMap ==
  ASSUME OpenInv, archive # <<>>
  PROVE  /\ IsMap(Backed(files), Len(files), archive[1].nums, Before(blocks), archive[1])
         /\ Len(archive[1].nums) = Len(blocks) /\ Len(archive[1].files) = Len(files)
         /\ Len(files) \in Nat /\ Len(blocks) \in Nat
<1>1. HasEntries(archive[1]) /\ ListsStreams
  BY OpenedMap, OpenedStreams
<1>2. files \in Seq(Entries) /\ blocks \in Seq(Blocks)
  BY DEF OpenInv, ListInv, WInv, Types
<1>. QED BY <1>1, <1>2 DEF HasEntries, IsMap, ListsStreams

\* the reader's step leaves what was written, and has an archive
Keeps ==
  /\ OpenInv /\ Reading /\ UNCHANGED vars /\ archive' = archive /\ archive # <<>>
  /\ phase \notin {"closed", "failed"}

\* One entry of a block.
LEMMA StepVisit ==
  ASSUME Keeps, NEW c \in Closures, Visit(output, c.limit, c.go_on, c.pass_error)
  PROVE  Reading'
<1>1. /\ OpenInv /\ Reading /\ archive # <<>> /\ archive' = archive
      /\ files' = files /\ contents' = contents /\ blocks' = blocks
  BY DEF Keeps, vars
<1>2. c.limit \in Nat /\ c.go_on \in BOOLEAN
  BY ReaderAssumption
<1>3. PICK K, N, n, m, a : /\ K = Backed(files) /\ N = Len(files) /\ n = archive[1].nums
                           /\ m = Before(blocks) /\ a = archive[1]
  OBVIOUS
<1>4. IsMap(K, N, n, m, a) /\ Len(n) = Len(blocks) /\ Len(a.files) = N /\ N \in Nat /\ Len(n) \in Nat
  BY <1>1, <1>3, OpenedIsMap
<1>5. Table(K, N, n, m) /\ K \in SUBSET (1..N) /\ \A b \in 1..Len(n) : n[b] \in Nat
  BY <1>4, TableTypes DEF IsMap, Table
<1>6. /\ phase = "blocks" /\ block <= Len(n) /\ next < n[block]
      /\ IF NextFile > N
         THEN phase' = "panic"
         ELSE LET seen == ReadEntry(NextFile, output, c.limit)
              IN  /\ visits' = Append(visits, seen)
                  /\ stopped' = (stopped \/ ~c.go_on)
                  /\ IF ~seen.ok /\ c.pass_error
                     THEN phase' = "error" /\ UNCHANGED <<block, next, cursor>>
                     ELSE /\ UNCHANGED phase
                          /\ IF c.go_on
                             THEN next' = next + 1 /\ cursor' = cursor + Len(seen.data)
                                                   /\ UNCHANGED block
                             ELSE NextBlock
  BY <1>3, <1>4 DEF Visit
<1>7. /\ cursor \in Nat /\ stopped \in BOOLEAN /\ visits \in Seq(Visits)
      /\ Place(N, n, phase, block, next)
      /\ \A v \in DOMAIN visits : Handed(visits[v])
      /\ ~stopped => Progress(K, N, m, phase, block, next, visits)
  BY <1>1, <1>3 DEF Reading
<1>8. block \in 1..Len(n) /\ next \in Nat
  BY <1>4, <1>6, <1>7 DEF Place
<1>9. PICK file, seen : file = NextFile /\ seen = ReadEntry(file, output, c.limit)
  OBVIOUS
<1>10. /\ file \in K /\ m[block - 1] \in Nat
       /\ {i \in K : CountUpTo(K, i) <= m[block - 1] + (next + 1)}
            = {i \in K : CountUpTo(K, i) <= m[block - 1] + next} \cup {file}
  BY <1>3, <1>4, <1>6, <1>8, <1>9, NextInOrder, SMTT(30) DEF NextFile
<1>11. ~(file > N)
  BY <1>4, <1>5, <1>10
<1>12. seen \in Visits /\ seen.file = file /\ Handed(seen)
  BY <1>1, <1>2, <1>3, <1>4, <1>7, <1>8, <1>9, <1>10, EntryHanded
<1>13. Len(seen.data) \in Nat
  BY <1>12 DEF Visits, Data
<1>14. /\ visits' = Append(visits, seen) /\ stopped' = (stopped \/ ~c.go_on)
       /\ \/ phase' = "error" /\ cursor' = cursor
          \/ phase' = "blocks" /\ c.go_on /\ next' = next + 1 /\ cursor' = cursor + Len(seen.data)
             /\ block' = block
          \/ phase' = "blocks" /\ ~c.go_on /\ block' = block + 1 /\ next' = 0 /\ cursor' = 0
  BY <1>6, <1>9, <1>11 DEF NextBlock
<1>15. /\ visits' \in Seq(Visits) /\ Len(visits') = Len(visits) + 1
       /\ Visited(visits') = Visited(visits) \cup {file}
       /\ \A v \in DOMAIN visits' : Handed(visits'[v])
  BY <1>7, <1>12, <1>14, OneMore
<1>16. \A v \in DOMAIN visits' : Handed(visits[v])'
  BY <1>1, <1>15 DEF Handed
<1>17. stopped' \in BOOLEAN /\ cursor' \in Nat /\ phase' \in {"blocks", "error"}
  BY <1>2, <1>7, <1>13, <1>14
<1>18. Place(N, n, phase', block', next')
  <2>1. n[block] \in Nat /\ (block + 1 <= Len(n) => n[block + 1] \in Nat)
    BY <1>5, <1>8
  <2>. QED BY <1>4, <1>6, <1>8, <1>14, <2>1 DEF Place
<1>19. ASSUME ~stopped' PROVE Progress(K, N, m, phase', block', next', visits')
  <2>1. CASE phase' = "error"
    BY <2>1 DEF Progress
  <2>2. CASE phase' = "blocks" /\ next' = next + 1 /\ block' = block
    <3>1. Progress(K, N, m, phase, block, next, visits)
      BY <1>2, <1>7, <1>14, <1>19
    <3>2. /\ Len(visits) = m[block - 1] + next
          /\ Visited(visits) = {i \in K : CountUpTo(K, i) <= m[block - 1] + next}
      BY <1>6, <3>1 DEF Progress
    <3>3. Len(visits') = m[block - 1] + (next + 1)
      BY <1>8, <1>10, <1>15, <3>2
    <3>4. Visited(visits') = {i \in K : CountUpTo(K, i) <= m[block - 1] + (next + 1)}
      BY <1>10, <1>15, <3>2, Zenon
    <3>. QED BY <2>2, <3>3, <3>4 DEF Progress
  <2>. QED BY <1>2, <1>7, <1>14, <1>19, <2>1, <2>2
<1>20. archive'[1].nums = n /\ Len(files') = N /\ Backed(files') = K /\ Before(blocks') = m
  BY <1>1, <1>3
<1>. QED BY <1>14, <1>15, <1>16, <1>17, <1>18, <1>19, <1>20 DEF Reading

\* From block to block.
LEMMA StepBlocks ==
  ASSUME Keeps, for_each_entries \/ BlockEnds \/ BlocksEnd
  PROVE  Reading'
<1>1. /\ OpenInv /\ Reading /\ archive # <<>> /\ archive' = archive
      /\ files' = files /\ contents' = contents /\ blocks' = blocks
  BY DEF Keeps, vars
<1>2. PICK K, N, n, m, a : /\ K = Backed(files) /\ N = Len(files) /\ n = archive[1].nums
                           /\ m = Before(blocks) /\ a = archive[1]
  OBVIOUS
<1>3. IsMap(K, N, n, m, a) /\ Table(K, N, n, m) /\ N \in Nat /\ Len(n) \in Nat
  BY <1>1, <1>2, OpenedIsMap DEF IsMap
<1>4. /\ m[0] + 0 = 0 /\ {i \in K : CountUpTo(K, i) <= m[0] + 0} = {}
      /\ \A b \in 1..Len(n) : m[b - 1] + n[b] = m[(b + 1) - 1] + 0
      /\ m[(Len(n) + 1) - 1] + 0 = Cardinality(K)
      /\ {i \in K : CountUpTo(K, i) <= m[(Len(n) + 1) - 1] + 0} = K
      /\ \A b \in 1..Len(n) : n[b] \in Nat
  BY <1>3, BlocksInOrder, TableTypes
<1>5. /\ cursor \in Nat /\ stopped \in BOOLEAN /\ visits \in Seq(Visits)
      /\ phase = "open" => visits = <<>> /\ ~stopped
      /\ Place(N, n, phase, block, next)
      /\ \A v \in DOMAIN visits : Handed(visits[v])
      /\ ~stopped => Progress(K, N, m, phase, block, next, visits)
  BY <1>1, <1>2 DEF Reading
<1>6. archive'[1].nums = n /\ Len(files') = N /\ Backed(files') = K /\ Before(blocks') = m
  BY <1>1, <1>2
<1>7. /\ visits' = visits /\ stopped' = stopped /\ phase' \in {"blocks", "empties"}
      /\ cursor' \in Nat
  BY <1>5 DEF for_each_entries, BlockEnds, BlocksEnd, NextBlock
<1>8. \A v \in DOMAIN visits' : Handed(visits[v])'
  BY <1>1, <1>5, <1>7 DEF Handed
<1>9. Place(N, n, phase', block', next')
      /\ (~stopped => Progress(K, N, m, phase', block', next', visits))
  <2>1. CASE for_each_entries
    <3>1. phase = "open" /\ phase' = "blocks" /\ block' = block + 1 /\ next' = 0
      BY <2>1 DEF for_each_entries, NextBlock
    <3>2. block' = 1
      BY <1>1, <2>1, <3>1 DEF Reading
    <3>3. Len(visits) = 0 /\ Visited(visits) = {}
      BY <1>5, <3>1 DEF Visited
    <3>4. Place(N, n, phase', block', next')
      BY <1>3, <1>4, <3>1, <3>2 DEF Place
    <3>5. Progress(K, N, m, phase', block', next', visits)
      BY <1>4, <3>1, <3>2, <3>3 DEF Progress
    <3>. QED BY <3>4, <3>5
  <2>2. CASE BlockEnds
    <3>1. /\ phase = "blocks" /\ block <= Len(n) /\ next = n[block]
          /\ phase' = "blocks" /\ block' = block + 1 /\ next' = 0
      BY <1>2, <2>2 DEF BlockEnds, NextBlock
    <3>2. block \in 1..Len(n)
      BY <1>3, <1>5, <3>1 DEF Place
    <3>3. block + 1 <= Len(n) => n[block + 1] \in Nat
      BY <1>3, <1>4, <3>2
    <3>4. Place(N, n, phase', block', next')
      BY <1>3, <3>1, <3>2, <3>3 DEF Place
    <3>5. ASSUME ~stopped PROVE Progress(K, N, m, phase', block', next', visits)
      <4>1. /\ Len(visits) = m[block - 1] + n[block]
            /\ Visited(visits) = {i \in K : CountUpTo(K, i) <= m[block - 1] + n[block]}
        BY <1>5, <3>1, <3>5 DEF Progress
      <4>2. m[block - 1] + n[block] = m[(block + 1) - 1] + 0
        BY <1>4, <3>2
      <4>3. /\ Len(visits) = m[(block + 1) - 1] + 0
            /\ Visited(visits) = {i \in K : CountUpTo(K, i) <= m[(block + 1) - 1] + 0}
        BY <4>1, <4>2
      <4>. QED BY <3>1, <4>3 DEF Progress
    <3>. QED BY <3>4, <3>5
  <2>3. CASE BlocksEnd
    <3>1. /\ phase = "blocks" /\ block > Len(n) /\ phase' = "empties" /\ next' = 1
      BY <1>2, <2>3 DEF BlocksEnd
    <3>2. block = Len(n) + 1 /\ next = 0
      BY <1>3, <1>5, <3>1 DEF Place
    <3>3. Place(N, n, phase', block', next')
      BY <1>3, <3>1 DEF Place
    <3>4. ASSUME ~stopped PROVE Progress(K, N, m, phase', block', next', visits)
      <4>1. /\ Len(visits) = m[block - 1] + 0
            /\ Visited(visits) = {i \in K : CountUpTo(K, i) <= m[block - 1] + 0}
        BY <1>5, <3>1, <3>2, <3>4 DEF Progress
      <4>2. Len(visits) = Cardinality(K) /\ Visited(visits) = K
        BY <1>4, <3>2, <4>1
      <4>3. CountUpTo(K, 0) = 0 /\ Cardinality(K) \in Nat
        BY <1>3, Places, TableTypes
      <4>4. Len(visits) + CountUpTo(K, 1 - 1) = Cardinality(K) + 1 - 1 /\ K = K \cup 1..(1 - 1)
        BY <4>2, <4>3
      <4>. QED BY <3>1, <4>2, <4>4 DEF Progress
    <3>. QED BY <3>3, <3>4
  <2>. QED BY <2>1, <2>2, <2>3
<1>. QED BY <1>5, <1>6, <1>7, <1>8, <1>9 DEF Reading

\* The entries without a block.
LEMMA StepEmpty ==
  ASSUME Keeps, EmptiesEnd \/ \E c \in Closures : VisitEmpty(c.go_on)
  PROVE  Reading'
<1>1. /\ OpenInv /\ Reading /\ archive # <<>> /\ archive' = archive
      /\ files' = files /\ contents' = contents /\ blocks' = blocks
  BY DEF Keeps, vars
<1>2. PICK K, N, n, m, a : /\ K = Backed(files) /\ N = Len(files) /\ n = archive[1].nums
                           /\ m = Before(blocks) /\ a = archive[1]
  OBVIOUS
<1>3. IsMap(K, N, n, m, a) /\ Table(K, N, n, m) /\ N \in Nat /\ Len(a.files) = N
  BY <1>1, <1>2, OpenedIsMap DEF IsMap
<1>4. K \in SUBSET (1..N) /\ Cardinality(K) \in Nat
  BY <1>3, TableTypes DEF Table
<1>5. /\ cursor \in Nat /\ stopped \in BOOLEAN /\ visits \in Seq(Visits)
      /\ Place(N, n, phase, block, next)
      /\ \A v \in DOMAIN visits : Handed(visits[v])
      /\ ~stopped => Progress(K, N, m, phase, block, next, visits)
  BY <1>1, <1>2 DEF Reading
<1>6. archive'[1].nums = n /\ Len(files') = N /\ Backed(files') = K /\ Before(blocks') = m
  BY <1>1, <1>2
<1>7. phase = "empties" /\ next \in 1..(N + 1) /\ cursor' = cursor
  BY <1>5 DEF EmptiesEnd, VisitEmpty, Place
<1>8. CASE EmptiesEnd
  <2>1. /\ next > N /\ phase' = "done" /\ UNCHANGED <<visits, stopped>>
    BY <1>2, <1>3, <1>8 DEF EmptiesEnd
  <2>2. next - 1 = N /\ next = N + 1
    BY <1>3, <1>7, <2>1
  <2>3. ASSUME ~stopped PROVE Progress(K, N, m, phase', block', next', visits)
    <3>1. /\ Len(visits) + CountUpTo(K, next - 1) = Cardinality(K) + next - 1
          /\ Visited(visits) = K \cup 1..(next - 1)
      BY <1>5, <1>7, <2>3 DEF Progress
    <3>2. CountUpTo(K, N) = Cardinality(K)
      BY <1>3, Places
    <3>3. Len(visits) \in Nat
      BY <1>5
    <3>4. Len(visits) = N
      BY <1>3, <1>4, <2>2, <3>1, <3>2, <3>3
    <3>5. Visited(visits) = 1..N
      BY <1>4, <2>2, <3>1
    <3>. QED BY <2>1, <3>4, <3>5 DEF Progress
  <2>4. \A v \in DOMAIN visits : Handed(visits[v])'
    BY <1>1, <1>5, <2>1 DEF Handed
  <2>5. Place(N, n, phase', block', next')
    BY <2>1 DEF Place
  <2>. QED BY <1>5, <1>6, <1>7, <2>1, <2>3, <2>4, <2>5 DEF Reading
<1>9. ASSUME NEW c \in Closures, VisitEmpty(c.go_on) PROVE Reading'
  <2>1. c.go_on \in BOOLEAN
    BY ReaderAssumption
  <2>2. next \in 1..N /\ next' = next + 1
    BY <1>2, <1>3, <1>7, <1>9 DEF VisitEmpty
  <2>3. (a.of_file[next] = 0) <=> next \notin K
    <3>1. InBlock(K, n, m, next, a.of_file[next])
      BY <1>3, <2>2 DEF IsMap, Mapped
    <3>. QED BY <3>1 DEF InBlock
  <2>4. Place(N, n, phase', block', next') /\ phase' \in {"empties", "done"}
    BY <1>3, <1>7, <1>9, <2>2 DEF Place, VisitEmpty
  <2>5. PICK x : x = next
    OBVIOUS
  <2>6. /\ CountUpTo(K, x) = CountUpTo(K, x - 1) + IF x \in K THEN 1 ELSE 0
        /\ CountUpTo(K, x - 1) \in Nat /\ CountUpTo(K, x) \in Nat /\ (x + 1) - 1 = x
    <3>1. x - 1 \in 0..N /\ x \in 0..N /\ x \in 1..N
      BY <1>3, <2>2, <2>5
    <3>. QED BY <1>3, <3>1, Places
  <2>7. Len(visits) \in Nat
    BY <1>5
  <2>8. \A y \in 1..x : y \in 1..(x - 1) \/ y = x
    BY <2>2, <2>5
  <2>9. \A y \in 1..(x - 1) : y \in 1..x
    BY <2>2, <2>5
  <2>10. CASE next \in K
    <3>1. UNCHANGED <<visits, phase, stopped>>
      BY <1>2, <1>9, <2>3, <2>10 DEF VisitEmpty
    <3>2. ASSUME ~stopped PROVE Progress(K, N, m, phase', block', next', visits)
      <4>1. Len(visits) + CountUpTo(K, x - 1) = Cardinality(K) + x - 1 /\ Visited(visits) = K \cup 1..(x - 1)
        BY <1>5, <1>7, <2>5, <3>2 DEF Progress
      <4>2. Len(visits) + CountUpTo(K, x) = Cardinality(K) + (x + 1) - 1
        BY <1>4, <2>2, <2>5, <2>6, <2>7, <2>10, <4>1, SMTT(30)
      <4>3. x \in K /\ x \in 1..x
        BY <2>2, <2>5, <2>10
      <4>4. Visited(visits) = K \cup 1..x
        BY <2>8, <2>9, <4>1, <4>3
      <4>. QED BY <1>7, <2>2, <2>5, <2>6, <3>1, <4>2, <4>4 DEF Progress
    <3>3. \A v \in DOMAIN visits : Handed(visits[v])'
      BY <1>1, <1>5, <3>1 DEF Handed
    <3>. QED BY <1>5, <1>6, <1>7, <2>4, <3>1, <3>2, <3>3 DEF Reading
  <2>11. CASE next \notin K
    <3>1. PICK seen : seen = [file |-> next, data |-> <<>>, to_end |-> TRUE, ok |-> TRUE]
      OBVIOUS
    <3>2. /\ visits' = Append(visits, seen) /\ phase' = IF c.go_on THEN "empties" ELSE "done"
          /\ stopped' = (stopped \/ ~c.go_on)
      BY <1>2, <1>9, <2>3, <2>11, <3>1 DEF VisitEmpty
    <3>3. seen \in Visits /\ seen.file = x
      <4>1. <<>> \in Data /\ next \in Nat
        BY <2>2 DEF Data
      <4>. QED BY <2>5, <3>1, <4>1 DEF Visits
    <3>4. Handed(seen)
      <4>1. contents[x] \in Data
        BY <1>1, <1>2, <2>2, <2>5 DEF OpenInv, ListInv, Listed
      <4>2. Len(seen.data) = Len(contents[x]) => seen.data = contents[x]
        BY <3>1, <4>1 DEF Data
      <4>. QED BY <1>2, <2>2, <2>5, <3>3, <4>2 DEF Handed
    <3>5. /\ visits' \in Seq(Visits) /\ Len(visits') = Len(visits) + 1
          /\ Visited(visits') = Visited(visits) \cup {x}
          /\ \A v \in DOMAIN visits' : Handed(visits'[v])
      BY <1>5, <3>2, <3>3, <3>4, OneMore
    <3>6. \A v \in DOMAIN visits' : Handed(visits[v])'
      BY <1>1, <3>5 DEF Handed
    <3>7. stopped' \in BOOLEAN
      BY <1>5, <2>1, <3>2
    <3>8. ASSUME ~stopped' PROVE Progress(K, N, m, phase', block', next', visits')
      <4>1. ~stopped /\ phase' = "empties"
        BY <1>5, <2>1, <3>2, <3>8
      <4>2. Len(visits) + CountUpTo(K, x - 1) = Cardinality(K) + x - 1 /\ Visited(visits) = K \cup 1..(x - 1)
        BY <1>5, <1>7, <2>5, <4>1 DEF Progress
      <4>3. CountUpTo(K, x) = CountUpTo(K, x - 1)
        BY <2>5, <2>6, <2>11
      <4>4. Len(visits') + CountUpTo(K, x) = Cardinality(K) + (x + 1) - 1
        BY <1>4, <2>2, <2>5, <2>6, <2>7, <3>5, <4>2, <4>3, SMTT(30)
      <4>5. x \in 1..x
        BY <2>2, <2>5
      <4>6. Visited(visits') = K \cup 1..x
        BY <2>8, <2>9, <3>5, <4>2, <4>5
      <4>. QED BY <2>2, <2>5, <2>6, <4>1, <4>4, <4>6 DEF Progress
    <3>. QED BY <1>5, <1>6, <1>7, <2>4, <3>5, <3>6, <3>7, <3>8 DEF Reading
  <2>. QED BY <2>10, <2>11
<1>. QED BY <1>8, <1>9

\* A step of the writer or of the reader leaves the reader's invariant.
LEMMA StepReading ==
  ASSUME FilesInBlocks, OpenInv, Reading, [RTNext]_allvars
  PROVE  Reading'
<1>1. CASE WriteStep
  <2>1. header = <<>>
    BY <1>1, NothingBehindHeader DEF WriteStep, OpenInv, ListInv
  <2>2. archive = <<>> /\ phase \in {"closed", "failed"}
    BY <2>1 DEF OpenInv, Opened
  <2>3. UNCHANGED rvars
    BY <1>1 DEF WriteStep
  <2>4. visits = <<>> /\ stopped = FALSE /\ block = 0 /\ cursor \in Nat
    BY <2>2 DEF Reading
  <2>5. archive' = <<>> /\ phase' \in {"closed", "failed"} /\ visits' = <<>> /\ stopped' = FALSE
        /\ block' = 0 /\ cursor' \in Nat
    BY <2>2, <2>3, <2>4 DEF rvars
  <2>6. visits' \in Seq(Visits) /\ DOMAIN visits' = {}
    BY <2>5
  <2>. QED BY <2>5, <2>6 DEF Reading, Progress
<1>2. CASE ReadStep
  <2>1. UNCHANGED vars /\ ReaderNext(header[1], output, HeaderCell, start)
    BY <1>2 DEF ReadStep
  <2>2. ASSUME NEW tail \in Tails, open(header[1], output, HeaderCell, start, tail)
        PROVE  Reading'
    <3>1. /\ phase = "closed" /\ phase' \in {"failed", "open"}
          /\ UNCHANGED <<block, cursor, visits, stopped>>
      BY <2>2 DEF open
    <3>2. visits = <<>> /\ stopped = FALSE /\ block = 0 /\ cursor \in Nat
      BY <3>1 DEF Reading
    <3>. QED BY <3>1, <3>2 DEF Reading, Progress, Place
  <2>3. ASSUME phase \notin {"closed", "failed"}, archive' = archive
        PROVE  Keeps
    <3>1. archive # <<>>
      BY <2>3 DEF OpenInv, Opened
    <3>. QED BY <2>1, <2>3, <3>1 DEF Keeps
  <2>4. CASE for_each_entries \/ BlockEnds \/ BlocksEnd
    <3>1. phase \in {"open", "blocks"} /\ archive' = archive
      BY <2>4 DEF for_each_entries, BlockEnds, BlocksEnd
    <3>. QED BY <2>3, <2>4, <3>1, StepBlocks
  <2>5. ASSUME NEW c \in Closures, Visit(output, c.limit, c.go_on, c.pass_error)
        PROVE  Reading'
    <3>1. phase = "blocks" /\ archive' = archive
      BY <2>5 DEF Visit
    <3>. QED BY <2>3, <2>5, <3>1, StepVisit
  <2>6. CASE EmptiesEnd \/ \E c \in Closures : VisitEmpty(c.go_on)
    <3>1. phase = "empties" /\ archive' = archive
      BY <2>6 DEF EmptiesEnd, VisitEmpty
    <3>. QED BY <2>3, <2>6, <3>1, StepEmpty
  <2>. QED BY <2>1, <2>2, <2>4, <2>5, <2>6 DEF ReaderNext
<1>3. CASE UNCHANGED allvars
  <2>1. /\ UNCHANGED <<files, contents, blocks>>
        /\ UNCHANGED <<phase, archive, block, next, cursor, visits, stopped>>
    BY <1>3 DEF allvars, vars, rvars
  <2>2. \A v \in DOMAIN visits : Handed(visits[v])'
    BY <2>1 DEF Handed, Reading
  <2>. QED BY <2>1, <2>2 DEF Reading
<1>. QED BY <1>1, <1>2, <1>3 DEF RTNext

\* At the beginning nothing is read.
LEMMA InitReading == RTInit => Reading
<1>. SUFFICES ASSUME RTInit PROVE Reading
  OBVIOUS
<1>1. /\ phase = "closed" /\ archive = <<>> /\ block = 0 /\ cursor = 0
      /\ visits = <<>> /\ stopped = FALSE
  BY DEF RTInit, ReaderInit
<1>2. visits \in Seq(Visits) /\ DOMAIN visits = {}
  BY <1>1
<1>. QED BY <1>1, <1>2 DEF Reading, Progress

\* The invariant of writer and reader together: the archive that is open is the
\* map of what was pushed, and the visits so far are those of the entries before
\* the reader's place in it (for_each_entries, BlockDecoder).
THEOREM ReadingInductive == ASSUME FilesInBlocks PROVE RTSpec => [](OpenInv /\ Reading)
<1>1. RTInit => OpenInv /\ Reading
  BY InitOpenInv, InitReading
<1>2. OpenInv /\ Reading /\ [RTNext]_allvars => (OpenInv /\ Reading)'
  BY StepOpenInv, StepReading
<1>. QED BY <1>1, <1>2, PTL DEF RTSpec

\* The sub stream counts of the header never lead behind the entry table.
THEOREM ReaderNeverPanics == ASSUME FilesInBlocks PROVE RTSpec => []NeverPanics
<1>1. Reading => NeverPanics
  BY DEF Reading, NeverPanics
<1>. QED BY <1>1, ReadingInductive, PTL

\* What is handed out whole and without an error is what was pushed.
THEOREM ReaderNeverWrong == ASSUME FilesInBlocks PROVE RTSpec => []NeverSilentlyWrong
<1>1. Reading => NeverSilentlyWrong
  BY DEF Reading, Handed, NeverSilentlyWrong
<1>. QED BY <1>1, ReadingInductive, PTL

\* A closure that goes on is given every entry, each of them once.
THEOREM EntriesOnce == ASSUME FilesInBlocks PROVE RTSpec => []EveryEntryOnce
<1>1. ASSUME OpenInv, Reading PROVE EveryEntryOnce
  <2>1. files \in Seq(Entries)
    BY <1>1 DEF OpenInv, ListInv, WInv, Types
  <2>2. DOMAIN files = 1..Len(files)
    BY <2>1
  <2>. QED BY <1>1, <2>2 DEF Reading, Progress, Visited, EveryEntryOnce
<1>. QED BY <1>1, ReadingInductive, PTL

-----------------------------------------------------------------------------
(* Which headers parse *)

\* A header of packed streams parses unless some of them and not all are empty.
LEMMA PackInfoParses ==
  ASSUME WInv, Packed
  PROVE  (Len(pack_info.sizes) > 0 => read_pack_info_ok(write_pack_info(pack_info))) <=> ~PartlyDefined
<1>1. PICK s, c, n : s = pack_info.sizes /\ c = pack_info.crcs /\ n = Len(pack_info.sizes)
  OBVIOUS
<1>2. /\ s \in Seq(Nat) /\ c \in Seq(Seq(Cells)) /\ Len(s) = n /\ Len(c) = n /\ n \in Nat
      /\ DOMAIN blocks = 1..n /\ DOMAIN c = 1..n /\ DOMAIN s = 1..n
  BY <1>1, SMTT(30) DEF WInv, Types, StreamsTileOutput
<1>3. PICK Z, D : Z = {b \in 1..n : s[b] = 0} /\ D = {i \in 1..n : c[i] # <<>>}
  OBVIOUS
<1>4. \A i \in 1..n : c[i] # <<>> <=> s[i] # 0
  <2>. TAKE i \in 1..n
  <2>1. PICK x : x = c[i]
    OBVIOUS
  <2>2. x \in Seq(Cells) /\ Len(x) = s[i]
    BY <1>1, <1>2, <2>1 DEF Packed
  <2>3. x # <<>> <=> Len(x) # 0
    BY <2>2
  <2>. QED BY <2>1, <2>2, <2>3
<1>5. D = {i \in 1..n : s[i] # 0}
  BY <1>3, <1>4
<1>6. /\ D = {} <=> Z = 1..n
      /\ D = 1..n <=> Z = {}
  BY <1>3, <1>5
<1>7. PICK p : p = write_pack_info(pack_info)
  OBVIOUS
<1>8. p.defined = D /\ p.sizes = s /\ p.crcs = IF D = 1..n THEN c ELSE <<>>
  BY <1>1, <1>2, <1>3, <1>7 DEF write_pack_info, NoCrc, Crc
<1>9. read_pack_info_ok(p) <=> D = {} \/ Len(p.crcs) = n
  BY <1>2, <1>8 DEF read_pack_info_ok
<1>10. Len(p.crcs) = IF D = 1..n THEN n ELSE 0
  BY <1>2, <1>8
<1>11. ~PartlyDefined <=> Z = {} \/ Z = 1..n
  BY <1>1, <1>2, <1>3 DEF PartlyDefined
<1>12. n = 0 => Z = {}
  BY <1>3
<1>. QED BY <1>1, <1>2, <1>6, <1>7, <1>9, <1>10, <1>11, <1>12

\* More bits take no fewer bytes.
LEMMA BytesGrow ==
  ASSUME NEW m \in Nat, NEW n \in Nat, m <= n
  PROVE  BytesFor(m) \in Nat /\ BytesFor(n) \in Nat /\ BytesFor(m) <= BytesFor(n)
<1>1. PICK k, x, y : k = BitsPerByte /\ x = m + BitsPerByte - 1 /\ y = n + BitsPerByte - 1
  OBVIOUS
<1>2. k \in Nat /\ k > 0 /\ x \in Nat /\ y \in Nat /\ x <= y
  BY <1>1, BitsPerByteAssumption
<1>3. PICK p, q : p = x \div k /\ q = y \div k
  OBVIOUS
<1>4. p \in Int /\ q \in Int /\ k * p <= x /\ x < k * (p + 1) /\ k * q <= y /\ y < k * (q + 1)
  BY <1>2, <1>3
<1>5. p \in Nat /\ q \in Nat
  BY <1>2, <1>4
<1>6. p <= q
  <2>. SUFFICES ASSUME q + 1 <= p PROVE FALSE
    BY <1>4
  <2>1. k * (q + 1) <= k * p
    BY <1>2, <1>5
  <2>. QED BY <1>2, <1>4, <1>5, <2>1
<1>. QED BY <1>1, <1>3, <1>5, <1>6 DEF BytesFor

\* The greatest of some numbers.
LEMMA MaxOf ==
  ASSUME NEW n \in Nat, NEW S \in SUBSET (1..n), S # {}
  PROVE  Max(S) \in S /\ \A x \in S : x <= Max(S)
<1>1. (\A x \in S : x \in Nat /\ 1 <= x /\ x <= n) /\ S \subseteq Nat
  OBVIOUS
<1>2. PICK T : T = {k \in Nat : \A x \in S : x <= k}
  OBVIOUS
<1>3. n \in T /\ T \subseteq Nat
  BY <1>1, <1>2
<1>4. PICK m \in T : \A k \in T : m <= k
  BY <1>3, LeastNat
<1>5. m \in Nat /\ \A x \in S : x <= m
  BY <1>2, <1>4
<1>6. m \in S
  <2>. SUFFICES ASSUME m \notin S PROVE FALSE
    OBVIOUS
  <2>1. PICK z : z \in S
    OBVIOUS
  <2>2. m # 0
    BY <1>1, <1>5, <2>1
  <2>3. \A x \in S : x <= m - 1
    BY <1>1, <1>5
  <2>4. m - 1 \in T
    BY <1>2, <1>5, <2>2, <2>3
  <2>. QED BY <1>4, <1>5, <2>4
<1>7. \E x \in S : \A y \in S : x >= y
  BY <1>1, <1>5, <1>6
<1>8. Max(S) \in S /\ \A y \in S : Max(S) >= y
  BY <1>7 DEF Max
<1>. QED BY <1>1, <1>8

\* the bits of the marked ones among the entries without a stream
Bits(fs, marked) == {EmptyCounter(fs, i) : i \in marked}

\* A vector that ends with its last one has bytes for all entries without a stream,
\* unless it is short.
LEMMA VectorParses ==
  ASSUME files \in Seq(Entries), NEW marked \in SUBSET EmptyStreams(files)
  PROVE  InStep(write_bit_set(Bits(files, marked), GrownTo(Bits(files, marked))),
                Cardinality(EmptyStreams(files)))
         <=> ~Short(marked)
<1>1. PICK n, T, S : n = Len(files) /\ T = EmptyStreams(files) /\ S = Bits(files, marked)
  OBVIOUS
<1>2. n \in Nat /\ T \in SUBSET (1..n) /\ marked \in SUBSET (1..n) /\ marked \subseteq T
      /\ Cardinality(T) \in Nat /\ \A i \in 1..n : EmptyCounter(files, i) = CountUpTo(T, i)
  <2>1. Len(files) \in Nat
    OBVIOUS
  <2>. QED BY <1>1, <2>1, EmptyFacts
<1>3. S = {CountUpTo(T, i) : i \in marked}
  BY <1>1, <1>2 DEF Bits
<1>4. CASE marked = {}
  <2>1. S = {} /\ ~Short(marked)
    BY <1>3, <1>4 DEF Short
  <2>2. InStep(write_bit_set(S, GrownTo(S)), Cardinality(T))
    BY <2>1 DEF InStep, write_bit_set
  <2>. QED BY <1>1, <2>1, <2>2
<1>5. CASE marked # {}
  <2>1. PICK m : m = Max(marked)
    OBVIOUS
  <2>2. m \in marked /\ m \in Nat /\ \A i \in marked : i <= m /\ i \in Nat
    <3>1. m \in marked /\ \A i \in marked : i <= m
      BY <1>2, <1>5, <2>1, MaxOf
    <3>2. \A i \in marked : i \in Nat
      BY <1>2
    <3>. QED BY <3>1, <3>2
  <2>3. \A i \in marked : CountUpTo(T, i) <= CountUpTo(T, m) /\ CountUpTo(T, i) \in Nat
    BY <1>2, <2>2, CountGrows
  <2>4. CountUpTo(T, m) <= CountUpTo(T, n) /\ CountUpTo(T, n) = Cardinality(T) /\ CountUpTo(T, m) \in Nat
    <3>1. m <= n
      BY <1>2, <2>2
    <3>2. CountUpTo(T, n) = Cardinality(T)
      BY <1>2, CountStep
    <3>. QED BY <1>2, <2>2, <3>1, <3>2, CountGrows
  <2>5. CountUpTo(T, m) > 0
    <3>1. 0 <= m /\ 0 < m /\ m \in T /\ 0 \in Nat
      BY <1>2, <2>2
    <3>2. CountUpTo(T, 0) < CountUpTo(T, m) /\ CountUpTo(T, 0) \in Nat
      BY <1>2, <2>2, <3>1, CountGrows
    <3>. QED BY <2>4, <3>2
  <2>6. Max(S) = CountUpTo(T, m)
    <3>1. S # {} /\ CountUpTo(T, m) \in S /\ \A x \in S : x <= CountUpTo(T, m) /\ x \in Nat
      BY <1>3, <2>2, <2>3
    <3>2. \E x \in S : \A y \in S : x >= y
      BY <3>1
    <3>3. Max(S) \in S /\ \A y \in S : Max(S) >= y
      BY <3>2 DEF Max
    <3>. QED BY <3>1, <3>3
  <2>7. S # {} /\ GrownTo(S) = CountUpTo(T, m)
    BY <1>3, <2>2, <2>6 DEF GrownTo
  <2>8. BytesFor(CountUpTo(T, m)) <= BytesFor(Cardinality(T))
        /\ BytesFor(CountUpTo(T, m)) \in Nat /\ BytesFor(Cardinality(T)) \in Nat
    BY <1>2, <2>4, BytesGrow
  <2>9. InStep(write_bit_set(S, GrownTo(S)), Cardinality(T))
          <=> BytesFor(CountUpTo(T, m)) = BytesFor(Cardinality(T))
    BY <2>7 DEF InStep, write_bit_set
  <2>10. Short(marked) <=> BytesFor(CountUpTo(T, m)) < BytesFor(Cardinality(T))
    BY <1>1, <1>5, <2>1 DEF Short, CountUpTo
  <2>. QED BY <1>1, <2>7, <2>8, <2>9, <2>10
<1>. QED BY <1>4, <1>5

\* The vectors of a header that has been written are in step unless one is short.
LEMMA VectorsParse ==
  ASSUME files \in Seq(Entries), NEW B, NEW pi, NEW h, h = write_header(files, pi, B)
  PROVE  FilesInStep(h) <=> ~ShortVector
<1>1. PICK T, E, A : /\ T = EmptyStreams(files)
                     /\ E = {i \in T : ~files[i].is_directory} /\ A = {i \in T : ~files[i].is_anti_item}
  OBVIOUS
<1>2. E \in SUBSET EmptyStreams(files) /\ A \in SUBSET EmptyStreams(files)
  BY <1>1
<1>3. ShortVector <=> Short(E) \/ Short(A)
  BY <1>1 DEF ShortVector
<1>4. /\ h.empty_files = write_bit_set(Bits(files, E), GrownTo(Bits(files, E)))
      /\ h.anti_items = write_bit_set(Bits(files, A), GrownTo(Bits(files, A)))
      /\ h.empty_streams = write_bit_set(T, Len(files))
  BY <1>1 DEF write_header, write_file_empty_files, write_file_anti_items, write_file_empty_streams,
              EmptyStreamsWhere, Bits
<1>5. h.empty_streams.bits = EmptyStreams(files)
  BY <1>1, <1>4 DEF write_bit_set
<1>6. PlainFilesInStep(h) <=> ~Short(E)
  BY <1>2, <1>4, <1>5, VectorParses, Zenon DEF PlainFilesInStep
<1>7. AntiItemsInStep(h) <=> ~Short(A)
  BY <1>2, <1>4, <1>5, VectorParses, Zenon DEF AntiItemsInStep
<1>. QED BY <1>3, <1>6, <1>7, Zenon DEF FilesInStep

\* The table of sizes of a header that has been written is long enough for the entries
\* with a stream if all have data.
LEMMA FilesParse ==
  ASSUME files \in Seq(Entries), NEW B, WellFormed(B), NEW pi, NEW h, h = write_header(files, pi, B)
  PROVE  read_files_info_ok(h) <=> Len(files) - Cardinality(EmptyStreams(files)) <= Len(AllData(B))
<1>1. StreamsOf(h, files, B)
  BY StreamsWritten
<1>2. NumStreamFiles(h) = Len(files) - Cardinality(EmptyStreams(files))
  BY <1>1 DEF StreamsOf, NumStreamFiles
<1>3. Len(read_sub_streams_info(h).sizes) = Len(AllData(B))
  <2>1. /\ AllData(B) \in Seq(Data)
        /\ read_sub_streams_info(h).sizes = SizesOf(AllData(B), Len(AllData(B)))
    BY <1>1, SubStreamsRead DEF StreamsOf
  <2>. QED BY <2>1 DEF SizesOf
<1>. QED BY <1>2, <1>3 DEF read_files_info_ok

\* The table is long enough unless an entry claims a stream that nobody wrote.
LEMMA TableLong ==
  ASSUME Listed(files, contents, blocks)
  PROVE  Unbacked = {} <=> Len(files) - Cardinality(EmptyStreams(files)) <= Len(AllData(blocks))
<1>1. PICK S, T, K : S = Streams(files) /\ T = EmptyStreams(files) /\ K = Backed(files)
  OBVIOUS
<1>2. files \in Seq(Entries) /\ Len(AllData(blocks)) = Cardinality(K)
  BY <1>1 DEF Listed
<1>3. Unbacked = S \ K
  BY <1>1 DEF Unbacked, Streams, Backed
<1>4. /\ IsFiniteSet(S) /\ Cardinality(S) \in Nat /\ Cardinality(T) \in Nat /\ Len(files) \in Nat
      /\ Cardinality(S) + Cardinality(T) = Len(files)
  <2>1. Len(files) \in Nat
    BY <1>2
  <2>. QED BY <1>1, <1>2, <2>1, EmptyFacts
<1>5. ASSUME S \subseteq K PROVE Cardinality(S) <= Cardinality(K)
  <2>1. K \in SUBSET (1..Len(files)) /\ IsFiniteSet(1..Len(files))
    <3>1. K \in SUBSET (1..Len(files))
      BY <1>1, <1>2, RankFacts
    <3>2. 1 \in Int /\ Len(files) \in Int
      BY <1>4
    <3>. QED BY <3>1, <3>2, FS_Interval
  <2>2. IsFiniteSet(K)
    BY <2>1, FS_Subset
  <2>. QED BY <1>5, <2>2, FS_Subset
<1>6. Cardinality(K) \in Nat
  BY <1>1, <1>2, RankFacts
<1>7. ASSUME Len(files) - Cardinality(T) <= Len(AllData(blocks)) PROVE S = K
  BY <1>1, <1>7, AllBacked
<1>8. Unbacked = {} => Len(files) - Cardinality(T) <= Cardinality(K)
  BY <1>3, <1>4, <1>5, <1>6
<1>. QED BY <1>1, <1>2, <1>3, <1>7, <1>8

\* The stream map of what has been written is complete.
LEMMA MapParses ==
  ASSUME Listed(files, contents, blocks), NEW h, h = write_header(files, pack_info, blocks),
         Len(files) - Cardinality(EmptyStreams(files)) <= Len(AllData(blocks))
  PROVE  calculate_stream_map(h, read_files_info(h)).ok = TRUE
<1>1. PICK fs, K, N, n, c : /\ fs = read_files_info(h)
                            /\ K = Backed(files) /\ N = Len(files) /\ n = NumSubStreams(h)
                            /\ c = Before(blocks)
  OBVIOUS
<1>2. files \in Seq(Entries) /\ Streams(files) = K
  BY <1>1, AllBacked DEF Listed
<1>3. Len(fs) = N /\ \A i \in 1..N : Restored(fs[i], files[i])
  BY <1>1, FilesRead
<1>4. Table(K, N, n, c) /\ DOMAIN h.unpack_sizes = 1..Len(n)
  <2>1. HeaderOf(h, blocks)
    BY DEF HeaderOf, write_header
  <2>. QED BY <1>1, <2>1, TableOf
<1>5. ASSUME NEW i \in 1..N PROVE fs[i].has_stream \in BOOLEAN /\ (fs[i].has_stream <=> i \in K)
  <2>1. fs[i].has_stream = files[i].has_stream
    BY <1>3 DEF Restored
  <2>2. files[i].has_stream \in BOOLEAN
    <3>1. files[i] \in Entries
      BY <1>1, <1>2
    <3>. QED BY <3>1, Zenon DEF Entries
  <2>3. files[i].has_stream <=> i \in K
    BY <1>1, <1>2 DEF Streams
  <2>. QED BY <2>1, <2>2, <2>3, Zenon
<1>6. MapsFrom(h, fs, K, N, n, c)
  BY <1>1, <1>4, <1>5 DEF MapsFrom
<1>7. StreamMap(K, N, n, c, calculate_stream_map(h, fs))
  BY <1>3, <1>4, <1>6, MapWhole
<1>. QED BY <1>1, <1>7 DEF StreamMap

\* Which headers parse, read in step: all but those of the two exceptions.
LEMMA HeaderParses ==
  ASSUME WInv, Packed, Listed(files, contents, blocks)
  PROVE  read_header_ok(write_header(files, pack_info, blocks))
         <=> ~(Unbacked # {} \/ PartlyDefined)
<1>1. PICK h : h = write_header(files, pack_info, blocks)
  OBVIOUS
<1>2. files \in Seq(Entries) /\ WellFormed(blocks)
  BY DEF Listed
<1>3. (h.has_pack_info => read_pack_info_ok(h.pack_info)) <=> ~PartlyDefined
  <2>1. h.has_pack_info = (Len(pack_info.sizes) > 0) /\ h.pack_info = write_pack_info(pack_info)
    BY <1>1 DEF write_header
  <2>. QED BY <2>1, PackInfoParses, Zenon
<1>4. read_sub_streams_info(h).ok = TRUE /\ read_sub_streams_info(h).unread = <<>>
  <2>1. HeaderOf(h, blocks)
    BY <1>1 DEF HeaderOf, write_header
  <2>. QED BY <1>2, <2>1, SubStreamsRead
<1>5. read_files_info_ok(h) <=> Unbacked = {}
  BY <1>1, <1>2, FilesParse, TableLong, Zenon
<1>6. Unbacked = {} => calculate_stream_map(h, read_files_info(h)).ok = TRUE
  BY <1>1, MapParses, TableLong, Zenon
<1>. QED BY <1>1, <1>3, <1>4, <1>5, <1>6, Zenon DEF read_header_ok

-----------------------------------------------------------------------------
(* What is refused *)

\* an archive that finish completed and that is read in step fails to open only if its
\* header does not parse
Refused ==
  phase = "failed" =>
    /\ header # <<>>
    /\ start = "complete" /\ FilesInStep(header[1].main) => ~read_header_ok(header[1].main)

\* A step of the writer or of the reader.
LEMMA StepRefused ==
  ASSUME FilesInBlocks, OpenInv, Refused, [RTNext]_allvars
  PROVE  Refused'
<1>1. CASE WriteStep
  <2>1. header = <<>>
    BY <1>1, NothingBehindHeader DEF WriteStep, OpenInv, ListInv
  <2>2. phase' = phase
    BY <1>1 DEF WriteStep, rvars
  <2>. QED BY <2>1, <2>2 DEF Refused
<1>2. CASE ReadStep
  <2>1. header # <<>> /\ header' = header /\ start' = start
    BY <1>2 DEF ReadStep, vars
  <2>2. CASE phase' \in {"blocks", "empties", "done", "error", "panic"}
    BY <2>2 DEF Refused
  <2>3. ASSUME NEW tail \in Tails, archive' \in read(header[1], output, HeaderCell, start, tail),
               phase' = IF archive' = <<>> THEN "failed" ELSE "open"
        PROVE  Refused'
    <3>. SUFFICES ASSUME start = "complete", FilesInStep(header[1].main), phase' = "failed"
                  PROVE  ~read_header_ok(header[1].main)
      BY <2>1 DEF Refused
    <3>1. archive' = <<>>
      BY <2>3
    <3>2. <<>> \in init_archive(header[1], output, HeaderCell)
      BY <2>3, <3>1 DEF read
    <3>3. header[1].encoded => SubSeq(output, header[1].pos + 1, header[1].pos + 1) = <<HeaderCell>>
      BY <2>1 DEF OpenInv, ListInv, Finished
    <3>4. <<>> \in {Parsed(g) : g \in HeadersRead(header[1].main)}
      BY <3>2, <3>3 DEF init_archive
    <3>5. HeadersRead(header[1].main) = {header[1].main}
      BY DEF HeadersRead
    <3>6. Parsed(header[1].main) = <<>>
      BY <3>4, <3>5
    <3>. QED BY <3>6 DEF Parsed
  <2>4. ReaderNext(header[1], output, HeaderCell, start)
    BY <1>2 DEF ReadStep
  <2>. QED BY <2>2, <2>3, <2>4, ReaderKeepsArchive
<1>3. CASE UNCHANGED allvars
  BY <1>3 DEF Refused, allvars, vars, rvars
<1>. QED BY <1>1, <1>2, <1>3 DEF RTNext

\* A header without a short vector is read in step.
LEMMA ReadInStep ==
  ASSUME OpenInv, header # <<>>, ~ShortVector
  PROVE  /\ FilesInStep(header[1].main)
         /\ archive # <<>> => ListsFiles /\ read_header_ok(header[1].main)
<1>1. header[1].main = write_header(files, pack_info, blocks) /\ files \in Seq(Entries)
  BY DEF OpenInv, ListInv, Listed, Finished
<1>2. FilesInStep(header[1].main)
  BY <1>1, VectorsParse
<1>3. HeadersRead(header[1].main) = {header[1].main}
  BY <1>2 DEF HeadersRead
<1>. QED BY <1>2, <1>3, OpenedLists DEF OpenInv, Opened, Opens

\* An archive that finish completed opens and lists the pushed entries, but for the
\* two exceptions, in which it is refused (write_header against read_header), and for
\* headers with a short vector, which are left out.
THEOREM HeaderReadsBack == ASSUME FilesInBlocks PROVE RTSpec => []HeaderRoundTrip
<1>1. RTInit => OpenInv /\ Refused
  BY InitOpenInv DEF RTInit, ReaderInit, Refused
<1>2. OpenInv /\ Refused /\ [RTNext]_allvars => (OpenInv /\ Refused)'
  BY StepOpenInv, StepRefused
<1>3. OpenInv /\ Refused => HeaderRoundTrip
  <2>. SUFFICES ASSUME OpenInv, Refused, phase # "closed", start = "complete", ~ShortVector
                PROVE  /\ phase = "failed" <=> Unbacked # {} \/ PartlyDefined
                       /\ archive # <<>> => ListsFiles
    BY DEF HeaderRoundTrip
  <2>1. (phase = "failed" <=> archive = <<>>) /\ header # <<>>
    BY DEF OpenInv, Opened, Refused
  <2>2. /\ FilesInStep(header[1].main)
        /\ archive # <<>> => ListsFiles /\ read_header_ok(header[1].main)
    BY <2>1, ReadInStep
  <2>3. phase = "failed" <=> ~read_header_ok(header[1].main)
    BY <2>1, <2>2 DEF Refused
  <2>4. header[1].main = write_header(files, pack_info, blocks)
    BY <2>1 DEF OpenInv, ListInv, Finished
  <2>5. read_header_ok(header[1].main) <=> ~(Unbacked # {} \/ PartlyDefined)
    BY <2>4, HeaderParses DEF OpenInv, ListInv
  <2>. QED BY <2>2, <2>3, <2>5, Zenon
<1>. QED BY <1>1, <1>2, <1>3, PTL DEF RTSpec

\* What the search for the header of an interrupted archive opens lists what was pushed
\* (try_to_locale_end_header), headers with a short vector left out.
THEOREM RecoveredLists == ASSUME FilesInBlocks PROVE RTSpec => []RecoveredIsWhole
<1>1. OpenInv => RecoveredIsWhole
  BY ReadInStep DEF OpenInv, Opened, RecoveredIsWhole
<1>. QED BY <1>1, OpenInductive, PTL

-----------------------------------------------------------------------------
(* What a failed push cannot hurt: the writer *)

\* A part of a sequence is what has its elements.
LEMMA CutIs ==
  ASSUME NEW S, NEW s \in Seq(S), NEW at \in Nat, NEW t \in Seq(S), at + Len(t) <= Len(s),
         \A i \in 1..Len(t) : s[at + i] = t[i]
  PROVE  SubSeq(s, at + 1, at + Len(t)) = t
<1>1. PICK x, y, n, r : x = at + 1 /\ y = at + Len(t) /\ n = Len(t) /\ r = SubSeq(s, x, y)
  OBVIOUS
<1>2. n \in Nat /\ x \in Int /\ y \in Int /\ y - x + 1 = n /\ (x <= y <=> n # 0) /\ Len(s) \in Nat
  BY <1>1
<1>3. \A i \in x..y : s[i] \in S
  BY <1>1
<1>4. r \in Seq(S) /\ Len(r) = n
  <2>1. r \in Seq(S) /\ Len(r) = IF x <= y THEN y - x + 1 ELSE 0
    BY <1>1, <1>2, <1>3, SubSeqProperties
  <2>. QED BY <1>2, <2>1
<1>5. \A i \in 1..n : r[i] = s[at + i]
  <2>1. \A i \in 1..n : SubSeq(s, x, y)[i] = s[x + i - 1]
    <3>1. \A i \in 1..(y - x + 1) : SubSeq(s, x, y)[i] = s[x + i - 1]
      BY <1>2, <1>3, SubSeqProperties
    <3>. QED BY <1>2, <3>1
  <2>2. \A i \in 1..n : x + i - 1 = at + i
    BY <1>1
  <2>. QED BY <1>1, <2>1, <2>2
<1>6. \A i \in 1..Len(r) : r[i] = t[i]
  BY <1>1, <1>4, <1>5
<1>7. r = t
  BY <1>1, <1>4, <1>6, SeqEqual
<1>. QED BY <1>1, <1>7

\* What is appended leaves the parts before it, and is the part behind them.
LEMMA CutsStay ==
  ASSUME NEW S, NEW s \in Seq(S), NEW more \in Seq(S)
  PROVE  /\ \A at, n \in Nat : at + n <= Len(s) =>
              SubSeq(s \o more, at + 1, at + n) = SubSeq(s, at + 1, at + n)
         /\ SubSeq(s \o more, Len(s) + 1, Len(s) + Len(more)) = more
<1>1. PICK all : all = s \o more
  OBVIOUS
<1>2. /\ all \in Seq(S) /\ Len(all) = Len(s) + Len(more) /\ Len(s) \in Nat /\ Len(more) \in Nat
      /\ \A i \in 1..Len(s) : all[i] = s[i]
      /\ \A i \in 1..Len(more) : all[Len(s) + i] = more[i]
  <2>1. all \in Seq(S) /\ Len(all) = Len(s) + Len(more) /\ Len(s) \in Nat /\ Len(more) \in Nat
    BY <1>1, ConcatProperties
  <2>2. \A i \in 1..Len(s) : all[i] = s[i]
    BY <1>1
  <2>3. \A i \in 1..Len(more) : all[Len(s) + i] = more[i]
    BY <1>1
  <2>. QED BY <2>1, <2>2, <2>3
<1>3. ASSUME NEW at \in Nat, NEW n \in Nat, at + n <= Len(s)
      PROVE  SubSeq(all, at + 1, at + n) = SubSeq(s, at + 1, at + n)
  <2>1. PICK t, x, y : t = SubSeq(s, x, y) /\ x = at + 1 /\ y = at + n
    OBVIOUS
  <2>2. x \in Int /\ y \in Int /\ y - x + 1 = n /\ \A i \in x..y : s[i] \in S
    BY <1>2, <1>3, <2>1
  <2>3. t \in Seq(S) /\ Len(t) = n
    <3>1. t \in Seq(S) /\ Len(t) = IF x <= y THEN y - x + 1 ELSE 0
      BY <2>1, <2>2, SubSeqProperties
    <3>2. x <= y <=> n # 0
      BY <2>1
    <3>. QED BY <2>2, <3>1, <3>2
  <2>4. \A i \in 1..n : t[i] = all[at + i]
    <3>1. \A i \in 1..(y - x + 1) : SubSeq(s, x, y)[i] = s[x + i - 1]
      BY <2>2, SubSeqProperties
    <3>2. ASSUME NEW i \in 1..n PROVE x + i - 1 = at + i /\ at + i \in 1..Len(s)
      <4>1. i \in Nat /\ 1 <= i /\ i <= n /\ Len(s) \in Nat
        BY <1>2
      <4>. QED BY <1>3, <2>1, <4>1
    <3>. QED BY <1>2, <2>1, <2>2, <3>1, <3>2
  <2>5. at + Len(t) <= Len(all) /\ \A i \in 1..Len(t) : all[at + i] = t[i]
    BY <1>2, <1>3, <2>3, <2>4
  <2>6. SubSeq(all, at + 1, at + Len(t)) = t
    BY <1>2, <2>3, <2>5, CutIs
  <2>. QED BY <2>1, <2>3, <2>6
<1>4. SubSeq(all, Len(s) + 1, Len(s) + Len(more)) = more
  <2>1. PICK at : at = Len(s)
    OBVIOUS
  <2>2. at \in Nat /\ at + Len(more) <= Len(all) /\ \A i \in 1..Len(more) : all[at + i] = more[i]
    BY <1>2, <2>1
  <2>3. SubSeq(all, at + 1, at + Len(more)) = more
    BY <1>2, <2>2, CutIs
  <2>. QED BY <2>1, <2>3
<1>. QED BY <1>1, <1>3, <1>4

\* where the reader looks for a packed stream
PackedAt(sizes, b) == SumFunction(SubSeq(sizes, 1, b - 1))

IsPack(cells, bytes) == \E overhead \in Nat : cells = Pack(bytes, overhead)

\* what lies there is what was packed of the data of block b
Sound(b) ==
  IsPack(SubSeq(output, PackedAt(pack_info.sizes, b) + 1,
                        PackedAt(pack_info.sizes, b) + pack_info.sizes[b]),
         FlattenSeq(BlockCrcs(blocks[b])))

\* block b was pushed before any orphan cell, or has an entry that was
Early(b) == orphans = 0 \/ Before(blocks)[b - 1] < Rank(files, clean)

\* as long as nothing was orphaned all entries are clean, and what was packed until
\* then can be read
Clean ==
  /\ \A i \in 1..Len(contents) : contents[i] # Unreadable
  /\ orphans = 0 => clean = Len(files)
  /\ \A b \in 1..Len(blocks) : Early(b) => Sound(b)

\* A packed stream is looked for in what was written.
LEMMA PackedFits ==
  ASSUME WInv, header = <<>>, NEW b \in 1..Len(blocks)
  PROVE  /\ PackedAt(pack_info.sizes, b) \in Nat /\ pack_info.sizes[b] \in Nat
         /\ PackedAt(pack_info.sizes, b) + pack_info.sizes[b] <= Len(output)
<1>1. PICK s, before, n, total, l : /\ s = pack_info.sizes /\ n = pack_info.sizes[b]
                                    /\ before = PackedAt(pack_info.sizes, b)
                                    /\ total = SumFunction(s) /\ l = Len(output)
  OBVIOUS
<1>2. /\ s \in Seq(Nat) /\ b \in 1..Len(s) /\ orphans \in Nat /\ l \in Nat
      /\ orphans + total = l
  BY <1>1 DEF WInv, Types, StreamsTileOutput
<1>3. before \in Nat /\ total \in Nat /\ before + n <= total
  BY <1>1, <1>2, SumPrefix DEF PackedAt
<1>4. n \in Nat
  BY <1>1, <1>2
<1>5. before + n <= l
  BY <1>2, <1>3, <1>4
<1>. QED BY <1>1, <1>3, <1>4, <1>5

\* A block stays readable when cells are appended.
LEMMA SoundStays ==
  ASSUME WInv, header = <<>>, NEW more \in Seq(Cells), output' = output \o more,
         NEW b \in 1..Len(blocks), Sound(b), blocks'[b] = blocks[b],
         pack_info'.sizes[b] = pack_info.sizes[b],
         PackedAt(pack_info'.sizes, b) = PackedAt(pack_info.sizes, b)
  PROVE  Sound(b)'
<1>1. PICK at, n : at = PackedAt(pack_info.sizes, b) /\ n = pack_info.sizes[b]
  OBVIOUS
<1>2. at \in Nat /\ n \in Nat /\ at + n <= Len(output) /\ output \in Seq(Cells)
  BY <1>1, PackedFits DEF WInv, Types
<1>3. SubSeq(output \o more, at + 1, at + n) = SubSeq(output, at + 1, at + n)
  BY <1>2, CutsStay
<1>4. IsPack(SubSeq(output, at + 1, at + n), FlattenSeq(BlockCrcs(blocks[b])))
  BY <1>1 DEF Sound
<1>5. IsPack(SubSeq(output', at + 1, at + n), FlattenSeq(BlockCrcs(blocks'[b])))
  BY <1>3, <1>4
<1>6. at = PackedAt(pack_info'.sizes, b) /\ n = pack_info'.sizes[b]
  BY <1>1
<1>. QED BY <1>5, <1>6 DEF Sound

\* A step that packs nothing.
LEMMA NothingPacked ==
  ASSUME WInv, header = <<>>, Clean, NEW more \in Seq(Cells), output' = output \o more,
         UNCHANGED <<blocks, pack_info>>, \A b \in 1..Len(blocks) : Early(b)' => Early(b),
         orphans' = 0 => clean' = Len(files'),
         \A i \in 1..Len(contents') : contents'[i] # Unreadable
  PROVE  Clean'
<1>1. ASSUME NEW b \in 1..Len(blocks), Early(b)' PROVE Sound(b)'
  <2>1. Sound(b)
    BY <1>1 DEF Clean
  <2>2. blocks'[b] = blocks[b] /\ pack_info'.sizes[b] = pack_info.sizes[b]
        /\ PackedAt(pack_info'.sizes, b) = PackedAt(pack_info.sizes, b)
    OBVIOUS
  <2>. QED BY <2>1, <2>2, SoundStays
<1>. QED BY <1>1 DEF Clean

\* The places of the entries before new ones.
LEMMA RankOfClean ==
  ASSUME Types, NEW new \in Seq(Entries)
  PROVE  Rank(files \o new, clean) = Rank(files, clean)
<1>1. files \in Seq(Entries) /\ clean \in 0..Len(files)
  BY DEF Types
<1>2. Extends(files \o new, files, new)
  BY <1>1, RankStays
<1>. QED BY <1>1, <1>2 DEF Extends

\* No content is taken for an error.
LEMMA StillReadable ==
  ASSUME NEW cs \in Seq(Data), NEW ds \in Seq(Data), \A i \in 1..Len(cs) : cs[i] # Unreadable,
         \A i \in 1..Len(ds) : ds[i] # Unreadable
  PROVE  \A i \in 1..Len(cs \o ds) : (cs \o ds)[i] # Unreadable
<1>1. /\ Len(cs \o ds) = Len(cs) + Len(ds) /\ Len(cs) \in Nat /\ Len(ds) \in Nat
      /\ \A i \in 1..Len(cs) + Len(ds) : (cs \o ds)[i] = IF i <= Len(cs) THEN cs[i] ELSE ds[i - Len(cs)]
  BY ConcatProperties
<1>2. ASSUME NEW i \in 1..Len(cs \o ds) PROVE (cs \o ds)[i] # Unreadable
  <2>1. CASE i <= Len(cs)
    BY <1>1, <2>1
  <2>2. CASE ~(i <= Len(cs))
    <3>1. i - Len(cs) \in 1..Len(ds)
      BY <1>1, <2>2
    <3>2. (cs \o ds)[i] = ds[i - Len(cs)]
      BY <1>1, <2>2
    <3>. QED BY <3>1, <3>2
  <2>. QED BY <2>1, <2>2
<1>. QED BY <1>2

\* A new block is looked for where it was put if nothing was orphaned.
LEMMA StreamClean ==
  ASSUME ListInv, ListInv', Clean, NEW b, NEW new, NEW cs, AddsStream(b, new, cs)
  PROVE  Clean'
<1>1. PICK n, s, packed : /\ n = Len(blocks) /\ s = pack_info.sizes
                          /\ packed = Pack(FlattenSeq(cs), content_methods)
  OBVIOUS
<1>2. /\ header = <<>> /\ cs \in Seq(Data) /\ b \in Blocks /\ Describes(b, cs)
      /\ blocks' = Append(blocks, b) /\ new \in Seq(Entries) /\ Len(new) = Len(cs)
      /\ output' = output \o packed /\ files' = files \o new /\ contents' = contents \o cs
      /\ clean' = (IF orphans = 0 THEN Len(files') ELSE clean) /\ orphans' = orphans
      /\ \A i \in 1..Len(cs) : cs[i] # Unreadable
  BY <1>1 DEF AddsStream, AddFiles, AddPackedStream
<1>3. /\ WInv /\ Listed(files, contents, blocks) /\ content_methods \in Nat
      /\ s \in Seq(Nat) /\ Len(s) = n /\ n \in Nat /\ blocks \in Seq(Blocks)
      /\ contents \in Seq(Data) /\ output \in Seq(Cells) /\ Types
  <2>1. WInv /\ Listed(files, contents, blocks) /\ Types
    BY DEF ListInv, WInv
  <2>. QED BY <1>1, <2>1, WriterAssumption DEF WInv, Types, StreamsTileOutput
<1>4. packed \in Seq(Cells)
  <2>1. FlattenSeq(cs) \in Data
    BY <1>2, FlattenData
  <2>. QED BY <1>1, <1>3, <2>1, PackIsCells
<1>5. pack_info'.sizes = Append(s, Len(packed)) /\ Len(packed) \in Nat
  <2>1. pack_info' = [pack_info EXCEPT !.sizes = Append(@, Len(packed)),
                                       !.crcs = Append(@, Crc(packed))]
    BY <1>1, Zenon DEF AddsStream, AddPackedStream
  <2>2. pack_info \in [pos : {0}, sizes : Seq(Nat), crcs : Seq(Seq(Cells))]
    BY <1>3 DEF Types
  <2>. QED BY <1>1, <1>4, <2>1, <2>2
<1>6. /\ \A i \in 1..n : PackedAt(pack_info'.sizes, i) = PackedAt(s, i) /\ pack_info'.sizes[i] = s[i]
      /\ PackedAt(pack_info'.sizes, n + 1) = SumFunction(s) /\ pack_info'.sizes[n + 1] = Len(packed)
  <2>1. PICK t : t = Append(s, Len(packed))
    OBVIOUS
  <2>2. /\ \A i \in 1..n : SubSeq(t, 1, i - 1) = SubSeq(s, 1, i - 1)
        /\ SubSeq(t, 1, n) = s
    BY <1>3, <1>5, <2>1, SumBefore
  <2>3. (\A i \in 1..n : t[i] = s[i]) /\ t[n + 1] = Len(packed) /\ (n + 1) - 1 = n
    BY <1>3, <1>5, <2>1, AppendProperties
  <2>. QED BY <1>5, <2>1, <2>2, <2>3 DEF PackedAt
<1>7. /\ Len(blocks') = n + 1 /\ blocks'[n + 1] = b
      /\ \A i \in 1..n : blocks'[i] = blocks[i] /\ Before(blocks')[i - 1] = Before(blocks)[i - 1]
      /\ Before(blocks')[n] = Len(AllData(blocks))
  <2>1. PICK B, A : B = blocks /\ A = Append(B, b)
    OBVIOUS
  <2>2. /\ Len(A) = n + 1 /\ A[n + 1] = b /\ SubSeq(A, 1, n) = B
        /\ \A i \in 1..n : A[i] = B[i] /\ SubSeq(A, 1, i - 1) = SubSeq(B, 1, i - 1)
    BY <1>1, <1>2, <1>3, <2>1, PrefixOfBlocks
  <2>3. n \in 0..Len(A) /\ \A i \in 1..n : i - 1 \in 0..Len(A) /\ i - 1 \in 0..Len(B)
    BY <1>1, <1>3, <2>1, <2>2
  <2>4. Before(A)[n] = Len(AllData(B)) /\ \A i \in 1..n : Before(A)[i - 1] = Before(B)[i - 1]
    BY <2>2, <2>3 DEF Before
  <2>. QED BY <1>2, <2>1, <2>2, <2>4
<1>8. Rank(files', clean) = Rank(files, clean)
  BY <1>2, <1>3, RankOfClean
<1>9. orphans' = 0 => clean' = Len(files')
  BY <1>2
<1>10. \A i \in 1..Len(contents') : contents'[i] # Unreadable
  BY <1>2, <1>3, StillReadable DEF Clean
<1>11. ASSUME NEW d \in 1..n, Early(d)' PROVE Sound(d)'
  <2>1. Early(d)
    BY <1>2, <1>7, <1>8, <1>11 DEF Early
  <2>2. Sound(d)
    BY <1>1, <2>1 DEF Clean
  <2>3. d \in 1..Len(blocks) /\ blocks'[d] = blocks[d] /\ pack_info'.sizes[d] = pack_info.sizes[d]
        /\ PackedAt(pack_info'.sizes, d) = PackedAt(pack_info.sizes, d)
    BY <1>1, <1>6, <1>7
  <2>. QED BY <1>2, <1>3, <1>4, <2>2, <2>3, SoundStays
<1>12. ASSUME Early(n + 1)' PROVE Sound(n + 1)'
  <2>1. orphans = 0
    <3>. SUFFICES ASSUME orphans # 0 PROVE FALSE
      OBVIOUS
    <3>1. (n + 1) - 1 = n
      BY <1>3
    <3>2. Before(blocks')[n] < Rank(files', clean')
      BY <1>2, <1>12, <3>1 DEF Early
    <3>3. Len(AllData(blocks)) < Rank(files, clean)
      BY <1>2, <1>7, <1>8, <3>2
    <3>4. files \in Seq(Entries) /\ Len(AllData(blocks)) = Cardinality(Backed(files)) /\ clean \in 0..Len(files)
      BY <1>3 DEF Listed, Types
    <3>5. Rank(files, clean) <= Cardinality(Backed(files)) /\ Rank(files, clean) \in Nat /\ Cardinality(Backed(files)) \in Nat
      <4>1. PICK l, K, c : l = Len(files) /\ K = Backed(files) /\ c = clean
        OBVIOUS
      <4>2. l \in Nat /\ K \in SUBSET (1..l) /\ Cardinality(K) \in Nat
        BY <3>4, <4>1, RankFacts
      <4>3. c \in Nat /\ c <= l
        BY <3>4, <4>1, <4>2
      <4>4. CountUpTo(K, c) <= CountUpTo(K, l) /\ CountUpTo(K, c) \in Nat
        BY <4>2, <4>3, CountGrows
      <4>5. CountUpTo(K, l) = Cardinality(K)
        BY <4>2, CountStep
      <4>. QED BY <4>1, <4>2, <4>4, <4>5 DEF Rank
    <3>. QED BY <3>3, <3>4, <3>5
  <2>2. SumFunction(s) = Len(output)
    <3>1. SumFunction(s) \in Nat
      BY <1>3, SumSeqAppend
    <3>. QED BY <1>1, <1>2, <1>3, <2>1, <3>1 DEF WInv, StreamsTileOutput
  <2>3. SubSeq(output', Len(output) + 1, Len(output) + Len(packed)) = packed
    BY <1>2, <1>3, <1>4, CutsStay
  <2>4. BlockCrcs(b) = cs
    BY <1>2, <1>3, BlockJoins DEF Listed
  <2>5. IsPack(packed, FlattenSeq(cs))
    BY <1>1, <1>3 DEF IsPack
  <2>. QED BY <1>6, <1>7, <2>2, <2>3, <2>4, <2>5 DEF Sound
<1>13. ASSUME NEW d \in 1..Len(blocks') PROVE Early(d)' => Sound(d)'
  <2>1. d \in 1..n \/ d = n + 1
    BY <1>3, <1>7
  <2>. QED BY <1>11, <1>12, <2>1
<1>. QED BY <1>9, <1>10, <1>13 DEF Clean

\* Nothing is pushed at the beginning.
LEMMA InitClean == Init => Clean
<1>. SUFFICES ASSUME Init PROVE Clean
  OBVIOUS
<1>1. contents = <<>> /\ blocks = <<>> /\ files = <<>> /\ clean = 0
  BY DEF Init
<1>. QED BY <1>1 DEF Clean

\* A failed push leaves its cells behind all that was packed before.
LEMMA StepClean ==
  ASSUME FilesInBlocks, ListInv, Clean, [Next]_vars
  PROVE  Clean'
<1>1. ListInv' /\ WInv /\ Types
  BY StepListInv DEF ListInv, WInv
<1>2. /\ files \in Seq(Entries) /\ content_methods \in Overheads /\ contents \in Seq(Data)
      /\ output \in Seq(Cells) /\ orphans \in Nat
  BY <1>1 DEF Types
<1>3. output = output \o <<>> /\ <<>> \in Seq(Cells)
  BY <1>2
<1>4. CASE \E b, new, cs : AddsStream(b, new, cs)
  BY <1>1, <1>4, StreamClean
<1>5. CASE \E entry : AddsEmpty(entry)
  <2>1. PICK entry : AddsEmpty(entry)
    BY <1>5
  <2>2. /\ header = <<>> /\ UNCHANGED <<blocks, pack_info, output, orphans>> /\ entry \in Entries
        /\ files' = files \o <<entry>> /\ contents' = contents \o <<<<>>>>
        /\ clean' = IF orphans = 0 THEN Len(files') ELSE clean
    BY <2>1 DEF AddsEmpty, AddFiles, streams
  <2>3. Rank(files', clean) = Rank(files, clean)
    <3>1. <<entry>> \in Seq(Entries)
      BY <2>2
    <3>. QED BY <1>1, <2>2, <3>1, RankOfClean
  <2>4. \A i \in 1..Len(contents') : contents'[i] # Unreadable
    <3>1. <<<<>>>> \in Seq(Data) /\ \A i \in 1..Len(<<<<>>>>) : <<<<>>>>[i] # Unreadable
      BY DEF Data, Unreadable
    <3>2. \A i \in 1..Len(contents) : contents[i] # Unreadable
      BY DEF Clean
    <3>3. PICK ds : ds = <<<<>>>>
      OBVIOUS
    <3>4. \A i \in 1..Len(contents \o ds) : (contents \o ds)[i] # Unreadable
      BY <1>2, <3>1, <3>2, <3>3, StillReadable
    <3>. QED BY <2>2, <3>3, <3>4
  <2>5. \A b \in 1..Len(blocks) : Early(b)' => Early(b)
    BY <2>2, <2>3 DEF Early
  <2>. QED BY <1>1, <1>3, <2>2, <2>4, <2>5, NothingPacked
<1>6. CASE \E cells : Orphans(cells)
  <2>1. PICK cells : Orphans(cells)
    BY <1>6
  <2>2. /\ header = <<>> /\ UNCHANGED <<blocks, pack_info, files, contents, clean>> /\ cells \in Seq(Cells)
        /\ output' = output \o cells /\ orphans' = orphans + Len(cells)
    BY <2>1 DEF Orphans, streams
  <2>3. Len(cells) \in Nat /\ (orphans' = 0 => orphans = 0)
    BY <1>2, <2>2
  <2>4. \A b \in 1..Len(blocks) : Early(b)' => Early(b)
    BY <2>2, <2>3 DEF Early
  <2>. QED BY <1>1, <2>2, <2>3, <2>4, NothingPacked DEF Clean
<1>7. ASSUME UNCHANGED <<blocks, pack_info, files, contents, clean, orphans>>, header = <<>>,
             NEW more \in Seq(Cells), output' = output \o more
      PROVE  Clean'
  <2>1. \A b \in 1..Len(blocks) : Early(b)' => Early(b)
    BY <1>7 DEF Early
  <2>. QED BY <1>1, <1>7, <2>1, NothingPacked DEF Clean
<1>8. CASE \E overhead \in Overheads : set_content_methods(overhead)
  <2>1. UNCHANGED <<blocks, pack_info, files, contents, clean, orphans, output>> /\ header = <<>>
    BY <1>8 DEF set_content_methods, streams, history
  <2>. QED BY <1>3, <1>7, <2>1
<1>9. CASE Finishes
  <2>1. PICK encoded \in BOOLEAN : WriteNextHeader(encoded)
    BY <1>9 DEF Finishes
  <2>2. /\ UNCHANGED <<blocks, pack_info, files, contents, clean, orphans>> /\ header = <<>>
        /\ output' = IF encoded THEN Append(output, HeaderCell) ELSE output
    BY <2>1 DEF WriteNextHeader, streams, history
  <2>3. HeaderCell \in Cells
    <3>1. <<>> \in Data /\ -1 \in Int
      BY DEF Data
    <3>. QED BY <3>1 DEF HeaderCell, Cells
  <2>4. <<HeaderCell>> \in Seq(Cells) /\ Append(output, HeaderCell) = output \o <<HeaderCell>>
    <3>1. PICK x : x = HeaderCell
      OBVIOUS
    <3>. QED BY <1>2, <2>3, <3>1
  <2>. QED BY <1>3, <1>7, <2>2, <2>4
<1>10. CASE UNCHANGED vars
  <2>1. UNCHANGED <<blocks, pack_info, files, contents, clean, orphans, output>>
    BY <1>10 DEF vars
  <2>2. \A b \in 1..Len(blocks) : (Early(b)' <=> Early(b)) /\ (Sound(b)' <=> Sound(b))
    BY <2>1 DEF Early, Sound
  <2>. QED BY <2>1, <2>2 DEF Clean
<1>11. CASE Next
  <2>1. Steps
    BY <1>2, <1>11, NextSteps
  <2>. QED BY <1>4, <1>5, <1>6, <1>8, <1>9, <2>1 DEF Steps
<1>. QED BY <1>10, <1>11

-----------------------------------------------------------------------------
(* What a failed push cannot hurt: the reader *)

\* Decoding what was packed.
LEMMA PackDecodes ==
  ASSUME NEW bytes \in Data, NEW overhead \in Nat, NEW size
  PROVE  Decode(Pack(bytes, overhead), size) = bytes
<1>1. PICK cells, l, n : cells = Pack(bytes, overhead) /\ l = Len(bytes) /\ n = l + overhead
  OBVIOUS
<1>2. l \in Nat /\ n \in Nat /\ l <= n
  BY <1>1 DEF Data
<1>3. /\ cells = [i \in 1..n |-> <<bytes, IF i = n /\ overhead > 0 THEN EndMark ELSE i>>]
      /\ Len(cells) = n /\ DOMAIN cells = 1..n
  BY <1>1, <1>2 DEF Pack
<1>4. CASE n = 0
  <2>1. cells = <<>>
    BY <1>3, <1>4
  <2>2. bytes = <<>>
    BY <1>1, <1>2, <1>4 DEF Data
  <2>. QED BY <1>1, <2>1, <2>2 DEF Decode
<1>5. CASE n # 0
  <2>1. 1 \in 1..n /\ n \in 1..n
    BY <1>2, <1>5
  <2>2. cells # <<>> /\ cells[1][1] = bytes
    BY <1>3, <2>1
  <2>3. IsPackedStream(cells)
    <3>1. CASE overhead = 0
      <4>1. \A i \in 1..n : cells[i] = <<bytes, i>>
        BY <1>3, <3>1
      <4>2. InOneStream(cells, Len(cells)) /\ Len(cells[1][1]) <= Len(cells)
        BY <1>1, <1>2, <1>3, <2>2, <4>1 DEF InOneStream
      <4>. QED BY <4>2 DEF IsPackedStream
    <3>2. CASE overhead # 0
      <4>1. \A i \in 1..(n - 1) : i \in 1..n /\ i # n
        BY <1>2
      <4>2. \A i \in 1..(n - 1) : cells[i] = <<bytes, i>>
        BY <1>3, <4>1
      <4>3. cells[n] = <<bytes, EndMark>>
        BY <1>3, <2>1, <3>2
      <4>4. InOneStream(cells, n - 1) /\ cells[n] = <<cells[1][1], EndMark>> /\ Len(cells[1][1]) <= n
        BY <1>1, <1>2, <2>2, <4>2, <4>3 DEF InOneStream
      <4>. QED BY <1>3, <2>1, <4>4 DEF IsPackedStream
    <3>. QED BY <3>1, <3>2
  <2>. QED BY <1>1, <2>2, <2>3 DEF Decode
<1>. QED BY <1>4, <1>5

\* A readable block decodes to the data of its entries.
LEMMA SoundBytes ==
  ASSUME OpenInv, archive # <<>>, NEW b \in 1..Len(blocks), Sound(b)
  PROVE  BlockBytes(archive[1], output, b) = FlattenSeq(BlockCrcs(blocks[b]))
<1>1. PICK bytes, at, n : /\ bytes = FlattenSeq(BlockCrcs(blocks[b]))
                          /\ at = PackedAt(pack_info.sizes, b) /\ n = pack_info.sizes[b]
  OBVIOUS
<1>2. PICK overhead \in Nat : SubSeq(output, at + 1, at + n) = Pack(bytes, overhead)
  BY <1>1, Zenon DEF Sound, IsPack
<1>3. bytes \in Data
  <2>1. WellFormed(blocks)
    BY DEF OpenInv, ListInv, Listed
  <2>2. blocks[b] \in Blocks /\ Describes(blocks[b], BlockCrcs(blocks[b]))
    BY <2>1 DEF WellFormed
  <2>. QED BY <1>1, <2>2, BlockShape, FlattenData
<1>4. archive[1].offsets[b] = at /\ archive[1].packed[b] = n
  BY <1>1, StreamPlace DEF PackedAt
<1>5. BlockBytes(archive[1], output, b) = Decode(Pack(bytes, overhead), archive[1].sizes[b])
  BY <1>2, <1>4 DEF BlockBytes
<1>. QED BY <1>1, <1>3, <1>5, PackDecodes

\* at tells where the parts of s lie when it is flattened, and m is one of them
IsPart(S, s, at, m) ==
  /\ s \in Seq(Seq(S)) /\ m \in 1..Len(s)
  /\ \A l \in 0..Len(s) : at[l] = Len(FlattenSeq(SubSeq(s, 1, l)))

\* A part of a flattened sequence lies behind the ones before it.
LEMMA PartOf ==
  ASSUME NEW S, NEW s, NEW at, NEW m, IsPart(S, s, at, m)
  PROVE  /\ at[m - 1] \in 0..Len(FlattenSeq(s)) /\ at[m] \in 0..Len(FlattenSeq(s))
         /\ at[m] = at[m - 1] + Len(s[m])
         /\ \A i \in 1..Len(s[m]) : FlattenSeq(s)[at[m - 1] + i] = s[m][i]
<1>0. /\ s \in Seq(Seq(S)) /\ m \in 1..Len(s)
      /\ \A l \in 0..Len(s) : at[l] = Len(FlattenSeq(SubSeq(s, 1, l)))
  BY DEF IsPart
<1>1. /\ at[0] = 0 /\ at[Len(s)] = Len(FlattenSeq(s))
      /\ \A k \in 0..Len(s) : at[k] \in 0..Len(FlattenSeq(s))
      /\ \A k \in 1..Len(s) :
           /\ at[k] = at[k - 1] + Len(s[k])
           /\ \A i \in 1..Len(s[k]) : FlattenSeq(s)[at[k - 1] + i] = s[k][i]
  BY <1>0, FlattenHolds
<1>2. m - 1 \in 0..Len(s) /\ m \in 0..Len(s)
  BY <1>0
<1>. QED BY <1>0, <1>1, <1>2

\* The data of one entry among those of its block.
LEMMA DataAt ==
  ASSUME NEW cs \in Seq(Data), NEW k \in 1..Len(cs)
  PROVE  /\ Len(FlattenSeq(SubSeq(cs, 1, k - 1))) \in Nat
         /\ Len(FlattenSeq(SubSeq(cs, 1, k))) = Len(FlattenSeq(SubSeq(cs, 1, k - 1))) + Len(cs[k])
         /\ Upto(FlattenSeq(cs), Len(FlattenSeq(SubSeq(cs, 1, k - 1))), Len(cs[k])) = cs[k]
<1>1. PICK S, at, F : /\ S = Nat \X Nat /\ F = FlattenSeq(cs)
                      /\ at = [m \in 0..Len(cs) |-> Len(FlattenSeq(SubSeq(cs, 1, m)))]
  OBVIOUS
<1>2. cs \in Seq(Seq(S)) /\ F \in Seq(S) /\ Len(F) \in Nat /\ Len(cs) \in Nat
  <2>1. cs \in Seq(Seq(S))
    BY <1>1 DEF Data
  <2>2. F \in Seq(S)
    BY <1>1, <2>1, FlattenIn
  <2>. QED BY <2>1, <2>2
<1>3. \A m \in 0..Len(cs) : at[m] = Len(FlattenSeq(SubSeq(cs, 1, m)))
  BY <1>1
<1>4. /\ at[k - 1] \in 0..Len(F) /\ at[k] \in 0..Len(F) /\ at[k] = at[k - 1] + Len(cs[k])
      /\ \A i \in 1..Len(cs[k]) : F[at[k - 1] + i] = cs[k][i]
  <2>1. PICK s, T, m : s = cs /\ T = S /\ m = k
    OBVIOUS
  <2>2. IsPart(T, s, at, m)
    BY <1>2, <1>3, <2>1 DEF IsPart
  <2>3. /\ at[m - 1] \in 0..Len(FlattenSeq(s)) /\ at[m] \in 0..Len(FlattenSeq(s))
        /\ at[m] = at[m - 1] + Len(s[m])
        /\ \A i \in 1..Len(s[m]) : FlattenSeq(s)[at[m - 1] + i] = s[m][i]
    BY <2>2, PartOf
  <2>. QED BY <1>1, <2>1, <2>3
<1>5. PICK j, x, c : j = k - 1 /\ x = at[j] /\ c = cs[k]
  OBVIOUS
<1>6. j \in 0..Len(cs) /\ k \in 0..Len(cs)
  BY <1>2, <1>5
<1>7. c \in Seq(S) /\ Len(c) \in Nat
  BY <1>2, <1>5
<1>8. x \in Nat /\ at[k] = x + Len(c) /\ x + Len(c) <= Len(F) /\ \A i \in 1..Len(c) : F[x + i] = c[i]
  <2>1. at[j] \in 0..Len(F) /\ at[k] \in 0..Len(F) /\ at[k] = at[j] + Len(cs[k])
    BY <1>4, <1>5
  <2>2. \A i \in 1..Len(cs[k]) : F[at[j] + i] = cs[k][i]
    BY <1>4, <1>5
  <2>. QED BY <1>2, <1>5, <2>1, <2>2
<1>9. SubSeq(F, x + 1, x + Len(c)) = c
  BY <1>2, <1>7, <1>8, CutIs
<1>10. Upto(F, x, Len(c)) = c
  <2>1. PICK l, y : l = Len(F) /\ y = x + Len(c)
    OBVIOUS
  <2>2. y \in Nat /\ l \in Nat /\ y <= l
    BY <1>2, <1>7, <1>8, <2>1
  <2>3. (IF y < l THEN y ELSE l) = y
    BY <2>2
  <2>. QED BY <1>9, <2>1, <2>3 DEF Upto
<1>11. x = Len(FlattenSeq(SubSeq(cs, 1, k - 1))) /\ at[k] = Len(FlattenSeq(SubSeq(cs, 1, k)))
  BY <1>3, <1>5, <1>6
<1>. QED BY <1>1, <1>5, <1>8, <1>10, <1>11

\* The entries of a block are those handed out of it, one after the other.
LEMMA EntriesOfBlock ==
  ASSUME OpenInv, archive # <<>>, NEW b \in 1..Len(blocks)
  PROVE  /\ BlockCrcs(blocks[b]) \in Seq(Data) /\ archive[1].nums[b] = Len(BlockCrcs(blocks[b]))
         /\ archive[1].first[b] \in Nat
         /\ \A k \in 1..Len(BlockCrcs(blocks[b])) :
              /\ archive[1].first[b] + k - 1 \in Backed(files)
              /\ CountUpTo(Backed(files), archive[1].first[b] + k - 1) = Before(blocks)[b - 1] + k
              /\ contents[archive[1].first[b] + k - 1] = BlockCrcs(blocks[b])[k]
<1>1. HasEntries(archive[1]) /\ Listed(files, contents, blocks)
  BY OpenedMap DEF OpenInv, ListInv
<1>2. WellFormed(blocks)
  BY <1>1 DEF Listed
<1>3. PICK h : ReadOf(h)
  BY OpenedHeader
<1>4. archive[1].nums = NumSubStreams(h) /\ HeaderOf(h, blocks)
  BY <1>3 DEF ReadOf, StreamsOf, read_header
<1>5. PICK cs, f, at, D, C : /\ cs = BlockCrcs(blocks[b]) /\ f = archive[1].first[b] /\ at = Before(blocks)
                             /\ D = AllData(blocks) /\ C = Datas(blocks)
  OBVIOUS
<1>6. archive[1].nums[b] = Len(cs)
  BY <1>2, <1>4, <1>5, CountsRead
<1>7. /\ C \in Seq(Seq(Data)) /\ Len(C) = Len(blocks) /\ C[b] = cs
      /\ \A m \in 0..Len(C) : at[m] = Len(FlattenSeq(SubSeq(C, 1, m)))
  BY <1>2, <1>5, BeforeFlattens
<1>8. \A k \in 1..Len(cs) : D[at[b - 1] + k] = cs[k]
  <2>1. D = FlattenSeq(C)
    BY <1>5 DEF AllData
  <2>2. PICK S, s, m : S = Data /\ s = C /\ m = b
    OBVIOUS
  <2>3. IsPart(S, s, at, m)
    BY <1>7, <2>2 DEF IsPart
  <2>4. \A i \in 1..Len(s[m]) : FlattenSeq(s)[at[m - 1] + i] = s[m][i]
    BY <2>3, PartOf
  <2>. QED BY <1>7, <2>1, <2>2, <2>4
<1>9. cs \in Seq(Data)
  BY <1>7
<1>10. /\ f \in Nat /\ Len(archive[1].nums) = Len(blocks)
       /\ \A k \in 1..Len(cs) : f + k - 1 \in Backed(files) /\ CountUpTo(Backed(files), f + k - 1) = at[b - 1] + k
  BY <1>1, <1>5, <1>6 DEF HasEntries, Holds
<1>11. ASSUME NEW k \in 1..Len(cs) PROVE contents[f + k - 1] = cs[k]
  <2>1. PICK i : i = f + k - 1
    OBVIOUS
  <2>2. i \in Backed(files) /\ Rank(files, i) = at[b - 1] + k
    BY <1>10, <2>1 DEF Rank
  <2>3. D[Rank(files, i)] = contents[i]
    BY <1>1, <1>5, <2>2 DEF Listed
  <2>. QED BY <1>8, <2>1, <2>2, <2>3
<1>. QED BY <1>5, <1>6, <1>9, <1>10, <1>11

\* What the archive says of an entry with data is true of its content.
LEMMA SaysOfEntry ==
  ASSUME OpenInv, archive # <<>>, NEW i \in Backed(files)
  PROVE  /\ archive[1].files[i].has_crc /\ archive[1].files[i].size = Len(contents[i])
         /\ archive[1].files[i].crc = contents[i] /\ archive[1].files[i].has_stream
         /\ contents[i] \in Data /\ Verified(archive[1].files[i], contents[i])
<1>1. /\ files \in Seq(Entries) /\ contents \in Seq(Data) /\ Len(contents) = Len(files)
      /\ \A k \in 1..Len(files) : Suits(files[k], contents[k])
  BY DEF OpenInv, ListInv, Listed
<1>2. i \in 1..Len(files) /\ files[i].has_crc
  BY <1>1 DEF Backed
<1>3. PICK entry, x : entry = archive[1].files[i] /\ x = contents[i]
  OBVIOUS
<1>4. Streamed(entry, files[i]) /\ Suits(files[i], x)
  BY <1>1, <1>2, <1>3, OpenedStreams DEF ListsStreams
<1>5. entry.has_crc /\ entry.has_stream /\ entry.size = Len(x) /\ entry.crc = x
  BY <1>2, <1>4, Zenon DEF Streamed, Suits
<1>6. x \in Data
  BY <1>1, <1>2, <1>3
<1>7. Verified(entry, x)
  BY <1>5 DEF Verified, Crc
<1>. QED BY <1>3, <1>5, <1>6, <1>7

\* where entry k + 1 of a block begins
At(cs, k) == Len(FlattenSeq(SubSeq(cs, 1, k)))

\* The first entry begins with the block.
LEMMA AtBegin ==
  ASSUME NEW cs
  PROVE  At(cs, 0) = 0
<1>1. SubSeq(cs, 1, 0) = <<>>
  BY SubSeqEmpty
<1>2. FlattenSeq(<<>>) = <<>> /\ Len(<<>>) = 0
  BY FlattenEmpty
<1>. QED BY <1>1, <1>2 DEF At

\* What is read of a readable block to the end of an entry is that entry.
LEMMA EntryWhole ==
  ASSUME OpenInv, archive # <<>>, block \in 1..Len(blocks), Sound(block),
         next \in Nat, next < archive[1].nums[block],
         cursor = At(BlockCrcs(blocks[block]), next), NEW limit \in Nat
  PROVE  LET seen == ReadEntry(NextFile, output, limit)
         IN  seen.to_end => /\ seen.ok /\ seen.data = contents[NextFile]
                            /\ cursor + Len(seen.data) = At(BlockCrcs(blocks[block]), next + 1)
<1>1. PICK cs, k, i, entry : /\ cs = BlockCrcs(blocks[block]) /\ k = next + 1 /\ i = NextFile
                             /\ entry = archive[1].files[i]
  OBVIOUS
<1>2. /\ cs \in Seq(Data) /\ archive[1].nums[block] = Len(cs) /\ archive[1].first[block] \in Nat
      /\ \A l \in 1..Len(cs) : /\ archive[1].first[block] + l - 1 \in Backed(files)
                               /\ contents[archive[1].first[block] + l - 1] = cs[l]
  BY <1>1, EntriesOfBlock
<1>3. k \in 1..Len(cs) /\ k - 1 = next /\ i = archive[1].first[block] + k - 1
  BY <1>1, <1>2 DEF NextFile
<1>4. i \in Backed(files) /\ contents[i] = cs[k]
  BY <1>2, <1>3
<1>5. entry.size = Len(cs[k]) /\ Verified(entry, cs[k])
  BY <1>1, <1>4, SaysOfEntry
<1>6. BlockBytes(archive[1], output, block) = FlattenSeq(cs)
  BY <1>1, SoundBytes
<1>7. /\ At(cs, k) = cursor + Len(cs[k])
      /\ Upto(FlattenSeq(cs), cursor, Len(cs[k])) = cs[k]
  BY <1>1, <1>2, <1>3, DataAt DEF At
<1>8. PICK n, data : /\ n = (IF limit < entry.size THEN limit ELSE entry.size)
                     /\ data = Upto(FlattenSeq(cs), cursor, n)
  OBVIOUS
<1>9. PICK e, o : e = (n = entry.size) /\ o = Verified(entry, data)
  BY Zenon
<1>10. ReadEntry(i, output, limit) = [file |-> i, data |-> data, to_end |-> e, ok |-> o]
  BY <1>1, <1>6, <1>8, <1>9, Zenon DEF ReadEntry
<1>11. PICK seen : seen = ReadEntry(i, output, limit)
  OBVIOUS
<1>12. seen.to_end = e /\ seen.data = data /\ seen.ok = o
  BY <1>10, <1>11
<1>13. ASSUME e PROVE data = cs[k] /\ o
  <2>1. n = Len(cs[k])
    BY <1>5, <1>9, <1>13
  <2>2. data = cs[k]
    BY <1>7, <1>8, <2>1
  <2>. QED BY <1>5, <1>9, <2>2
<1>14. seen.to_end => seen.ok /\ seen.data = cs[k] /\ cursor + Len(seen.data) = At(cs, k)
  BY <1>7, <1>12, <1>13
<1>. QED BY <1>1, <1>4, <1>11, <1>14

\* A block with an entry pushed before any orphan cell was pushed before it, too.
LEMMA EarlyBlock ==
  ASSUME OpenInv, archive # <<>>, NEW b \in 1..Len(blocks), NEW k \in 1..Len(BlockCrcs(blocks[b])),
         archive[1].first[b] + k - 1 <= clean
  PROVE  Early(b)
<1>1. PICK K, N, i, m : /\ K = Backed(files) /\ N = Len(files) /\ i = archive[1].first[b] + k - 1
                        /\ m = Before(blocks)[b - 1]
  OBVIOUS
<1>2. i \in K /\ CountUpTo(K, i) = m + k
  BY <1>1, EntriesOfBlock
<1>3. K \in SUBSET (1..N) /\ N \in Nat /\ m \in Nat
  <2>1. IsMap(Backed(files), Len(files), archive[1].nums, Before(blocks), archive[1])
        /\ Len(archive[1].nums) = Len(blocks) /\ Len(blocks) \in Nat
    BY OpenedIsMap
  <2>2. Table(K, N, archive[1].nums, Before(blocks))
    BY <1>1, <2>1 DEF IsMap
  <2>3. b - 1 \in 0..Len(archive[1].nums)
    BY <2>1
  <2>. QED BY <1>1, <2>2, <2>3, TableTypes DEF Table
<1>4. clean \in Nat /\ i \in Nat /\ k \in Nat /\ 1 <= k
  <2>1. clean \in 0..Len(files) /\ files \in Seq(Entries)
    BY DEF OpenInv, ListInv, WInv, Types
  <2>2. Len(BlockCrcs(blocks[b])) \in Nat
    BY EntriesOfBlock
  <2>. QED BY <1>2, <1>3, <2>1, <2>2
<1>5. CountUpTo(K, i) <= CountUpTo(K, clean) /\ CountUpTo(K, clean) \in Nat
  BY <1>1, <1>3, <1>4, CountGrows
<1>6. m < CountUpTo(K, clean)
  BY <1>2, <1>3, <1>4, <1>5
<1>. QED BY <1>1, <1>6 DEF Early, Rank

\* a visit gives an entry pushed before any orphan cell as it was pushed
Survives(seen) == seen.file <= clean => seen.ok /\ seen.data = contents[seen.file]

\* the reader stands at the beginning of an entry
AtEntryStart ==
  phase = "blocks" /\ block \in 1..Len(blocks) /\ Sound(block)
    => cursor = At(BlockCrcs(blocks[block]), next)

\* as long as the closure reads to the end, the reader finds what a failed push left
\* alone
Surviving ==
  (\A v \in DOMAIN visits : visits[v].to_end) =>
    AtEntryStart /\ \A v \in DOMAIN visits : Survives(visits[v])

\* One visit more, to the end of its entry.
LEMMA OneMoreSurvives ==
  ASSUME NEW vs \in Seq(Visits), NEW seen, \A v \in DOMAIN Append(vs, seen) : Append(vs, seen)[v].to_end
  PROVE  /\ (\A v \in DOMAIN vs : vs[v].to_end) /\ seen.to_end
         /\ (\A v \in DOMAIN vs : Survives(vs[v])) /\ Survives(seen)
              => \A v \in DOMAIN Append(vs, seen) : Survives(Append(vs, seen)[v])
<1>1. PICK all, n : all = Append(vs, seen) /\ n = Len(vs)
  OBVIOUS
<1>2. /\ n \in Nat /\ DOMAIN vs = 1..n /\ DOMAIN all = 1..(n + 1)
      /\ all[n + 1] = seen /\ \A v \in 1..n : all[v] = vs[v]
  BY <1>1
<1>3. (n + 1) \in 1..(n + 1) /\ \A v \in 1..n : v \in 1..(n + 1)
  BY <1>2
<1>4. \A v \in 1..(n + 1) : v \in 1..n \/ v = n + 1
  BY <1>2
<1>5. \A v \in DOMAIN all : all[v].to_end
  BY <1>1
<1>6. (\A v \in DOMAIN vs : vs[v].to_end) /\ seen.to_end
  BY <1>2, <1>3, <1>5
<1>7. ASSUME \A v \in DOMAIN vs : Survives(vs[v]), Survives(seen), NEW v \in DOMAIN all
      PROVE  Survives(all[v])
  <2>1. v \in 1..n \/ v = n + 1
    BY <1>2, <1>4
  <2>. QED BY <1>2, <1>7, <2>1
<1>. QED BY <1>1, <1>6, <1>7

\* The closure reads one more entry of a block.
LEMMA VisitSurvives ==
  ASSUME Keeps, Clean, Surviving, Reading', NEW c \in Closures,
         Visit(output, c.limit, c.go_on, c.pass_error)
  PROVE  Surviving'
<1>1. /\ OpenInv /\ Reading /\ archive # <<>> /\ archive' = archive
      /\ files' = files /\ contents' = contents /\ blocks' = blocks /\ clean' = clean
      /\ output' = output /\ pack_info' = pack_info
  BY DEF Keeps, vars
<1>2. c.limit \in Nat
  BY ReaderAssumption
<1>3. PICK file, seen : file = NextFile /\ seen = ReadEntry(file, output, c.limit)
  OBVIOUS
<1>4. /\ phase = "blocks" /\ block <= Len(blocks) /\ next < archive[1].nums[block]
      /\ visits' = Append(visits, seen)
      /\ \/ phase' = "error"
         \/ phase' = "blocks" /\ next' = next + 1 /\ cursor' = cursor + Len(seen.data) /\ block' = block
         \/ phase' = "blocks" /\ next' = 0 /\ cursor' = 0
  <2>1. phase' # "panic"
    BY DEF Reading
  <2>2. Len(archive[1].nums) = Len(blocks)
    BY <1>1, OpenedIsMap
  <2>. QED BY <1>3, <2>1, <2>2 DEF Visit, NextBlock
<1>5. block \in 1..Len(blocks) /\ next \in Nat /\ visits \in Seq(Visits)
  <2>1. /\ Place(Len(files), archive[1].nums, phase, block, next) /\ visits \in Seq(Visits)
        /\ Len(archive[1].nums) = Len(blocks) /\ Len(blocks) \in Nat
    BY <1>1, OpenedIsMap DEF Reading
  <2>. QED BY <1>4, <2>1 DEF Place
<1>6. PICK cs : cs = BlockCrcs(blocks[block])
  OBVIOUS
<1>7. SUFFICES ASSUME \A v \in DOMAIN visits' : visits'[v].to_end
               PROVE  AtEntryStart' /\ \A v \in DOMAIN visits' : Survives(visits[v])'
  BY DEF Surviving
<1>8. /\ (\A v \in DOMAIN visits : visits[v].to_end) /\ seen.to_end
      /\ (\A v \in DOMAIN visits : Survives(visits[v])) /\ Survives(seen)
           => \A v \in DOMAIN visits' : Survives(visits'[v])
  <2>1. \A v \in DOMAIN Append(visits, seen) : Append(visits, seen)[v].to_end
    BY <1>4, <1>7
  <2>. QED BY <1>4, <1>5, <2>1, OneMoreSurvives
<1>9. AtEntryStart /\ \A v \in DOMAIN visits : Survives(visits[v])
  BY <1>8 DEF Surviving
<1>10. ASSUME Sound(block)
       PROVE  seen.ok /\ seen.data = contents[file] /\ cursor + Len(seen.data) = At(cs, next + 1)
  <2>1. cursor = At(BlockCrcs(blocks[block]), next)
    BY <1>4, <1>5, <1>9, <1>10 DEF AtEntryStart
  <2>2. LET s == ReadEntry(NextFile, output, c.limit)
        IN  s.to_end => /\ s.ok /\ s.data = contents[NextFile]
                        /\ cursor + Len(s.data) = At(BlockCrcs(blocks[block]), next + 1)
    BY <1>1, <1>2, <1>4, <1>5, <1>10, <2>1, EntryWhole
  <2>. QED BY <1>3, <1>6, <1>8, <2>2
<1>11. Survives(seen)
  <2>1. seen.file = file
    BY <1>3 DEF ReadEntry
  <2>2. ASSUME file <= clean PROVE Sound(block)
    <3>1. /\ archive[1].nums[block] = Len(cs) /\ archive[1].first[block] \in Nat /\ Len(cs) \in Nat
      BY <1>1, <1>5, <1>6, EntriesOfBlock
    <3>2. next + 1 \in 1..Len(cs) /\ archive[1].first[block] + (next + 1) - 1 <= clean
      BY <1>3, <1>4, <1>5, <2>2, <3>1 DEF NextFile
    <3>3. PICK b, k : b = block /\ k = next + 1
      OBVIOUS
    <3>4. b \in 1..Len(blocks) /\ k \in 1..Len(BlockCrcs(blocks[b])) /\ archive[1].first[b] + k - 1 <= clean
      BY <1>5, <1>6, <3>2, <3>3
    <3>5. Early(b)
      BY <1>1, <3>4, EarlyBlock
    <3>. QED BY <1>5, <3>3, <3>5 DEF Clean
  <2>. QED BY <1>10, <2>1, <2>2 DEF Survives
<1>12. \A v \in DOMAIN visits' : Survives(visits[v])'
  <2>1. \A v \in DOMAIN visits' : Survives(visits'[v])
    BY <1>8, <1>9, <1>11
  <2>. QED BY <1>1, <2>1 DEF Survives
<1>13. AtEntryStart'
  <2>1. CASE next' = next + 1 /\ cursor' = cursor + Len(seen.data) /\ block' = block
    <3>1. Sound(block)' => Sound(block)
      BY <1>1, <2>1 DEF Sound
    <3>2. At(cs, next + 1) = At(BlockCrcs(blocks'[block']), next')
      BY <1>1, <1>6, <2>1
    <3>. QED BY <1>10, <2>1, <3>1, <3>2 DEF AtEntryStart
  <2>2. CASE next' = 0 /\ cursor' = 0
    <3>1. At(BlockCrcs(blocks'[block']), 0) = 0
      BY AtBegin
    <3>. QED BY <2>2, <3>1 DEF AtEntryStart
  <2>3. CASE phase' = "error"
    BY <2>3 DEF AtEntryStart
  <2>. QED BY <1>4, <2>1, <2>2, <2>3
<1>. QED BY <1>12, <1>13

\* A reader step that visits no entry with data.
LEMMA OthersSurvive ==
  ASSUME Keeps, Surviving, visits' = visits, phase' = "blocks" => next' = 0 /\ cursor' = 0
  PROVE  Surviving'
<1>1. /\ files' = files /\ contents' = contents /\ blocks' = blocks /\ clean' = clean
  BY DEF Keeps, vars
<1>2. AtEntryStart'
  <2>. SUFFICES ASSUME phase' = "blocks" PROVE cursor' = At(BlockCrcs(blocks'[block']), next')
    BY DEF AtEntryStart, At
  <2>. QED BY AtBegin
<1>. QED BY <1>1, <1>2 DEF Surviving, Survives

\* The closure is given an entry without data.
LEMMA EmptySurvives ==
  ASSUME Keeps, Surviving, NEW c \in Closures, VisitEmpty(c.go_on)
  PROVE  Surviving'
<1>1. /\ OpenInv /\ Reading /\ archive # <<>> /\ archive' = archive
      /\ files' = files /\ contents' = contents /\ blocks' = blocks /\ clean' = clean
  BY DEF Keeps, vars
<1>2. phase = "empties" /\ phase' # "blocks" /\ visits \in Seq(Visits)
  BY <1>1 DEF VisitEmpty, Reading
<1>3. CASE visits' = visits
  BY <1>2, <1>3, OthersSurvive
<1>4. CASE archive[1].of_file[next] = 0
  <2>1. PICK seen : seen = [file |-> next, data |-> <<>>, to_end |-> TRUE, ok |-> TRUE]
    OBVIOUS
  <2>2. visits' = Append(visits, seen)
    BY <1>4, <2>1 DEF VisitEmpty
  <2>3. next \in 1..Len(files)
    <3>1. Place(Len(files), archive[1].nums, phase, block, next) /\ Len(archive[1].files) = Len(files) /\ Len(files) \in Nat
      BY <1>1, OpenedIsMap DEF Reading
    <3>. QED BY <1>2, <3>1 DEF Place, VisitEmpty
  <2>4. contents[next] = <<>>
    <3>1. /\ InBlock(Backed(files), archive[1].nums, Before(blocks), next, archive[1].of_file[next])
          /\ Table(Backed(files), Len(files), archive[1].nums, Before(blocks))
      BY <1>1, <2>3, OpenedIsMap DEF IsMap, Mapped
    <3>2. next \notin Backed(files)
      BY <1>4, <3>1 DEF InBlock
    <3>3. /\ Suits(files[next], contents[next]) /\ files \in Seq(Entries) /\ contents \in Seq(Data)
          /\ Len(contents) = Len(files)
      BY <1>1, <2>3 DEF OpenInv, ListInv, Listed
    <3>4. ~files[next].has_crc
      BY <2>3, <3>2, <3>3 DEF Backed
    <3>. QED BY <2>3, <3>3, <3>4 DEF Suits, Data
  <2>5. Survives(seen)
    BY <2>1, <2>4 DEF Survives
  <2>6. ASSUME \A v \in DOMAIN visits' : visits'[v].to_end
        PROVE  \A v \in DOMAIN visits' : Survives(visits'[v])
    <3>1. \A v \in DOMAIN Append(visits, seen) : Append(visits, seen)[v].to_end
      BY <2>2, <2>6
    <3>2. /\ \A v \in DOMAIN visits : visits[v].to_end
          /\ (\A v \in DOMAIN visits : Survives(visits[v])) /\ Survives(seen)
               => \A v \in DOMAIN visits' : Survives(visits'[v])
      BY <1>2, <2>2, <3>1, OneMoreSurvives
    <3>. QED BY <2>5, <3>2 DEF Surviving
  <2>7. AtEntryStart'
    BY <1>2 DEF AtEntryStart
  <2>. QED BY <1>1, <2>6, <2>7 DEF Surviving, Survives
<1>. QED BY <1>3, <1>4 DEF VisitEmpty

\* A step of the writer or of the reader.
LEMMA StepSurviving ==
  ASSUME FilesInBlocks, OpenInv, Reading, Clean, Surviving, [RTNext]_allvars
  PROVE  Surviving'
<1>1. Reading'
  BY StepReading
<1>2. CASE WriteStep
  <2>1. header = <<>>
    BY <1>2, NothingBehindHeader DEF WriteStep, OpenInv, ListInv
  <2>2. phase \in {"closed", "failed"} /\ visits = <<>>
    BY <2>1 DEF OpenInv, Opened, Reading
  <2>3. phase' # "blocks" /\ visits' = <<>>
    BY <1>2, <2>2 DEF WriteStep, rvars
  <2>4. DOMAIN visits' = {}
    BY <2>3
  <2>. QED BY <2>3, <2>4 DEF Surviving, AtEntryStart
<1>3. CASE ReadStep
  <2>1. UNCHANGED vars /\ ReaderNext(header[1], output, HeaderCell, start)
    BY <1>3 DEF ReadStep
  <2>2. ASSUME NEW tail \in Tails, open(header[1], output, HeaderCell, start, tail)
        PROVE  Surviving'
    <3>1. phase = "closed" /\ phase' \in {"failed", "open"} /\ visits' = visits
      BY <2>2 DEF open
    <3>2. DOMAIN visits' = {}
      BY <3>1 DEF Reading
    <3>. QED BY <3>1, <3>2 DEF Surviving, AtEntryStart
  <2>3. ASSUME phase \notin {"closed", "failed"}, archive' = archive
        PROVE  Keeps
    <3>1. archive # <<>>
      BY <2>3 DEF OpenInv, Opened
    <3>. QED BY <2>1, <2>3, <3>1 DEF Keeps
  <2>4. CASE for_each_entries \/ BlockEnds \/ BlocksEnd \/ EmptiesEnd
    <3>1. /\ phase \in {"open", "blocks", "empties"} /\ archive' = archive /\ visits' = visits
          /\ phase' = "blocks" => next' = 0 /\ cursor' = 0
      BY <2>4 DEF for_each_entries, BlockEnds, BlocksEnd, EmptiesEnd, NextBlock
    <3>. QED BY <2>3, <3>1, OthersSurvive
  <2>5. ASSUME NEW c \in Closures, Visit(output, c.limit, c.go_on, c.pass_error)
        PROVE  Surviving'
    <3>1. phase = "blocks" /\ archive' = archive
      BY <2>5 DEF Visit
    <3>. QED BY <1>1, <2>3, <2>5, <3>1, VisitSurvives
  <2>6. ASSUME NEW c \in Closures, VisitEmpty(c.go_on)
        PROVE  Surviving'
    <3>1. phase = "empties" /\ archive' = archive
      BY <2>6 DEF VisitEmpty
    <3>. QED BY <2>3, <2>6, <3>1, EmptySurvives
  <2>. QED BY <2>1, <2>2, <2>4, <2>5, <2>6 DEF ReaderNext
<1>4. CASE UNCHANGED allvars
  BY <1>4 DEF allvars, vars, rvars, Surviving, Survives, AtEntryStart, At, Sound, PackedAt
<1>. QED BY <1>2, <1>3, <1>4 DEF RTNext

\* The invariant behind what a failed push cannot hurt: what was packed before the
\* first orphan cell is where the reader looks for it.
THEOREM SurvivingInductive ==
  ASSUME FilesInBlocks
  PROVE  RTSpec => [](OpenInv /\ Reading /\ Clean /\ Surviving)
<1>1. RTInit => Clean /\ Surviving
  <2>1. RTInit => Clean
    BY InitClean DEF RTInit
  <2>2. ASSUME RTInit PROVE Surviving
    <3>1. phase = "closed" /\ visits = <<>>
      BY <2>2 DEF RTInit, ReaderInit
    <3>2. DOMAIN visits = {}
      BY <3>1
    <3>. QED BY <3>1, <3>2 DEF Surviving, AtEntryStart
  <2>. QED BY <2>1, <2>2
<1>2. ASSUME OpenInv, Reading, Clean, Surviving, [RTNext]_allvars
      PROVE  OpenInv' /\ Reading' /\ Clean' /\ Surviving'
  <2>1. [Next]_vars
    BY <1>2 DEF RTNext, WriteStep, ReadStep, allvars
  <2>2. Clean'
    BY <1>2, <2>1, StepClean DEF OpenInv
  <2>. QED BY <1>2, <2>2, StepOpenInv, StepReading, StepSurviving
<1>3. RTInit => OpenInv /\ Reading
  BY InitOpenInv, InitReading
<1>. QED BY <1>1, <1>2, <1>3, PTL DEF RTSpec

\* A failed push cannot hurt what was pushed before it (for_each_entries behind
\* push_archive_entry that returned an error).
THEOREM EarlierSurvive == ASSUME FilesInBlocks PROVE RTSpec => []EarlierEntriesSurvive
<1>1. Surviving => EarlierEntriesSurvive
  BY DEF Surviving, Survives, EarlierEntriesSurvive
<1>. QED BY <1>1, SurvivingInductive, PTL

-----------------------------------------------------------------------------
(* read_file *)

\* a block and a place in it where of_file and first put entry i
Lies(i, b, j) ==
  /\ b = archive[1].of_file[i] /\ b \in 1..Len(blocks) /\ j \in 1..Len(BlockCrcs(blocks[b]))
  /\ i = archive[1].first[b] + j - 1

\* of_file tells in which block an entry with data lies.
LEMMA EntryLies ==
  ASSUME OpenInv, archive # <<>>, NEW i \in Backed(files)
  PROVE  \E b, j : Lies(i, b, j)
<1>1. PICK K, N, n, m, a, b : /\ K = Backed(files) /\ N = Len(files) /\ n = archive[1].nums
                              /\ m = Before(blocks) /\ a = archive[1] /\ b = archive[1].of_file[i]
  OBVIOUS
<1>2. IsMap(K, N, n, m, a) /\ Len(n) = Len(blocks) /\ Table(K, N, n, m) /\ i \in K
  BY <1>1, OpenedIsMap DEF IsMap
<1>3. /\ N \in Nat /\ K \in SUBSET (1..N) /\ Len(n) \in Nat
      /\ \A x \in 1..Len(n) : n[x] \in Nat /\ m[x] = m[x - 1] + n[x]
      /\ \A x \in 0..Len(n) : m[x] \in Nat
      /\ i \in 1..N
  BY <1>2, TableTypes DEF Table
<1>4. b \in 1..Len(n) /\ m[b - 1] < CountUpTo(K, i) /\ CountUpTo(K, i) <= m[b]
  <2>1. InBlock(K, n, m, i, b)
    BY <1>1, <1>2, <1>3 DEF IsMap, Mapped
  <2>. QED BY <1>2, <2>1 DEF InBlock
<1>5. CountUpTo(K, i) \in Nat
  <2>1. i \in Nat /\ i <= i
    BY <1>3
  <2>. QED BY <1>3, <2>1, CountGrows
<1>6. PICK j, x : x = m[b - 1] /\ j = CountUpTo(K, i) - x
  OBVIOUS
<1>7. j \in 1..n[b] /\ x \in Nat /\ CountUpTo(K, i) = x + j
  <2>1. b - 1 \in 0..Len(n)
    BY <1>3, <1>4
  <2>2. x \in Nat /\ m[b] = x + n[b] /\ n[b] \in Nat
    BY <1>3, <1>4, <1>6, <2>1
  <2>3. PICK y, z : y = CountUpTo(K, i) /\ z = n[b]
    OBVIOUS
  <2>4. y \in Nat /\ z \in Nat /\ x < y /\ y <= x + z /\ j = y - x
    BY <1>4, <1>5, <1>6, <2>2, <2>3
  <2>5. j \in 1..z /\ y = x + j
    BY <2>2, <2>4
  <2>. QED BY <2>2, <2>3, <2>5
<1>8. PICK e : e = a.first[b] + j - 1
  OBVIOUS
<1>9. e \in K /\ CountUpTo(K, e) = x + j
  BY <1>2, <1>4, <1>6, <1>7, <1>8 DEF IsMap, Holds
<1>10. i = e
  BY <1>2, <1>3, <1>7, <1>9, SameRank
<1>11. n[b] = Len(BlockCrcs(blocks[b]))
  BY <1>1, <1>2, <1>4, EntriesOfBlock
<1>12. Lies(i, b, j)
  BY <1>1, <1>2, <1>4, <1>7, <1>8, <1>10, <1>11 DEF Lies
<1>. QED BY <1>12

\* Every entry of a block lies in it.
LEMMA LiesThere ==
  ASSUME OpenInv, archive # <<>>, NEW b \in 1..Len(blocks), NEW k \in 1..Len(BlockCrcs(blocks[b]))
  PROVE  Lies(archive[1].first[b] + k - 1, b, k)
<1>1. PICK i, K, n, m : /\ i = archive[1].first[b] + k - 1 /\ K = Backed(files)
                        /\ n = archive[1].nums /\ m = Before(blocks)
  OBVIOUS
<1>2. i \in K /\ CountUpTo(K, i) = m[b - 1] + k
  BY <1>1, EntriesOfBlock
<1>3. PICK d, j : Lies(i, d, j)
  BY <1>1, <1>2, EntryLies
<1>4. CountUpTo(K, i) = m[d - 1] + j /\ n[d] = Len(BlockCrcs(blocks[d])) /\ n[b] = Len(BlockCrcs(blocks[b]))
  BY <1>1, <1>3, EntriesOfBlock DEF Lies
<1>5. /\ Table(K, Len(files), n, m) /\ Len(n) = Len(blocks) /\ Len(n) \in Nat
      /\ \A x \in 1..Len(n) : n[x] \in Nat /\ m[x] = m[x - 1] + n[x]
      /\ \A x \in 0..Len(n) : m[x] \in Nat
  <2>1. Table(K, Len(files), n, m) /\ Len(n) = Len(blocks)
    BY <1>1, OpenedIsMap DEF IsMap
  <2>. QED BY <2>1, TableTypes DEF Table
<1>6. d \in 1..Len(n) /\ b \in 1..Len(n) /\ j \in 1..n[d] /\ k \in 1..n[b]
  BY <1>3, <1>4, <1>5 DEF Lies
<1>7. ASSUME NEW x \in 1..Len(n), NEW y \in 1..Len(n), x < y, NEW p \in 1..n[x], NEW q \in 1..n[y]
      PROVE  m[x - 1] + p < m[y - 1] + q
  <2>1. x \in 0..Len(n) /\ y - 1 \in 0..Len(n) /\ x - 1 \in 0..Len(n) /\ x <= y - 1
    BY <1>5, <1>7
  <2>2. m[x] <= m[y - 1] /\ m[x] = m[x - 1] + n[x] /\ m[x] \in Nat /\ m[y - 1] \in Nat /\ m[x - 1] \in Nat
    BY <1>5, <2>1, CountsLevel
  <2>3. p <= n[x] /\ p \in Nat /\ n[x] \in Nat /\ q \in Nat /\ 1 <= q
    BY <1>5
  <2>4. PICK u, w, s, z : u = m[x - 1] /\ w = m[y - 1] /\ s = n[x] /\ z = m[x]
    OBVIOUS
  <2>5. u \in Nat /\ w \in Nat /\ s \in Nat /\ z <= w /\ z = u + s /\ p <= s
    BY <2>2, <2>3, <2>4
  <2>6. u + p < w + q
    BY <2>3, <2>5
  <2>. QED BY <2>4, <2>6
<1>8. m[d - 1] \in Nat /\ m[b - 1] \in Nat /\ m[d - 1] + j = m[b - 1] + k
  <2>1. d - 1 \in 0..Len(n) /\ b - 1 \in 0..Len(n)
    BY <1>5, <1>6
  <2>. QED BY <1>2, <1>4, <1>5, <2>1
<1>9. d = b
  <2>1. j \in Nat /\ k \in Nat
    BY <1>5, <1>6
  <2>2. ~(d < b)
    BY <1>6, <1>7, <1>8, <2>1, SMTT(30)
  <2>3. ~(b < d)
    BY <1>6, <1>7, <1>8, <2>1
  <2>. QED BY <1>5, <1>6, <2>2, <2>3
<1>. QED BY <1>1, <1>3, <1>9 DEF Lies

\* What read_file returns of an entry with data is right, or is not all of it.
LEMMA ReadAtRight ==
  ASSUME OpenInv, archive # <<>>, NEW i \in Backed(files), NEW at \in Nat
  PROVE  LET data == ReadAt(archive[1], output, i, at)
         IN  data # Unreadable /\ Len(data) = Len(contents[i]) => data = contents[i]
<1>1. PICK entry, x, b, raw, data : /\ entry = archive[1].files[i] /\ x = contents[i]
                                    /\ b = archive[1].of_file[i]
                                    /\ raw = Upto(BlockBytes(archive[1], output, b), at, entry.size)
                                    /\ data = ReadAt(archive[1], output, i, at)
  OBVIOUS
<1>2. entry.has_crc /\ entry.size = Len(x) /\ entry.crc = x /\ x \in Data
  BY <1>1, SaysOfEntry
<1>3. data = IF Verified(entry, raw) THEN raw ELSE Unreadable
  BY <1>1 DEF ReadAt
<1>4. Len(x) \in Nat /\ raw \in Data /\ (Len(raw) = 0 => raw = <<>>)
  <2>1. b \in 1..Len(blocks)
    BY <1>1, EntryLies DEF Lies
  <2>2. BlockBytes(archive[1], output, b) \in Data
    BY <2>1, BlockBytesData
  <2>3. Len(x) \in Nat
    BY <1>2 DEF Data
  <2>. QED BY <1>1, <1>2, <2>2, <2>3, UptoData
<1>5. ASSUME data # Unreadable, Len(data) = Len(x) PROVE data = x
  <2>1. data = raw /\ Verified(entry, raw)
    BY <1>3, <1>5
  <2>2. CASE Len(x) = 0
    <3>1. x = <<>>
      BY <1>2, <2>2 DEF Data
    <3>. QED BY <1>4, <1>5, <2>1, <2>2, <3>1
  <2>3. CASE Len(x) > 0
    BY <1>2, <1>5, <2>1, <2>3 DEF Verified, Crc
  <2>. QED BY <1>4, <2>2, <2>3
<1>. QED BY <1>1, <1>5

\* read_entry reads an entry of a readable block where it begins.
LEMMA ReadAtStart ==
  ASSUME OpenInv, archive # <<>>, NEW b \in 1..Len(blocks), Sound(b),
         NEW k \in 1..Len(BlockCrcs(blocks[b]))
  PROVE  LET i == archive[1].first[b] + k - 1
         IN  ReadAt(archive[1], output, i, At(BlockCrcs(blocks[b]), k - 1)) = contents[i]
<1>1. PICK i, cs, entry : /\ i = archive[1].first[b] + k - 1 /\ cs = BlockCrcs(blocks[b])
                          /\ entry = archive[1].files[i]
  OBVIOUS
<1>2. i \in Backed(files) /\ contents[i] = cs[k] /\ cs \in Seq(Data) /\ k \in 1..Len(cs)
  BY <1>1, EntriesOfBlock
<1>3. entry.size = Len(cs[k]) /\ Verified(entry, cs[k])
  BY <1>1, <1>2, SaysOfEntry
<1>4. archive[1].of_file[i] = b
  BY <1>1, LiesThere DEF Lies
<1>5. BlockBytes(archive[1], output, b) = FlattenSeq(cs)
  BY <1>1, SoundBytes
<1>6. Upto(FlattenSeq(cs), At(cs, k - 1), Len(cs[k])) = cs[k]
  BY <1>2, DataAt DEF At
<1>7. ReadAt(archive[1], output, i, At(cs, k - 1)) = cs[k]
  BY <1>1, <1>3, <1>4, <1>5, <1>6 DEF ReadAt
<1>. QED BY <1>1, <1>2, <1>7

\* BytesBefore counts the data of the entries before one in its block.
LEMMA BytesBeforeIs ==
  ASSUME OpenInv, archive # <<>>, NEW b \in 1..Len(blocks), NEW k \in 1..Len(BlockCrcs(blocks[b]))
  PROVE  BytesBefore(archive[1], archive[1].first[b] + k - 1) = At(BlockCrcs(blocks[b]), k - 1)
<1>1. PICK i, cs, f, j : /\ i = archive[1].first[b] + k - 1 /\ cs = BlockCrcs(blocks[b])
                         /\ f = archive[1].first[b] /\ j = k - 1
  OBVIOUS
<1>2. /\ cs \in Seq(Data) /\ Len(cs) \in Nat /\ f \in Nat
      /\ \A l \in 1..Len(cs) : f + l - 1 \in Backed(files) /\ contents[f + l - 1] = cs[l]
  BY <1>1, EntriesOfBlock
<1>3. k \in 1..Len(cs) /\ j \in Nat /\ j <= Len(cs) /\ i - f = j
  BY <1>1, <1>2
<1>4. archive[1].of_file[i] = b
  BY <1>1, LiesThere DEF Lies
<1>5. PICK lens : lens = [l \in 1..j |-> archive[1].files[f + l - 1].size]
  OBVIOUS
<1>6. BytesBefore(archive[1], i) = SumFunction(lens)
  BY <1>1, <1>3, <1>4, <1>5 DEF BytesBefore
<1>7. \A l \in 1..j : l \in 1..Len(cs)
  BY <1>2, <1>3
<1>8. ASSUME NEW l \in 1..j PROVE lens[l] = Len(cs[l]) /\ Len(cs[l]) \in Nat
  <2>1. PICK e : e = f + l - 1
    OBVIOUS
  <2>2. l \in 1..Len(cs) /\ e \in Backed(files) /\ contents[e] = cs[l]
    BY <1>2, <1>7, <2>1
  <2>3. archive[1].files[e].size = Len(cs[l])
    BY <2>2, SaysOfEntry
  <2>4. cs[l] \in Data
    BY <1>2, <2>2
  <2>. QED BY <1>5, <2>1, <2>3, <2>4 DEF Data
<1>9. PICK part : part = SubSeq(cs, 1, j)
  OBVIOUS
<1>10. part \in Seq(Data) /\ Len(part) = j /\ \A l \in 1..j : part[l] = cs[l]
  BY <1>2, <1>3, <1>9
<1>11. lens \in Seq(Nat) /\ Len(lens) = j
  <2>1. \A l \in 1..j : archive[1].files[f + l - 1].size \in Nat
    BY <1>5, <1>8
  <2>. QED BY <1>3, <1>5, <2>1
<1>12. Len(FlattenSeq(part)) = SumFunction(lens)
  <2>1. PICK S : S = Nat \X Nat
    OBVIOUS
  <2>2. part \in Seq(Seq(S)) /\ Len(lens) = Len(part) /\ \A l \in 1..Len(part) : lens[l] = Len(part[l])
    BY <1>8, <1>10, <1>11, <2>1 DEF Data
  <2>. QED BY <1>11, <2>2, FlattenLen
<1>. QED BY <1>1, <1>6, <1>9, <1>12 DEF At

\* The entries of a block are within the entry table, and those of an archive that is
\* not solid have a block each.
LEMMA BlockInTable ==
  ASSUME OpenInv, archive # <<>>, NEW b \in 1..Len(blocks), NEW k \in 1..Len(BlockCrcs(blocks[b]))
  PROVE  /\ archive[1].first[b] + Len(BlockCrcs(blocks[b])) - 1 <= Len(archive[1].files)
         /\ ~archive[1].is_solid => k = 1
<1>1. PICK cs, f, n : cs = BlockCrcs(blocks[b]) /\ f = archive[1].first[b] /\ n = Len(cs)
  OBVIOUS
<1>2. /\ cs \in Seq(Data) /\ n \in Nat /\ f \in Nat /\ archive[1].nums[b] = n
      /\ \A l \in 1..n : f + l - 1 \in Backed(files)
  BY <1>1, EntriesOfBlock
<1>3. k \in 1..n /\ n \in 1..n
  BY <1>1, <1>2
<1>4. f + n - 1 <= Len(archive[1].files)
  <2>1. f + n - 1 \in Backed(files)
    BY <1>2, <1>3
  <2>2. Len(archive[1].files) = Len(files) /\ files \in Seq(Entries)
    BY OpenedIsMap DEF OpenInv, ListInv, Listed
  <2>. QED BY <2>1, <2>2 DEF Backed
<1>5. ASSUME ~archive[1].is_solid PROVE k = 1
  <2>2. PICK h : ReadOf(h)
    BY OpenedHeader
  <2>3. HeaderOf(h, blocks) /\ archive[1] = read_header(h)
    BY <2>2 DEF ReadOf, StreamsOf
  <2>4. b \in DOMAIN h.unpack_sizes
    <3>1. h.unpack_sizes = [d \in DOMAIN blocks |-> blocks[d].unpack_size]
      BY <2>3 DEF HeaderOf
    <3>2. blocks \in Seq(Blocks)
      BY DEF OpenInv, ListInv, Listed, WellFormed
    <3>. QED BY <3>1, <3>2
  <2>5. archive[1].nums = NumSubStreams(h)
        /\ archive[1].is_solid = (\E d \in DOMAIN h.unpack_sizes : NumSubStreams(h)[d] > 1)
    BY <2>3 DEF read_header
  <2>6. ~(n > 1)
    BY <1>2, <1>5, <2>4, <2>5
  <2>. QED BY <1>2, <1>3, <2>6
<1>. QED BY <1>1, <1>4, <1>5

\* What read_file returns of an entry with data of a block that can be read.
LEMMA ReadsEntry ==
  ASSUME OpenInv, Clean, archive # <<>>, NEW i \in Backed(files), i <= clean
  PROVE  read_file(archive[1], output, i) = contents[i]
<1>1. PICK b, j : Lies(i, b, j)
  BY EntryLies
<1>2. PICK cs, f : cs = BlockCrcs(blocks[b]) /\ f = archive[1].first[b]
  OBVIOUS
<1>3. /\ b = archive[1].of_file[i] /\ b \in 1..Len(blocks) /\ j \in 1..Len(BlockCrcs(blocks[b]))
      /\ i = archive[1].first[b] + j - 1
  BY <1>1 DEF Lies
<1>4. Sound(b)
  <2>1. Early(b)
    BY <1>3, EarlyBlock
  <2>. QED BY <1>3, <2>1 DEF Clean
<1>5. /\ archive[1].nums[b] = Len(cs) /\ Len(cs) \in Nat /\ f \in Nat /\ contents \in Seq(Data)
      /\ f + Len(cs) - 1 <= Len(archive[1].files) /\ (~archive[1].is_solid => j = 1)
  <2>1. archive[1].nums[b] = Len(cs) /\ cs \in Seq(Data) /\ f \in Nat
    BY <1>2, <1>3, EntriesOfBlock
  <2>2. f + Len(cs) - 1 <= Len(archive[1].files) /\ (~archive[1].is_solid => j = 1)
    BY <1>2, <1>3, BlockInTable
  <2>. QED BY <2>1, <2>2 DEF OpenInv, ListInv, Listed
<1>6. archive[1].files[i].has_stream
  BY SaysOfEntry
<1>7. ASSUME NEW k \in 1..Len(BlockCrcs(blocks[b]))
      PROVE  read_entry(archive[1], output, archive[1].first[b] + k - 1)
               = contents[archive[1].first[b] + k - 1]
  <2>1. PICK e : e = archive[1].first[b] + k - 1
    OBVIOUS
  <2>2. BytesBefore(archive[1], e) = At(BlockCrcs(blocks[b]), k - 1)
    BY <1>3, <2>1, BytesBeforeIs
  <2>3. ReadAt(archive[1], output, e, At(BlockCrcs(blocks[b]), k - 1)) = contents[e]
    BY <1>3, <1>4, <2>1, ReadAtStart
  <2>. QED BY <2>1, <2>2, <2>3 DEF read_entry
<1>8. CASE ~archive[1].is_solid
  <2>1. j = 1
    BY <1>5, <1>8
  <2>2. ReadAt(archive[1], output, i, At(BlockCrcs(blocks[b]), j - 1)) = contents[i]
    BY <1>3, <1>4, ReadAtStart
  <2>3. At(BlockCrcs(blocks[b]), j - 1) = 0
    BY <2>1, AtBegin
  <2>. QED BY <1>6, <1>8, <2>2, <2>3 DEF read_file
<1>9. CASE archive[1].is_solid
  <2>1. ~(i >= f + Len(cs)) /\ ~(f + Len(cs) - 1 > Len(archive[1].files)) /\ i \in Nat
    <3>1. j \in 1..Len(cs) /\ i = f + j - 1
      BY <1>2, <1>3
    <3>2. j \in Nat /\ j <= Len(cs) /\ 1 <= j
      BY <1>5, <3>1
    <3>3. Len(archive[1].files) \in Nat
      BY OpenedIsMap
    <3>. QED BY <1>5, <3>1, <3>2, <3>3
  <2>2. ASSUME NEW e \in f..i PROVE read_entry(archive[1], output, e) = contents[e] /\ contents[e] # Unreadable
    <3>1. PICK k : k = e - f + 1
      OBVIOUS
    <3>2. k \in 1..Len(cs) /\ e = f + k - 1
      <4>1. e \in Nat /\ f <= e /\ e <= i
        BY <1>5, <2>1
      <4>. QED BY <1>5, <2>1, <3>1, <4>1
    <3>3. e \in Backed(files)
      BY <1>2, <1>3, <3>2, EntriesOfBlock
    <3>4. e \in 1..Len(contents)
      BY <3>3 DEF OpenInv, ListInv, Listed, Backed
    <3>. QED BY <1>2, <1>7, <3>2, <3>4 DEF Clean
  <2>3. i \in f..i
    <3>1. j \in 1..Len(cs) /\ i = f + j - 1
      BY <1>2, <1>3
    <3>2. f <= i
      BY <1>5, <3>1
    <3>. QED BY <1>5, <2>1, <3>2
  <2>4. /\ ~(i >= archive[1].first[b] + archive[1].nums[b])
        /\ ~(archive[1].first[b] + archive[1].nums[b] - 1 > Len(archive[1].files))
    BY <1>2, <1>5, <2>1
  <2>5. ~(\E e \in archive[1].first[b] .. i : read_entry(archive[1], output, e) = Unreadable)
    BY <1>2, <2>2
  <2>6. read_entry(archive[1], output, i) = contents[i]
    BY <2>2, <2>3
  <2>. QED BY <1>3, <1>6, <1>9, <2>4, <2>5, <2>6, Zenon DEF read_file
<1>. QED BY <1>8, <1>9

\* Whatever read_file returns of an entry with data.
LEMMA ReadsNothingElse ==
  ASSUME OpenInv, archive # <<>>, NEW i \in Backed(files)
  PROVE  LET data == read_file(archive[1], output, i)
         IN  data # Unreadable /\ Len(data) = Len(contents[i]) => data = contents[i]
<1>1. PICK b, j : Lies(i, b, j)
  BY EntryLies
<1>2. /\ b = archive[1].of_file[i] /\ b \in 1..Len(blocks) /\ j \in 1..Len(BlockCrcs(blocks[b]))
      /\ i = archive[1].first[b] + j - 1
  BY <1>1 DEF Lies
<1>3. archive[1].files[i].has_stream
  BY SaysOfEntry
<1>4. PICK at : at = At(BlockCrcs(blocks[b]), j - 1)
  OBVIOUS
<1>5. at \in Nat /\ read_entry(archive[1], output, i) = ReadAt(archive[1], output, i, at)
  <2>1. BytesBefore(archive[1], i) = at
    BY <1>2, <1>4, BytesBeforeIs
  <2>2. BlockCrcs(blocks[b]) \in Seq(Data)
    BY <1>2, EntriesOfBlock
  <2>3. at \in Nat
    BY <1>2, <1>4, <2>2, DataAt DEF At
  <2>. QED BY <2>1, <2>3 DEF read_entry
<1>6. PICK data : data = read_file(archive[1], output, i)
  OBVIOUS
<1>7. \/ data = Unreadable
      \/ data = ReadAt(archive[1], output, i, 0)
      \/ data = ReadAt(archive[1], output, i, at)
  BY <1>3, <1>5, <1>6, Zenon DEF read_file
<1>8. \A x \in Nat : LET d == ReadAt(archive[1], output, i, x)
                     IN  d # Unreadable /\ Len(d) = Len(contents[i]) => d = contents[i]
  BY ReadAtRight
<1>9. 0 \in Nat
  OBVIOUS
<1>. QED BY <1>5, <1>6, <1>7, <1>8, <1>9, Zenon

\* read_file returns what was pushed, or is told by a checksum that it does not have
\* it; what was pushed before any orphan cell it returns whole.
THEOREM ReadFileReturns == ASSUME FilesInBlocks PROVE RTSpec => []ReadFileReturnsContents
<1>1. ASSUME OpenInv, Clean PROVE ReadFileReturnsContents
  <2>. SUFFICES ASSUME archive # <<>>, NEW i \in DOMAIN files
                PROVE  LET data == read_file(archive[1], output, i)
                       IN  /\ data # Unreadable /\ Len(data) = Len(contents[i]) => data = contents[i]
                           /\ i <= clean => data = contents[i]
    BY DEF ReadFileReturnsContents
  <2>1. CASE i \in Backed(files)
    BY <1>1, <2>1, ReadsEntry, ReadsNothingElse
  <2>2. CASE i \notin Backed(files)
    <3>1. ListsStreams /\ Streams(files) = Backed(files)
      BY <1>1, OpenedStreams, OpenedBacked
    <3>2. ~files[i].has_stream /\ ~files[i].has_crc
      BY <2>2, <3>1 DEF Streams, Backed
    <3>3. ~archive[1].files[i].has_stream
      BY <3>1, <3>2 DEF ListsStreams, Streamed
    <3>4. contents[i] = <<>>
      <4>1. /\ files \in Seq(Entries) /\ contents \in Seq(Data) /\ Len(contents) = Len(files)
            /\ \A k \in 1..Len(files) : Suits(files[k], contents[k])
        BY <1>1 DEF OpenInv, ListInv, Listed
      <4>. QED BY <3>2, <4>1 DEF Suits, Data
    <3>5. read_file(archive[1], output, i) = <<>>
      BY <3>3 DEF read_file
    <3>. QED BY <3>4, <3>5
  <2>. QED BY <2>1, <2>2
<1>. QED BY <1>1, SurvivingInductive, PTL
=============================================================================
