------------------------ MODULE SegmentedWriter_proofs ------------------------
(***************************************************************************)
(* Proofs about SegmentedWriter and MultiVolumeArchive, for every volume   *)
(* size, buffer and seek.                                                  *)
(*                                                                         *)
(* The writer alone: its types, the size limit of the volumes and the      *)
(* table of boundaries that seek searches are inductive together.  A write *)
(* is legal because the open volume is within its limit, a seek because    *)
(* the boundary at or before its target exists, which the least-number     *)
(* principle gives.                                                        *)
(*                                                                         *)
(* An archive in volumes: MVInv says that the volumes are cuts of one row  *)
(* of cells (start header, packed data, next header), where the writer     *)
(* stands in it and what was counted.  From it follow what the volumes     *)
(* joined are, where their boundaries are, that the next header is found,  *)
(* and that the writer is one array of bytes (ByteStore) to its caller.    *)
(***************************************************************************)
EXTENDS MultiVolumeArchive,
        SequencesExt, FiniteSetTheorems, SequenceTheorems, WellFoundedInduction, TLAPS

-----------------------------------------------------------------------------
(* Induction over a set of naturals, in place of one over a predicate *)

\* Every set of naturals has a least element.
LEMMA LeastNat ==
  ASSUME NEW T, T \subseteq Nat, T # {}
  PROVE  \E x \in T : \A y \in T : x <= y
<1>. DEFINE R == {p \in Nat \X Nat : p[1] < p[2]}
<1>1. IsWellFoundedOn(R, Nat)
  <2>1. R = OpToRel(<, Nat)
    BY Zenon DEF OpToRel
  <2>. QED BY <2>1, NatLessThanWellFounded
<1>2. PICK x \in T : \A y \in T : ~ (<<y, x>> \in R)
  <2>. HIDE DEF R
  <2>. QED BY <1>1, WFMin, Zenon
<1>3. ASSUME NEW y \in T PROVE x <= y
  <2>1. x \in Nat /\ y \in Nat
    OBVIOUS
  <2>2. <<y, x>> \in Nat \X Nat
    BY <2>1
  <2>3. ~ (<<y, x>>[1] < <<y, x>>[2])
    BY <1>2, <2>2
  <2>. QED BY <2>1, <2>3
<1>. QED BY <1>3

\* A set of naturals that holds 0 and is closed under n + 1 holds them all.
LEMMA SetInduction ==
  ASSUME NEW S, 0 \in S, \A n \in Nat : n \in S => n + 1 \in S
  PROVE  Nat \subseteq S
<1>. SUFFICES ASSUME Nat \ S # {} PROVE FALSE
  OBVIOUS
<1>1. PICK x \in Nat \ S : \A y \in Nat \ S : x <= y
  BY LeastNat
<1>2. x # 0 /\ x - 1 \in Nat /\ x - 1 \in S
  BY <1>1
<1>. QED BY <1>1, <1>2

-----------------------------------------------------------------------------
(* FlattenSeq *)

\* what FlattenSeq chooses: the concatenation of the first i sequences, for each i
Flattened(s, n) ==
  CHOOSE f : f = [i \in 1..n |-> IF i = 1 THEN s[i] ELSE f[i-1] \o s[i]]

\* The recursive definition of FlattenSeq has a solution.
LEMMA FlattenedDef ==
  ASSUME NEW s, NEW n \in Nat
  PROVE  Flattened(s, n) =
           [i \in 1..n |-> IF i = 1 THEN s[i] ELSE Flattened(s, n)[i-1] \o s[i]]
<1>. DEFINE Solves(f, m) == f = [i \in 1..m |-> IF i = 1 THEN s[i] ELSE f[i-1] \o s[i]]
            Solved == {m \in Nat : \E f : Solves(f, m)}
<1>1. 0 \in Solved
  <2>1. Solves(<<>>, 0)
    OBVIOUS
  <2>. QED BY <2>1
<1>2. ASSUME NEW m \in Nat, m \in Solved PROVE m + 1 \in Solved
  <2>1. PICK f : Solves(f, m)
    BY <1>2
  <2>. DEFINE last == IF m + 1 = 1 THEN s[m + 1] ELSE f[m] \o s[m + 1]
              g == [i \in 1..(m + 1) |-> IF i <= m THEN f[i] ELSE last]
  <2>2. ASSUME NEW i \in 1..(m + 1)
        PROVE  g[i] = IF i = 1 THEN s[i] ELSE g[i-1] \o s[i]
    <3>1. CASE i <= m
      <4>1. i \in 1..m /\ g[i] = f[i] /\ (i # 1 => g[i-1] = f[i-1])
        BY <3>1
      <4>2. f[i] = IF i = 1 THEN s[i] ELSE f[i-1] \o s[i]
        BY <2>1, <4>1
      <4>. QED BY <4>1, <4>2
    <3>2. CASE i = m + 1
      <4>1. g[i] = last
        BY <3>2
      <4>2. i # 1 => g[i-1] = f[m]
        BY <3>2
      <4>. QED BY <3>2, <4>1, <4>2
    <3>. QED BY <3>1, <3>2
  <2>3. Solves(g, m + 1)
    BY <2>2, Zenon
  <2>4. m + 1 \in Nat
    OBVIOUS
  <2>. HIDE DEF Solves, g
  <2>. QED BY <2>3, <2>4
<1>3. n \in Solved
  <2>. HIDE DEF Solved
  <2>. QED BY <1>1, <1>2, SetInduction
<1>4. \E f : Solves(f, n)
  BY <1>3
<1>5. Solves(CHOOSE f : Solves(f, n), n)
  <2>. HIDE DEF Solves
  <2>. QED BY <1>4, Zenon
<1>. QED BY <1>5, Zenon DEF Flattened

\* FlattenSeq takes the last of them.
LEMMA FlattenSeqIs ==
  ASSUME NEW s
  PROVE FlattenSeq(s) = IF Len(s) = 0 THEN s ELSE Flattened(s, Len(s))[Len(s)]
BY Zenon DEF FlattenSeq, Flattened

\* Nothing flattened is nothing.
LEMMA FlattenEmpty == FlattenSeq(<<>>) = <<>>
  BY FlattenSeqIs

\* Flattening goes on where it stopped.
LEMMA FlattenAppend ==
  ASSUME NEW S, NEW s \in Seq(Seq(S)), NEW e \in Seq(S)
  PROVE  /\ FlattenSeq(s) \in Seq(S)
         /\ FlattenSeq(Append(s, e)) = FlattenSeq(s) \o e
<1>. DEFINE n == Len(s)
            t == Append(s, e)
            f == Flattened(s, n)
            g == Flattened(t, n + 1)
            Same == {m \in Nat : m \in 1..n => f[m] = g[m] /\ f[m] \in Seq(S)}
<1>1. n \in Nat /\ Len(t) = n + 1 /\ t[n + 1] = e /\ \A i \in 1..n : t[i] = s[i] /\ s[i] \in Seq(S)
  OBVIOUS
<1>2. \A i \in 1..n : f[i] = IF i = 1 THEN s[i] ELSE f[i-1] \o s[i]
  <2>1. f = [i \in 1..n |-> IF i = 1 THEN s[i] ELSE f[i-1] \o s[i]]
    BY <1>1, FlattenedDef
  <2>. QED BY <2>1, Zenon
<1>3. \A i \in 1..(n + 1) : g[i] = IF i = 1 THEN t[i] ELSE g[i-1] \o t[i]
  <2>1. g = [i \in 1..(n + 1) |-> IF i = 1 THEN t[i] ELSE g[i-1] \o t[i]]
    <3>1. n + 1 \in Nat
      BY <1>1
    <3>. QED BY <3>1, FlattenedDef
  <2>. QED BY <2>1, Zenon
<1>. HIDE DEF f, g, t, n
<1>4. \A m \in 1..n : f[m] = g[m] /\ f[m] \in Seq(S)
  <2>1. 0 \in Same
    OBVIOUS
  <2>2. ASSUME NEW m \in Nat, m \in Same PROVE m + 1 \in Same
    <3>1. SUFFICES ASSUME m + 1 \in 1..n PROVE f[m + 1] = g[m + 1] /\ f[m + 1] \in Seq(S)
      OBVIOUS
    <3>2. t[m + 1] = s[m + 1] /\ s[m + 1] \in Seq(S) /\ m + 1 \in 1..(n + 1)
      BY <1>1, <3>1
    <3>3. CASE m = 0
      BY <1>2, <1>3, <3>1, <3>2, <3>3
    <3>4. CASE m # 0
      <4>1. m \in 1..n /\ f[m] = g[m] /\ f[m] \in Seq(S)
        BY <1>1, <2>2, <3>1, <3>4
      <4>2. PICK k \in 1..n : k = m + 1
        BY <3>1
      <4>3. k # 1 /\ k - 1 = m /\ k \in 1..(n + 1)
        BY <3>2, <3>4, <4>2
      <4>4. f[k] = f[k-1] \o s[k] /\ g[k] = g[k-1] \o t[k]
        BY <1>2, <1>3, <4>3, Zenon
      <4>5. f[k] = f[m] \o s[k] /\ g[k] = f[m] \o s[k]
        BY <3>2, <4>1, <4>2, <4>3, <4>4
      <4>6. f[m] \o s[k] \in Seq(S)
        BY <3>2, <4>1, <4>2
      <4>. QED BY <4>2, <4>5, <4>6
    <3>. QED BY <3>3, <3>4
  <2>. HIDE DEF Same
  <2>3. Nat \subseteq Same
    BY <2>1, <2>2, SetInduction
  <2>4. \A m \in 1..n : m \in Same
    BY <1>1, <2>3
  <2>. QED BY <1>1, <2>4 DEF Same
<1>5. FlattenSeq(s) = IF n = 0 THEN <<>> ELSE f[n]
  <2>1. n = 0 => s = <<>>
    BY DEF n
  <2>. QED BY <2>1, FlattenSeqIs DEF f, n
<1>6. FlattenSeq(t) = g[n + 1]
  BY <1>1, FlattenSeqIs DEF g
<1>7. CASE n = 0
  BY <1>1, <1>3, <1>5, <1>6, <1>7 DEF t
<1>8. CASE n # 0
  <2>1. PICK k \in 1..(n + 1) : k = n + 1
    BY <1>1
  <2>2. n \in 1..n /\ k # 1 /\ k - 1 = n
    BY <1>1, <1>8, <2>1
  <2>3. g[k] = g[k-1] \o t[k]
    BY <1>3, <2>2, Zenon
  <2>. QED BY <1>1, <1>4, <1>5, <1>6, <1>8, <2>1, <2>2, <2>3 DEF t
<1>. QED BY <1>7, <1>8

-----------------------------------------------------------------------------
(* Sums *)

\* the element a fold over a set takes next
Pick(T) == CHOOSE x \in T : TRUE

\* what MapThenFoldSet chooses for a sum: the sum over each subset of S
Summed(f, S) ==
  CHOOSE g : g = [T \in SUBSET S |->
                    IF T = {} THEN 0 ELSE f[Pick(T)] + g[T \ {Pick(T)}]]

\* The recursive definition of MapThenFoldSet has a solution over a finite set.
LEMMA SummedDef ==
  ASSUME NEW f, NEW S, IsFiniteSet(S)
  PROVE  \A T \in SUBSET S :
           /\ Summed(f, S)[T] = IF T = {} THEN 0 ELSE f[Pick(T)] + Summed(f, S)[T \ {Pick(T)}]
           /\ T # {} => Pick(T) \in T
<1>. DEFINE Sum(g, T) == IF T = {} THEN 0 ELSE f[Pick(T)] + g[T \ {Pick(T)}]
            Solves(g) == g = [T \in SUBSET S |-> Sum(g, T)]
            SumsTo(g, n) == \A T \in SUBSET S : Cardinality(T) <= n => g[T] = Sum(g, T)
            Solved == {n \in Nat : \E g : SumsTo(g, n)}
<1>1. \A T \in SUBSET S : IsFiniteSet(T) /\ Cardinality(T) \in Nat /\ Cardinality(T) <= Cardinality(S)
  BY FS_Subset, FS_CardinalityType
<1>2. ASSUME NEW T \in SUBSET S, T # {}
      PROVE  T \ {Pick(T)} \in SUBSET S /\ Cardinality(T \ {Pick(T)}) = Cardinality(T) - 1
  <2>1. Pick(T) \in T
    BY <1>2 DEF Pick
  <2>. QED BY <1>1, <2>1, FS_RemoveElement
<1>3. 0 \in Solved
  <2>. DEFINE g == [T \in SUBSET S |-> 0]
  <2>1. ASSUME NEW T \in SUBSET S, Cardinality(T) <= 0 PROVE g[T] = Sum(g, T)
    <3>1. T = {}
      BY <1>1, <2>1, FS_EmptySet
    <3>. QED BY <3>1
  <2>2. SumsTo(g, 0)
    BY <2>1
  <2>. HIDE DEF g, SumsTo
  <2>. QED BY <2>2
<1>4. ASSUME NEW n \in Nat, n \in Solved PROVE n + 1 \in Solved
  <2>1. PICK g : SumsTo(g, n)
    BY <1>4
  <2>. DEFINE h == [T \in SUBSET S |-> IF Cardinality(T) <= n THEN g[T] ELSE Sum(g, T)]
  <2>2. ASSUME NEW T \in SUBSET S, Cardinality(T) <= n + 1 PROVE h[T] = Sum(h, T)
    <3>1. CASE T = {}
      <4>1. Cardinality(T) <= n
        BY <3>1, FS_EmptySet
      <4>. QED BY <2>1, <3>1, <4>1
    <3>2. CASE T # {}
      <4>1. T \ {Pick(T)} \in SUBSET S /\ Cardinality(T \ {Pick(T)}) <= n
        BY <1>1, <1>2, <2>2, <3>2
      <4>2. h[T \ {Pick(T)}] = g[T \ {Pick(T)}]
        BY <4>1
      <4>3. h[T] = Sum(g, T)
        BY <2>1
      <4>. QED BY <3>2, <4>2, <4>3
    <3>. QED BY <3>1, <3>2
  <2>3. SumsTo(h, n + 1)
    BY <2>2
  <2>4. n + 1 \in Nat
    OBVIOUS
  <2>. HIDE DEF h, SumsTo
  <2>. QED BY <2>3, <2>4
<1>5. \E g : Solves(g)
  <2>1. Cardinality(S) \in Solved
    <3>. HIDE DEF Solved
    <3>. QED BY <1>1, <1>3, <1>4, SetInduction
  <2>2. PICK g : SumsTo(g, Cardinality(S))
    BY <2>1
  <2>. DEFINE h == [T \in SUBSET S |-> g[T]]
  <2>3. ASSUME NEW T \in SUBSET S PROVE h[T] = Sum(h, T)
    <3>1. g[T] = Sum(g, T)
      BY <1>1, <2>2
    <3>2. T # {} => h[T \ {Pick(T)}] = g[T \ {Pick(T)}]
      BY <1>2
    <3>. QED BY <3>1, <3>2
  <2>4. Solves(h)
    BY <2>3, Zenon
  <2>. HIDE DEF h, Solves
  <2>. QED BY <2>4
<1>6. Solves(CHOOSE g : Solves(g))
  <2>. HIDE DEF Solves
  <2>. QED BY <1>5, Zenon
<1>7. Solves(Summed(f, S))
  BY <1>6, Zenon DEF Summed
<1>8. \A T \in SUBSET S : Summed(f, S)[T] = Sum(Summed(f, S), T)
  BY <1>7, Zenon
<1>9. \A T \in SUBSET S : T # {} => Pick(T) \in T
  BY DEF Pick
<1>. QED BY <1>8, <1>9

\* A sum is the one over the whole set.
LEMMA SumIs ==
  ASSUME NEW f, NEW S
  PROVE  SumFunctionOnSet(f, S) = Summed(f, S)[S]
BY Zenon DEF SumFunctionOnSet, FoldFunctionOnSet, MapThenFoldSet, Summed, Pick

\* A sum depends on the values that are summed, and on nothing else.
LEMMA SummedSame ==
  ASSUME NEW f, NEW g, NEW S, IsFiniteSet(S), NEW U, IsFiniteSet(U),
         NEW T, T \subseteq S, T \subseteq U, \A x \in T : f[x] = g[x]
  PROVE  Summed(f, S)[T] = Summed(g, U)[T]
<1>. DEFINE F == Summed(f, S)
            G == Summed(g, U)
            Has == {n \in Nat : \A X \in SUBSET T : Cardinality(X) <= n => F[X] = G[X]}
<1>1. \A X \in SUBSET T : IsFiniteSet(X) /\ Cardinality(X) \in Nat
  BY FS_Subset, FS_CardinalityType
<1>2. ASSUME NEW X \in SUBSET T, X # {}
      PROVE  /\ X \ {Pick(X)} \in SUBSET T /\ Cardinality(X \ {Pick(X)}) = Cardinality(X) - 1
             /\ Pick(X) \in T
  <2>1. Pick(X) \in X
    BY <1>2 DEF Pick
  <2>. QED BY <1>1, <2>1, FS_RemoveElement
<1>3. ASSUME NEW X \in SUBSET T
      PROVE  /\ F[X] = IF X = {} THEN 0 ELSE f[Pick(X)] + F[X \ {Pick(X)}]
             /\ G[X] = IF X = {} THEN 0 ELSE g[Pick(X)] + G[X \ {Pick(X)}]
  <2>1. X \in SUBSET S /\ X \in SUBSET U
    OBVIOUS
  <2>2. F[X] = IF X = {} THEN 0 ELSE f[Pick(X)] + F[X \ {Pick(X)}]
    BY <2>1, SummedDef
  <2>3. G[X] = IF X = {} THEN 0 ELSE g[Pick(X)] + G[X \ {Pick(X)}]
    BY <2>1, SummedDef
  <2>. QED BY <2>2, <2>3
<1>. HIDE DEF F, G
<1>4. 0 \in Has
  <2>1. ASSUME NEW X \in SUBSET T, Cardinality(X) <= 0 PROVE F[X] = G[X]
    <3>1. X = {}
      BY <1>1, <2>1, FS_EmptySet
    <3>. QED BY <1>3, <3>1
  <2>. QED BY <2>1
<1>5. ASSUME NEW n \in Nat, n \in Has PROVE n + 1 \in Has
  <2>1. ASSUME NEW X \in SUBSET T, Cardinality(X) <= n + 1 PROVE F[X] = G[X]
    <3>1. CASE X = {}
      BY <1>3, <3>1
    <3>2. CASE X # {}
      <4>1. F[X \ {Pick(X)}] = G[X \ {Pick(X)}]
        BY <1>1, <1>2, <1>5, <2>1, <3>2
      <4>2. f[Pick(X)] = g[Pick(X)]
        BY <1>2, <3>2
      <4>. QED BY <1>3, <3>2, <4>1, <4>2
    <3>. QED BY <3>1, <3>2
  <2>. QED BY <2>1
<1>6. Cardinality(T) \in Has
  <2>. HIDE DEF Has
  <2>. QED BY <1>1, <1>4, <1>5, SetInduction
<1>7. F[T] = G[T]
  BY <1>1, <1>6
<1>. QED BY <1>7 DEF F, G

\* Naturals can be summed in any order.
LEMMA SummedRemove ==
  ASSUME NEW f, NEW S, IsFiniteSet(S), \A x \in S : f[x] \in Nat
  PROVE  \A T \in SUBSET S :
           /\ Summed(f, S)[T] \in Nat
           /\ \A y \in T : Summed(f, S)[T] = f[y] + Summed(f, S)[T \ {y}]
<1>. DEFINE F == Summed(f, S)
            Good(X) == F[X] \in Nat /\ \A y \in X : F[X] = f[y] + F[X \ {y}]
            Has == {n \in Nat : \A X \in SUBSET S : Cardinality(X) <= n => Good(X)}
<1>1. \A X \in SUBSET S : IsFiniteSet(X) /\ Cardinality(X) \in Nat /\ Cardinality(X) <= Cardinality(S)
  BY FS_Subset, FS_CardinalityType
<1>2. ASSUME NEW X \in SUBSET S, NEW x \in X
      PROVE  X \ {x} \in SUBSET S /\ Cardinality(X \ {x}) = Cardinality(X) - 1
  BY <1>1, FS_RemoveElement
<1>3. \A X \in SUBSET S : F[X] = IF X = {} THEN 0 ELSE f[Pick(X)] + F[X \ {Pick(X)}]
  BY SummedDef, ZenonT(30)
<1>4. \A X \in SUBSET S : X # {} => Pick(X) \in X
  BY SummedDef
<1>. HIDE DEF F
<1>5. 0 \in Has
  <2>1. ASSUME NEW X \in SUBSET S, Cardinality(X) <= 0 PROVE Good(X)
    <3>1. X = {}
      BY <1>1, <2>1, FS_EmptySet
    <3>2. F[X] = 0
      BY <1>3, <3>1
    <3>. QED BY <3>1, <3>2
  <2>. HIDE DEF Good
  <2>. QED BY <2>1
<1>6. ASSUME NEW n \in Nat, n \in Has PROVE n + 1 \in Has
  <2>1. ASSUME NEW X \in SUBSET S, Cardinality(X) <= n + 1 PROVE Good(X)
    <3>1. CASE X = {}
      <4>1. F[X] = 0
        BY <1>3, <3>1
      <4>. QED BY <3>1, <4>1
    <3>2. CASE X # {}
      <4>. DEFINE x == Pick(X)
      <4>1. x \in X /\ F[X] = f[x] + F[X \ {x}]
        BY <1>3, <1>4, <3>2
      <4>. HIDE DEF x
      <4>2. ASSUME NEW z \in X PROVE Good(X \ {z})
        <5>1. X \ {z} \in SUBSET S /\ Cardinality(X \ {z}) <= n
          BY <1>1, <1>2, <2>1
        <5>. HIDE DEF Good
        <5>. QED BY <1>6, <5>1
      <4>3. F[X \ {x}] \in Nat /\ F[X] \in Nat
        BY <4>1, <4>2
      <4>4. ASSUME NEW y \in X PROVE F[X] = f[y] + F[X \ {y}]
        <5>1. CASE y = x
          BY <4>1, <5>1
        <5>2. CASE y # x
          <6>1. (X \ {x}) \ {y} = (X \ {y}) \ {x} /\ y \in X \ {x} /\ x \in X \ {y}
            BY <4>1, <5>2
          <6>2. F[X \ {x}] = f[y] + F[(X \ {x}) \ {y}] /\ F[X \ {x}] \in Nat
            BY <4>1, <4>2, <6>1
          <6>3. F[X \ {y}] = f[x] + F[(X \ {x}) \ {y}] /\ F[X \ {y}] \in Nat
            BY <4>2, <6>1
          <6>4. F[(X \ {x}) \ {y}] \in Nat
            <7>1. (X \ {x}) \ {y} \in SUBSET S /\ Cardinality((X \ {x}) \ {y}) <= n
              BY <1>1, <1>2, <2>1, <4>1, <6>1, SMTT(30)
            <7>. QED BY <1>6, <7>1
          <6>5. f[x] \in Nat /\ f[y] \in Nat
            BY <4>1
          <6>. QED BY <4>1, <6>2, <6>3, <6>4, <6>5
        <5>. QED BY <5>1, <5>2
      <4>. QED BY <4>3, <4>4
    <3>. QED BY <3>1, <3>2
  <2>. HIDE DEF Good
  <2>. QED BY <2>1
<1>7. Cardinality(S) \in Has
  <2>. HIDE DEF Has
  <2>. QED BY <1>1, <1>5, <1>6, SetInduction
<1>8. \A X \in SUBSET S : Good(X)
  <2>. HIDE DEF Good
  <2>. QED BY <1>1, <1>7
<1>. QED BY <1>8 DEF F

-----------------------------------------------------------------------------
(* What flattening and summing do *)

\* The sum over no element.
LEMMA SumEmpty ==
  ASSUME NEW f
  PROVE  SumFunctionOnSet(f, {}) = 0
<1>1. IsFiniteSet({}) /\ {} \in SUBSET {}
  BY FS_EmptySet
<1>2. Summed(f, {})[{}] = 0
  BY <1>1, SummedDef
<1>. QED BY <1>2, SumIs

\* The sum over one element more.
LEMMA SumInsert ==
  ASSUME NEW S, IsFiniteSet(S), NEW y, y \notin S,
         NEW f, \A x \in S \cup {y} : f[x] \in Nat
  PROVE  /\ SumFunctionOnSet(f, S) \in Nat
         /\ SumFunctionOnSet(f, S \cup {y}) = f[y] + SumFunctionOnSet(f, S)
<1>. DEFINE U == S \cup {y}
<1>1. /\ IsFiniteSet(U) /\ y \in U /\ U \ {y} = S /\ U \in SUBSET U /\ S \in SUBSET U
      /\ \A x \in U : f[x] \in Nat
  BY FS_AddElement
<1>2. Summed(f, U)[U] = f[y] + Summed(f, U)[S] /\ Summed(f, U)[S] \in Nat
  <2>. HIDE DEF U
  <2>1. \A T \in SUBSET U :
          /\ Summed(f, U)[T] \in Nat
          /\ \A x \in T : Summed(f, U)[T] = f[x] + Summed(f, U)[T \ {x}]
    BY <1>1, SummedRemove
  <2>2. Summed(f, U)[U] = f[y] + Summed(f, U)[U \ {y}] /\ Summed(f, U)[S] \in Nat
    BY <1>1, <2>1, Zenon
  <2>. QED BY <1>1, <2>2
<1>3. Summed(f, U)[S] = Summed(f, S)[S]
  BY <1>1, SummedSame
<1>. QED BY <1>2, <1>3, SumIs

\* A prefix, one element longer.
LEMMA PrefixAppend ==
  ASSUME NEW S, NEW s \in Seq(S), NEW m \in Nat, m + 1 \in 1..Len(s)
  PROVE  /\ SubSeq(s, 1, m) \in Seq(S) /\ Len(SubSeq(s, 1, m)) = m
         /\ \A i \in 1..m : SubSeq(s, 1, m)[i] = s[i]
         /\ s[m + 1] \in S
         /\ SubSeq(s, 1, m + 1) = Append(SubSeq(s, 1, m), s[m + 1])
<1>. DEFINE p == SubSeq(s, 1, m)
            q == SubSeq(s, 1, m + 1)
            t == Append(p, s[m + 1])
<1>1. Len(s) \in Nat /\ (\A i \in 1..(m + 1) : s[i] \in S) /\ m + 1 \in Nat /\ m + 1 \in 1..(m + 1)
  OBVIOUS
<1>2. p \in Seq(S) /\ Len(p) = m /\ \A i \in 1..m : p[i] = s[i]
  BY <1>1
<1>3. q \in Seq(S) /\ Len(q) = m + 1 /\ \A i \in 1..(m + 1) : q[i] = s[i]
  BY <1>1
<1>. HIDE DEF p, q
<1>4. /\ t \in Seq(S) /\ Len(t) = m + 1 /\ t[m + 1] = s[m + 1]
      /\ \A i \in 1..m : t[i] = p[i]
  BY <1>1, <1>2
<1>. HIDE DEF t
<1>5. \A i \in 1..(m + 1) : q[i] = t[i]
  BY <1>2, <1>3, <1>4
<1>6. q = t
  BY <1>3, <1>4, <1>5, SeqEqual
<1>. QED BY <1>1, <1>2, <1>6 DEF p, q, t

\* A sequence is the row of its elements.
LEMMA RowOf ==
  ASSUME NEW S, NEW q \in Seq(S), NEW cell, \A k \in 1..Len(q) : q[k] = cell[k]
  PROVE  q = [k \in 1..Len(q) |-> cell[k]]
OBVIOUS

\* The sequences s lie one after the other in a row of cells, each behind start[v].
LiesIn(s, start, cell) ==
  /\ start[1] = 0
  /\ \A v \in 1..Len(s) : start[v + 1] = start[v] + Len(s[v])
  /\ \A v \in 1..Len(s) : \A i \in 1..Len(s[v]) : s[v][i] = cell[start[v] + i]

\* Flattened, they are the row.
LEMMA FlattenLaysOut ==
  ASSUME NEW S, NEW s \in Seq(Seq(S)), NEW start, NEW cell, LiesIn(s, start, cell)
  PROVE  /\ \A v \in 1..(Len(s) + 1) : start[v] \in Nat
         /\ FlattenSeq(s) = [k \in 1..start[Len(s) + 1] |-> cell[k]]
<1>. DEFINE n == Len(s)
            P(m) == SubSeq(s, 1, m)
            Row(m) == [k \in 1..start[m + 1] |-> cell[k]]
            Has == {m \in Nat : m <= n => start[m + 1] \in Nat /\ FlattenSeq(P(m)) = Row(m)}
<1>. USE DEF LiesIn
<1>1. n \in Nat /\ \A v \in 1..n : s[v] \in Seq(S) /\ Len(s[v]) \in Nat
  OBVIOUS
<1>2. 0 \in Has
  <2>1. P(0) = <<>>
    BY SubSeqEmpty
  <2>2. 0 + 1 = 1 /\ start[0 + 1] \in Nat /\ Row(0) = <<>>
    OBVIOUS
  <2>3. start[0 + 1] \in Nat /\ FlattenSeq(P(0)) = Row(0)
    BY <2>1, <2>2, FlattenEmpty
  <2>. HIDE DEF P, Row, n
  <2>. QED BY <2>3
<1>3. ASSUME NEW m \in Nat, m \in Has PROVE m + 1 \in Has
  <2>. DEFINE k == m + 1
  <2>0. k + 1 = m + 2 /\ k \in Nat
    OBVIOUS
  <2>1. SUFFICES ASSUME k <= n
                 PROVE  start[k + 1] \in Nat /\ FlattenSeq(P(k)) = Row(k)
    <3>. HIDE DEF P, Row, n, k
    <3>. QED BY <2>0
  <2>2. start[m + 1] \in Nat /\ FlattenSeq(P(m)) = Row(m) /\ m + 1 \in 1..n
    BY <1>1, <1>3, <2>1
  <2>3. start[m + 2] = start[m + 1] + Len(s[m + 1]) /\ start[m + 2] \in Nat
    BY <1>1, <2>2
  <2>4. /\ P(m) \in Seq(Seq(S)) /\ s[m + 1] \in Seq(S)
        /\ P(m + 1) = Append(P(m), s[m + 1])
    BY <2>2, PrefixAppend
  <2>5. FlattenSeq(P(m + 1)) = Row(m) \o s[m + 1] /\ Row(m) \in Seq(S)
    <3>. DEFINE p == P(m)
                e == s[m + 1]
    <3>1. p \in Seq(Seq(S)) /\ e \in Seq(S) /\ P(m + 1) = Append(p, e) /\ FlattenSeq(p) = Row(m)
      BY <2>2, <2>4
    <3>. HIDE DEF P, Row, p, e
    <3>2. FlattenSeq(p) \in Seq(S) /\ FlattenSeq(Append(p, e)) = FlattenSeq(p) \o e
      BY <3>1, FlattenAppend
    <3>. QED BY <3>1, <3>2 DEF e
  <2>6. Row(m) \o s[m + 1] = Row(m + 1)
    <3>. DEFINE a == start[m + 1]
                e == s[m + 1]
                r == Row(m)
    <3>1. a \in Nat /\ e \in Seq(S) /\ Len(e) \in Nat /\ start[m + 2] = a + Len(e)
      BY <1>1, <2>2, <2>3
    <3>2. r = [j \in 1..a |-> cell[j]] /\ Len(r) = a
      BY <3>1
    <3>3. \A i \in 1..Len(e) : e[i] = cell[a + i]
      BY <2>2
    <3>. HIDE DEF a, e, r
    <3>4. /\ r \o e \in Seq(S) /\ Len(r \o e) = a + Len(e)
          /\ \A j \in 1..(a + Len(e)) : (r \o e)[j] = IF j <= a THEN r[j] ELSE e[j - a]
      <4>1. r \in Seq(S)
        BY <2>5 DEF r
      <4>. QED BY <3>1, <3>2, <4>1, ConcatProperties
    <3>5. \A j \in 1..(a + Len(e)) : (IF j <= a THEN r[j] ELSE e[j - a]) = cell[j]
      <4>. TAKE j \in 1..(a + Len(e))
      <4>1. CASE j <= a
        BY <3>1, <3>2, <4>1
      <4>2. CASE ~(j <= a)
        <5>1. j - a \in 1..Len(e) /\ a + (j - a) = j
          BY <3>1, <4>2
        <5>. QED BY <3>3, <4>2, <5>1
      <4>. QED BY <4>1, <4>2
    <3>6. r \o e = [j \in 1..(a + Len(e)) |-> cell[j]]
      <4>. DEFINE q == r \o e
      <4>1. q \in Seq(S) /\ Len(q) = a + Len(e) /\ \A j \in 1..Len(q) : q[j] = cell[j]
        BY <3>4, <3>5
      <4>. HIDE DEF q
      <4>2. q = [j \in 1..Len(q) |-> cell[j]]
        BY <4>1, RowOf
      <4>. QED BY <4>1, <4>2 DEF q
    <3>7. m + 1 + 1 = m + 2
      OBVIOUS
    <3>. QED BY <3>1, <3>6, <3>7 DEF a, e, r
  <2>. QED BY <2>0, <2>3, <2>5, <2>6
<1>4. \A m \in 0..n : start[m + 1] \in Nat /\ FlattenSeq(P(m)) = Row(m)
  <2>1. Nat \subseteq Has
    <3>. HIDE DEF Has
    <3>. QED BY <1>2, <1>3, SetInduction
  <2>. QED BY <1>1, <2>1
<1>5. P(n) = s
  BY SubSeqFull
<1>6. FlattenSeq(s) = Row(n)
  <2>1. n \in 0..n
    BY <1>1
  <2>. HIDE DEF P, Row, n
  <2>. QED BY <1>4, <1>5, <2>1
<1>7. ASSUME NEW v \in 1..(n + 1) PROVE start[v] \in Nat
  <2>1. v - 1 \in 0..n /\ v - 1 + 1 = v
    BY <1>1
  <2>. QED BY <1>4, <2>1
<1>. QED BY <1>6, <1>7

\* start is the running total of the first n numbers of f.
RunningTotal(f, n, start) ==
  /\ start[1] = 0
  /\ \A v \in 1..n : f[v] \in Nat /\ start[v + 1] = start[v] + f[v]

\* A running total is a sum.
LEMMA SumLaysOut ==
  ASSUME NEW n \in Nat, NEW f, NEW start, RunningTotal(f, n, start)
  PROVE  \A v \in 1..(n + 1) : start[v] \in Nat /\ SumFunctionOnSet(f, 1..(v - 1)) = start[v]
<1>. DEFINE Has == {m \in Nat : m <= n => /\ start[m + 1] \in Nat
                                         /\ SumFunctionOnSet(f, 1..m) = start[m + 1]}
<1>. USE DEF RunningTotal
<1>1. 0 \in Has
  <2>1. 1..0 = {}
    OBVIOUS
  <2>. QED BY <2>1, SumEmpty
<1>2. ASSUME NEW m \in Nat, m \in Has PROVE m + 1 \in Has
  <2>. DEFINE k == m + 1
  <2>0. k + 1 = m + 2 /\ k \in Nat
    OBVIOUS
  <2>1. SUFFICES ASSUME k <= n
                 PROVE  start[k + 1] \in Nat /\ SumFunctionOnSet(f, 1..k) = start[k + 1]
    <3>. HIDE DEF k
    <3>. QED BY <2>0
  <2>2. start[m + 1] \in Nat /\ SumFunctionOnSet(f, 1..m) = start[m + 1]
    BY <1>2, <2>1
  <2>3. m + 1 \in 1..n /\ m + 1 \notin 1..m /\ 1..(m + 1) = 1..m \cup {m + 1}
    BY <2>1
  <2>4. \A x \in 1..m \cup {m + 1} : f[x] \in Nat
    BY <2>1
  <2>5. IsFiniteSet(1..m)
    BY FS_Interval
  <2>6. SumFunctionOnSet(f, 1..m \cup {m + 1}) = f[m + 1] + SumFunctionOnSet(f, 1..m)
    BY <2>3, <2>4, <2>5, SumInsert
  <2>7. start[m + 2] = start[m + 1] + f[m + 1] /\ f[m + 1] \in Nat
    BY <2>3
  <2>8. start[k + 1] \in Nat /\ start[k + 1] = f[m + 1] + start[m + 1]
    BY <2>0, <2>2, <2>7
  <2>. QED BY <2>2, <2>3, <2>6, <2>8
<1>3. Nat \subseteq Has
  <2>. HIDE DEF Has
  <2>. QED BY <1>1, <1>2, SetInduction
<1>. TAKE v \in 1..(n + 1)
<1>4. v - 1 \in Nat /\ v - 1 <= n /\ v - 1 + 1 = v
  OBVIOUS
<1>. QED BY <1>3, <1>4

-----------------------------------------------------------------------------
IInv == TypeOK /\ VolumeLimit /\ BoundaryRecorded

-----------------------------------------------------------------------------
(* Helpers *)

\* Every bounded set of naturals has a greatest element.
LEMMA GreatestNat ==
  ASSUME NEW n \in Nat, NEW T, T \subseteq 1..n, T # {}
  PROVE  \E x \in T : \A y \in T : y <= x
<1>. DEFINE U == {n - x : x \in T}
<1>1. U \subseteq Nat /\ U # {}
  <2>1. \A x \in T : n - x \in Nat
    OBVIOUS
  <2>2. PICK x \in T : TRUE
    OBVIOUS
  <2>. QED BY <2>1, <2>2
<1>2. PICK u \in U : \A w \in U : u <= w
  <2>. HIDE DEF U
  <2>. QED BY <1>1, LeastNat
<1>3. PICK x \in T : u = n - x
  OBVIOUS
<1>4. ASSUME NEW y \in T PROVE y <= x
  <2>1. n - y \in U
    OBVIOUS
  <2>2. n - x <= n - y
    BY <1>2, <1>3, <2>1
  <2>. QED BY <2>2
<1>. QED BY <1>4

\* seek finds the last boundary at or before any position.
LEMMA TargetVolumeExists ==
  ASSUME volume_boundaries \in Seq(Nat), volume_boundaries # <<>>,
         volume_boundaries[1] = 0, NEW p \in Nat
  PROVE  /\ TargetVolume(p) \in DOMAIN volume_boundaries
         /\ volume_boundaries[TargetVolume(p)] <= p
<1>. DEFINE B == volume_boundaries
            T == {v \in DOMAIN B : B[v] <= p}
<1>1. Len(B) \in Nat /\ DOMAIN B = 1..Len(B) /\ 1 \in DOMAIN B
  OBVIOUS
<1>2. T \subseteq 1..Len(B) /\ 1 \in T
  BY <1>1
<1>3. PICK x \in T : \A y \in T : y <= x
  <2>. HIDE DEF T
  <2>. QED BY <1>1, <1>2, GreatestNat
<1>4. \A w \in DOMAIN B : B[w] <= p => w <= x
  BY <1>3
<1>5. x \in DOMAIN B /\ B[x] <= p
  OBVIOUS
<1>. QED BY <1>4, <1>5, Zenon DEF TargetVolume

\* A file after a write is a file, as long as the write and what was there.
LEMMA WriteAtFile ==
  ASSUME NEW file \in Seq(Byte), NEW at \in Nat, NEW buf \in Seq(Bytes)
  PROVE  /\ WriteAt(file, at, buf) \in Seq(Byte)
         /\ Len(WriteAt(file, at, buf)) <= Longest(Len(file), at + Len(buf))
<1>. DEFINE n == Longest(Len(file), at + Len(buf))
            cell(i) == IF i \in (at + 1)..(at + Len(buf)) THEN buf[i - at]
                       ELSE IF i \in 1..Len(file) THEN file[i] ELSE Zero
            f == [i \in 1..n |-> cell(i)]
<1>1. Len(file) \in Nat /\ Len(buf) \in Nat /\ n \in Nat /\ Len(file) <= n
  BY DEF Longest
<1>2. CASE buf = <<>>
  BY <1>1, <1>2 DEF WriteAt
<1>3. CASE buf # <<>>
  <2>1. WriteAt(file, at, buf) = f
    BY <1>3 DEF WriteAt
  <2>2. \A i \in 1..n : cell(i) \in Byte
    <3>. TAKE i \in 1..n
    <3>1. CASE i \in (at + 1)..(at + Len(buf))
      <4>1. i - at \in 1..Len(buf)
        BY <1>1, <3>1
      <4>2. buf[i - at] \in Bytes
        BY <4>1
      <4>. QED BY <3>1, <4>2 DEF Byte
    <3>2. CASE i \notin (at + 1)..(at + Len(buf)) /\ i \in 1..Len(file)
      <4>1. file[i] \in Byte
        BY <3>2
      <4>. QED BY <3>2, <4>1
    <3>3. CASE i \notin (at + 1)..(at + Len(buf)) /\ i \notin 1..Len(file)
      BY <3>3 DEF Byte
    <3>. QED BY <3>1, <3>2, <3>3
  <2>. HIDE DEF cell, n
  <2>3. f \in [1..n -> Byte]
    BY <2>2
  <2>. HIDE DEF f
  <2>4. f \in Seq(Byte) /\ Len(f) = n
    BY <1>1, <2>3, SeqDef
  <2>. QED BY <1>1, <2>1, <2>4 DEF n
<1>. QED BY <1>2, <1>3

\* A buffer is a sequence of bytes.
LEMMA BufferIsSequence ==
  ASSUME NEW buf \in Buffers
  PROVE  buf \in Seq(Bytes) /\ Len(buf) \in Nat
<1>1. PICK n \in 0..MaxBuffer : buf \in [1..n -> Bytes]
  BY DEF Buffers
<1>2. n \in Nat
  BY SegmentedAssumption
<1>3. buf \in Seq(Bytes)
  BY <1>1, <1>2
<1>. QED BY <1>3

-----------------------------------------------------------------------------
(* The invariant *)

\* The first state has the invariant.
LEMMA InitIInv == Init => IInv
<1>. SUFFICES ASSUME Init PROVE IInv
  OBVIOUS
<1>. USE DEF Init
<1>1. <<>> \in Seq(Byte) /\ Len(<<>>) = 0
  OBVIOUS
<1>2. <<0>> \in Seq(Nat) /\ Len(<<0>>) = 1 /\ <<0>>[1] = 0
  OBVIOUS
<1>3. TypeOK
  BY <1>1, <1>2 DEF TypeOK
<1>4. VolumeLimit
  BY <1>1, SegmentedAssumption DEF VolumeLimit
<1>5. BoundaryRecorded
  BY <1>2 DEF BoundaryRecorded
<1>. QED BY <1>3, <1>4, <1>5 DEF IInv

\* A write into the room that is left keeps the file within the limit.
LEMMA WriteHereKeeps ==
  ASSUME IInv, NEW buf \in Buffers, WriteHere(buf)
  PROVE  IInv'
<1>. DEFINE file == WriteAt(disk[current_file], current_volume_bytes, buf)
<1>1. buf \in Seq(Bytes) /\ Len(buf) \in Nat
  BY BufferIsSequence
<1>2. /\ disk[current_file] \in Seq(Byte)
      /\ Len(disk[current_file]) \in Nat
      /\ Len(disk[current_file]) <= VolumeSize
      /\ current_volume_bytes \in Nat /\ total_bytes \in Nat
  BY DEF IInv, TypeOK, VolumeLimit
<1>3. /\ file \in Seq(Byte)
      /\ Len(file) <= Longest(Len(disk[current_file]), current_volume_bytes + Len(buf))
  BY <1>1, <1>2, WriteAtFile
<1>4. current_volume_bytes + Len(buf) <= VolumeSize
  <2>1. VolumeSize \in Nat /\ MaxBytes - total_bytes \in Int
    BY <1>2, SegmentedAssumption
  <2>2. Remaining > 0 /\ Len(buf) <= Remaining
    BY <1>1, <1>2, <2>1 DEF WriteHere, Fits, Shortest, Remaining
  <2>. QED BY <1>1, <1>2, <2>1, <2>2 DEF Remaining
<1>5. file \in Seq(Byte) /\ Len(file) <= VolumeSize
  BY <1>1, <1>2, <1>3, <1>4, SegmentedAssumption DEF Longest
<1>. HIDE DEF file
<1>6. disk' = [disk EXCEPT ![current_file] = file]
  BY DEF WriteHere, file
<1>7. TypeOK'
  <2>1. DOMAIN disk' = DOMAIN disk
    BY <1>6
  <2>2. \A v \in DOMAIN disk' : disk'[v] \in Seq(Byte)
    BY <1>5, <1>6 DEF IInv, TypeOK
  <2>3. current_volume_bytes' \in Nat /\ total_bytes' \in Nat
    BY <1>1, <1>2 DEF WriteHere
  <2>. QED BY <2>1, <2>2, <2>3 DEF IInv, TypeOK, WriteHere
<1>8. VolumeLimit'
  BY <1>5, <1>6 DEF IInv, VolumeLimit
<1>9. BoundaryRecorded'
  <2>1. volume_boundaries \in Seq(Nat)
    BY DEF IInv, TypeOK
  <2>2. total_bytes' >= total_bytes
    BY <1>1, <1>2 DEF WriteHere
  <2>3. \A v \in DOMAIN volume_boundaries : volume_boundaries[v] <= total_bytes'
    BY <1>1, <1>2, <2>1 DEF IInv, BoundaryRecorded, WriteHere
  <2>. QED BY <2>3 DEF IInv, BoundaryRecorded, WriteHere
<1>. QED BY <1>7, <1>8, <1>9 DEF IInv

\* Recording total_bytes as the start of one more volume keeps the table in
\* order: no boundary lies beyond it.
LEMMA BoundaryAppended ==
  ASSUME IInv, volume_boundaries' = Append(volume_boundaries, total_bytes),
         current_volume' = current_volume + 1,
         total_bytes' \in Nat, total_bytes <= total_bytes'
  PROVE  volume_boundaries' \in Seq(Nat) /\ BoundaryRecorded'
<1>. DEFINE B == volume_boundaries
            n == Len(B)
<1>1. /\ B \in Seq(Nat) /\ n \in Nat /\ DOMAIN B = 1..n
      /\ total_bytes \in Nat /\ current_volume \in Nat \ {0}
  BY DEF IInv, TypeOK
<1>2. /\ current_volume <= n /\ B[1] = 0
      /\ \A v, w \in 1..n : v <= w => B[v] <= B[w]
      /\ \A v \in 1..n : B[v] <= total_bytes
  BY <1>1 DEF IInv, BoundaryRecorded
<1>3. /\ B' \in Seq(Nat) /\ Len(B') = n + 1 /\ DOMAIN B' = 1..(n + 1)
      /\ \A v \in 1..n : B'[v] = B[v]
      /\ B'[n + 1] = total_bytes
  BY <1>1, AppendProperties
<1>. HIDE DEF B, n
<1>4. current_volume' <= Len(B') /\ B'[1] = 0
  BY <1>1, <1>2, <1>3
<1>5. ASSUME NEW v \in 1..(n + 1) PROVE B'[v] \in Nat /\ B'[v] <= total_bytes
  <2>1. CASE v \in 1..n
    <3>1. B[v] \in Nat /\ B[v] <= total_bytes /\ B'[v] = B[v]
      BY <1>1, <1>2, <1>3, <2>1
    <3>. QED BY <3>1
  <2>2. CASE v = n + 1
    BY <1>1, <1>3, <2>2
  <2>. QED BY <1>1, <2>1, <2>2
<1>6. ASSUME NEW v \in DOMAIN B', NEW w \in DOMAIN B', v <= w PROVE B'[v] <= B'[w]
  <2>1. CASE w \in 1..n
    BY <1>1, <1>2, <1>3, <1>6, <2>1
  <2>2. CASE w = n + 1
    BY <1>3, <1>5, <2>2
  <2>. QED BY <1>1, <1>3, <2>1, <2>2
<1>7. \A v \in DOMAIN B' : B'[v] <= total_bytes'
  BY <1>1, <1>3, <1>5
<1>. QED BY <1>3, <1>4, <1>6, <1>7 DEF BoundaryRecorded, B

\* A write that starts the next volume starts it empty.
LEMMA WriteNextKeeps ==
  ASSUME IInv, NEW buf \in Buffers, WriteNext(buf)
  PROVE  IInv'
<1>. DEFINE file == WriteAt(<<>>, 0, buf)
            v == current_volume + 1
<1>1. buf \in Seq(Bytes) /\ Len(buf) \in Nat
  BY BufferIsSequence
<1>2. total_bytes \in Nat /\ current_volume \in Nat /\ VolumeSize \in Nat /\ MaxBytes \in Nat
  BY SegmentedAssumption DEF IInv, TypeOK
<1>3. file \in Seq(Byte) /\ Len(file) <= VolumeSize
  <2>1. Len(buf) <= VolumeSize
    BY <1>1, <1>2 DEF WriteNext, Fits, Shortest
  <2>2. <<>> \in Seq(Byte) /\ Len(<<>>) = 0 /\ 0 \in Nat
    OBVIOUS
  <2>3. file \in Seq(Byte) /\ Len(file) <= Longest(0, 0 + Len(buf))
    BY <1>1, <2>2, WriteAtFile
  <2>4. Len(file) \in Nat
    BY <2>3
  <2>. QED BY <1>1, <1>2, <2>1, <2>3, <2>4 DEF Longest
<1>. HIDE DEF file
<1>4. disk' = WithVolume(v, file)
  BY DEF WriteNext, file
<1>5. /\ DOMAIN disk' = DOMAIN disk \cup {v}
      /\ \A u \in DOMAIN disk' : disk'[u] = IF u = v THEN file ELSE disk[u]
  BY <1>4 DEF WithVolume
<1>6. total_bytes' \in Nat /\ total_bytes <= total_bytes' /\ current_volume_bytes' \in Nat
  BY <1>1, <1>2 DEF WriteNext
<1>7. volume_boundaries' \in Seq(Nat) /\ BoundaryRecorded'
  BY <1>6, BoundaryAppended DEF WriteNext
<1>8. TypeOK'
  <2>1. v \in Nat \ {0} /\ current_volume' = v /\ current_file' = v
    BY <1>2 DEF WriteNext
  <2>2. DOMAIN disk' \subseteq Nat
    BY <1>5, <2>1 DEF IInv, TypeOK
  <2>3. \A u \in DOMAIN disk' : disk'[u] \in Seq(Byte)
    BY <1>3, <1>5 DEF IInv, TypeOK
  <2>. QED BY <1>5, <1>6, <1>7, <2>1, <2>2, <2>3 DEF TypeOK
<1>9. VolumeLimit'
  BY <1>3, <1>5 DEF IInv, VolumeLimit
<1>. QED BY <1>7, <1>8, <1>9 DEF IInv

\* A volume that cannot be opened changes no count.
LEMMA SwitchFailsKeeps ==
  ASSUME IInv, SwitchFails
  PROVE  IInv'
<1>1. total_bytes' \in Nat /\ total_bytes <= total_bytes'
  BY DEF IInv, TypeOK, SwitchFails
<1>2. volume_boundaries' \in Seq(Nat) /\ BoundaryRecorded'
  BY <1>1, BoundaryAppended DEF SwitchFails
<1>3. current_volume' \in Nat \ {0}
  BY DEF IInv, TypeOK, SwitchFails
<1>4. TypeOK'
  BY <1>2, <1>3 DEF IInv, TypeOK, SwitchFails
<1>5. VolumeLimit'
  BY DEF IInv, VolumeLimit, SwitchFails
<1>. QED BY <1>2, <1>4, <1>5 DEF IInv

\* A seek to any position lands in a volume that has a boundary.
LEMMA SeekStartKeeps ==
  ASSUME IInv, NEW p \in Nat, SeekStart(p)
  PROVE  IInv'
<1>. DEFINE v == TargetVolume(p)
<1>1. /\ volume_boundaries \in Seq(Nat)
      /\ volume_boundaries # <<>>
      /\ volume_boundaries[1] = 0
  BY DEF IInv, TypeOK, BoundaryRecorded
<1>2. v \in DOMAIN volume_boundaries /\ volume_boundaries[v] <= p
  BY <1>1, TargetVolumeExists
<1>. HIDE DEF v
<1>3. /\ v = current_volume \/ v \in DOMAIN disk
      /\ current_file' = IF v = current_volume THEN current_file ELSE v
      /\ current_volume' = v
      /\ current_volume_bytes' = p - volume_boundaries[v]
      /\ UNCHANGED <<disk, total_bytes, volume_boundaries>>
  BY DEF SeekStart, v
<1>4. v \in Nat \ {0} /\ v <= Len(volume_boundaries)
  BY <1>1, <1>2
<1>5. current_volume_bytes' \in Nat
  BY <1>1, <1>2, <1>3
<1>6. TypeOK'
  BY <1>3, <1>4, <1>5 DEF IInv, TypeOK
<1>7. VolumeLimit'
  BY <1>3 DEF IInv, VolumeLimit
<1>8. BoundaryRecorded'
  BY <1>3, <1>4 DEF IInv, BoundaryRecorded
<1>. QED BY <1>6, <1>7, <1>8 DEF IInv

\* A seek ends at a natural position.
LEMMA MovedNat ==
  ASSUME NEW p \in Nat, NEW n \in Nat, NEW back \in BOOLEAN
  PROVE  Moved(p, n, back) \in Nat
<1>1. CASE back
  BY <1>1 DEF Moved
<1>2. CASE ~back
  BY <1>2 DEF Moved
<1>. QED BY <1>1, <1>2

\* The three ways to name a position all name a natural number.
LEMMA SeekKeeps ==
  ASSUME IInv, seek
  PROVE  IInv'
<1>1. ASSUME NEW p \in Positions, SeekStart(p) PROVE IInv'
  BY <1>1, SeekStartKeeps, SegmentedAssumption
<1>2. ASSUME NEW n \in Positions, NEW back \in BOOLEAN, SeekCurrent(n, back) PROVE IInv'
  <2>1. volume_boundaries[current_volume] \in Nat
    <3>1. current_volume \in DOMAIN volume_boundaries
      BY DEF IInv, TypeOK, BoundaryRecorded
    <3>. QED BY <3>1 DEF IInv, TypeOK
  <2>2. stream_position \in Nat
    BY <2>1 DEF IInv, TypeOK, stream_position
  <2>3. Moved(stream_position, n, back) \in Nat
    BY <2>2, MovedNat, SegmentedAssumption
  <2>. QED BY <1>2, <2>3, SeekStartKeeps DEF SeekCurrent
<1>3. ASSUME NEW n \in Positions, NEW back \in BOOLEAN, SeekEnd(n, back) PROVE IInv'
  <2>1. total_bytes \in Nat
    BY DEF IInv, TypeOK
  <2>2. Moved(total_bytes, n, back) \in Nat
    BY <2>1, MovedNat, SegmentedAssumption
  <2>. QED BY <1>3, <2>2, SeekStartKeeps DEF SeekEnd
<1>. QED BY <1>1, <1>2, <1>3 DEF seek

\* Every call keeps it.
LEMMA NextIInv == IInv /\ [Next]_vars => IInv'
<1>. SUFFICES ASSUME IInv, [Next]_vars PROVE IInv'
  OBVIOUS
<1>1. ASSUME NEW buf \in Buffers, WriteHere(buf) PROVE IInv'
  BY <1>1, WriteHereKeeps
<1>2. ASSUME NEW buf \in Buffers, WriteNext(buf) PROVE IInv'
  BY <1>2, WriteNextKeeps
<1>3. CASE SwitchFails
  BY <1>3, SwitchFailsKeeps
<1>4. CASE seek
  BY <1>4, SeekKeeps
<1>5. CASE UNCHANGED vars
  BY <1>5 DEF vars, IInv, TypeOK, VolumeLimit, BoundaryRecorded
<1>. QED BY <1>1, <1>2, <1>3, <1>4, <1>5 DEF Next, write

-----------------------------------------------------------------------------
(* Theorems *)

\* The invariant holds for callers that write and seek in any order.
THEOREM Inductive == Spec => []IInv
BY InitIInv, NextIInv, PTL DEF Spec

\* The state of a SegmentedWriter has its types.
THEOREM TypeCorrect == Spec => []TypeOK
<1>1. IInv => TypeOK
  BY DEF IInv
<1>. QED BY Inductive, <1>1, PTL

\* SegmentedWriter::write never makes a volume longer than volume_size.
THEOREM VolumesWithinLimit == Spec => []VolumeLimit
<1>1. IInv => VolumeLimit
  BY DEF IInv
<1>. QED BY Inductive, <1>1, PTL

\* seek and stream_position always find the boundary of the current volume, in
\* a table that is in ascending order.
THEOREM BoundaryAlwaysRecorded == Spec => []BoundaryRecorded
<1>1. IInv => BoundaryRecorded
  BY DEF IInv
<1>. QED BY Inductive, <1>1, PTL

-----------------------------------------------------------------------------
(* Archives in volumes: the invariant *)

\* the position of the first byte of volume v
First(v) == IF v = 1 THEN 0 ELSE volume_boundaries[v] + HeaderSize

\* The volumes hold the first s cells of c, one volume after the other: all but the
\* last are full, and only the first may be empty.
Laid(s, c) ==
  LET n == Len(volume_boundaries)
  IN  /\ volume_boundaries \in Seq(Nat) /\ n >= 1 /\ volume_boundaries[1] = 0
      /\ disk \in [1..n -> Seq(Byte)]
      /\ \A v \in 1..n : Len(disk[v]) <= VolumeSize
      /\ \A v \in 1..n : v < n => Len(disk[v]) = VolumeSize /\ First(v + 1) = First(v) + VolumeSize
      /\ \A v, w \in 1..n : v < w => First(v) + VolumeSize <= First(w)
      /\ n >= 2 => Len(disk[n]) >= 1
      /\ First(n) + Len(disk[n]) = s
      /\ \A v \in 1..n : \A i \in 1..Len(disk[v]) : disk[v][i] = c[First(v) + i]

\* the writer stands in volume v, at the position p of the joined volumes
StandsAt(v, p) ==
  /\ current_volume = v /\ current_file = v
  /\ current_volume_bytes \in 0..VolumeSize
  /\ First(v) + current_volume_bytes = p

\* bytes of the next header and of the start header written so far
sent == CASE stage = "header" -> NextSize - left
          [] stage \in {"patch", "done"} -> NextSize
          [] OTHER -> 0
patched == CASE stage = "patch" -> HeaderSize - left
             [] stage = "done" -> HeaderSize
             [] OTHER -> 0

\* where the archive ends, and how much of it is on disk
End == HeaderSize + packed + sent
Size == IF packed + sent = 0 THEN 0 ELSE End

\* the byte at each position of the archive
Cell(k) == IF k <= patched THEN StartByte
           ELSE IF k <= HeaderSize THEN Zero
           ELSE IF k <= HeaderSize + packed THEN Parity(k - HeaderSize)
           ELSE NextByte
Row == [k \in Nat |-> Cell(k)]

Position == CASE stage = "new" -> 0
              [] stage \in {"pack", "header"} -> End
              [] OTHER -> patched

MVInv ==
  /\ stage \in {"new", "pack", "header", "patch", "done"}
  /\ packed \in Nat /\ left \in Nat /\ header_pos \in Nat
  /\ stage = "new" => packed = 0
  /\ stage = "header" => left <= NextSize
  /\ stage = "patch" => left <= HeaderSize
  /\ total_bytes = packed + sent + patched
  /\ Laid(Size, Row)
  /\ StandsAt(IF stage \in {"pack", "header"} THEN Len(volume_boundaries) ELSE 1, Position)
  /\ stage \in {"header", "patch", "done"} /\ HeaderSize + packed <= VolumeSize =>
       header_pos = HeaderSize + packed
  /\ stage = "done" =>
       metadata = <<[volume_count |-> current_volume,
                     volume_boundaries |-> volume_boundaries,
                     total_bytes |-> total_bytes]>>

-----------------------------------------------------------------------------
(* Archives in volumes: one write *)

\* What a file holds after a write, byte by byte.
LEMMA WriteAtCells ==
  ASSUME NEW file \in Seq(Byte), NEW at \in Nat, NEW buf \in Seq(Bytes), buf # <<>>
  PROVE  LET n == Longest(Len(file), at + Len(buf))
         IN  /\ WriteAt(file, at, buf) \in Seq(Byte)
             /\ Len(WriteAt(file, at, buf)) = n
             /\ \A i \in 1..n :
                  WriteAt(file, at, buf)[i] =
                    IF i \in (at + 1)..(at + Len(buf)) THEN buf[i - at]
                    ELSE IF i \in 1..Len(file) THEN file[i] ELSE Zero
<1>. DEFINE n == Longest(Len(file), at + Len(buf))
            cell(i) == IF i \in (at + 1)..(at + Len(buf)) THEN buf[i - at]
                       ELSE IF i \in 1..Len(file) THEN file[i] ELSE Zero
            f == [i \in 1..n |-> cell(i)]
<1>1. n \in Nat
  BY DEF Longest
<1>2. WriteAt(file, at, buf) = f
  BY DEF WriteAt
<1>3. f \in Seq(Byte)
  BY <1>2, WriteAtFile
<1>4. Len(f) = n /\ \A i \in 1..n : f[i] = cell(i)
  BY <1>1
<1>. HIDE DEF f
<1>. QED BY <1>2, <1>3, <1>4

\* A new file holds what was written to it.
LEMMA WriteAtStart ==
  ASSUME NEW buf \in Seq(Bytes), buf # <<>>
  PROVE  WriteAt(<<>>, 0, buf) = buf /\ buf \in Seq(Byte)
<1>. DEFINE m == Len(buf)
<1>1. m \in Nat /\ Len(<<>>) = 0 /\ Longest(Len(<<>>), 0 + m) = m
  BY DEF Longest
<1>2. buf \in Seq(Byte)
  BY DEF Byte
<1>3. WriteAt(<<>>, 0, buf) =
        [i \in 1..m |-> IF i \in (0 + 1)..(0 + m) THEN buf[i - 0]
                        ELSE IF i \in 1..Len(<<>>) THEN <<>>[i] ELSE Zero]
  BY <1>1, Zenon DEF WriteAt
<1>4. \A i \in 1..m : i \in (0 + 1)..(0 + m) /\ i - 0 = i
  BY <1>1
<1>5. WriteAt(<<>>, 0, buf) = [i \in 1..m |-> buf[i]]
  BY <1>3, <1>4
<1>. QED BY <1>2, <1>5

\* Volumes start at natural positions.
LEMMA LaidFirst ==
  ASSUME NEW s, NEW c, Laid(s, c), NEW v \in 1..Len(volume_boundaries)
  PROVE  First(v) \in Nat
<1>1. CASE v = 1
  BY <1>1 DEF First
<1>2. CASE v # 1
  BY <1>2, MultiVolumeAssumption DEF First, Laid
<1>. QED BY <1>1, <1>2

\* The cells d are the first s of c, then a gap up to at, then a buffer.
Appended(s, at, c, d, buf) ==
  /\ \A k \in 1..s : d[k] = c[k]
  /\ \A k \in (s + 1)..at : d[k] = Zero
  /\ \A i \in 1..Len(buf) : d[at + i] = buf[i]

\* A write into the last volume appends a buffer to what the volumes hold, after
\* the gap that the start header left if they are empty.
LEMMA GrowHere ==
  ASSUME NEW s \in Nat, NEW at \in Nat, s = at \/ s = 0, NEW c, NEW d,
         Laid(s, c), StandsAt(Len(volume_boundaries), at), total_bytes \in Nat,
         NEW buf \in Seq(Bytes), buf # <<>>, WriteHere(buf), Appended(s, at, c, d, buf)
  PROVE  /\ Laid(at + Len(buf), d)'
         /\ StandsAt(Len(volume_boundaries), at + Len(buf))'
         /\ total_bytes' = total_bytes + Len(buf)
<1>. DEFINE n == Len(volume_boundaries)
            o == current_volume_bytes
            m == Len(buf)
            old == disk[n]
            new == WriteAt(old, o, buf)
<1>. USE DEF Appended
<1>1. /\ n \in Nat /\ n >= 1 /\ m \in Nat /\ m >= 1 /\ o \in Nat /\ VolumeSize \in Nat
      /\ Len(old) \in Nat
  <2>1. m \in Nat /\ m >= 1
    OBVIOUS
  <2>2. old \in Seq(Byte) /\ o \in Nat
    BY SegmentedAssumption DEF Laid, StandsAt
  <2>. QED BY <2>1, <2>2, SegmentedAssumption DEF Laid
<1>2. DOMAIN disk = 1..n /\ n \in 1..n /\ old \in Seq(Byte)
  BY DEF Laid
<1>3. First(n) + Len(old) = s /\ First(n) + o = at
  BY DEF Laid, StandsAt
<1>4. o + m <= VolumeSize
  <2>1. MaxBytes - total_bytes \in Int
    BY SegmentedAssumption
  <2>2. Remaining > 0 /\ m <= Remaining
    BY <1>1, <2>1 DEF WriteHere, Fits, Shortest, Remaining
  <2>. QED BY <1>1, <2>2 DEF Remaining
<1>5. /\ disk' = [disk EXCEPT ![n] = new]
      /\ UNCHANGED <<current_volume, current_file, volume_boundaries>>
      /\ o' = o + m /\ total_bytes' = total_bytes + m
  BY DEF WriteHere, StandsAt
<1>6. current_volume = n /\ current_file = n
  BY DEF StandsAt
<1>7. /\ new \in Seq(Byte) /\ Len(new) = Longest(Len(old), o + m)
      /\ \A i \in 1..Longest(Len(old), o + m) :
           new[i] = IF i \in (o + 1)..(o + m) THEN buf[i - o]
                    ELSE IF i \in 1..Len(old) THEN old[i] ELSE Zero
  <2>. HIDE DEF n
  <2>. QED BY <1>1, <1>2, WriteAtCells
<1>8. \A v \in 1..n : First(v) \in Nat
  BY <1>1, LaidFirst
<1>9. \A v \in 1..n : v < n => First(v) + VolumeSize <= First(n)
  BY <1>2 DEF Laid
<1>10. \A v \in 1..n : \A i \in 1..Len(disk[v]) :
         disk[v][i] = c[First(v) + i] /\ disk[v] \in Seq(Byte) /\ Len(disk[v]) <= VolumeSize
  BY DEF Laid
<1>. HIDE DEF n, o, m, new, old
<1>11. Len(new) = o + m
  BY <1>1, <1>3, <1>7, <1>8, <1>2 DEF Longest
<1>12. ASSUME NEW i \in 1..(o + m) PROVE new[i] = d[First(n) + i]
  <2>1. new[i] = IF i \in (o + 1)..(o + m) THEN buf[i - o]
                 ELSE IF i \in 1..Len(old) THEN old[i] ELSE Zero
    BY <1>1, <1>7, <1>11
  <2>2. First(n) \in Nat
    BY <1>2, <1>8
  <2>3. CASE i \in (o + 1)..(o + m)
    <3>. DEFINE b == First(n)
    <3>0. b \in Nat /\ b + o = at
      BY <1>3, <2>2
    <3>. HIDE DEF b
    <3>1. i - o \in 1..m /\ at + (i - o) = b + i
      BY <1>1, <2>3, <3>0
    <3>2. d[at + (i - o)] = buf[i - o]
      BY <3>1 DEF m
    <3>. QED BY <2>1, <2>3, <3>1, <3>2 DEF b
  <2>4. CASE i \notin (o + 1)..(o + m) /\ i \in 1..Len(old)
    <3>1. First(n) + i \in 1..s
      BY <1>1, <1>3, <2>2, <2>4
    <3>2. old[i] = c[First(n) + i]
      BY <1>2, <1>10, <2>4 DEF old
    <3>. QED BY <2>1, <2>4, <3>1, <3>2
  <2>5. CASE i \notin (o + 1)..(o + m) /\ i \notin 1..Len(old)
    <3>1. First(n) + i \in (s + 1)..at
      BY <1>1, <1>3, <2>2, <2>5
    <3>. QED BY <2>1, <2>5, <3>1
  <2>. QED BY <2>3, <2>4, <2>5
<1>13. ASSUME NEW v \in 1..n, v # n, NEW i \in 1..Len(disk[v])
       PROVE  disk[v][i] = d[First(v) + i]
  <2>1. v < n /\ First(v) \in Nat /\ First(n) \in Nat
    BY <1>1, <1>2, <1>8, <1>13
  <2>2. First(v) + VolumeSize <= First(n) /\ Len(disk[v]) \in Nat /\ Len(disk[v]) <= VolumeSize
    BY <1>9, <1>10, <2>1
  <2>3. First(v) + i \in 1..s
    BY <1>1, <1>3, <2>1, <2>2, SMTT(30)
  <2>4. disk[v][i] = c[First(v) + i]
    BY <1>10
  <2>. QED BY <2>3, <2>4
<1>14. Laid(at + m, d)'
  <2>1. /\ n' = n /\ \A v \in 1..n : First(v)' = First(v)
    BY <1>5 DEF First, n
  <2>2. disk' \in [1..n -> Seq(Byte)] /\ \A v \in 1..n : disk'[v] = IF v = n THEN new ELSE disk[v]
    BY <1>5, <1>7 DEF Laid, n
  <2>3. \A v \in 1..n : Len(disk'[v]) <= VolumeSize
    BY <1>4, <1>11, <2>2 DEF Laid, n
  <2>4. \A v \in 1..n : v < n => Len(disk'[v]) = VolumeSize /\ First(v + 1)' = First(v)' + VolumeSize
    <3>1. \A v \in 1..n : v < n => v # n /\ v + 1 \in 1..n
      BY <1>1
    <3>2. \A v \in 1..n : v < n => Len(disk[v]) = VolumeSize /\ First(v + 1) = First(v) + VolumeSize
      BY DEF Laid, n
    <3>. QED BY <2>1, <2>2, <3>1, <3>2
  <2>5. \A v, w \in 1..n : v < w => First(v)' + VolumeSize <= First(w)'
    BY <2>1 DEF Laid, n
  <2>6. Len(disk'[n]) >= 1 /\ First(n)' + Len(disk'[n]) = at + m
    <3>1. disk'[n] = new /\ First(n)' = First(n) /\ First(n) \in Nat
      BY <1>2, <1>8, <2>1, <2>2
    <3>. QED BY <1>1, <1>3, <1>11, <3>1, SMTT(30)
  <2>7. \A v \in 1..n : \A i \in 1..Len(disk'[v]) : disk'[v][i] = d[First(v)' + i]
    <3>. TAKE v \in 1..n
    <3>1. CASE v = n
      BY <1>11, <1>12, <2>1, <2>2, <3>1
    <3>2. CASE v # n
      <4>1. disk'[v] = disk[v] /\ First(v)' = First(v)
        BY <2>1, <2>2, <3>2
      <4>. QED BY <1>13, <3>2, <4>1
    <3>. QED BY <3>1, <3>2
  <2>8. volume_boundaries' \in Seq(Nat) /\ n >= 1 /\ volume_boundaries'[1] = 0
    BY <1>1, <1>5 DEF Laid
  <2>. QED BY <2>1, <2>2, <2>3, <2>4, <2>5, <2>6, <2>7, <2>8 DEF Laid, n
<1>15. StandsAt(n, at + m)'
  <2>1. n' = n /\ First(n)' = First(n) /\ First(n) \in Nat
    BY <1>2, <1>5, <1>8 DEF First, n
  <2>2. o + m \in 0..VolumeSize /\ First(n) + (o + m) = at + m
    <3>. DEFINE b == First(n)
    <3>1. b \in Nat /\ b + o = at
      BY <1>3, <2>1
    <3>. HIDE DEF b
    <3>2. o + m \in 0..VolumeSize /\ b + (o + m) = at + m
      BY <1>1, <1>4, <3>1
    <3>. QED BY <3>2 DEF b
  <2>. QED BY <1>5, <1>6, <2>1, <2>2 DEF StandsAt, o
<1>. QED BY <1>5, <1>14, <1>15 DEF m, n

\* A write that starts a volume appends to what the volumes hold as well: the one
\* before is full, and the boundary it records is the position that follows.
LEMMA GrowNext ==
  ASSUME NEW s \in Nat, NEW at \in Nat, s = at \/ (s = 0 /\ at < VolumeSize), NEW c, NEW d,
         Laid(s, c), StandsAt(Len(volume_boundaries), at),
         total_bytes \in Nat, HeaderSize + total_bytes = at,
         NEW buf \in Seq(Bytes), buf # <<>>, WriteNext(buf), Appended(s, at, c, d, buf)
  PROVE  /\ Laid(at + Len(buf), d)'
         /\ StandsAt(Len(volume_boundaries), at + Len(buf))'
         /\ total_bytes' = total_bytes + Len(buf)
<1>0. PICK n : n = Len(volume_boundaries)
  OBVIOUS
<1>. DEFINE o == current_volume_bytes
            m == Len(buf)
            old == disk[n]
            new == WriteAt(<<>>, 0, buf)
<1>. USE DEF Appended
<1>1. /\ n \in Nat /\ n >= 1 /\ m \in Nat /\ m >= 1 /\ o \in Nat /\ VolumeSize \in Nat
      /\ Len(old) \in Nat
  <2>1. m \in Nat /\ m >= 1
    OBVIOUS
  <2>2. old \in Seq(Byte) /\ o \in Nat
    BY <1>0, SegmentedAssumption DEF Laid, StandsAt
  <2>. QED BY <1>0, <2>1, <2>2, SegmentedAssumption DEF Laid
<1>2. DOMAIN disk = 1..n /\ n \in 1..n /\ volume_boundaries \in Seq(Nat)
  BY <1>0 DEF Laid
<1>3. First(n) + Len(old) = s /\ First(n) + o = at /\ o <= VolumeSize
  BY <1>0 DEF Laid, StandsAt
<1>4. m <= VolumeSize
  <2>1. MaxBytes - total_bytes \in Int
    BY SegmentedAssumption
  <2>. QED BY <1>1, <2>1 DEF WriteNext, Fits, Shortest
<1>5. o = VolumeSize
  BY <1>1, <1>3 DEF WriteNext, Remaining
<1>6. /\ current_volume' = n + 1 /\ current_file' = n + 1 /\ o' = m
      /\ volume_boundaries' = Append(volume_boundaries, total_bytes)
      /\ disk' = WithVolume(n + 1, new)
      /\ total_bytes' = total_bytes + m
  BY <1>0 DEF WriteNext, StandsAt
<1>7. /\ new \in Seq(Byte) /\ Len(new) = m
      /\ \A i \in 1..m : new[i] = buf[i]
  BY WriteAtStart
<1>8. \A v \in 1..n : First(v) \in Nat
  BY <1>0, LaidFirst
<1>9. \A v \in 1..n : v < n => First(v) + VolumeSize <= First(n)
  BY <1>0, <1>2 DEF Laid
<1>10. \A v \in 1..n : disk[v] \in Seq(Byte) /\ Len(disk[v]) <= VolumeSize
  BY <1>0 DEF Laid
<1>. HIDE DEF o, m, new, old
<1>11. s = at /\ Len(old) = VolumeSize /\ First(n) + VolumeSize = at
  <2>. DEFINE b == First(n)
  <2>1. b \in Nat
    BY <1>2, <1>8
  <2>2. b + Len(old) = s /\ b + o = at
    BY <1>3
  <2>. HIDE DEF b
  <2>3. s = at /\ Len(old) = VolumeSize /\ b + VolumeSize = at
    BY <1>1, <1>5, <2>1, <2>2
  <2>. QED BY <2>3 DEF b
<1>12. /\ volume_boundaries' \in Seq(Nat) /\ Len(volume_boundaries') = n + 1
       /\ \A v \in 1..n : volume_boundaries'[v] = volume_boundaries[v]
       /\ volume_boundaries'[n + 1] = total_bytes
  BY <1>0, <1>2, <1>6, AppendProperties
<1>13. First(n + 1)' = at /\ \A v \in 1..n : First(v)' = First(v)
  <2>1. n + 1 # 1
    BY <1>1
  <2>. QED BY <1>12, <2>1, MultiVolumeAssumption, SMTT(30) DEF First
<1>14. /\ DOMAIN disk' = 1..(n + 1) /\ disk'[n + 1] = new
       /\ \A v \in 1..n : disk'[v] = disk[v]
  <2>1. DOMAIN disk \cup {n + 1} = 1..(n + 1) /\ \A v \in 1..n : v # n + 1 /\ v \in 1..(n + 1)
    BY <1>1, <1>2
  <2>. QED BY <1>6, <2>1, Zenon DEF WithVolume
<1>15. ASSUME NEW v \in 1..n, NEW i \in 1..Len(disk[v])
       PROVE  disk[v][i] = d[First(v) + i]
  <2>. DEFINE a == First(v)
              b == First(n)
  <2>1. a \in Nat /\ b \in Nat /\ b + VolumeSize = s /\ (v < n => a + VolumeSize <= b)
        /\ (v = n => a = b)
    BY <1>2, <1>8, <1>9, <1>11
  <2>2. Len(disk[v]) \in Nat /\ Len(disk[v]) <= VolumeSize
    BY <1>10
  <2>. HIDE DEF a, b
  <2>3. a + i \in 1..s
    BY <1>1, <2>1, <2>2, SMTT(30)
  <2>4. disk[v][i] = c[a + i]
    BY <1>0 DEF Laid, a
  <2>. QED BY <2>3, <2>4 DEF a
<1>16. Laid(at + m, d)'
  <2>0. \A v \in 1..(n + 1) : v \in 1..n \/ v = n + 1
    BY <1>1
  <2>1. \A v \in 1..(n + 1) : disk'[v] \in Seq(Byte) /\ Len(disk'[v]) <= VolumeSize
    BY <1>4, <1>7, <1>10, <1>14, <2>0
  <2>7. disk' \in [1..(n + 1) -> Seq(Byte)]
    BY <1>6, <1>14, <2>1 DEF WithVolume
  <2>2. \A v \in 1..(n + 1) : v < n + 1 =>
          Len(disk'[v]) = VolumeSize /\ First(v + 1)' = First(v)' + VolumeSize
    <3>1. \A v \in 1..n : v < n => Len(disk[v]) = VolumeSize /\ First(v + 1) = First(v) + VolumeSize
      BY <1>0 DEF Laid
    <3>. TAKE v \in 1..(n + 1)
    <3>2. CASE v < n
      <4>1. v \in 1..n /\ v + 1 \in 1..n
        BY <1>1, <3>2
      <4>. QED BY <1>13, <1>14, <3>1, <3>2, <4>1
    <3>3. CASE v = n
      BY <1>2, <1>11, <1>13, <1>14, <3>3 DEF old
    <3>. QED BY <1>1, <3>2, <3>3
  <2>3. \A v, w \in 1..(n + 1) : v < w => First(v)' + VolumeSize <= First(w)'
    <3>. TAKE v, w \in 1..(n + 1)
    <3>. HAVE v < w
    <3>1. v \in 1..n
      BY <1>1
    <3>2. CASE w \in 1..n
      BY <1>0, <1>13, <3>1, <3>2 DEF Laid
    <3>3. CASE w = n + 1
      <4>. DEFINE a == First(v)
                  b == First(n)
      <4>1. a \in Nat /\ b \in Nat /\ b + VolumeSize = at /\ (v < n => a + VolumeSize <= b)
            /\ (v = n => a = b)
        BY <1>2, <1>8, <1>9, <1>11, <3>1
      <4>2. First(v)' = a /\ First(w)' = at
        BY <1>13, <3>1, <3>3
      <4>. HIDE DEF a, b
      <4>3. a + VolumeSize <= at
        BY <1>1, <3>1, <4>1
      <4>. QED BY <4>2, <4>3
    <3>. QED BY <1>1, <3>2, <3>3
  <2>4. Len(disk'[n + 1]) >= 1 /\ First(n + 1)' + Len(disk'[n + 1]) = at + m
    BY <1>1, <1>7, <1>13, <1>14
  <2>5. \A v \in 1..(n + 1) : \A i \in 1..Len(disk'[v]) : disk'[v][i] = d[First(v)' + i]
    <3>. TAKE v \in 1..(n + 1)
    <3>1. CASE v \in 1..n
      BY <1>13, <1>14, <1>15, <3>1
    <3>2. CASE v = n + 1
      BY <1>7, <1>13, <1>14, <3>2 DEF m
    <3>. QED BY <1>1, <3>1, <3>2
  <2>6. volume_boundaries'[1] = 0 /\ n + 1 >= 1
    <3>1. volume_boundaries[1] = 0 /\ 1 \in 1..n
      BY <1>1 DEF Laid
    <3>. QED BY <1>1, <1>12, <3>1
  <2>. QED BY <1>12, <2>1, <2>2, <2>3, <2>4, <2>5, <2>6, <2>7 DEF Laid
<1>17. StandsAt(n + 1, at + m)'
  BY <1>1, <1>4, <1>6, <1>12, <1>13 DEF StandsAt, o
<1>. QED BY <1>6, <1>12, <1>16, <1>17 DEF m, StandsAt

\* Every byte of a volume is one of the cells.
LEMMA LaidWithin ==
  ASSUME NEW s \in Nat, NEW c, Laid(s, c),
         NEW v \in 1..Len(volume_boundaries), NEW i \in 1..Len(disk[v])
  PROVE  First(v) + i \in 1..s /\ disk[v][i] = c[First(v) + i]
<1>. DEFINE n == Len(volume_boundaries)
            a == First(v)
            b == First(n)
            l == Len(disk[v])
            k == Len(disk[n])
<1>1. n \in Nat /\ v <= n /\ VolumeSize \in Nat
  BY SegmentedAssumption DEF Laid
<1>2. a \in Nat /\ b \in Nat
  BY <1>1, LaidFirst
<1>3. l \in Nat /\ k \in Nat /\ l <= VolumeSize /\ i \in 1..l
  <2>1. disk[v] \in Seq(Byte) /\ disk[n] \in Seq(Byte)
    <3>1. v \in 1..n /\ n \in 1..n
      BY <1>1
    <3>2. disk \in [1..n -> Seq(Byte)]
      BY DEF Laid
    <3>. QED BY <3>1, <3>2
  <2>. QED BY <2>1 DEF Laid
<1>4. b + k = s /\ disk[v][i] = c[a + i]
  BY DEF Laid
<1>5. (v = n => a = b /\ l = k) /\ (v # n => a + VolumeSize <= b)
  <2>1. v = n => a = b /\ l = k
    OBVIOUS
  <2>2. ASSUME v # n PROVE a + VolumeSize <= b
    <3>1. v < n /\ n \in 1..n
      BY <1>1, <2>2
    <3>. QED BY <3>1 DEF Laid
  <2>. QED BY <2>1, <2>2
<1>. HIDE DEF n, a, b, l, k
<1>6. a + i \in 1..s
  BY <1>1, <1>2, <1>3, <1>4, <1>5
<1>. QED BY <1>4, <1>6 DEF a

\* The first s cells d are c, with a buffer in place of the bytes behind p.
Patched(s, p, c, d, buf) ==
  /\ \A i \in 1..Len(buf) : d[p + i] = buf[i]
  /\ \A k \in 1..s : k <= p \/ p + Len(buf) < k => d[k] = c[k]

\* Going back to fill in the start header changes cells, but neither where the
\* volumes lie nor how long they are: the first volume holds the header.
LEMMA PatchFront ==
  ASSUME HeaderFits, NEW s \in Nat, HeaderSize < s, NEW p \in Nat, NEW c, NEW d,
         Laid(s, c), StandsAt(1, p), total_bytes \in Nat,
         NEW buf \in Seq(Bytes), buf # <<>>, p + Len(buf) <= HeaderSize, WriteHere(buf),
         Patched(s, p, c, d, buf)
  PROVE  /\ Laid(s, d)'
         /\ StandsAt(1, p + Len(buf))'
         /\ total_bytes' = total_bytes + Len(buf)
<1>. DEFINE n == Len(volume_boundaries)
            m == Len(buf)
            old == disk[1]
            l == Len(old)
            new == WriteAt(old, p, buf)
<1>. USE DEF Patched
<1>1. /\ n \in Nat /\ n >= 1 /\ m \in Nat /\ m >= 1 /\ VolumeSize \in Nat
      /\ 1 \in 1..n /\ old \in Seq(Byte) /\ l \in Nat /\ First(1) = 0
      /\ HeaderSize \in Nat /\ HeaderSize < VolumeSize
  <2>1. n \in Nat /\ n >= 1 /\ disk \in [1..n -> Seq(Byte)]
    BY DEF Laid
  <2>2. 1 \in 1..n
    BY <2>1
  <2>3. old \in Seq(Byte)
    BY <2>1, <2>2
  <2>4. m \in Nat /\ m >= 1 /\ l \in Nat
    BY <2>3
  <2>. QED BY <2>1, <2>2, <2>3, <2>4, SegmentedAssumption, MultiVolumeAssumption DEF First, HeaderFits
<1>2. HeaderSize < l
  <2>1. CASE n = 1
    <3>1. First(1) + l = s
      BY <2>1 DEF Laid
    <3>. QED BY <1>1, <3>1
  <2>2. CASE n # 1
    <3>1. 1 < n
      <4>. HIDE DEF n
      <4>. QED BY <1>1, <2>2
    <3>2. l = VolumeSize
      BY <1>1, <3>1 DEF Laid
    <3>. QED BY <1>1, <3>2
  <2>. QED BY <2>1, <2>2
<1>3. /\ current_volume_bytes = p
      /\ disk' = [disk EXCEPT ![1] = new]
      /\ current_volume_bytes' = p + m /\ total_bytes' = total_bytes + m
      /\ UNCHANGED <<current_volume, current_file, volume_boundaries>>
      /\ current_volume = 1 /\ current_file = 1
  BY DEF WriteHere, StandsAt, First
<1>4. /\ new \in Seq(Byte) /\ Len(new) = Longest(l, p + m)
      /\ \A i \in 1..Longest(l, p + m) :
           new[i] = IF i \in (p + 1)..(p + m) THEN buf[i - p]
                    ELSE IF i \in 1..l THEN old[i] ELSE Zero
  <2>1. old \in Seq(Byte) /\ p \in Nat /\ buf \in Seq(Bytes) /\ buf # <<>>
    BY <1>1
  <2>. HIDE DEF old
  <2>. QED BY <2>1, WriteAtCells
<1>5. Longest(l, p + m) = l /\ Len(new) = l
  <2>. HIDE DEF l, m
  <2>. QED BY <1>1, <1>2, <1>4 DEF Longest, m
<1>6. \A v \in 1..n : First(v) \in Nat
  BY LaidFirst
<1>7. \A v \in 1..n : \A i \in 1..Len(disk[v]) :
        First(v) + i \in 1..s /\ disk[v][i] = c[First(v) + i]
  BY LaidWithin
<1>8. \A v \in 1..n : v # 1 => First(v) >= VolumeSize
  <2>. TAKE v \in 1..n
  <2>. HAVE v # 1
  <2>1. First(1) + VolumeSize <= First(v)
    BY <1>1 DEF Laid
  <2>. QED BY <1>1, <2>1
<1>. HIDE DEF n, m, old, l, new
<1>9. ASSUME NEW i \in 1..l PROVE new[i] = d[First(1) + i]
  <2>0. First(1) + i = i /\ old[i] = c[i] /\ i \in 1..s
    BY <1>1, <1>7 DEF old, l
  <2>1. CASE i \in (p + 1)..(p + m)
    <3>1. i - p \in 1..m /\ p + (i - p) = i
      BY <1>1, <2>1
    <3>2. new[i] = buf[i - p]
      BY <1>4, <1>5, <2>1
    <3>. QED BY <2>0, <3>1, <3>2 DEF m
  <2>2. CASE i \notin (p + 1)..(p + m)
    <3>1. i <= p \/ p + m < i
      BY <1>1, <2>2
    <3>2. new[i] = old[i]
      BY <1>4, <1>5, <2>2
    <3>. QED BY <2>0, <3>1, <3>2 DEF m
  <2>. QED BY <2>1, <2>2
<1>10. ASSUME NEW v \in 1..n, v # 1, NEW i \in 1..Len(disk[v])
       PROVE  disk[v][i] = d[First(v) + i]
  <2>. DEFINE a == First(v)
  <2>1. a \in Nat /\ a >= VolumeSize /\ a + i \in 1..s /\ disk[v][i] = c[a + i] /\ i \in Nat
    BY <1>6, <1>7, <1>8, <1>10
  <2>. HIDE DEF a
  <2>2. p + m < a + i
    BY <1>1, <2>1 DEF m
  <2>3. d[a + i] = c[a + i]
    BY <2>1, <2>2 DEF m
  <2>. QED BY <2>1, <2>3 DEF a
<1>11. Laid(s, d)'
  <2>1. /\ n' = n /\ \A v \in Nat : First(v)' = First(v)
    BY <1>3 DEF First, n
  <2>2. disk' \in [1..n -> Seq(Byte)] /\ \A v \in 1..n : disk'[v] = IF v = 1 THEN new ELSE disk[v]
    BY <1>3, <1>4 DEF Laid, n
  <2>3. \A v \in 1..n : Len(disk'[v]) = Len(disk[v])
    BY <1>5, <2>2 DEF l, old
  <2>4. \A v \in 1..n : \A i \in 1..Len(disk'[v]) : disk'[v][i] = d[First(v) + i]
    <3>. TAKE v \in 1..n
    <3>1. CASE v = 1
      BY <1>5, <1>9, <2>2, <3>1
    <3>2. CASE v # 1
      BY <1>10, <2>2, <3>2
    <3>. QED BY <3>1, <3>2
  <2>5. \A v \in 1..n : v \in Nat /\ v + 1 \in Nat
    OBVIOUS
  <2>6. /\ \A v \in 1..n : Len(disk[v]) <= VolumeSize
        /\ \A v \in 1..n : v < n => Len(disk[v]) = VolumeSize /\ First(v + 1) = First(v) + VolumeSize
        /\ \A v, w \in 1..n : v < w => First(v) + VolumeSize <= First(w)
        /\ n >= 2 => Len(disk[n]) >= 1
        /\ First(n) + Len(disk[n]) = s /\ n \in 1..n
        /\ volume_boundaries \in Seq(Nat) /\ n >= 1 /\ volume_boundaries[1] = 0
    <3>1. n \in 1..n
      BY <1>1
    <3>. QED BY <3>1 DEF Laid, n
  <2>7. /\ \A v \in 1..n : Len(disk'[v]) <= VolumeSize
        /\ \A v \in 1..n : v < n => Len(disk'[v]) = VolumeSize /\ First(v + 1)' = First(v)' + VolumeSize
        /\ \A v, w \in 1..n : v < w => First(v)' + VolumeSize <= First(w)'
        /\ n >= 2 => Len(disk'[n]) >= 1
        /\ First(n)' + Len(disk'[n]) = s
        /\ \A v \in 1..n : \A i \in 1..Len(disk'[v]) : disk'[v][i] = d[First(v)' + i]
    BY <2>1, <2>3, <2>4, <2>5, <2>6, Zenon
  <2>. QED BY <1>3, <2>1, <2>2, <2>6, <2>7 DEF Laid, n
<1>12. StandsAt(1, p + m)'
  BY <1>1, <1>3 DEF StandsAt, First, m
<1>. QED BY <1>3, <1>11, <1>12 DEF m

-----------------------------------------------------------------------------
(* Archives in volumes: the volumes as one array *)

\* The volumes joined are the cells, and a volume starts behind the bytes of the
\* volumes before it.
LEMMA LaidJoined ==
  ASSUME NEW s \in Nat, NEW c, Laid(s, c)
  PROVE  /\ Joined = [k \in 1..s |-> c[k]]
         /\ \A v \in 1..Len(volume_boundaries) : BytesBefore(v) = First(v)
<1>0. PICK n : n = Len(volume_boundaries)
  OBVIOUS
<1>. PICK start : start = [v \in 1..(n + 1) |-> IF v <= n THEN First(v) ELSE s]
  OBVIOUS
<1>1. /\ n \in Nat /\ n >= 1 /\ disk \in [1..n -> Seq(Byte)]
      /\ \A v \in 1..n : v < n => Len(disk[v]) = VolumeSize /\ First(v + 1) = First(v) + VolumeSize
      /\ First(n) + Len(disk[n]) = s
  BY <1>0 DEF Laid
<1>2. disk \in Seq(Seq(Byte)) /\ Len(disk) = n
  BY <1>1
<1>3. start[1] = 0
  BY <1>1 DEF First
<1>4. \A v \in 1..n : start[v + 1] = start[v] + Len(disk[v]) /\ start[v] = First(v)
  <2>. TAKE v \in 1..n
  <2>1. start[v] = First(v) /\ v + 1 \in 1..(n + 1)
    BY <1>1
  <2>2. CASE v < n
    <3>1. v + 1 <= n
      BY <1>1, <2>2
    <3>. QED BY <1>1, <2>1, <2>2, <3>1
  <2>3. CASE v = n
    <3>1. ~(v + 1 <= n)
      BY <1>1, <2>3
    <3>. QED BY <1>1, <2>1, <2>3, <3>1
  <2>. QED BY <1>1, <2>2, <2>3
<1>5. \A v \in 1..n : \A i \in 1..Len(disk[v]) : disk[v][i] = c[start[v] + i]
  BY <1>0, <1>4, LaidWithin
<1>6. start[n + 1] = s
  BY <1>1
<1>7. Joined = [k \in 1..s |-> c[k]]
  <2>1. /\ \A v \in 1..Len(disk) : start[v + 1] = start[v] + Len(disk[v])
        /\ \A v \in 1..Len(disk) : \A i \in 1..Len(disk[v]) : disk[v][i] = c[start[v] + i]
        /\ start[Len(disk) + 1] = s
    BY <1>2, <1>4, <1>5, <1>6
  <2>2. LiesIn(disk, start, c)
    BY <1>3, <2>1 DEF LiesIn
  <2>3. FlattenSeq(disk) = [k \in 1..start[Len(disk) + 1] |-> c[k]]
    BY <1>2, <2>2, FlattenLaysOut
  <2>. QED BY <2>1, <2>3 DEF Joined
<1>8. ASSUME NEW v \in 1..n PROVE BytesBefore(v) = First(v)
  <2>. PICK lens : lens = [u \in DOMAIN disk |-> Len(disk[u])]
    OBVIOUS
  <2>1. \A u \in 1..n : lens[u] \in Nat /\ start[u + 1] = start[u] + lens[u]
    BY <1>1, <1>4
  <2>2. {u \in DOMAIN disk : u < v} = 1..(v - 1)
    BY <1>1, SMTT(30)
  <2>3. v \in 1..(n + 1)
    BY <1>1
  <2>4. RunningTotal(lens, n, start)
    BY <1>3, <2>1 DEF RunningTotal
  <2>5. SumFunctionOnSet(lens, 1..(v - 1)) = start[v]
    BY <1>1, <2>3, <2>4, SumLaysOut
  <2>. QED BY <1>4, <2>2, <2>3, <2>5 DEF BytesBefore
<1>. QED BY <1>0, <1>7, <1>8

-----------------------------------------------------------------------------
(* Archives in volumes: every step keeps the invariant *)

Stages == {"new", "pack", "header", "patch", "done"}

\* How far the two headers are written, stage by stage.
LEMMA Written ==
  ASSUME MVInv
  PROVE  /\ sent \in Nat /\ patched \in Nat /\ patched <= HeaderSize /\ sent <= NextSize
         /\ End \in Nat /\ Size \in Nat /\ total_bytes \in Nat /\ packed \in Nat
         /\ stage \in {"new", "pack"} => sent = 0
         /\ stage \in {"new", "pack", "header"} => patched = 0
         /\ stage \in {"patch", "done"} => sent = NextSize /\ HeaderSize < Size /\ Size = End
         /\ Size = End \/ (Size = 0 /\ End = HeaderSize)
<1>1. /\ HeaderSize \in Nat /\ HeaderSize >= 1 /\ NextSize \in Nat /\ NextSize >= 1
      /\ packed \in Nat /\ left \in Nat /\ stage \in Stages
      /\ stage = "header" => left <= NextSize
      /\ stage = "patch" => left <= HeaderSize
      /\ total_bytes = packed + sent + patched
  BY MultiVolumeAssumption DEF MVInv, Stages
<1>2. /\ sent \in Nat /\ sent <= NextSize
      /\ stage \in {"new", "pack"} => sent = 0
      /\ stage \in {"patch", "done"} => sent = NextSize
  BY <1>1 DEF sent, Stages
<1>3. /\ patched \in Nat /\ patched <= HeaderSize
      /\ stage \in {"new", "pack", "header"} => patched = 0
  BY <1>1 DEF patched, Stages
<1>4. End \in Nat /\ Size \in Nat /\ total_bytes \in Nat
  BY <1>1, <1>2, <1>3 DEF End, Size
<1>5. stage \in {"patch", "done"} => HeaderSize < Size /\ Size = End
  BY <1>1, <1>2 DEF Size, End
<1>6. Size = End \/ (Size = 0 /\ End = HeaderSize)
  BY <1>1, <1>2 DEF Size, End
<1>. QED BY <1>1, <1>2, <1>3, <1>4, <1>5, <1>6

\* A step that writes a buffer of m cells at the end of the archive.
Grows(m, buf) ==
  /\ stage \in {"pack", "header"} /\ stage' = stage
  /\ m \in Nat /\ m >= 1 /\ buf \in [1..m -> Bytes] /\ WriteSome(buf)
  /\ End' = End + m /\ Size' = End + m
  /\ \A k \in 1..End : Row'[k] = Row[k]
  /\ \A i \in 1..m : Row'[End + i] = buf[i]

\* It appends them to the volumes.
LEMMA GrowRow ==
  ASSUME HeaderFits, MVInv, NEW m, NEW buf, Grows(m, buf)
  PROVE  /\ Laid(Size, Row)'
         /\ StandsAt(Len(volume_boundaries), Position)'
         /\ total_bytes' = total_bytes + m
<1>. USE DEF Grows
<1>1. PICK s, at, c, d : s = Size /\ at = End /\ c = Row /\ d = Row'
  OBVIOUS
<1>2. /\ s \in Nat /\ at \in Nat /\ HeaderSize \in Nat /\ HeaderSize < VolumeSize
      /\ s = at \/ (s = 0 /\ at = HeaderSize)
      /\ patched = 0 /\ total_bytes \in Nat /\ HeaderSize + total_bytes = at
  <2>1. HeaderSize \in Nat /\ packed \in Nat /\ sent \in Nat /\ patched = 0
    BY Written, MultiVolumeAssumption
  <2>2. total_bytes = packed + sent + patched
    BY DEF MVInv
  <2>3. HeaderSize + total_bytes = End
    BY <2>1, <2>2 DEF End
  <2>. QED BY <1>1, <2>1, <2>3, Written DEF HeaderFits
<1>3. Laid(s, c) /\ StandsAt(Len(volume_boundaries), at)
  BY <1>1 DEF MVInv, Position
<1>4. buf \in Seq(Bytes) /\ Len(buf) = m /\ buf # <<>>
  <2>1. buf \in Seq(Bytes) /\ Len(buf) = m
    OBVIOUS
  <2>. QED BY <2>1
<1>5. \A k \in 1..s : d[k] = c[k]
  BY <1>1, <1>2
<1>6. \A k \in (s + 1)..at : d[k] = Zero
  <2>. TAKE k \in (s + 1)..at
  <2>1. k \in Nat /\ k \in 1..at /\ k <= HeaderSize /\ ~(k <= 0)
    BY <1>2
  <2>2. c[k] = Zero
    BY <1>1, <1>2, <2>1 DEF Row, Cell
  <2>. QED BY <1>1, <2>1, <2>2
<1>7. \A i \in 1..m : d[at + i] = buf[i]
  BY <1>1
<1>8. Laid(at + m, d)' /\ StandsAt(Len(volume_boundaries), at + m)' /\ total_bytes' = total_bytes + m
  <2>0. Appended(s, at, c, d, buf)
    BY <1>4, <1>5, <1>6, <1>7 DEF Appended
  <2>1. CASE WriteHere(buf)
    BY <1>2, <1>3, <1>4, <2>0, <2>1, GrowHere
  <2>2. CASE WriteNext(buf)
    <3>1. s = at \/ (s = 0 /\ at < VolumeSize)
      BY <1>2
    <3>. QED BY <1>2, <1>3, <1>4, <2>0, <2>2, <3>1, GrowNext
  <2>. QED BY <2>1, <2>2 DEF WriteSome
<1>9. Size' = at + m /\ Position' = at + m /\ Row' = d
  <2>1. Position' = End'
    BY DEF Position
  <2>. QED BY <1>1, <2>1
<1>10. /\ Laid(Size, Row)' <=> Laid(at + m, d)'
       /\ StandsAt(Len(volume_boundaries), Position)' <=> StandsAt(Len(volume_boundaries), at + m)'
  BY <1>9 DEF Laid, StandsAt
<1>. QED BY <1>8, <1>10

\* The conjuncts of the invariant that the packed data and the headers do not touch.
LEMMA InvAfterWrite ==
  ASSUME MVInv, stage \in Stages, stage' = stage, stage # "done",
         packed' \in Nat, left' \in Nat, header_pos' = header_pos,
         stage = "new" => packed' = 0,
         stage = "header" => left' <= NextSize /\ packed' = packed,
         stage = "patch" => left' <= HeaderSize /\ packed' = packed,
         (total_bytes = packed + sent + patched)', Laid(Size, Row)',
         StandsAt(IF stage \in {"pack", "header"} THEN Len(volume_boundaries) ELSE 1, Position)'
  PROVE  MVInv'
BY DEF MVInv, Stages

\* The packed data and the next header are such steps.
LEMMA PushGrows ==
  ASSUME MVInv, push_archive_entry
  PROVE  \E n : /\ packed' = packed + n /\ sent' = sent /\ patched' = 0
                /\ \E buf : Grows(n, buf)
<1>1. PICK n \in 1..MaxBuffer : WriteSome(Data(packed, n)) /\ packed' = packed + n
  BY DEF push_archive_entry
<1>2. /\ stage = "pack" /\ stage' = "pack" /\ left' = left /\ header_pos' = header_pos
      /\ n \in Nat /\ n >= 1
  BY SegmentedAssumption DEF push_archive_entry
<1>3. PICK p : p = packed
  OBVIOUS
<1>4. /\ p \in Nat /\ HeaderSize \in Nat /\ HeaderSize >= 1 /\ End = HeaderSize + p
      /\ sent = 0 /\ sent' = 0 /\ patched = 0 /\ patched' = 0
  BY <1>2, <1>3, MultiVolumeAssumption DEF MVInv, sent, patched, End
<1>5. End' = End + n /\ Size' = End + n
  BY <1>1, <1>2, <1>3, <1>4 DEF End, Size
<1>6. \A k \in 1..End : Row'[k] = Row[k]
  <2>. TAKE k \in 1..End
  <2>1. k \in Nat /\ ~(k <= 0) /\ k <= HeaderSize + p /\ k <= HeaderSize + (p + n)
    BY <1>2, <1>4
  <2>2. Cell(k)' = Cell(k)
    BY <1>1, <1>3, <1>4, <2>1 DEF Cell
  <2>. QED BY <2>1, <2>2 DEF Row
<1>7. \A i \in 1..n : Row'[End + i] = Data(packed, n)[i]
  <2>. TAKE i \in 1..n
  <2>1. PICK k : k = End + i
    OBVIOUS
  <2>2. /\ k \in Nat /\ ~(k <= 0) /\ ~(k <= HeaderSize) /\ k <= HeaderSize + (p + n)
        /\ k - HeaderSize = p + i
    BY <1>2, <1>4, <2>1
  <2>3. Cell(k)' = Parity(p + i)
    BY <1>1, <1>3, <1>4, <2>2 DEF Cell
  <2>4. Row'[k] = Cell(k)'
    BY <2>2 DEF Row
  <2>. QED BY <1>3, <2>1, <2>3, <2>4 DEF Data
<1>8. Data(packed, n) \in [1..n -> Bytes]
  BY MultiVolumeAssumption DEF Data, Parity, DataBytes
<1>9. PICK buf : buf = Data(packed, n)
  OBVIOUS
<1>10. Grows(n, buf)
  BY <1>1, <1>2, <1>5, <1>6, <1>7, <1>8, <1>9 DEF Grows
<1>. QED BY <1>1, <1>4, <1>10

\* Packing an entry keeps the invariant.
LEMMA PushKeeps ==
  ASSUME HeaderFits, MVInv, push_archive_entry
  PROVE  MVInv'
<1>1. PICK n, buf : packed' = packed + n /\ sent' = sent /\ patched' = 0 /\ Grows(n, buf)
  BY PushGrows
<1>2. /\ stage = "pack" /\ stage' = "pack" /\ left' = left /\ header_pos' = header_pos
      /\ n \in Nat
  BY <1>1 DEF push_archive_entry, Grows
<1>3. packed \in Nat /\ sent = 0 /\ patched = 0 /\ total_bytes = packed + sent + patched
  BY <1>2, Written DEF MVInv
<1>4. /\ Laid(Size, Row)' /\ StandsAt(Len(volume_boundaries), Position)'
      /\ total_bytes' = total_bytes + n
  BY <1>1, GrowRow
<1>5. (total_bytes = packed + sent + patched)'
  BY <1>1, <1>2, <1>3, <1>4
<1>. QED BY <1>1, <1>2, <1>3, <1>4, <1>5, InvAfterWrite DEF MVInv, Stages

\* Writing the next header is such a step.
LEMMA WriteNextHeaderGrows ==
  ASSUME MVInv, WriteNextHeader
  PROVE  \E n : /\ sent' = sent + n /\ left' \in Nat /\ left' <= NextSize /\ patched' = 0
                /\ \E buf : Grows(n, buf)
<1>1. PICK n \in 1..left : WriteSome(Repeat(NextByte, n)) /\ left' = left - n
  BY DEF WriteNextHeader
<1>2. /\ stage = "header" /\ stage' = "header" /\ packed' = packed /\ header_pos' = header_pos
      /\ left \in Nat /\ n \in Nat /\ n >= 1 /\ n <= left /\ left <= NextSize
  BY DEF WriteNextHeader, MVInv
<1>3. PICK p, q : p = packed /\ q = sent
  OBVIOUS
<1>4. /\ p \in Nat /\ q \in Nat /\ HeaderSize \in Nat /\ HeaderSize >= 1 /\ NextSize \in Nat
      /\ End = HeaderSize + p + q
      /\ q = NextSize - left /\ sent' = q + n /\ patched = 0 /\ patched' = 0
  BY <1>1, <1>2, <1>3, MultiVolumeAssumption DEF MVInv, sent, patched, End
<1>5. End' = End + n /\ Size' = End + n
  BY <1>1, <1>2, <1>3, <1>4 DEF End, Size
<1>6. \A k \in 1..End : Row'[k] = Row[k]
  <2>. TAKE k \in 1..End
  <2>1. Cell(k)' = Cell(k)
    BY <1>2, <1>3, <1>4 DEF Cell
  <2>. QED BY <1>4, <2>1 DEF Row
<1>7. \A i \in 1..n : Row'[End + i] = Repeat(NextByte, n)[i]
  <2>. TAKE i \in 1..n
  <2>1. PICK k : k = End + i
    OBVIOUS
  <2>2. k \in Nat /\ ~(k <= 0) /\ ~(k <= HeaderSize) /\ ~(k <= HeaderSize + p)
    BY <1>2, <1>4, <2>1
  <2>3. Cell(k)' = NextByte
    BY <1>2, <1>3, <1>4, <2>2 DEF Cell
  <2>4. Row'[k] = Cell(k)'
    BY <2>2 DEF Row
  <2>. QED BY <2>1, <2>3, <2>4 DEF Repeat
<1>8. Repeat(NextByte, n) \in [1..n -> Bytes]
  BY MultiVolumeAssumption DEF Repeat
<1>9. PICK buf : buf = Repeat(NextByte, n)
  OBVIOUS
<1>10. Grows(n, buf)
  BY <1>1, <1>2, <1>5, <1>6, <1>7, <1>8, <1>9 DEF Grows
<1>11. left' \in Nat /\ left' <= NextSize
  BY <1>1, <1>2, <1>4
<1>. QED BY <1>3, <1>4, <1>10, <1>11

\* Writing the next header keeps the invariant.
LEMMA WriteNextHeaderKeeps ==
  ASSUME HeaderFits, MVInv, WriteNextHeader
  PROVE  MVInv'
<1>1. PICK n, buf : /\ sent' = sent + n /\ left' \in Nat /\ left' <= NextSize /\ patched' = 0
                    /\ Grows(n, buf)
  BY WriteNextHeaderGrows
<1>2. /\ stage = "header" /\ stage' = "header" /\ packed' = packed /\ header_pos' = header_pos
      /\ n \in Nat
  BY <1>1 DEF WriteNextHeader, Grows
<1>3. /\ packed \in Nat /\ sent \in Nat /\ patched = 0
      /\ total_bytes = packed + sent + patched
  BY <1>2, Written DEF MVInv
<1>4. /\ Laid(Size, Row)' /\ StandsAt(Len(volume_boundaries), Position)'
      /\ total_bytes' = total_bytes + n
  BY <1>1, GrowRow
<1>5. (total_bytes = packed + sent + patched)'
  <2>1. total_bytes' = packed + (sent + n) + 0
    BY <1>2, <1>3, <1>4
  <2>. QED BY <1>1, <1>2, <2>1
<1>. QED BY <1>1, <1>2, <1>3, <1>4, <1>5, InvAfterWrite DEF MVInv, Stages

\* Writing the start header replaces the first cells and keeps the invariant.
LEMMA PatchKeeps ==
  ASSUME HeaderFits, MVInv, PatchStartHeader
  PROVE  MVInv'
<1>1. PICK n \in 1..left : WriteSome(Repeat(StartByte, n)) /\ left' = left - n
  BY DEF PatchStartHeader
<1>2. /\ stage = "patch" /\ stage' = "patch" /\ packed' = packed /\ header_pos' = header_pos
      /\ left \in Nat /\ n \in Nat /\ n >= 1 /\ n <= left /\ left <= HeaderSize
  BY DEF PatchStartHeader, MVInv
<1>3. PICK s, p, c, d, buf :
        s = Size /\ p = patched /\ c = Row /\ d = Row' /\ buf = Repeat(StartByte, n)
  OBVIOUS
<1>4. /\ s \in Nat /\ HeaderSize < s /\ p \in Nat /\ HeaderSize \in Nat /\ HeaderSize < VolumeSize
      /\ p = HeaderSize - left /\ patched' = p + n /\ p + n <= HeaderSize
      /\ sent = NextSize /\ sent' = NextSize /\ total_bytes \in Nat /\ packed \in Nat
      /\ VolumeSize \in Nat
  BY <1>1, <1>2, <1>3, Written, MultiVolumeAssumption, SegmentedAssumption
     DEF sent, patched, HeaderFits
<1>5. Laid(s, c) /\ StandsAt(1, p)
  BY <1>2, <1>3 DEF MVInv, Position
<1>6. buf \in Seq(Bytes) /\ Len(buf) = n /\ buf # <<>> /\ \A i \in 1..n : buf[i] = StartByte
  <2>1. buf \in [1..n -> Bytes] /\ \A i \in 1..n : buf[i] = StartByte
    BY <1>3, MultiVolumeAssumption DEF Repeat
  <2>. QED BY <1>2, <2>1
<1>7. WriteHere(buf)
  <2>1. Remaining > 0
    BY <1>2, <1>4, <1>5 DEF Remaining, StandsAt, First
  <2>2. ~(Remaining = 0)
    BY <2>1
  <2>. QED BY <1>1, <1>3, <2>2 DEF WriteSome, WriteNext
<1>8. Patched(s, p, c, d, buf)
  <2>1. \A i \in 1..n : d[p + i] = StartByte
    <3>. TAKE i \in 1..n
    <3>1. p + i \in Nat /\ p + i <= p + n
      BY <1>2, <1>4
    <3>2. Cell(p + i)' = StartByte
      BY <1>3, <1>4, <3>1 DEF Cell
    <3>. QED BY <1>3, <3>1, <3>2 DEF Row
  <2>2. \A k \in 1..s : k <= p \/ p + n < k => d[k] = c[k]
    <3>. TAKE k \in 1..s
    <3>. HAVE k <= p \/ p + n < k
    <3>1. k \in Nat /\ (k <= p <=> k <= p + n)
      BY <1>2, <1>4
    <3>2. Cell(k)' = Cell(k)
      BY <1>2, <1>3, <1>4, <3>1 DEF Cell
    <3>. QED BY <1>3, <3>1, <3>2 DEF Row
  <2>. QED BY <1>6, <2>1, <2>2 DEF Patched
<1>9. Laid(s, d)' /\ StandsAt(1, p + n)' /\ total_bytes' = total_bytes + n
  BY <1>4, <1>5, <1>6, <1>7, <1>8, PatchFront
<1>10. Size' = s /\ Position' = p + n /\ Row' = d
  BY <1>2, <1>3, <1>4 DEF Size, End, Position
<1>11. Laid(Size, Row)' /\ StandsAt(1, Position)'
  BY <1>9, <1>10 DEF Laid, StandsAt
<1>12. (total_bytes = packed + sent + patched)'
  <2>1. total_bytes = packed + NextSize + p /\ NextSize \in Nat
    BY <1>3, <1>4, MultiVolumeAssumption DEF MVInv
  <2>2. total_bytes' = packed + NextSize + (p + n)
    BY <1>2, <1>4, <1>9, <2>1
  <2>. QED BY <1>2, <1>4, <2>2
<1>13. left' \in Nat /\ left' <= HeaderSize
  BY <1>1, <1>2, <1>4
<1>. QED BY <1>2, <1>4, <1>11, <1>12, <1>13, InvAfterWrite DEF MVInv, Stages

\* A seek to a position before the second volume lands in the first.
LEMMA SeekFirst ==
  ASSUME NEW s, NEW c, Laid(s, c), NEW p \in Nat,
         \A v \in 2..Len(volume_boundaries) : p < volume_boundaries[v],
         SeekStart(p), current_file \in Nat, current_volume = current_file
  PROVE  /\ current_volume' = 1 /\ current_file' = 1 /\ current_volume_bytes' = p
         /\ UNCHANGED <<disk, total_bytes, volume_boundaries>>
<1>1. /\ volume_boundaries \in Seq(Nat) /\ volume_boundaries # <<>> /\ volume_boundaries[1] = 0
  BY DEF Laid
<1>2. TargetVolume(p) \in DOMAIN volume_boundaries /\ volume_boundaries[TargetVolume(p)] <= p
  BY <1>1, TargetVolumeExists
<1>3. TargetVolume(p) = 1
  <2>1. PICK v : v = TargetVolume(p)
    OBVIOUS
  <2>2. v \in 1..Len(volume_boundaries) /\ volume_boundaries[v] \in Nat /\ volume_boundaries[v] <= p
    BY <1>1, <1>2, <2>1
  <2>3. v \notin 2..Len(volume_boundaries)
    BY <2>2
  <2>4. v = 1
    BY <1>1, <2>2, <2>3
  <2>. QED BY <2>1, <2>4
<1>4. p - volume_boundaries[1] = p
  BY <1>1
<1>. QED BY <1>3, <1>4 DEF SeekStart

\* Before the writer is created nothing is on disk.
LEMMA InitMVInv == HeaderFits /\ MVInit => MVInv
<1>. SUFFICES ASSUME HeaderFits, MVInit PROVE MVInv
  OBVIOUS
<1>1. /\ stage = "new" /\ packed = 0 /\ left = 0 /\ header_pos = 0 /\ total_bytes = 0
      /\ disk = [v \in {1} |-> <<>>] /\ volume_boundaries = <<0>>
      /\ current_volume = 1 /\ current_file = 1 /\ current_volume_bytes = 0
  BY DEF MVInit, Init
<1>2. sent = 0 /\ patched = 0 /\ Size = 0 /\ Position = 0 /\ First(1) = 0
  BY <1>1 DEF sent, patched, Size, Position, First
<1>3. /\ Len(volume_boundaries) = 1 /\ volume_boundaries \in Seq(Nat) /\ volume_boundaries[1] = 0
      /\ <<>> \in Seq(Byte) /\ Len(<<>>) = 0 /\ disk[1] = <<>> /\ 1..1 = {1} /\ VolumeSize \in Nat
  BY <1>1, SegmentedAssumption
<1>4. disk \in [1..1 -> Seq(Byte)]
  BY <1>1, <1>3
<1>5. Laid(Size, Row)
  <2>1. \A v \in 1..1 : v = 1
    OBVIOUS
  <2>2. \A v \in 1..1 : Len(disk[v]) = 0 /\ 0 <= VolumeSize /\ ~(v < 1) /\ \A w \in 1..1 : ~(v < w)
    BY <1>3, <2>1
  <2>. QED BY <1>2, <1>3, <1>4, <2>2 DEF Laid
<1>6. StandsAt(1, 0)
  BY <1>1, <1>2, <1>3 DEF StandsAt
<1>. QED BY <1>1, <1>2, <1>5, <1>6 DEF MVInv

\* A new writer stands behind the place of its start header.
LEMMA CreateKeeps ==
  ASSUME HeaderFits, MVInv, create_multi_volume
  PROVE  MVInv'
<1>1. /\ stage = "new" /\ stage' = "pack" /\ SeekStart(HeaderSize) /\ packed = 0
      /\ UNCHANGED <<left, header_pos, packed, metadata>>
  BY DEF create_multi_volume, MVInv
<1>2. /\ HeaderSize \in Nat /\ HeaderSize < VolumeSize /\ HeaderSize >= 1 /\ VolumeSize \in Nat
  BY MultiVolumeAssumption, SegmentedAssumption DEF HeaderFits
<1>3. /\ sent = 0 /\ patched = 0 /\ sent' = 0 /\ patched' = 0 /\ Size = 0 /\ Size' = 0
      /\ Position' = HeaderSize
  BY <1>1, <1>2 DEF sent, patched, Size, Position, End
<1>4. PICK c : c = Row
  OBVIOUS
<1>5. Row' = c
  BY <1>1, <1>3, <1>4 DEF Row, Cell
<1>6. Laid(0, c) /\ StandsAt(1, Position) /\ total_bytes = packed + sent + patched
  BY <1>1, <1>3, <1>4 DEF MVInv
<1>7. Len(volume_boundaries) = 1
  <2>1. PICK n : n = Len(volume_boundaries)
    OBVIOUS
  <2>2. /\ n \in Nat /\ n >= 1 /\ First(n) \in Nat /\ Len(disk[n]) \in Nat
        /\ First(n) + Len(disk[n]) = 0 /\ (n >= 2 => Len(disk[n]) >= 1)
    <3>1. n \in Nat /\ n >= 1 /\ disk \in [1..n -> Seq(Byte)]
      BY <1>6, <2>1 DEF Laid
    <3>2. n \in 1..n /\ First(n) \in Nat
      BY <1>6, <2>1, <3>1, LaidFirst
    <3>3. disk[n] \in Seq(Byte)
      BY <3>1, <3>2
    <3>. QED BY <1>6, <2>1, <3>1, <3>2, <3>3 DEF Laid
  <2>3. ~(n >= 2)
    BY <2>2
  <2>. QED BY <2>1, <2>2, <2>3
<1>8. /\ current_volume' = 1 /\ current_file' = 1 /\ current_volume_bytes' = HeaderSize
      /\ UNCHANGED <<disk, total_bytes, volume_boundaries>>
  <2>1. \A v \in 2..Len(volume_boundaries) : HeaderSize < volume_boundaries[v]
    BY <1>7
  <2>. QED BY <1>1, <1>2, <1>6, <2>1, SeekFirst DEF StandsAt
<1>9. Laid(0, c)'
  BY <1>6, <1>8 DEF Laid, First
<1>10. StandsAt(1, HeaderSize)'
  BY <1>2, <1>8 DEF StandsAt, First
<1>11. Laid(Size, Row)' /\ StandsAt(Len(volume_boundaries), Position)'
  <2>1. Laid(Size, Row)' <=> Laid(0, c)'
    BY <1>3, <1>5 DEF Laid
  <2>2. Len(volume_boundaries') = 1
    BY <1>7, <1>8
  <2>3. StandsAt(Len(volume_boundaries), Position)' <=> StandsAt(1, HeaderSize)'
    BY <1>3, <2>2 DEF StandsAt
  <2>. QED BY <1>9, <1>10, <2>1, <2>3
<1>. QED BY <1>1, <1>3, <1>6, <1>8, <1>11 DEF MVInv

\* finish_multi_volume takes the position of the writer: in the first volume, that is
\* where the packed data ends.
LEMMA FinishPackKeeps ==
  ASSUME HeaderFits, MVInv, finish_multi_volume
  PROVE  MVInv'
<1>1. /\ stage = "pack" /\ stage' = "header" /\ left' = NextSize /\ header_pos' = stream_position
      /\ UNCHANGED <<vars, packed, metadata>>
  BY DEF finish_multi_volume
<1>2. PICK n, c, s, k : n = Len(volume_boundaries) /\ c = Row /\ s = Size /\ k = packed
  OBVIOUS
<1>3. /\ sent = 0 /\ patched = 0 /\ NextSize \in Nat /\ HeaderSize \in Nat /\ HeaderSize >= 1
      /\ VolumeSize \in Nat /\ k \in Nat
  BY <1>1, <1>2, MultiVolumeAssumption, SegmentedAssumption DEF MVInv, sent, patched
<1>4. sent' = 0 /\ patched' = 0 /\ packed' = k
  BY <1>1, <1>2, <1>3 DEF sent, patched
<1>5. /\ Size' = s /\ Row' = c /\ Position = HeaderSize + k /\ Position' = HeaderSize + k
      /\ s = Size /\ s = (IF k + 0 = 0 THEN 0 ELSE HeaderSize + k)
  <2>1. End = HeaderSize + k /\ End' = HeaderSize + k
    BY <1>2, <1>3, <1>4 DEF End
  <2>. QED BY <1>1, <1>2, <1>3, <1>4, <2>1 DEF Size, Row, Cell, Position
<1>6. Laid(s, c) /\ StandsAt(n, HeaderSize + k)
  BY <1>1, <1>2, <1>5 DEF MVInv
<1>7. Laid(Size, Row)' /\ StandsAt(Len(volume_boundaries), Position)'
  BY <1>1, <1>2, <1>5, <1>6 DEF Laid, StandsAt, First, vars
<1>8. /\ n \in Nat /\ n >= 1 /\ n \in 1..n /\ current_volume_bytes \in Nat
      /\ volume_boundaries[n] \in Nat /\ volume_boundaries[1] = 0 /\ current_volume = n
  <2>1. n \in Nat /\ n >= 1 /\ volume_boundaries \in Seq(Nat) /\ volume_boundaries[1] = 0
    BY <1>2, <1>6 DEF Laid
  <2>2. n \in 1..n
    BY <2>1
  <2>3. current_volume_bytes \in 0..VolumeSize /\ current_volume = n
    BY <1>6 DEF StandsAt
  <2>. QED BY <1>2, <1>3, <2>1, <2>2, <2>3
<1>9. header_pos' \in Nat
  BY <1>1, <1>8 DEF stream_position
<1>10. ASSUME HeaderSize + k <= VolumeSize PROVE header_pos' = HeaderSize + k
  <2>1. CASE n = 1
    <3>1. First(1) + current_volume_bytes = HeaderSize + k /\ First(1) = 0
      BY <1>6, <2>1 DEF StandsAt, First
    <3>. QED BY <1>1, <1>8, <2>1, <3>1 DEF stream_position
  <2>2. CASE n # 1
    <3>. DEFINE b == First(n)
                l == Len(disk[n])
    <3>1. b \in Nat /\ b >= VolumeSize
      <4>1. First(1) + VolumeSize <= First(n) /\ First(1) = 0
        <5>1. 1 \in 1..n /\ 1 < n
          BY <1>8, <2>2
        <5>. QED BY <1>2, <1>6, <1>8, <5>1 DEF Laid, First
      <4>2. First(n) \in Nat
        BY <1>2, <1>6, <1>8, LaidFirst
      <4>. QED BY <1>3, <4>1, <4>2
    <3>2. l \in Nat /\ l >= 1 /\ b + l = s
      <4>1. disk[n] \in Seq(Byte)
        BY <1>2, <1>6, <1>8 DEF Laid
      <4>2. n >= 2
        BY <1>8, <2>2
      <4>. QED BY <1>2, <1>6, <4>1, <4>2 DEF Laid
    <3>. HIDE DEF b, l
    <3>3. s <= HeaderSize + k
      BY <1>3, <1>5
    <3>4. s \in Nat
      BY <1>3, <1>5
    <3>. QED BY <1>3, <1>10, <3>1, <3>2, <3>3, <3>4
  <2>. QED BY <2>1, <2>2
<1>11. total_bytes = packed + sent + patched
  BY DEF MVInv
<1>12. total_bytes' = packed' + sent' + patched'
  BY <1>1, <1>2, <1>3, <1>4, <1>11 DEF vars
<1>. QED BY <1>1, <1>2, <1>3, <1>4, <1>7, <1>9, <1>10, <1>12 DEF MVInv

\* The seek to the front finds volume 1.
LEMMA SeekToFrontKeeps ==
  ASSUME HeaderFits, MVInv, SeekToFront
  PROVE  MVInv'
<1>1. /\ stage = "header" /\ stage' = "patch" /\ left = 0 /\ left' = HeaderSize /\ SeekStart(0)
      /\ UNCHANGED <<header_pos, packed, metadata>>
  BY DEF SeekToFront
<1>2. PICK c, s : c = Row /\ s = Size
  OBVIOUS
<1>3. /\ NextSize \in Nat /\ HeaderSize \in Nat /\ VolumeSize \in Nat /\ HeaderSize < VolumeSize
      /\ sent = NextSize /\ patched = 0 /\ sent' = NextSize /\ patched' = 0
  BY <1>1, MultiVolumeAssumption, SegmentedAssumption DEF sent, patched, HeaderFits
<1>4. Size' = s /\ Row' = c /\ Position' = 0
  BY <1>1, <1>2, <1>3 DEF Size, End, Row, Cell, Position
<1>5. Laid(s, c) /\ StandsAt(Len(volume_boundaries), Position)
  BY <1>1, <1>2 DEF MVInv
<1>6. \A v \in 2..Len(volume_boundaries) : 0 < volume_boundaries[v]
  <2>. TAKE v \in 2..Len(volume_boundaries)
  <2>1. /\ Len(volume_boundaries) \in Nat /\ v \in 1..Len(volume_boundaries)
        /\ 1 \in 1..Len(volume_boundaries) /\ 1 < v
    BY <1>5 DEF Laid
  <2>2. First(1) + VolumeSize <= First(v) /\ First(1) = 0
    BY <1>5, <2>1 DEF Laid, First
  <2>3. First(v) = volume_boundaries[v] + HeaderSize /\ volume_boundaries[v] \in Nat
    BY <1>5, <2>1 DEF Laid, First
  <2>. QED BY <1>3, <2>2, <2>3
<1>7. /\ current_volume' = 1 /\ current_file' = 1 /\ current_volume_bytes' = 0
      /\ UNCHANGED <<disk, total_bytes, volume_boundaries>>
  <2>1. current_file \in Nat /\ current_volume = current_file
    BY <1>5 DEF StandsAt, Laid
  <2>. QED BY <1>1, <1>5, <1>6, <2>1, SeekFirst
<1>8. Laid(s, c)' /\ StandsAt(1, 0)'
  BY <1>3, <1>5, <1>7 DEF Laid, StandsAt, First
<1>9. Laid(Size, Row)' /\ StandsAt(1, Position)'
  <2>1. /\ Laid(Size, Row)' <=> Laid(s, c)'
        /\ StandsAt(1, Position)' <=> StandsAt(1, 0)'
    BY <1>4 DEF Laid, StandsAt
  <2>. QED BY <1>8, <2>1
<1>10. total_bytes' = packed' + sent' + patched'
  BY <1>1, <1>3, <1>7 DEF MVInv
<1>. QED BY <1>1, <1>3, <1>9, <1>10 DEF MVInv

\* The metadata finish returns is that of the volumes.
LEMMA FinishKeeps ==
  ASSUME MVInv, finish
  PROVE  MVInv'
<1>1. /\ stage = "patch" /\ stage' = "done" /\ left = 0
      /\ UNCHANGED <<vars, left, header_pos, packed>>
      /\ metadata' = <<[volume_count |-> current_volume,
                        volume_boundaries |-> volume_boundaries,
                        total_bytes |-> total_bytes]>>
  BY DEF finish
<1>2. /\ sent = NextSize /\ sent' = NextSize /\ patched = HeaderSize /\ patched' = HeaderSize
  BY <1>1, MultiVolumeAssumption DEF sent, patched
<1>3. Size' = Size /\ Row' = Row /\ Position' = Position
  BY <1>1, <1>2 DEF Size, End, Row, Cell, Position
<1>4. Laid(Size, Row) /\ StandsAt(1, Position)
  BY <1>1 DEF MVInv
<1>5. Laid(Size, Row)' /\ StandsAt(1, Position)'
  BY <1>1, <1>3, <1>4 DEF Laid, StandsAt, First, vars
<1>6. total_bytes' = packed' + sent' + patched'
  BY <1>1, <1>2 DEF MVInv, vars
<1>. QED BY <1>1, <1>5, <1>6 DEF MVInv, vars

\* Every step of an archive in volumes keeps the invariant.
LEMMA NextMVInv == HeaderFits /\ MVInv /\ [MVNext]_<<vars, mvars>> => MVInv'
<1>. SUFFICES ASSUME HeaderFits, MVInv, [MVNext]_<<vars, mvars>> PROVE MVInv'
  OBVIOUS
<1>1. CASE create_multi_volume
  BY <1>1, CreateKeeps
<1>2. CASE push_archive_entry
  BY <1>2, PushKeeps
<1>3. CASE finish_multi_volume
  BY <1>3, FinishPackKeeps
<1>4. CASE WriteNextHeader
  BY <1>4, WriteNextHeaderKeeps
<1>5. CASE SeekToFront
  BY <1>5, SeekToFrontKeeps
<1>6. CASE PatchStartHeader
  BY <1>6, PatchKeeps
<1>7. CASE finish
  BY <1>7, FinishKeeps
<1>8. CASE UNCHANGED <<vars, mvars>>
  <2>1. Size' = Size /\ Row' = Row /\ Position' = Position /\ sent' = sent /\ patched' = patched
    BY <1>8 DEF mvars, Size, End, Row, Cell, Position, sent, patched
  <2>2. Laid(Size, Row)' <=> Laid(Size, Row)
    BY <1>8, <2>1 DEF Laid, First, vars
  <2>3. StandsAt(IF stage \in {"pack", "header"} THEN Len(volume_boundaries) ELSE 1, Position)'
          <=> StandsAt(IF stage \in {"pack", "header"} THEN Len(volume_boundaries) ELSE 1, Position)
    BY <1>8, <2>1 DEF StandsAt, First, vars, mvars
  <2>4. Laid(Size, Row)'
    BY <2>2 DEF MVInv
  <2>5. StandsAt(IF stage \in {"pack", "header"} THEN Len(volume_boundaries) ELSE 1, Position)'
    BY <2>3 DEF MVInv
  <2>. QED BY <1>8, <2>1, <2>4, <2>5 DEF MVInv, vars, mvars
<1>. QED BY <1>1, <1>2, <1>3, <1>4, <1>5, <1>6, <1>7, <1>8 DEF MVNext

-----------------------------------------------------------------------------
(* Archives in volumes: what the invariant says of the volumes *)

\* The array of bytes that the volumes are, and the position of the writer in it.
Shows ==
  /\ Joined = [k \in 1..Size |-> Row[k]]
  /\ PhysicalPosition = Position
  /\ Position \in Nat

\* The volumes joined are the cells on disk, and the writer stands among them.
LEMMA View ==
  ASSUME MVInv
  PROVE  Shows
<1>1. PICK s, c : s = Size /\ c = Row
  OBVIOUS
<1>2. Laid(s, c) /\ s \in Nat
  BY <1>1, Written DEF MVInv
<1>3. Joined = [k \in 1..s |-> c[k]]
  BY <1>2, LaidJoined
<1>4. PICK v : v = IF stage \in {"pack", "header"} THEN Len(volume_boundaries) ELSE 1
  OBVIOUS
<1>5. StandsAt(v, Position)
  BY <1>4 DEF MVInv
<1>6. v \in 1..Len(volume_boundaries)
  BY <1>2, <1>4 DEF Laid
<1>7. First(v) = BytesBefore(v)
  BY <1>2, <1>6, LaidJoined
<1>8. PhysicalPosition = Position
  BY <1>5, <1>7 DEF StandsAt, PhysicalPosition
<1>9. Position \in Nat
  BY Written DEF Position
<1>. QED BY <1>1, <1>3, <1>8, <1>9 DEF Shows

\* So they do after a step.
LEMMA ViewNext == MVInv' => Shows'
<1>1. MVInv => Shows
  BY View
<1>. QED BY <1>1, PTL

\* The joined volumes of a finished archive are start header, packed data and
\* next header.
LEMMA InvJoined == MVInv => JoinedIsArchive
<1>. SUFFICES ASSUME MVInv, stage = "done"
              PROVE  Joined = Repeat(StartByte, HeaderSize) \o Data(0, packed)
                                \o Repeat(NextByte, NextSize)
  BY DEF JoinedIsArchive
<1>1. PICK h, p, x : h = HeaderSize /\ p = packed /\ x = NextSize
  OBVIOUS
<1>2. PICK a, b, c : a = Repeat(StartByte, h) /\ b = Data(0, p) /\ c = Repeat(NextByte, x)
  OBVIOUS
<1>3. /\ h \in Nat /\ p \in Nat /\ x \in Nat /\ patched = h /\ Size = h + p + x
  BY <1>1, Written, MultiVolumeAssumption DEF patched, End
<1>4. /\ a \in Seq(Bytes) /\ Len(a) = h /\ \A i \in 1..h : a[i] = StartByte
      /\ b \in Seq(Bytes) /\ Len(b) = p /\ \A i \in 1..p : b[i] = Parity(i)
      /\ c \in Seq(Bytes) /\ Len(c) = x /\ \A i \in 1..x : c[i] = NextByte
  <2>1. a \in [1..h -> Bytes] /\ c \in [1..x -> Bytes]
    BY <1>2, MultiVolumeAssumption DEF Repeat
  <2>2. b \in [1..p -> Bytes]
    BY <1>2, MultiVolumeAssumption DEF Data, Parity, DataBytes
  <2>3. \A i \in 1..p : 0 + i = i
    BY <1>3
  <2>4. \A i \in 1..p : b[i] = Parity(i)
    BY <1>2, <2>3 DEF Data
  <2>5. (\A i \in 1..h : a[i] = StartByte) /\ (\A i \in 1..x : c[i] = NextByte)
    BY <1>2 DEF Repeat
  <2>. QED BY <1>3, <2>1, <2>2, <2>4, <2>5
<1>5. PICK ab : ab = a \o b
  OBVIOUS
<1>6. /\ ab \in Seq(Bytes) /\ Len(ab) = h + p
      /\ \A i \in 1..(h + p) : ab[i] = IF i <= h THEN StartByte ELSE Parity(i - h)
  <2>1. /\ ab \in Seq(Bytes) /\ Len(ab) = h + p
        /\ \A i \in 1..(h + p) : ab[i] = IF i <= h THEN a[i] ELSE b[i - h]
    BY <1>4, <1>5, ConcatProperties
  <2>2. \A i \in 1..(h + p) : IF i <= h THEN i \in 1..h ELSE i - h \in 1..p
    BY <1>3
  <2>. QED BY <1>4, <2>1, <2>2
<1>7. PICK all : all = ab \o c
  OBVIOUS
<1>8. /\ all \in Seq(Bytes) /\ Len(all) = h + p + x
      /\ \A i \in 1..(h + p + x) : all[i] = IF i <= h + p THEN ab[i] ELSE c[i - (h + p)]
  <2>1. /\ ab \o c \in Seq(Bytes) /\ Len(ab \o c) = Len(ab) + Len(c)
        /\ \A i \in 1..(Len(ab) + Len(c)) :
             (ab \o c)[i] = IF i <= Len(ab) THEN ab[i] ELSE c[i - Len(ab)]
    <3>1. ab \in Seq(Bytes) /\ c \in Seq(Bytes)
      BY <1>4, <1>6
    <3>. QED BY <3>1, ConcatProperties
  <2>2. Len(ab) = h + p /\ Len(c) = x
    BY <1>4, <1>6
  <2>. QED BY <1>7, <2>1, <2>2
<1>9. \A i \in 1..(h + p + x) : all[i] = Row[i]
  <2>. TAKE i \in 1..(h + p + x)
  <2>1. i \in Nat /\ Row[i] = Cell(i)
    BY <1>3 DEF Row
  <2>2. CASE i <= h + p
    <3>0. i \in 1..(h + p)
      BY <1>3, <2>2
    <3>1. all[i] = IF i <= h THEN StartByte ELSE Parity(i - h)
      BY <1>6, <1>8, <2>2, <3>0
    <3>. QED BY <1>1, <1>3, <2>1, <2>2, <3>1 DEF Cell
  <2>3. CASE ~(i <= h + p)
    <3>1. i - (h + p) \in 1..x /\ ~(i <= h)
      BY <1>3, <2>3
    <3>2. all[i] = NextByte
      BY <1>4, <1>8, <2>3, <3>1
    <3>. QED BY <1>1, <1>3, <2>1, <2>3, <3>1, <3>2 DEF Cell
  <2>. QED BY <2>2, <2>3
<1>10. all = [k \in 1..(h + p + x) |-> Row[k]]
  BY <1>8, <1>9
<1>. QED BY <1>1, <1>2, <1>3, <1>5, <1>7, <1>10, View DEF Shows

\* The next header of an archive packed into the first volume is at its position.
LEMMA InvHeaderFound == MVInv => HeaderFoundInFirstVolume
<1>. SUFFICES ASSUME MVInv, stage = "done", HeaderSize + packed <= VolumeSize
              PROVE  NextHeaderAt(header_pos)
  BY DEF HeaderFoundInFirstVolume
<1>1. PICK h, p, x : h = HeaderSize /\ p = packed /\ x = NextSize
  OBVIOUS
<1>2. /\ h \in Nat /\ p \in Nat /\ x \in Nat /\ patched = h /\ Size = h + p + x
  BY <1>1, Written, MultiVolumeAssumption DEF patched, End
<1>3. header_pos = h + p
  BY <1>1 DEF MVInv
<1>4. PICK j, s : j = Joined /\ s = SubSeq(Joined, h + p + 1, h + p + x)
  OBVIOUS
<1>5. j = [k \in 1..(h + p + x) |-> Row[k]]
  BY <1>2, <1>4, View DEF Shows
<1>6. \A i \in 1..x : Row[h + p + i] = NextByte
  <2>. TAKE i \in 1..x
  <2>1. PICK k : k = h + p + i
    OBVIOUS
  <2>2. k \in Nat /\ ~(k <= h) /\ ~(k <= h + p)
    BY <1>2, <2>1
  <2>. QED BY <1>1, <1>2, <2>1, <2>2 DEF Row, Cell
<1>7. s = [i \in 1..x |-> NextByte]
  <2>1. \A k \in 1..(h + p + x) : k \in 1..(h + p + x)
    OBVIOUS
  <2>2. s = [i \in 1..x |-> j[h + p + i]]
    <3>1. SubSeq(j, h + p + 1, h + p + x) =
            [i \in 1..((h + p + x) - (h + p + 1) + 1) |-> j[(h + p + 1) + i - 1]]
      BY <1>2
    <3>2. (h + p + x) - (h + p + 1) + 1 = x /\ \A i \in 1..x : (h + p + 1) + i - 1 = h + p + i
      BY <1>2
    <3>. QED BY <1>4, <3>1, <3>2
  <2>3. \A i \in 1..x : h + p + i \in 1..(h + p + x)
    BY <1>2
  <2>. QED BY <1>5, <1>6, <2>2, <2>3
<1>. QED BY <1>1, <1>3, <1>4, <1>7 DEF NextHeaderAt, Repeat

\* The table holds the starts of the volumes.
LEMMA InvBoundaries == MVInv => BoundariesAreVolumeStarts
<1>. SUFFICES ASSUME MVInv, stage \in {"pack", "header"}
              PROVE  /\ 1..current_volume = DOMAIN disk
                     /\ Len(volume_boundaries) = current_volume
                     /\ \A v \in 2..current_volume :
                          volume_boundaries[v] + HeaderSize = BytesBefore(v)
                     /\ \A v \in 1..(current_volume - 1) : Len(disk[v]) = VolumeSize
  BY DEF BoundariesAreVolumeStarts
<1>1. PICK n, s, c : n = Len(volume_boundaries) /\ s = Size /\ c = Row
  OBVIOUS
<1>2. Laid(s, c) /\ s \in Nat /\ current_volume = n
  BY <1>1, Written DEF MVInv, StandsAt
<1>3. /\ n \in Nat /\ DOMAIN disk = 1..n /\ \A v \in 1..n : v < n => Len(disk[v]) = VolumeSize
  BY <1>1, <1>2 DEF Laid
<1>4. \A v \in 2..n : volume_boundaries[v] + HeaderSize = BytesBefore(v)
  <2>. TAKE v \in 2..n
  <2>1. v \in 1..n /\ v # 1
    BY <1>3
  <2>. QED BY <1>1, <1>2, <2>1, LaidJoined DEF First
<1>5. \A v \in 1..(n - 1) : v \in 1..n /\ v < n
  BY <1>3
<1>. QED BY <1>1, <1>2, <1>3, <1>4, <1>5

\* The metadata counts bytes and volumes.
LEMMA InvMetadata == MVInv => MetadataCounts
<1>. SUFFICES ASSUME MVInv, stage = "done"
              PROVE  /\ metadata[1].total_bytes = HeaderSize + packed + NextSize
                     /\ Len(metadata[1].volume_boundaries) = Cardinality(DOMAIN disk)
  BY DEF MetadataCounts
<1>1. /\ metadata[1].total_bytes = total_bytes
      /\ metadata[1].volume_boundaries = volume_boundaries
  BY DEF MVInv
<1>2. total_bytes = HeaderSize + packed + NextSize
  <2>1. total_bytes = packed + NextSize + HeaderSize
    BY Written DEF MVInv, patched
  <2>. QED BY <2>1, Written, MultiVolumeAssumption
<1>3. Cardinality(DOMAIN disk) = Len(volume_boundaries)
  <2>1. PICK n, s, c : n = Len(volume_boundaries) /\ s = Size /\ c = Row
    OBVIOUS
  <2>2. Laid(s, c)
    BY <2>1 DEF MVInv
  <2>3. n \in Nat /\ n >= 1 /\ DOMAIN disk = 1..n
    BY <2>1, <2>2 DEF Laid
  <2>4. Cardinality(1..n) = n
    BY <2>3, FS_Interval
  <2>. QED BY <2>1, <2>3, <2>4
<1>. QED BY <1>1, <1>2, <1>3

-----------------------------------------------------------------------------
(* Archives in volumes: one array of bytes with a position *)

\* The cells d are c with m bytes in place of those behind at, and a gap before them
\* when at lies behind the s cells of c.
Rewritten(s, t, at, m, c, d) ==
  /\ \A k \in (at + 1)..(at + m) : d[k] \in Bytes
  /\ \A k \in 1..t : k \notin (at + 1)..(at + m) => d[k] = (IF k <= s THEN c[k] ELSE Zero)

\* A write of the array of bytes: m bytes of the cells, in the array or at its end.
LEMMA StoreWrites ==
  ASSUME NEW s \in Nat, NEW t \in Nat, NEW at \in Nat, NEW m \in Nat,
         m >= 1, m <= VolumeSize, at + m <= t, s <= t, t <= s \/ t = at + m,
         NEW c, NEW d, Rewritten(s, t, at, m, c, d),
         Joined = [k \in 1..s |-> c[k]], Joined' = [k \in 1..t |-> d[k]],
         PhysicalPosition = at, PhysicalPosition' = at + m
  PROVE  Store!Write
<1>. USE DEF Rewritten
<1>1. PICK buf : buf = SubSeq(Joined', at + 1, at + m)
  OBVIOUS
<1>2. /\ buf \in Seq(Bytes) /\ Len(buf) = m /\ buf # <<>>
      /\ \A i \in 1..m : buf[i] = d[at + i]
  <2>1. PICK j : j = Joined'
    OBVIOUS
  <2>2. SubSeq(j, at + 1, at + m) = [i \in 1..((at + m) - (at + 1) + 1) |-> j[(at + 1) + i - 1]]
    OBVIOUS
  <2>3. (at + m) - (at + 1) + 1 = m /\ \A i \in 1..m : (at + 1) + i - 1 = at + i
    OBVIOUS
  <2>4. \A i \in 1..m : at + i \in 1..t /\ at + i \in (at + 1)..(at + m)
    OBVIOUS
  <2>5. buf = [i \in 1..m |-> d[at + i]]
    BY <1>1, <2>1, <2>2, <2>3, <2>4
  <2>6. buf \in [1..m -> Bytes]
    BY <2>4, <2>5
  <2>7. buf \in Seq(Bytes) /\ Len(buf) = m
    BY <2>6
  <2>. QED BY <2>5, <2>7
<1>3. Joined' = Store!Overwrite(Joined, at, buf)
  <2>. DEFINE n == Store!Longest(Len(Joined), at + Len(buf))
              cell(i) == IF i \in (at + 1)..(at + Len(buf)) THEN buf[i - at]
                         ELSE IF i \in 1..Len(Joined) THEN Joined[i] ELSE Zero
  <2>1. Len(Joined) = s
    OBVIOUS
  <2>2. n = t
    BY <1>2, <2>1 DEF Store!Longest
  <2>3. ASSUME NEW i \in 1..t PROVE cell(i) = d[i]
    <3>1. CASE i \in (at + 1)..(at + m)
      <4>1. i - at \in 1..m /\ at + (i - at) = i
        BY <3>1
      <4>. QED BY <1>2, <3>1, <4>1
    <3>2. CASE i \notin (at + 1)..(at + m)
      <4>1. i <= s <=> i \in 1..s
        OBVIOUS
      <4>. QED BY <1>2, <2>1, <3>2, <4>1
    <3>. QED BY <3>1, <3>2
  <2>4. Store!Overwrite(Joined, at, buf) = [i \in 1..n |-> cell(i)]
    BY <1>2 DEF Store!Overwrite
  <2>. HIDE DEF n, cell
  <2>. QED BY <2>2, <2>3, <2>4
<1>4. /\ PhysicalPosition < PhysicalPosition' /\ PhysicalPosition' <= PhysicalPosition + VolumeSize
      /\ PhysicalPosition' <= Len(Joined')
  BY SegmentedAssumption
<1>. QED BY <1>1, <1>2, <1>3, <1>4 DEF Store!Write

\* The current volume has a count of bytes.
LEMMA StandsNat == MVInv => current_volume_bytes \in Nat
BY SegmentedAssumption DEF MVInv, StandsAt

\* A volume takes no more than its size of one buffer.
LEMMA WriteSomeFits ==
  ASSUME NEW m \in Nat, NEW buf \in [1..m -> Bytes], WriteSome(buf),
         total_bytes \in Nat, current_volume_bytes \in Nat
  PROVE  m <= VolumeSize
<1>1. Len(buf) = m /\ MaxBytes - total_bytes \in Int /\ VolumeSize \in Nat
  BY SegmentedAssumption
<1>2. CASE WriteHere(buf)
  <2>1. Remaining \in Nat /\ Remaining <= VolumeSize
    BY <1>1 DEF Remaining
  <2>2. m <= Remaining
    BY <1>1, <1>2, <2>1 DEF WriteHere, Fits, Shortest
  <2>. QED BY <1>1, <2>1, <2>2
<1>3. CASE WriteNext(buf)
  BY <1>1, <1>3 DEF WriteNext, Fits, Shortest
<1>. QED BY <1>2, <1>3 DEF WriteSome

\* The first state is an empty array.
LEMMA StoreInit == HeaderFits /\ MVInit => Store!Init
<1>. SUFFICES ASSUME HeaderFits, MVInit PROVE Store!Init
  OBVIOUS
<1>1. MVInv
  BY InitMVInv
<1>2. stage = "new" /\ packed = 0
  BY DEF MVInit
<1>3. Size = 0 /\ Position = 0
  BY <1>2 DEF Size, sent, Position
<1>4. Joined = <<>> /\ PhysicalPosition = 0
  <2>1. Joined = [k \in 1..0 |-> Row[k]]
    BY <1>1, <1>3, View DEF Shows
  <2>. QED BY <1>1, <1>3, <2>1, View DEF Shows
<1>. QED BY <1>4 DEF Store!Init

\* A step that appends cells is a write of the array.
LEMMA StoreGrows ==
  ASSUME MVInv, MVInv', NEW m, NEW buf, Grows(m, buf)
  PROVE  Store!Write
<1>. USE DEF Grows
<1>1. PICK s, t, at, c, d : s = Size /\ t = Size' /\ at = End /\ c = Row /\ d = Row'
  OBVIOUS
<1>2. /\ s \in Nat /\ at \in Nat /\ (s = at \/ (s = 0 /\ at = HeaderSize)) /\ t = at + m
      /\ patched = 0 /\ HeaderSize \in Nat /\ HeaderSize >= 1
  <2>. QED BY <1>1, Written, MultiVolumeAssumption
<1>3. /\ Joined = [k \in 1..s |-> c[k]] /\ Joined' = [k \in 1..t |-> d[k]]
      /\ PhysicalPosition = at /\ PhysicalPosition' = at + m
  <2>1. Joined = [k \in 1..s |-> c[k]] /\ PhysicalPosition = at
    BY <1>1, View DEF Position, Shows
  <2>2. Joined' = [k \in 1..Size' |-> Row'[k]] /\ PhysicalPosition' = Position'
    BY ViewNext DEF Shows
  <2>3. Position' = End'
    BY DEF Position
  <2>. QED BY <1>1, <2>1, <2>2, <2>3
<1>4. \A k \in (at + 1)..(at + m) : d[k] \in Bytes
  <2>. TAKE k \in (at + 1)..(at + m)
  <2>1. k - at \in 1..m /\ at + (k - at) = k
    BY <1>2
  <2>. QED BY <1>1, <2>1
<1>5. \A k \in 1..t : k \notin (at + 1)..(at + m) => d[k] = (IF k <= s THEN c[k] ELSE Zero)
  <2>. TAKE k \in 1..t
  <2>. HAVE k \notin (at + 1)..(at + m)
  <2>1. k \in 1..at /\ k \in Nat /\ ~(k <= 0)
    BY <1>2
  <2>2. d[k] = c[k]
    BY <1>1, <2>1
  <2>3. ~(k <= s) => k <= HeaderSize
    BY <1>2, <2>1
  <2>4. ~(k <= s) => c[k] = Zero
    BY <1>1, <1>2, <2>1, <2>3 DEF Row, Cell
  <2>. QED BY <2>2, <2>4
<1>6. at + m <= t /\ s <= t /\ t \in Nat
  BY <1>2
<1>7. Rewritten(s, t, at, m, c, d)
  BY <1>4, <1>5 DEF Rewritten
<1>8. m <= VolumeSize
  BY StandsNat, Written, WriteSomeFits
<1>. QED BY <1>2, <1>3, <1>6, <1>7, <1>8, StoreWrites

\* Every step is a write, a seek or nothing for the array.
LEMMA StoreNext ==
  HeaderFits /\ MVInv /\ MVInv' /\ [MVNext]_<<vars, mvars>>
    => [Store!Next]_<<Joined, PhysicalPosition>>
<1>. SUFFICES ASSUME HeaderFits, MVInv, MVInv', [MVNext]_<<vars, mvars>>
              PROVE  Store!Next \/ UNCHANGED <<Joined, PhysicalPosition>>
  OBVIOUS
<1>1. \* what stays when the cells and the position do
      ASSUME Size' = Size, Row' = Row PROVE Joined' = Joined
  BY <1>1, View, ViewNext DEF Shows
<1>2. CASE create_multi_volume
  <2>1. /\ stage = "new" /\ stage' = "pack" /\ packed' = packed /\ packed = 0
    BY <1>2 DEF create_multi_volume, MVInv
  <2>2. Size' = Size /\ Row' = Row /\ Position' = HeaderSize
    BY <2>1, MultiVolumeAssumption DEF Size, sent, Row, Cell, patched, Position, End
  <2>3. PhysicalPosition' = HeaderSize /\ Joined' = Joined
    BY <1>1, <2>2, ViewNext DEF Shows
  <2>. QED BY <2>3, MultiVolumeAssumption DEF Store!Next, Store!SeekTo
<1>3. CASE push_archive_entry
  BY <1>3, PushGrows, StoreGrows DEF Store!Next
<1>4. CASE finish_multi_volume
  <2>1. stage = "pack" /\ stage' = "header" /\ left' = NextSize /\ packed' = packed
    BY <1>4 DEF finish_multi_volume
  <2>2. sent = 0 /\ sent' = 0 /\ patched = 0 /\ patched' = 0
    BY <2>1, MultiVolumeAssumption DEF sent, patched
  <2>3. Size' = Size /\ Row' = Row /\ Position' = Position
    BY <2>1, <2>2 DEF Size, Row, Cell, Position, End
  <2>. QED BY <1>1, <2>3, View, ViewNext DEF Shows
<1>5. CASE WriteNextHeader
  BY <1>5, WriteNextHeaderGrows, StoreGrows DEF Store!Next
<1>6. CASE SeekToFront
  <2>1. /\ stage = "header" /\ stage' = "patch" /\ left = 0 /\ left' = HeaderSize
        /\ packed' = packed
    BY <1>6 DEF SeekToFront
  <2>2. sent = NextSize /\ sent' = NextSize /\ patched = 0 /\ patched' = 0
    BY <2>1, MultiVolumeAssumption DEF sent, patched
  <2>3. Size' = Size /\ Row' = Row /\ Position' = 0
    BY <2>1, <2>2 DEF Size, Row, Cell, Position, End
  <2>4. PhysicalPosition' = 0 /\ Joined' = Joined
    BY <1>1, <2>3, View, ViewNext DEF Shows
  <2>. QED BY <2>4, MultiVolumeAssumption DEF Store!Next, Store!SeekTo
<1>7. CASE PatchStartHeader
  <2>1. PICK n \in 1..left : WriteSome(Repeat(StartByte, n)) /\ left' = left - n
    BY <1>7 DEF PatchStartHeader
  <2>2. /\ stage = "patch" /\ stage' = "patch" /\ packed' = packed
        /\ left \in Nat /\ n \in Nat /\ n >= 1 /\ n <= left /\ left <= HeaderSize
    BY <1>7 DEF PatchStartHeader, MVInv
  <2>3. PICK s, p, c, d : s = Size /\ p = patched /\ c = Row /\ d = Row'
    OBVIOUS
  <2>4. /\ s \in Nat /\ HeaderSize < s /\ p \in Nat /\ HeaderSize \in Nat
        /\ p = HeaderSize - left /\ patched' = p + n /\ p + n <= HeaderSize
        /\ sent = NextSize /\ sent' = NextSize
    BY <2>1, <2>2, <2>3, Written, MultiVolumeAssumption DEF sent, patched
  <2>5. Size' = s /\ Position = p /\ Position' = p + n
    BY <2>2, <2>3, <2>4 DEF Size, End, Position
  <2>6. Rewritten(s, s, p, n, c, d)
    <3>1. \A k \in (p + 1)..(p + n) : d[k] \in Bytes
      <4>. TAKE k \in (p + 1)..(p + n)
      <4>1. k \in Nat /\ k <= p + n
        BY <2>2, <2>4
      <4>2. Cell(k)' = StartByte
        BY <2>4, <4>1 DEF Cell
      <4>. QED BY <2>3, <4>1, <4>2, MultiVolumeAssumption DEF Row
    <3>2. \A k \in 1..s : k \notin (p + 1)..(p + n) => d[k] = (IF k <= s THEN c[k] ELSE Zero)
      <4>. TAKE k \in 1..s
      <4>. HAVE k \notin (p + 1)..(p + n)
      <4>1. k \in Nat /\ k <= s /\ (k <= p <=> k <= p + n)
        BY <2>2, <2>4
      <4>2. Cell(k)' = Cell(k)
        BY <2>2, <2>3, <2>4, <4>1 DEF Cell
      <4>. QED BY <2>3, <4>1, <4>2 DEF Row
    <3>. QED BY <3>1, <3>2 DEF Rewritten
  <2>7. /\ Joined = [k \in 1..s |-> c[k]] /\ Joined' = [k \in 1..s |-> d[k]]
        /\ PhysicalPosition = p /\ PhysicalPosition' = p + n
    BY <2>3, <2>5, View, ViewNext DEF Shows
  <2>8. n <= VolumeSize
    <3>1. Repeat(StartByte, n) \in [1..n -> Bytes]
      BY MultiVolumeAssumption DEF Repeat
    <3>. QED BY <2>1, <2>2, <3>1, StandsNat, Written, WriteSomeFits
  <2>9. p + n <= s /\ s <= s
    BY <2>2, <2>4
  <2>. QED BY <2>2, <2>4, <2>6, <2>7, <2>8, <2>9, StoreWrites DEF Store!Next
<1>8. CASE finish
  <2>1. stage = "patch" /\ stage' = "done" /\ left = 0 /\ packed' = packed
    BY <1>8 DEF finish
  <2>2. sent = NextSize /\ sent' = NextSize /\ patched = HeaderSize /\ patched' = HeaderSize
    BY <2>1, MultiVolumeAssumption DEF sent, patched
  <2>3. Size' = Size /\ Row' = Row /\ Position' = Position
    BY <2>1, <2>2 DEF Size, Row, Cell, Position, End
  <2>. QED BY <1>1, <2>3, View, ViewNext DEF Shows
<1>9. CASE UNCHANGED <<vars, mvars>>
  BY <1>9 DEF vars, mvars, Joined, PhysicalPosition, BytesBefore
<1>. QED BY <1>2, <1>3, <1>4, <1>5, <1>6, <1>7, <1>8, <1>9 DEF MVNext

-----------------------------------------------------------------------------
(* Theorems about archives in volumes *)

\* Whatever is packed, the volumes hold one row of bytes: the start header's place,
\* the packed data and the next header, as far as they are written.
THEOREM MultiVolumeInductive == ASSUME HeaderFits PROVE MVSpec => []MVInv
BY InitMVInv, NextMVInv, PTL DEF MVSpec

\* The finished volumes joined are the archive, wherever they were cut.
THEOREM ArchiveJoined == ASSUME HeaderFits PROVE MVSpec => []JoinedIsArchive
BY MultiVolumeInductive, InvJoined, PTL

\* SegmentedWriter::finish reports the bytes of the archive and one boundary for
\* each volume.
THEOREM MetadataRight == ASSUME HeaderFits PROVE MVSpec => []MetadataCounts
BY MultiVolumeInductive, InvMetadata, PTL

\* While the archive grows, volumes are full before the next starts, at the
\* position its boundary records.
THEOREM VolumesStartAtBoundaries == ASSUME HeaderFits PROVE MVSpec => []BoundariesAreVolumeStarts
BY MultiVolumeInductive, InvBoundaries, PTL

\* The start header of an archive whose packed data ends in the first volume points
\* to its next header.
THEOREM HeaderFound == ASSUME HeaderFits PROVE MVSpec => []HeaderFoundInFirstVolume
BY MultiVolumeInductive, InvHeaderFound, PTL

\* To its caller the writer is one array of bytes with a position.
THEOREM WriterIsByteStore == ASSUME HeaderFits PROVE MVSpec => WritesByteStore
<1>1. MVInit => Store!Init
  BY StoreInit
<1>2. MVInv /\ MVInv' /\ [MVNext]_<<vars, mvars>> => [Store!Next]_<<Joined, PhysicalPosition>>
  BY StoreNext
<1>. QED BY <1>1, <1>2, MultiVolumeInductive, PTL DEF MVSpec, WritesByteStore, Store!Spec
=============================================================================
