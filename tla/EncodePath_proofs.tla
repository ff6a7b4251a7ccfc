--------------------------- MODULE EncodePath_proofs ---------------------------
(***************************************************************************)
(* Proofs about EncodePath, for every number of files, listed size and     *)
(* limit: its types, that one file is open at a time, that every block is  *)
(* the data of its files one after the other, and which files are in which *)
(* block: every one in one, those gathered up to the limit.                *)
(***************************************************************************)
EXTENDS EncodePath,
        SequencesExt, FiniteSetTheorems, SequenceTheorems, WellFoundedInduction, TLAPS

-----------------------------------------------------------------------------
(* Induction over a set of naturals, in place of one over a predicate *)

\* Every set of naturals has a least element.
LEMMA LeastNat ==
  ASSUME NEW T, T \subseteq Nat, T # {}
  PROVE  \E x \in T : \A y \in T : x <= y
<1>. DEFINE R == {p \in Nat \X Nat : p[1] < p[2]}
<1>1. IsWellFoundedOn(R, Nat)
  <2>1. R = OpToRel(<, Nat)
    BY Zenon DEF OpToRel
  <2>. QED BY <2>1, NatLessThanWellFounded
<1>2. PICK x \in T : \A y \in T : ~ (<<y, x>> \in R)
  <2>. HIDE DEF R
  <2>. QED BY <1>1, WFMin, Zenon
<1>3. ASSUME NEW y \in T PROVE x <= y
  <2>1. x \in Nat /\ y \in Nat
    OBVIOUS
  <2>2. <<y, x>> \in Nat \X Nat
    BY <2>1
  <2>3. ~ (<<y, x>>[1] < <<y, x>>[2])
    BY <1>2, <2>2
  <2>. QED BY <2>1, <2>3
<1>. QED BY <1>3

\* A set of naturals that holds 0 and is closed under n + 1 holds them all.
LEMMA SetInduction ==
  ASSUME NEW S, 0 \in S, \A n \in Nat : n \in S => n + 1 \in S
  PROVE  Nat \subseteq S
<1>. SUFFICES ASSUME Nat \ S # {} PROVE FALSE
  OBVIOUS
<1>1. PICK x \in Nat \ S : \A y \in Nat \ S : x <= y
  BY LeastNat
<1>2. x # 0 /\ x - 1 \in Nat /\ x - 1 \in S
  BY <1>1
<1>. QED BY <1>1, <1>2

-----------------------------------------------------------------------------
(* FlattenSeq *)

\* what FlattenSeq chooses: the concatenation of the first i sequences, for each i
Flattened(s, n) ==
  CHOOSE f : f = [i \in 1..n |-> IF i = 1 THEN s[i] ELSE f[i-1] \o s[i]]

\* The recursive definition of FlattenSeq has a solution.
LEMMA FlattenedDef ==
  ASSUME NEW s, NEW n \in Nat
  PROVE  Flattened(s, n) =
           [i \in 1..n |-> IF i = 1 THEN s[i] ELSE Flattened(s, n)[i-1] \o s[i]]
<1>. DEFINE Solves(f, m) == f = [i \in 1..m |-> IF i = 1 THEN s[i] ELSE f[i-1] \o s[i]]
            Solved == {m \in Nat : \E f : Solves(f, m)}
<1>1. 0 \in Solved
  <2>1. Solves(<<>>, 0)
    OBVIOUS
  <2>. QED BY <2>1
<1>2. ASSUME NEW m \in Nat, m \in Solved PROVE m + 1 \in Solved
  <2>1. PICK f : Solves(f, m)
    BY <1>2
  <2>. DEFINE last == IF m + 1 = 1 THEN s[m + 1] ELSE f[m] \o s[m + 1]
              g == [i \in 1..(m + 1) |-> IF i <= m THEN f[i] ELSE last]
  <2>2. ASSUME NEW i \in 1..(m + 1)
        PROVE  g[i] = IF i = 1 THEN s[i] ELSE g[i-1] \o s[i]
    <3>1. CASE i <= m
      <4>1. i \in 1..m /\ g[i] = f[i] /\ (i # 1 => g[i-1] = f[i-1])
        BY <3>1
      <4>2. f[i] = IF i = 1 THEN s[i] ELSE f[i-1] \o s[i]
        BY <2>1, <4>1
      <4>. QED BY <4>1, <4>2
    <3>2. CASE i = m + 1
      <4>1. g[i] = last
        BY <3>2
      <4>2. i # 1 => g[i-1] = f[m]
        BY <3>2
      <4>. QED BY <3>2, <4>1, <4>2
    <3>. QED BY <3>1, <3>2
  <2>3. Solves(g, m + 1)
    BY <2>2, Zenon
  <2>4. m + 1 \in Nat
    OBVIOUS
  <2>. HIDE DEF Solves, g
  <2>. QED BY <2>3, <2>4
<1>3. n \in Solved
  <2>. HIDE DEF Solved
  <2>. QED BY <1>1, <1>2, SetInduction
<1>4. \E f : Solves(f, n)
  BY <1>3
<1>5. Solves(CHOOSE f : Solves(f, n), n)
  <2>. HIDE DEF Solves
  <2>. QED BY <1>4, Zenon
<1>. QED BY <1>5, Zenon DEF Flattened

\* FlattenSeq takes the last of them.
LEMMA FlattenSeqIs ==
  ASSUME NEW s
  PROVE FlattenSeq(s) = IF Len(s) = 0 THEN s ELSE Flattened(s, Len(s))[Len(s)]
BY Zenon DEF FlattenSeq, Flattened

\* Nothing flattened is nothing.
LEMMA FlattenEmpty == FlattenSeq(<<>>) = <<>>
  BY FlattenSeqIs

\* Flattening goes on where it stopped.
LEMMA FlattenAppend ==
  ASSUME NEW S, NEW s \in Seq(Seq(S)), NEW e \in Seq(S)
  PROVE  /\ FlattenSeq(s) \in Seq(S)
         /\ FlattenSeq(Append(s, e)) = FlattenSeq(s) \o e
<1>. DEFINE n == Len(s)
            t == Append(s, e)
            f == Flattened(s, n)
            g == Flattened(t, n + 1)
            Same == {m \in Nat : m \in 1..n => f[m] = g[m] /\ f[m] \in Seq(S)}
<1>1. n \in Nat /\ Len(t) = n + 1 /\ t[n + 1] = e /\ \A i \in 1..n : t[i] = s[i] /\ s[i] \in Seq(S)
  OBVIOUS
<1>2. \A i \in 1..n : f[i] = IF i = 1 THEN s[i] ELSE f[i-1] \o s[i]
  <2>1. f = [i \in 1..n |-> IF i = 1 THEN s[i] ELSE f[i-1] \o s[i]]
    BY <1>1, FlattenedDef
  <2>. QED BY <2>1, Zenon
<1>3. \A i \in 1..(n + 1) : g[i] = IF i = 1 THEN t[i] ELSE g[i-1] \o t[i]
  <2>1. g = [i \in 1..(n + 1) |-> IF i = 1 THEN t[i] ELSE g[i-1] \o t[i]]
    <3>1. n + 1 \in Nat
      BY <1>1
    <3>. QED BY <3>1, FlattenedDef
  <2>. QED BY <2>1, Zenon
<1>. HIDE DEF f, g, t, n
<1>4. \A m \in 1..n : f[m] = g[m] /\ f[m] \in Seq(S)
  <2>1. 0 \in Same
    OBVIOUS
  <2>2. ASSUME NEW m \in Nat, m \in Same PROVE m + 1 \in Same
    <3>1. SUFFICES ASSUME m + 1 \in 1..n PROVE f[m + 1] = g[m + 1] /\ f[m + 1] \in Seq(S)
      OBVIOUS
    <3>2. t[m + 1] = s[m + 1] /\ s[m + 1] \in Seq(S) /\ m + 1 \in 1..(n + 1)
      BY <1>1, <3>1
    <3>3. CASE m = 0
      BY <1>2, <1>3, <3>1, <3>2, <3>3
    <3>4. CASE m # 0
      <4>1. m \in 1..n /\ f[m] = g[m] /\ f[m] \in Seq(S)
        BY <1>1, <2>2, <3>1, <3>4
      <4>2. PICK k \in 1..n : k = m + 1
        BY <3>1
      <4>3. k # 1 /\ k - 1 = m /\ k \in 1..(n + 1)
        BY <3>2, <3>4, <4>2
      <4>4. f[k] = f[k-1] \o s[k] /\ g[k] = g[k-1] \o t[k]
        BY <1>2, <1>3, <4>3, Zenon
      <4>5. f[k] = f[m] \o s[k] /\ g[k] = f[m] \o s[k]
        BY <3>2, <4>1, <4>2, <4>3, <4>4
      <4>6. f[m] \o s[k] \in Seq(S)
        BY <3>2, <4>1, <4>2
      <4>. QED BY <4>2, <4>5, <4>6
    <3>. QED BY <3>3, <3>4
  <2>. HIDE DEF Same
  <2>3. Nat \subseteq Same
    BY <2>1, <2>2, SetInduction
  <2>4. \A m \in 1..n : m \in Same
    BY <1>1, <2>3
  <2>. QED BY <1>1, <2>4 DEF Same
<1>5. FlattenSeq(s) = IF n = 0 THEN <<>> ELSE f[n]
  <2>1. n = 0 => s = <<>>
    BY DEF n
  <2>. QED BY <2>1, FlattenSeqIs DEF f, n
<1>6. FlattenSeq(t) = g[n + 1]
  BY <1>1, FlattenSeqIs DEF g
<1>7. CASE n = 0
  BY <1>1, <1>3, <1>5, <1>6, <1>7 DEF t
<1>8. CASE n # 0
  <2>1. PICK k \in 1..(n + 1) : k = n + 1
    BY <1>1
  <2>2. n \in 1..n /\ k # 1 /\ k - 1 = n
    BY <1>1, <1>8, <2>1
  <2>3. g[k] = g[k-1] \o t[k]
    BY <1>3, <2>2, Zenon
  <2>. QED BY <1>1, <1>4, <1>5, <1>6, <1>8, <2>1, <2>2, <2>3 DEF t
<1>. QED BY <1>7, <1>8

\* What is flattened are elements of the sequences.
LEMMA FlattenIn ==
  ASSUME NEW S, NEW s \in Seq(Seq(S))
  PROVE  FlattenSeq(s) \in Seq(S)
<1>1. <<>> \in Seq(S)
  OBVIOUS
<1>. QED BY <1>1, FlattenAppend

-----------------------------------------------------------------------------
(* Sums *)

\* the element a fold over a set takes next
Pick(T) == CHOOSE x \in T : TRUE

\* what MapThenFoldSet chooses for a sum: the sum over each subset of S
Summed(f, S) ==
  CHOOSE g : g = [T \in SUBSET S |->
                    IF T = {} THEN 0 ELSE f[Pick(T)] + g[T \ {Pick(T)}]]

\* The recursive definition of MapThenFoldSet has a solution over a finite set.
LEMMA SummedDef ==
  ASSUME NEW f, NEW S, IsFiniteSet(S)
  PROVE  \A T \in SUBSET S :
           /\ Summed(f, S)[T] = IF T = {} THEN 0 ELSE f[Pick(T)] + Summed(f, S)[T \ {Pick(T)}]
           /\ T # {} => Pick(T) \in T
<1>. DEFINE Sum(g, T) == IF T = {} THEN 0 ELSE f[Pick(T)] + g[T \ {Pick(T)}]
            Solves(g) == g = [T \in SUBSET S |-> Sum(g, T)]
            SumsTo(g, n) == \A T \in SUBSET S : Cardinality(T) <= n => g[T] = Sum(g, T)
            Solved == {n \in Nat : \E g : SumsTo(g, n)}
<1>1. \A T \in SUBSET S : IsFiniteSet(T) /\ Cardinality(T) \in Nat /\ Cardinality(T) <= Cardinality(S)
  BY FS_Subset, FS_CardinalityType
<1>2. ASSUME NEW T \in SUBSET S, T # {}
      PROVE  T \ {Pick(T)} \in SUBSET S /\ Cardinality(T \ {Pick(T)}) = Cardinality(T) - 1
  <2>1. Pick(T) \in T
    BY <1>2 DEF Pick
  <2>. QED BY <1>1, <2>1, FS_RemoveElement
<1>3. 0 \in Solved
  <2>. DEFINE g == [T \in SUBSET S |-> 0]
  <2>1. ASSUME NEW T \in SUBSET S, Cardinality(T) <= 0 PROVE g[T] = Sum(g, T)
    <3>1. T = {}
      BY <1>1, <2>1, FS_EmptySet
    <3>. QED BY <3>1
  <2>2. SumsTo(g, 0)
    BY <2>1
  <2>. HIDE DEF g, SumsTo
  <2>. QED BY <2>2
<1>4. ASSUME NEW n \in Nat, n \in Solved PROVE n + 1 \in Solved
  <2>1. PICK g : SumsTo(g, n)
    BY <1>4
  <2>. DEFINE h == [T \in SUBSET S |-> IF Cardinality(T) <= n THEN g[T] ELSE Sum(g, T)]
  <2>2. ASSUME NEW T \in SUBSET S, Cardinality(T) <= n + 1 PROVE h[T] = Sum(h, T)
    <3>1. CASE T = {}
      <4>1. Cardinality(T) <= n
        BY <3>1, FS_EmptySet
      <4>. QED BY <2>1, <3>1, <4>1
    <3>2. CASE T # {}
      <4>1. T \ {Pick(T)} \in SUBSET S /\ Cardinality(T \ {Pick(T)}) <= n
        BY <1>1, <1>2, <2>2, <3>2
      <4>2. h[T \ {Pick(T)}] = g[T \ {Pick(T)}]
        BY <4>1
      <4>3. h[T] = Sum(g, T)
        BY <2>1
      <4>. QED BY <3>2, <4>2, <4>3
    <3>. QED BY <3>1, <3>2
  <2>3. SumsTo(h, n + 1)
    BY <2>2
  <2>4. n + 1 \in Nat
    OBVIOUS
  <2>. HIDE DEF h, SumsTo
  <2>. QED BY <2>3, <2>4
<1>5. \E g : Solves(g)
  <2>1. Cardinality(S) \in Solved
    <3>. HIDE DEF Solved
    <3>. QED BY <1>1, <1>3, <1>4, SetInduction
  <2>2. PICK g : SumsTo(g, Cardinality(S))
    BY <2>1
  <2>. DEFINE h == [T \in SUBSET S |-> g[T]]
  <2>3. ASSUME NEW T \in SUBSET S PROVE h[T] = Sum(h, T)
    <3>1. g[T] = Sum(g, T)
      BY <1>1, <2>2
    <3>2. T # {} => h[T \ {Pick(T)}] = g[T \ {Pick(T)}]
      BY <1>2
    <3>. QED BY <3>1, <3>2
  <2>4. Solves(h)
    BY <2>3, Zenon
  <2>. HIDE DEF h, Solves
  <2>. QED BY <2>4
<1>6. Solves(CHOOSE g : Solves(g))
  <2>. HIDE DEF Solves
  <2>. QED BY <1>5, Zenon
<1>7. Solves(Summed(f, S))
  BY <1>6, Zenon DEF Summed
<1>8. \A T \in SUBSET S : Summed(f, S)[T] = Sum(Summed(f, S), T)
  BY <1>7, Zenon
<1>9. \A T \in SUBSET S : T # {} => Pick(T) \in T
  BY DEF Pick
<1>. QED BY <1>8, <1>9

\* A sum is the one over the whole set.
LEMMA SumIs ==
  ASSUME NEW f, NEW S
  PROVE  SumFunctionOnSet(f, S) = Summed(f, S)[S]
BY Zenon DEF SumFunctionOnSet, FoldFunctionOnSet, MapThenFoldSet, Summed, Pick

\* A sum depends on the values that are summed, and on nothing else.
LEMMA SummedSame ==
  ASSUME NEW f, NEW g, NEW S, IsFiniteSet(S), NEW U, IsFiniteSet(U),
         NEW T, T \subseteq S, T \subseteq U, \A x \in T : f[x] = g[x]
  PROVE  Summed(f, S)[T] = Summed(g, U)[T]
<1>. DEFINE F == Summed(f, S)
            G == Summed(g, U)
            Has == {n \in Nat : \A X \in SUBSET T : Cardinality(X) <= n => F[X] = G[X]}
<1>1. \A X \in SUBSET T : IsFiniteSet(X) /\ Cardinality(X) \in Nat
  BY FS_Subset, FS_CardinalityType
<1>2. ASSUME NEW X \in SUBSET T, X # {}
      PROVE  /\ X \ {Pick(X)} \in SUBSET T /\ Cardinality(X \ {Pick(X)}) = Cardinality(X) - 1
             /\ Pick(X) \in T
  <2>1. Pick(X) \in X
    BY <1>2 DEF Pick
  <2>. QED BY <1>1, <2>1, FS_RemoveElement
<1>3. ASSUME NEW X \in SUBSET T
      PROVE  /\ F[X] = IF X = {} THEN 0 ELSE f[Pick(X)] + F[X \ {Pick(X)}]
             /\ G[X] = IF X = {} THEN 0 ELSE g[Pick(X)] + G[X \ {Pick(X)}]
  <2>1. X \in SUBSET S /\ X \in SUBSET U
    OBVIOUS
  <2>2. F[X] = IF X = {} THEN 0 ELSE f[Pick(X)] + F[X \ {Pick(X)}]
    BY <2>1, SummedDef
  <2>3. G[X] = IF X = {} THEN 0 ELSE g[Pick(X)] + G[X \ {Pick(X)}]
    BY <2>1, SummedDef
  <2>. QED BY <2>2, <2>3
<1>. HIDE DEF F, G
<1>4. 0 \in Has
  <2>1. ASSUME NEW X \in SUBSET T, Cardinality(X) <= 0 PROVE F[X] = G[X]
    <3>1. X = {}
      BY <1>1, <2>1, FS_EmptySet
    <3>. QED BY <1>3, <3>1
  <2>. QED BY <2>1
<1>5. ASSUME NEW n \in Nat, n \in Has PROVE n + 1 \in Has
  <2>1. ASSUME NEW X \in SUBSET T, Cardinality(X) <= n + 1 PROVE F[X] = G[X]
    <3>1. CASE X = {}
      BY <1>3, <3>1
    <3>2. CASE X # {}
      <4>1. F[X \ {Pick(X)}] = G[X \ {Pick(X)}]
        BY <1>1, <1>2, <1>5, <2>1, <3>2
      <4>2. f[Pick(X)] = g[Pick(X)]
        BY <1>2, <3>2
      <4>. QED BY <1>3, <3>2, <4>1, <4>2
    <3>. QED BY <3>1, <3>2
  <2>. QED BY <2>1
<1>6. Cardinality(T) \in Has
  <2>. HIDE DEF Has
  <2>. QED BY <1>1, <1>4, <1>5, SetInduction
<1>7. F[T] = G[T]
  BY <1>1, <1>6
<1>. QED BY <1>7 DEF F, G

\* Naturals can be summed in any order.
LEMMA SummedRemove ==
  ASSUME NEW f, NEW S, IsFiniteSet(S), \A x \in S : f[x] \in Nat
  PROVE  \A T \in SUBSET S :
           /\ Summed(f, S)[T] \in Nat
           /\ \A y \in T : Summed(f, S)[T] = f[y] + Summed(f, S)[T \ {y}]
<1>. DEFINE F == Summed(f, S)
            Good(X) == F[X] \in Nat /\ \A y \in X : F[X] = f[y] + F[X \ {y}]
            Has == {n \in Nat : \A X \in SUBSET S : Cardinality(X) <= n => Good(X)}
<1>1. \A X \in SUBSET S : IsFiniteSet(X) /\ Cardinality(X) \in Nat /\ Cardinality(X) <= Cardinality(S)
  BY FS_Subset, FS_CardinalityType
<1>2. ASSUME NEW X \in SUBSET S, NEW x \in X
      PROVE  X \ {x} \in SUBSET S /\ Cardinality(X \ {x}) = Cardinality(X) - 1
  BY <1>1, FS_RemoveElement
<1>3. \A X \in SUBSET S : F[X] = IF X = {} THEN 0 ELSE f[Pick(X)] + F[X \ {Pick(X)}]
  BY SummedDef, ZenonT(30)
<1>4. \A X \in SUBSET S : X # {} => Pick(X) \in X
  BY SummedDef
<1>. HIDE DEF F
<1>5. 0 \in Has
  <2>1. ASSUME NEW X \in SUBSET S, Cardinality(X) <= 0 PROVE Good(X)
    <3>1. X = {}
      BY <1>1, <2>1, FS_EmptySet
    <3>2. F[X] = 0
      BY <1>3, <3>1
    <3>. QED BY <3>1, <3>2
  <2>. HIDE DEF Good
  <2>. QED BY <2>1
<1>6. ASSUME NEW n \in Nat, n \in Has PROVE n + 1 \in Has
  <2>1. ASSUME NEW X \in SUBSET S, Cardinality(X) <= n + 1 PROVE Good(X)
    <3>1. CASE X = {}
      <4>1. F[X] = 0
        BY <1>3, <3>1
      <4>. QED BY <3>1, <4>1
    <3>2. CASE X # {}
      <4>. DEFINE x == Pick(X)
      <4>1. x \in X /\ F[X] = f[x] + F[X \ {x}]
        BY <1>3, <1>4, <3>2
      <4>. HIDE DEF x
      <4>2. ASSUME NEW z \in X PROVE Good(X \ {z})
        <5>1. X \ {z} \in SUBSET S /\ Cardinality(X \ {z}) <= n
          BY <1>1, <1>2, <2>1
        <5>. HIDE DEF Good
        <5>. QED BY <1>6, <5>1
      <4>3. F[X \ {x}] \in Nat /\ F[X] \in Nat
        BY <4>1, <4>2
      <4>4. ASSUME NEW y \in X PROVE F[X] = f[y] + F[X \ {y}]
        <5>1. CASE y = x
          BY <4>1, <5>1
        <5>2. CASE y # x
          <6>1. (X \ {x}) \ {y} = (X \ {y}) \ {x} /\ y \in X \ {x} /\ x \in X \ {y}
            BY <4>1, <5>2
          <6>2. F[X \ {x}] = f[y] + F[(X \ {x}) \ {y}] /\ F[X \ {x}] \in Nat
            BY <4>1, <4>2, <6>1
          <6>3. F[X \ {y}] = f[x] + F[(X \ {x}) \ {y}] /\ F[X \ {y}] \in Nat
            BY <4>2, <6>1
          <6>4. F[(X \ {x}) \ {y}] \in Nat
            <7>1. (X \ {x}) \ {y} \in SUBSET S /\ Cardinality((X \ {x}) \ {y}) <= n
              BY <1>1, <1>2, <2>1, <4>1, <6>1, SMTT(30)
            <7>. QED BY <1>6, <7>1
          <6>5. f[x] \in Nat /\ f[y] \in Nat
            BY <4>1
          <6>. QED BY <4>1, <6>2, <6>3, <6>4, <6>5
        <5>. QED BY <5>1, <5>2
      <4>. QED BY <4>3, <4>4
    <3>. QED BY <3>1, <3>2
  <2>. HIDE DEF Good
  <2>. QED BY <2>1
<1>7. Cardinality(S) \in Has
  <2>. HIDE DEF Has
  <2>. QED BY <1>1, <1>5, <1>6, SetInduction
<1>8. \A X \in SUBSET S : Good(X)
  <2>. HIDE DEF Good
  <2>. QED BY <1>1, <1>7
<1>. QED BY <1>8 DEF F

-----------------------------------------------------------------------------
(* What flattening and summing do *)

\* The sum over no element.
LEMMA SumEmpty ==
  ASSUME NEW f
  PROVE  SumFunctionOnSet(f, {}) = 0
<1>1. IsFiniteSet({}) /\ {} \in SUBSET {}
  BY FS_EmptySet
<1>2. Summed(f, {})[{}] = 0
  BY <1>1, SummedDef
<1>. QED BY <1>2, SumIs

\* The sum over one element more.
LEMMA SumInsert ==
  ASSUME NEW S, IsFiniteSet(S), NEW y, y \notin S,
         NEW f, \A x \in S \cup {y} : f[x] \in Nat
  PROVE  /\ SumFunctionOnSet(f, S) \in Nat
         /\ SumFunctionOnSet(f, S \cup {y}) = f[y] + SumFunctionOnSet(f, S)
<1>. DEFINE U == S \cup {y}
<1>1. /\ IsFiniteSet(U) /\ y \in U /\ U \ {y} = S /\ U \in SUBSET U /\ S \in SUBSET U
      /\ \A x \in U : f[x] \in Nat
  BY FS_AddElement
<1>2. Summed(f, U)[U] = f[y] + Summed(f, U)[S] /\ Summed(f, U)[S] \in Nat
  <2>. HIDE DEF U
  <2>1. \A T \in SUBSET U :
          /\ Summed(f, U)[T] \in Nat
          /\ \A x \in T : Summed(f, U)[T] = f[x] + Summed(f, U)[T \ {x}]
    BY <1>1, SummedRemove
  <2>2. Summed(f, U)[U] = f[y] + Summed(f, U)[U \ {y}] /\ Summed(f, U)[S] \in Nat
    BY <1>1, <2>1, Zenon
  <2>. QED BY <1>1, <2>2
<1>3. Summed(f, U)[S] = Summed(f, S)[S]
  BY <1>1, SummedSame
<1>. QED BY <1>2, <1>3, SumIs

\* Functions that agree on a set have the same sum over it.
LEMMA SumSame ==
  ASSUME NEW S, IsFiniteSet(S), NEW f, NEW g, \A x \in S : f[x] = g[x]
  PROVE  SumFunctionOnSet(f, S) = SumFunctionOnSet(g, S)
BY SummedSame, SumIs

\* The sum of no numbers.
LEMMA SumSeqEmpty == SumFunction(<<>>) = 0
<1>1. SumFunction(<<>>) = SumFunctionOnSet(<<>>, DOMAIN <<>>)
  BY DEF SumFunction
<1>. QED BY <1>1, SumEmpty

\* The sum of a sequence of naturals, one element longer.
LEMMA SumSeqAppend ==
  ASSUME NEW s \in Seq(Nat), NEW e \in Nat
  PROVE  /\ SumFunction(s) \in Nat
         /\ SumFunction(Append(s, e)) = SumFunction(s) + e
<1>. DEFINE t == Append(s, e)
            n == Len(s)
<1>1. \A r : SumFunction(r) = SumFunctionOnSet(r, DOMAIN r)
  BY DEF SumFunction
<1>2. /\ n \in Nat /\ DOMAIN s = 1..n /\ DOMAIN t = 1..n \cup {n + 1} /\ n + 1 \notin 1..n
      /\ t[n + 1] = e /\ \A i \in 1..n : t[i] = s[i] /\ t[i] \in Nat
  OBVIOUS
<1>3. IsFiniteSet(1..n)
  BY <1>2, FS_Interval
<1>. HIDE DEF n, t
<1>4. /\ SumFunctionOnSet(t, 1..n) \in Nat
      /\ SumFunctionOnSet(t, 1..n \cup {n + 1}) = e + SumFunctionOnSet(t, 1..n)
  BY <1>2, <1>3, SumInsert
<1>5. SumFunctionOnSet(t, 1..n) = SumFunctionOnSet(s, 1..n)
  BY <1>2, <1>3, SumSame
<1>6. SumFunction(t) = e + SumFunctionOnSet(s, 1..n) /\ SumFunction(s) = SumFunctionOnSet(s, 1..n)
      /\ SumFunctionOnSet(s, 1..n) \in Nat
  BY <1>1, <1>2, <1>4, <1>5
<1>7. SumFunction(t) = SumFunction(s) + e /\ SumFunction(s) \in Nat
  BY <1>6
<1>. QED BY <1>7 DEF t

-----------------------------------------------------------------------------
Rising(list) == \A i, j \in DOMAIN list : i < j => list[i].path < list[j].path

\* the file the loop is at exists, those gathered come before it, and a file is
\* open only while a block is read
Place ==
  /\ stage \in {"listed", "gather", "open"} => next <= N
  /\ Rising(entries) /\ \A i \in DOMAIN entries : entries[i].path < next
  /\ Rising(readers)
  /\ stage # "read" => handles = {}

\* the count of each reader is that of the bytes of its file
Counted == \A i \in DOMAIN readers :
             Cardinality(BytesOf(readers[i].path, written)) = read_count[i]

\* the bytes were read from the current file and those before it, in order
FromReaders ==
  \A k \in DOMAIN written :
    \E i \in DOMAIN readers : i <= current /\ written[k] = readers[i].path
Sorted == \A j, k \in DOMAIN written : j < k => written[j] <= written[k]

Progress == Counted /\ FromReaders /\ Sorted

IInv == TypeOK /\ Place /\ OneFileOpen /\ Progress /\ BlocksHoldTheirFiles

PushTypeOK ==
  /\ readers \in Seq(Entries)
  /\ current \in 1..(Len(readers) + 1)
  /\ read_count \in Seq(Nat) /\ Len(read_count) = Len(readers)
  /\ written \in Seq(1..N)

-----------------------------------------------------------------------------
(* A push begins *)

\* The paths of entries are files, numbered in their order.
LEMMA PathsAreFiles ==
  ASSUME NEW list \in Seq(Entries), NEW i \in DOMAIN list
  PROVE  list[i].path \in 1..N /\ list[i].path \in Nat
<1>1. list[i] \in Entries
  OBVIOUS
<1>2. list[i].path \in 1..N
  BY <1>1 DEF Entries
<1>3. 1..N \subseteq Nat
  BY EncodePathAssumption
<1>. QED BY <1>2, <1>3

\* No bytes were read yet.
LEMMA StartPushBegins ==
  ASSUME NEW list \in Seq(Entries), Rising(list), StartPush(list)
  PROVE  PushTypeOK' /\ Rising(readers)' /\ Progress' /\ current' = 1
<1>. USE DEF StartPush
<1>1. readers' = list /\ current' = 1 /\ written' = <<>>
      /\ read_count' = [i \in DOMAIN list |-> 0]
  OBVIOUS
<1>2. Len(list) \in Nat /\ DOMAIN list = 1..Len(list)
  OBVIOUS
<1>3. read_count' \in Seq(Nat) /\ Len(read_count') = Len(list)
  BY <1>1, <1>2
<1>4. PushTypeOK'
  <2>1. written' \in Seq(1..N)
    BY <1>1
  <2>. QED BY <1>1, <1>2, <1>3, <2>1 DEF PushTypeOK
<1>5. Counted'
  <2>1. \A p : BytesOf(p, written') = {}
    BY <1>1 DEF BytesOf
  <2>2. \A i \in DOMAIN list : read_count'[i] = 0
    BY <1>1
  <2>. QED BY <1>1, <2>1, <2>2, FS_EmptySet DEF Counted
<1>6. DOMAIN written' = {}
  BY <1>1
<1>7. FromReaders' /\ Sorted'
  BY <1>6 DEF FromReaders, Sorted
<1>. QED BY <1>1, <1>4, <1>5, <1>7 DEF Progress

\* Nothing is read, open or pushed at first.
LEMMA InitIInv == Init => IInv
<1>. SUFFICES ASSUME Init PROVE IInv
  OBVIOUS
<1>. USE DEF Init
<1>1. /\ entries = <<>> /\ readers = <<>> /\ read_count = <<>> /\ written = <<>>
      /\ blocks = <<>> /\ current = 1 /\ next = 1 /\ stage = "path" /\ handles = {}
  OBVIOUS
<1>2. TypeOK
  <2>1. solid \in BOOLEAN
    BY Zenon
  <2>2. next \in 1..(N + 1) /\ listed \in Nat /\ file_size \in Nat
    BY EncodePathAssumption
  <2>3. entries \in Seq(Entries) /\ readers \in Seq(Entries) /\ read_count \in Seq(Nat)
        /\ written \in Seq(1..N)
        /\ blocks \in Seq([entries : Seq(Entries), sizes : Seq(Nat), bytes : Seq(1..N)])
    BY <1>1
  <2>4. Len(read_count) = Len(readers) /\ current \in 1..(Len(readers) + 1)
    BY <1>1
  <2>5. handles \subseteq 1..N
    BY <1>1
  <2>. QED BY <1>1, <2>1, <2>2, <2>3, <2>4, <2>5, Zenon DEF TypeOK
<1>3. Place /\ OneFileOpen /\ BlocksHoldTheirFiles
  BY <1>1 DEF Place, Rising, OneFileOpen, BlocksHoldTheirFiles
<1>4. Progress
  BY <1>1 DEF Progress, Counted, FromReaders, Sorted
<1>. QED BY <1>2, <1>3, <1>4 DEF IInv

-----------------------------------------------------------------------------
(* Steps that do not read keep what was read *)

\* What was read stays what it is while the push does.
LEMMA ProgressStays ==
  ASSUME Progress, UNCHANGED pushing
  PROVE  Progress'
<1>1. /\ readers' = readers /\ current' = current /\ read_count' = read_count
      /\ written' = written
  BY DEF pushing
<1>2. Counted'
  BY <1>1 DEF Progress, Counted
<1>3. FromReaders' /\ Sorted'
  BY <1>1 DEF Progress, FromReaders, Sorted
<1>. QED BY <1>2, <1>3 DEF Progress

\* So do the blocks.
LEMMA BlocksStay ==
  ASSUME BlocksHoldTheirFiles, UNCHANGED blocks
  PROVE  BlocksHoldTheirFiles'
BY DEF BlocksHoldTheirFiles

-----------------------------------------------------------------------------
(* encode_path *)

\* Steps that leave the push, the blocks and the open files alone.
LEMMA LoopKeeps ==
  ASSUME IInv, TakePath \/ TooLarge \/ BlockFits
  PROVE  IInv'
<1>. USE DEF TakePath, TooLarge, BlockFits
<1>1. /\ UNCHANGED <<solid, next, entries, file_size, readers, current, read_count,
                     written, handles, blocks>>
      /\ stage' \in {"listed", "open", "gather"} /\ next <= N /\ stage # "read"
  BY EncodePathAssumption DEF gathering, pushing, IInv, Place
<1>2. listed' \in Nat
  BY EncodePathAssumption DEF gathering, IInv, TypeOK
<1>3. TypeOK'
  BY <1>1, <1>2, Zenon DEF IInv, TypeOK
<1>4. Place' /\ OneFileOpen'
  BY <1>1 DEF IInv, Place, Rising, OneFileOpen
<1>5. Progress' /\ BlocksHoldTheirFiles'
  BY <1>1, ProgressStays, BlocksStay DEF IInv, pushing
<1>. QED BY <1>3, <1>4, <1>5 DEF IInv

\* A step that fails closes the files.
LEMMA FailKeeps ==
  ASSUME IInv, Fail
  PROVE  IInv'
<1>. USE DEF Fail
<1>1. /\ UNCHANGED <<solid, next, listed, entries, file_size, readers, current, read_count,
                     written, blocks>>
      /\ stage' = "failed" /\ handles' = {}
  BY DEF gathering, pushing
<1>2. TypeOK'
  BY <1>1, Zenon DEF IInv, TypeOK
<1>3. Place' /\ OneFileOpen'
  BY <1>1 DEF IInv, Place, Rising, OneFileOpen
<1>4. Progress' /\ BlocksHoldTheirFiles'
  BY <1>1, ProgressStays, BlocksStay DEF IInv, pushing
<1>. QED BY <1>2, <1>3, <1>4 DEF IInv

\* The file gathered comes after those gathered before.
LEMMA GatherKeeps ==
  ASSUME IInv, Gather
  PROVE  IInv'
<1>. USE DEF Gather
<1>. DEFINE e == [path |-> next, listed |-> listed]
<1>1. /\ UNCHANGED <<solid, listed, readers, current, read_count, written, handles, blocks>>
      /\ stage = "gather" /\ stage' = "path" /\ next' = next + 1
      /\ entries' = Append(entries, e) /\ file_size' = file_size + listed
  BY DEF pushing
<1>2. /\ next \in 1..N /\ listed \in Nat /\ file_size \in Nat /\ entries \in Seq(Entries)
  BY <1>1, EncodePathAssumption DEF IInv, Place, TypeOK
<1>3. e \in Entries /\ e.path = next
  BY <1>2 DEF Entries
<1>. HIDE DEF e
<1>4. /\ entries' \in Seq(Entries) /\ Len(entries') = Len(entries) + 1
      /\ \A i \in 1..Len(entries) : entries'[i] = entries[i]
      /\ entries'[Len(entries) + 1] = e
  BY <1>1, <1>2, <1>3, AppendProperties
<1>5. TypeOK'
  <2>1. next' \in 1..(N + 1) /\ file_size' \in Nat
    BY <1>1, <1>2, EncodePathAssumption
  <2>. QED BY <1>1, <1>4, <2>1, Zenon DEF IInv, TypeOK
<1>6. Rising(entries') /\ \A i \in DOMAIN entries' : entries'[i].path < next'
  <2>1. /\ DOMAIN entries = 1..Len(entries) /\ Len(entries) \in Nat
        /\ DOMAIN entries' = 1..(Len(entries) + 1)
    BY <1>2, <1>4
  <2>2. \A i \in DOMAIN entries : entries[i].path \in Nat /\ entries[i].path < next
    BY <1>2, PathsAreFiles DEF IInv, Place
  <2>3. Rising(entries)
    BY DEF IInv, Place
  <2>. QED BY <1>1, <1>2, <1>3, <1>4, <2>1, <2>2, <2>3 DEF Rising
<1>7. Place' /\ OneFileOpen'
  BY <1>1, <1>6 DEF IInv, Place, Rising, OneFileOpen
<1>8. Progress' /\ BlocksHoldTheirFiles'
  BY <1>1, ProgressStays, BlocksStay DEF IInv, pushing
<1>. QED BY <1>5, <1>7, <1>8 DEF IInv

\* What was gathered is pushed.
LEMMA PushGatheredKeeps ==
  ASSUME IInv, BlockFull \/ PathsEnd
  PROVE  IInv'
<1>. USE DEF BlockFull, PathsEnd
<1>1. CASE StartPush(entries) /\ entries' = <<>>
  <2>1. entries \in Seq(Entries) /\ Rising(entries)
    BY DEF IInv, TypeOK, Place
  <2>2. PushTypeOK' /\ Rising(readers)' /\ Progress' /\ current' = 1
    BY <1>1, <2>1, StartPushBegins
  <2>3. /\ UNCHANGED <<solid, next, listed, handles, blocks>>
        /\ stage' = "read" /\ stage # "read"
    BY <1>1 DEF StartPush
  <2>4. handles' = {}
    BY <2>3 DEF IInv, Place
  <2>5. file_size' \in Nat
    BY DEF IInv, TypeOK
  <2>6. TypeOK'
    <3>1. entries' \in Seq(Entries)
      BY <1>1
    <3>. QED BY <2>2, <2>3, <2>5, <3>1, Zenon DEF IInv, TypeOK, PushTypeOK
  <2>7. Place' /\ OneFileOpen'
    BY <1>1, <2>2, <2>3, <2>4 DEF IInv, Place, Rising, OneFileOpen
  <2>8. BlocksHoldTheirFiles'
    BY <2>3, BlocksStay DEF IInv
  <2>. QED BY <2>2, <2>6, <2>7, <2>8 DEF IInv
<1>2. CASE stage' = "done" /\ UNCHANGED <<entries, pushing>> /\ PathsEnd
  <2>1. /\ UNCHANGED <<solid, next, listed, entries, file_size, readers, current, read_count,
                       written, handles, blocks>>
        /\ stage = "path" /\ stage' = "done"
    BY <1>2 DEF pushing
  <2>2. TypeOK'
    BY <2>1, Zenon DEF IInv, TypeOK
  <2>3. Place' /\ OneFileOpen'
    BY <2>1 DEF IInv, Place, Rising, OneFileOpen
  <2>4. Progress' /\ BlocksHoldTheirFiles'
    BY <2>1, ProgressStays, BlocksStay DEF IInv, pushing
  <2>. QED BY <2>2, <2>3, <2>4 DEF IInv
<1>. QED BY <1>1, <1>2

\* A file pushed by itself is opened before.
LEMMA OpenAloneKeeps ==
  ASSUME IInv, OpenAlone
  PROVE  IInv'
<1>. USE DEF OpenAlone
<1>. DEFINE e == [path |-> next, listed |-> listed]
<1>1. /\ UNCHANGED <<solid, next, listed, entries, file_size, blocks>>
      /\ stage = "open" /\ stage' = "read" /\ handles' = {next} /\ StartPush(<<e>>)
  BY DEF gathering, StartPush
<1>2. next \in 1..N /\ listed \in Nat
  BY <1>1, EncodePathAssumption DEF IInv, Place, TypeOK
<1>3. e \in Entries /\ e.path = next
  BY <1>2 DEF Entries
<1>. HIDE DEF e
<1>4. <<e>> \in Seq(Entries) /\ Rising(<<e>>) /\ DOMAIN <<e>> = {1} /\ <<e>>[1] = e
  BY <1>3 DEF Rising
<1>5. PushTypeOK' /\ Rising(readers)' /\ Progress' /\ current' = 1
  BY <1>1, <1>4, StartPushBegins
<1>6. readers' = <<e>>
  BY <1>1 DEF StartPush
<1>7. TypeOK'
  <2>1. handles' \subseteq 1..N
    BY <1>1, <1>2
  <2>. QED BY <1>1, <1>5, <2>1, Zenon DEF IInv, TypeOK, PushTypeOK
<1>8. Place'
  BY <1>1, <1>5 DEF IInv, Place, Rising
<1>9. OneFileOpen'
  <2>1. 1 \in {current'} \cap DOMAIN readers' /\ readers'[1].path = next
    BY <1>3, <1>4, <1>5, <1>6
  <2>. QED BY <1>1, <2>1 DEF OneFileOpen
<1>10. BlocksHoldTheirFiles'
  BY <1>1, BlocksStay DEF IInv
<1>. QED BY <1>5, <1>7, <1>8, <1>9, <1>10 DEF IInv

-----------------------------------------------------------------------------
(* push_archive_entries *)

\* Opening the file of the current reader.
LEMMA LazyOpenKeeps ==
  ASSUME IInv, LazyOpen
  PROVE  IInv'
<1>. USE DEF LazyOpen, Reading, Path
<1>1. /\ UNCHANGED <<solid, stage, next, listed, entries, file_size, readers, current,
                     read_count, written, blocks>>
      /\ stage = "read" /\ handles' = handles \cup {readers[current].path}
  BY DEF gathering, pushing
<1>2. current \in DOMAIN readers
  BY DEF IInv, TypeOK
<1>3. TypeOK'
  <2>1. readers[current].path \in 1..N
    BY <1>2, PathsAreFiles DEF IInv, TypeOK
  <2>2. handles' \subseteq 1..N
    BY <1>1, <2>1 DEF IInv, TypeOK
  <2>. QED BY <1>1, <2>2, Zenon DEF IInv, TypeOK
<1>4. OneFileOpen'
  BY <1>1, <1>2 DEF IInv, OneFileOpen
<1>5. Place'
  BY <1>1 DEF IInv, Place, Rising
<1>6. Progress' /\ BlocksHoldTheirFiles'
  BY <1>1, ProgressStays, BlocksStay DEF IInv, pushing
<1>. QED BY <1>3, <1>4, <1>5, <1>6 DEF IInv

\* The reader that ended closes its file, so none is open.
LEMMA ReaderEndsKeeps ==
  ASSUME IInv, ReaderEnds
  PROVE  IInv'
<1>. USE DEF ReaderEnds, Reading, Path
<1>1. /\ UNCHANGED <<solid, stage, next, listed, entries, file_size, readers, read_count,
                     written, blocks>>
      /\ stage = "read" /\ handles' = handles \ {readers[current].path}
      /\ current' = current + 1 /\ current <= Len(readers)
  BY DEF gathering
<1>2. current \in Nat /\ Len(readers) \in Nat
  BY DEF IInv, TypeOK
<1>3. handles' = {}
  BY <1>1 DEF IInv, OneFileOpen
<1>4. TypeOK'
  <2>1. current' \in 1..(Len(readers') + 1)
    BY <1>1, <1>2
  <2>2. handles' \subseteq 1..N
    BY <1>3
  <2>. QED BY <1>1, <2>1, <2>2, Zenon DEF IInv, TypeOK
<1>5. Place' /\ OneFileOpen'
  BY <1>1, <1>3 DEF IInv, Place, Rising, OneFileOpen
<1>6. Progress'
  <2>1. Counted' /\ Sorted'
    BY <1>1 DEF IInv, Progress, Counted, Sorted
  <2>2. FromReaders'
    <3>1. \A i \in DOMAIN readers : i <= current => i <= current'
      BY <1>1, <1>2 DEF IInv, TypeOK
    <3>. QED BY <1>1, <3>1 DEF IInv, Progress, FromReaders
  <2>. QED BY <2>1, <2>2 DEF Progress
<1>7. BlocksHoldTheirFiles'
  BY <1>1, BlocksStay DEF IInv
<1>. QED BY <1>4, <1>5, <1>6, <1>7 DEF IInv

\* What a read leaves and adds: bytes of the current file, behind the others.
LEMMA ReadAppends ==
  ASSUME IInv, NEW n \in 1..MaxRead, Read(n)
  PROVE  /\ n \in Nat \ {0} /\ current \in DOMAIN readers /\ Path \in 1..N
         /\ written \in Seq(1..N) /\ written' \in Seq(1..N)
         /\ Len(written') = Len(written) + n
         /\ \A k \in 1..Len(written) : written'[k] = written[k]
         /\ \A k \in (Len(written) + 1)..(Len(written) + n) : written'[k] = Path
<1>. DEFINE s == [k \in 1..n |-> Path]
<1>1. n \in Nat \ {0}
  BY EncodePathAssumption
<1>2. current \in DOMAIN readers
  BY DEF IInv, TypeOK, Read, Reading
<1>3. Path \in 1..N
  BY <1>2, PathsAreFiles DEF IInv, TypeOK, Path
<1>4. s \in Seq(1..N) /\ Len(s) = n /\ \A k \in 1..n : s[k] = Path
  BY <1>1, <1>3
<1>5. written \in Seq(1..N) /\ written' = written \o s
  BY DEF IInv, TypeOK, Read
<1>. HIDE DEF s
<1>6. /\ written' \in Seq(1..N) /\ Len(written') = Len(written) + n
      /\ \A k \in 1..Len(written) + n :
           written'[k] = IF k <= Len(written) THEN written[k] ELSE s[k - Len(written)]
  BY <1>4, <1>5, ConcatProperties
<1>7. Len(written) \in Nat
  BY <1>5
<1>8. \A k \in 1..Len(written) : written'[k] = written[k]
  BY <1>1, <1>6, <1>7
<1>9. \A k \in (Len(written) + 1)..(Len(written) + n) : written'[k] = Path
  <2>. SUFFICES ASSUME NEW k \in (Len(written) + 1)..(Len(written) + n)
                PROVE  written'[k] = Path
    OBVIOUS
  <2>1. k \in 1..Len(written) + n /\ ~ (k <= Len(written)) /\ k - Len(written) \in 1..n
    BY <1>1, <1>7
  <2>. QED BY <1>4, <1>6, <2>1
<1>. QED BY <1>1, <1>2, <1>3, <1>5, <1>6, <1>8, <1>9

\* A file's bytes after a read: n more for the current file, else as before.
LEMMA ReadCounts ==
  ASSUME IInv, NEW n \in 1..MaxRead, Read(n), NEW p \in 1..N
  PROVE  Cardinality(BytesOf(p, written'))
           = Cardinality(BytesOf(p, written)) + (IF p = Path THEN n ELSE 0)
<1>. DEFINE L == Len(written)
            Old == BytesOf(p, written)
            New == (L + 1)..(L + n)
<1>1. /\ n \in Nat \ {0} /\ L \in Nat
      /\ DOMAIN written = 1..L /\ DOMAIN written' = 1..(L + n)
      /\ \A k \in 1..L : written'[k] = written[k]
      /\ \A k \in (L + 1)..(L + n) : written'[k] = Path
  <2>1. /\ n \in Nat \ {0} /\ written \in Seq(1..N) /\ written' \in Seq(1..N)
        /\ Len(written') = L + n
        /\ \A k \in 1..L : written'[k] = written[k]
        /\ \A k \in (L + 1)..(L + n) : written'[k] = Path
    BY ReadAppends
  <2>2. L \in Nat /\ DOMAIN written = 1..L /\ DOMAIN written' = 1..(L + n)
    BY <2>1
  <2>. QED BY <2>1, <2>2
<1>2. Old \in SUBSET (1..L) /\ Old \cap New = {}
  BY <1>1 DEF BytesOf
<1>3. IsFiniteSet(1..L) /\ IsFiniteSet(New)
      /\ Cardinality(New) = IF L + 1 > L + n THEN 0 ELSE (L + n) - (L + 1) + 1
  BY <1>1, FS_Interval
<1>4. Cardinality(New) = n
  BY <1>1, <1>3
<1>5. IsFiniteSet(Old)
  BY <1>2, <1>3, FS_Subset
<1>6. Cardinality(Old) \in Nat
  BY <1>5, FS_CardinalityType
<1>7. CASE p = Path
  <2>1. BytesOf(p, written') = Old \cup New
    BY <1>1, <1>7 DEF BytesOf
  <2>2. Cardinality(Old \cup New) = Cardinality(Old) + Cardinality(New) - Cardinality({})
    BY <1>2, <1>3, <1>5, FS_Union
  <2>3. Cardinality(Old \cup New) = Cardinality(Old) + n
    BY <1>1, <1>4, <1>6, <2>2, FS_EmptySet
  <2>. QED BY <1>7, <2>1, <2>3
<1>8. CASE p # Path
  <2>1. BytesOf(p, written') = Old
    BY <1>1, <1>8 DEF BytesOf
  <2>. QED BY <1>6, <1>8, <2>1
<1>. QED BY <1>7, <1>8

\* Reading counts the bytes to the file they are of and keeps the order.
LEMMA ReadKeeps ==
  ASSUME IInv, NEW n \in 1..MaxRead, Read(n)
  PROVE  IInv'
<1>1. /\ UNCHANGED <<solid, stage, next, listed, entries, file_size, readers, current,
                     handles, blocks>>
      /\ read_count' = [read_count EXCEPT ![current] = @ + n]
  BY DEF Read, gathering
<1>2. /\ n \in Nat \ {0} /\ current \in DOMAIN readers /\ Path \in 1..N
      /\ written \in Seq(1..N) /\ written' \in Seq(1..N)
      /\ Len(written') = Len(written) + n
      /\ \A k \in 1..Len(written) : written'[k] = written[k]
      /\ \A k \in (Len(written) + 1)..(Len(written) + n) : written'[k] = Path
  BY ReadAppends
<1>3. /\ Len(written) \in Nat /\ DOMAIN written = 1..Len(written)
      /\ DOMAIN written' = 1..(Len(written) + n)
  BY <1>2
<1>4. /\ readers \in Seq(Entries) /\ read_count \in Seq(Nat)
      /\ DOMAIN readers = 1..Len(readers) /\ DOMAIN read_count = DOMAIN readers
      /\ \A i \in DOMAIN readers : readers[i].path \in 1..N /\ readers[i].path \in Nat
  <2>1. readers \in Seq(Entries) /\ read_count \in Seq(Nat) /\ Len(read_count) = Len(readers)
    BY DEF IInv, TypeOK
  <2>3. \A i \in DOMAIN readers : readers[i].path \in 1..N /\ readers[i].path \in Nat
    BY <2>1, PathsAreFiles
  <2>4. DOMAIN readers = 1..Len(readers) /\ DOMAIN read_count = 1..Len(read_count)
    BY <2>1
  <2>. QED BY <2>1, <2>3, <2>4
<1>5. /\ read_count' \in Seq(Nat) /\ Len(read_count') = Len(read_count)
      /\ \A i \in DOMAIN readers :
           read_count'[i] = IF i = current THEN read_count[i] + n ELSE read_count[i]
  <2>1. read_count[current] \in Nat /\ current \in 1..Len(read_count)
    BY <1>2, <1>4
  <2>2. read_count[current] + n \in Nat
    BY <1>2, <2>1
  <2>. QED BY <1>1, <1>2, <1>4, <2>1, <2>2, ExceptSeq
<1>6. TypeOK'
  BY <1>1, <1>2, <1>5, Zenon DEF IInv, TypeOK
<1>7. Place' /\ OneFileOpen'
  BY <1>1 DEF IInv, Place, Rising, OneFileOpen
<1>8. Counted'
  <2>. SUFFICES ASSUME NEW i \in DOMAIN readers
                PROVE  Cardinality(BytesOf(readers[i].path, written')) = read_count'[i]
    BY <1>1, Zenon DEF Counted
  <2>1. Cardinality(BytesOf(readers[i].path, written)) = read_count[i]
    BY DEF IInv, Progress, Counted
  <2>2. readers[i].path = Path <=> i = current
    <3>1. Rising(readers)
      BY DEF IInv, Place
    <3>2. i \in Nat /\ current \in Nat
      BY <1>2, <1>4
    <3>3. readers[i].path \in Nat /\ readers[current].path \in Nat
      BY <1>2, <1>4
    <3>4. CASE i < current
      <4>1. readers[i].path < readers[current].path
        BY <1>2, <3>1, <3>4 DEF Rising
      <4>. QED BY <3>2, <3>3, <3>4, <4>1 DEF Path
    <3>5. CASE current < i
      <4>1. readers[current].path < readers[i].path
        BY <1>2, <3>1, <3>5 DEF Rising
      <4>. QED BY <3>2, <3>3, <3>5, <4>1 DEF Path
    <3>6. CASE i = current
      BY <3>6 DEF Path
    <3>. QED BY <3>2, <3>4, <3>5, <3>6
  <2>3. Cardinality(BytesOf(readers[i].path, written'))
          = read_count[i] + (IF readers[i].path = Path THEN n ELSE 0)
    BY <1>4, <2>1, ReadCounts
  <2>4. read_count[i] \in Nat
    BY <1>4
  <2>. QED BY <1>5, <2>2, <2>3, <2>4
<1>9. FromReaders'
  <2>. SUFFICES ASSUME NEW k \in DOMAIN written'
                PROVE  \E i \in DOMAIN readers : i <= current /\ written'[k] = readers[i].path
    BY <1>1, Zenon DEF FromReaders
  <2>1. CASE k <= Len(written)
    <3>1. k \in DOMAIN written /\ written'[k] = written[k]
      BY <1>2, <1>3, <2>1
    <3>. QED BY <3>1 DEF IInv, Progress, FromReaders
  <2>2. CASE ~ (k <= Len(written))
    <3>1. written'[k] = readers[current].path
      BY <1>2, <1>3, <2>2 DEF Path
    <3>2. current <= current
      BY DEF IInv, TypeOK
    <3>. QED BY <1>2, <3>1, <3>2
  <2>. QED BY <2>1, <2>2
<1>10. Sorted'
  <2>1. \A k \in DOMAIN written : written[k] \in Nat /\ written[k] <= Path
    <3>. SUFFICES ASSUME NEW k \in DOMAIN written
                  PROVE  written[k] \in Nat /\ written[k] <= Path
      OBVIOUS
    <3>1. PICK i \in DOMAIN readers : i <= current /\ written[k] = readers[i].path
      BY DEF IInv, Progress, FromReaders
    <3>2. readers[i].path \in Nat /\ readers[current].path \in Nat
      BY <1>2, <1>4
    <3>3. CASE i = current
      BY <3>1, <3>2, <3>3 DEF Path
    <3>4. CASE i < current
      <4>1. readers[i].path < readers[current].path
        BY <1>2, <3>4 DEF IInv, Place, Rising
      <4>. QED BY <3>1, <3>2, <4>1 DEF Path
    <3>5. i \in Nat /\ current \in Nat
      BY <1>2, <1>4
    <3>. QED BY <3>1, <3>3, <3>4, <3>5
  <2>. SUFFICES ASSUME NEW j \in DOMAIN written', NEW k \in DOMAIN written', j < k
                PROVE  written'[j] <= written'[k]
    BY Zenon DEF Sorted
  <2>2. Path \in Nat
    BY <1>2, EncodePathAssumption
  <2>3. CASE k <= Len(written)
    <3>1. j \in DOMAIN written /\ k \in DOMAIN written
          /\ written'[j] = written[j] /\ written'[k] = written[k]
      BY <1>2, <1>3, <2>3
    <3>. QED BY <3>1 DEF IInv, Progress, Sorted
  <2>4. CASE ~ (k <= Len(written))
    <3>1. written'[k] = Path
      BY <1>2, <1>3, <2>4
    <3>2. CASE j <= Len(written)
      <4>1. j \in DOMAIN written /\ written'[j] = written[j]
        BY <1>2, <1>3, <3>2
      <4>. QED BY <2>1, <3>1, <4>1
    <3>3. CASE ~ (j <= Len(written))
      <4>1. written'[j] = Path
        BY <1>2, <1>3, <3>3
      <4>. QED BY <2>2, <3>1, <4>1
    <3>. QED BY <3>2, <3>3
  <2>. QED BY <2>3, <2>4
<1>11. BlocksHoldTheirFiles'
  BY <1>1, BlocksStay DEF IInv
<1>. QED BY <1>6, <1>7, <1>8, <1>9, <1>10, <1>11 DEF IInv, Progress

\* The block added is what the readers gave.
LEMMA PushEndsKeeps ==
  ASSUME IInv, PushEnds
  PROVE  IInv'
<1>. USE DEF PushEnds
<1>1. /\ UNCHANGED <<solid, listed, entries, file_size, readers, current, read_count,
                     written, handles>>
      /\ stage = "read" /\ current > Len(readers) /\ blocks' = Append(blocks, Pushed)
      /\ \/ stage' = "path" /\ next' = next
         \/ stage' = "path" /\ next <= N /\ next' = next + 1
         \/ stage' = "gather" /\ next <= N /\ next' = next
  BY DEF pushing
<1>2. Pushed \in [entries : Seq(Entries), sizes : Seq(Nat), bytes : Seq(1..N)]
  BY DEF IInv, TypeOK, Pushed
<1>3. blocks \in Seq([entries : Seq(Entries), sizes : Seq(Nat), bytes : Seq(1..N)])
  BY DEF IInv, TypeOK
<1>4. /\ blocks' \in Seq([entries : Seq(Entries), sizes : Seq(Nat), bytes : Seq(1..N)])
      /\ Len(blocks') = Len(blocks) + 1
      /\ \A b \in 1..Len(blocks) : blocks'[b] = blocks[b]
      /\ blocks'[Len(blocks) + 1] = Pushed
  <2>. DEFINE T == [entries : Seq(Entries), sizes : Seq(Nat), bytes : Seq(1..N)]
  <2>1. blocks \in Seq(T) /\ Pushed \in T /\ blocks' = Append(blocks, Pushed)
    BY <1>1, <1>2, <1>3
  <2>. HIDE DEF T
  <2>2. /\ blocks' \in Seq(T)
        /\ Len(blocks') = Len(blocks) + 1
        /\ \A b \in 1..Len(blocks) : blocks'[b] = blocks[b]
        /\ blocks'[Len(blocks) + 1] = Pushed
    BY <2>1, AppendProperties
  <2>. QED BY <2>2 DEF T
<1>5. next \in 1..(N + 1) /\ next' \in 1..(N + 1) /\ next <= next'
  BY <1>1, EncodePathAssumption DEF IInv, TypeOK
<1>6. stage' \in {"path", "gather"}
  BY <1>1
<1>7. TypeOK'
  BY <1>1, <1>4, <1>5, <1>6, Zenon DEF IInv, TypeOK
<1>8. handles = {}
  <2>1. current \notin DOMAIN readers
    BY <1>1 DEF IInv, TypeOK
  <2>. QED BY <2>1 DEF IInv, OneFileOpen
<1>9. Place'
  <2>1. \A i \in DOMAIN entries : entries[i].path < next'
    <3>1. \A i \in DOMAIN entries : entries[i].path \in Nat
      BY PathsAreFiles DEF IInv, TypeOK
    <3>2. \A i \in DOMAIN entries : entries[i].path < next
      BY DEF IInv, Place
    <3>3. next \in Nat /\ next' \in Nat
      BY <1>5, EncodePathAssumption
    <3>. QED BY <1>5, <3>1, <3>2, <3>3
  <2>2. stage' = "gather" => next' <= N
    BY <1>1
  <2>3. Rising(entries') /\ Rising(readers')
    BY <1>1 DEF IInv, Place
  <2>. QED BY <1>1, <1>6, <1>8, <2>1, <2>2, <2>3 DEF Place
<1>10. OneFileOpen'
  BY <1>1, <1>8 DEF OneFileOpen
<1>11. Progress'
  BY <1>1, ProgressStays DEF IInv, pushing
<1>12. BlocksHoldTheirFiles'
  <2>1. DOMAIN blocks = 1..Len(blocks) /\ Len(blocks) \in Nat
        /\ DOMAIN blocks' = 1..(Len(blocks) + 1)
    BY <1>3, <1>4
  <2>2. Pushed.entries = readers /\ Pushed.sizes = read_count /\ Pushed.bytes = written
    BY DEF Pushed
  <2>. DEFINE Holds(block) ==
         /\ \A i \in DOMAIN block.entries :
              Cardinality(BytesOf(block.entries[i].path, block.bytes)) = block.sizes[i]
         /\ \A k \in DOMAIN block.bytes :
              \E i \in DOMAIN block.entries : block.bytes[k] = block.entries[i].path
         /\ \A j, k \in DOMAIN block.bytes : j < k => block.bytes[j] <= block.bytes[k]
  <2>3. Holds(Pushed)
    BY <2>2 DEF IInv, Progress, Counted, FromReaders, Sorted
  <2>4. \A b \in DOMAIN blocks : Holds(blocks[b])
    BY DEF IInv, BlocksHoldTheirFiles
  <2>5. \A b \in DOMAIN blocks' : Holds(blocks'[b])
    <3>. HIDE DEF Holds
    <3>. SUFFICES ASSUME NEW b \in DOMAIN blocks' PROVE Holds(blocks'[b])
      OBVIOUS
    <3>1. CASE b \in DOMAIN blocks
      BY <1>4, <2>1, <2>4, <3>1
    <3>2. CASE b = Len(blocks) + 1
      BY <1>4, <2>3, <3>2
    <3>. QED BY <2>1, <3>1, <3>2
  <2>. QED BY <2>5, Zenon DEF BlocksHoldTheirFiles
<1>. QED BY <1>7, <1>9, <1>10, <1>11, <1>12 DEF IInv

\* The invariant is inductive.
LEMMA NextIInv == IInv /\ [Step]_vars => IInv'
<1>. SUFFICES ASSUME IInv, [Step]_vars PROVE IInv'
  OBVIOUS
<1>1. CASE TakePath \/ TooLarge \/ BlockFits
  BY <1>1, LoopKeeps
<1>2. CASE MetadataFails \/ OpenFails \/ PushFails
  BY <1>2, FailKeeps DEF MetadataFails, OpenFails, PushFails
<1>3. CASE BlockFull \/ PathsEnd
  BY <1>3, PushGatheredKeeps
<1>4. CASE Gather
  BY <1>4, GatherKeeps
<1>5. CASE OpenAlone
  BY <1>5, OpenAloneKeeps
<1>6. CASE LazyOpen
  BY <1>6, LazyOpenKeeps
<1>7. CASE \E n \in 1..MaxRead : Read(n)
  BY <1>7, ReadKeeps
<1>8. CASE ReaderEnds
  BY <1>8, ReaderEndsKeeps
<1>9. CASE PushEnds
  BY <1>9, PushEndsKeeps
<1>10. CASE UNCHANGED vars
  <2>1. /\ UNCHANGED <<solid, stage, next, listed, entries, file_size, handles, blocks>>
        /\ UNCHANGED pushing
    BY <1>10 DEF vars, gathering
  <2>2. UNCHANGED <<readers, current, read_count, written>>
    BY <2>1 DEF pushing
  <2>3. TypeOK'
    BY <2>1, <2>2, Zenon DEF IInv, TypeOK
  <2>4. Place' /\ OneFileOpen'
    BY <2>1, <2>2 DEF IInv, Place, Rising, OneFileOpen
  <2>5. Progress' /\ BlocksHoldTheirFiles'
    BY <2>1, ProgressStays, BlocksStay DEF IInv
  <2>. QED BY <2>3, <2>4, <2>5 DEF IInv
<1>. QED
  BY <1>1, <1>2, <1>3, <1>4, <1>5, <1>6, <1>7, <1>8, <1>9, <1>10 DEF Step

-----------------------------------------------------------------------------

\* The invariant holds in every state of the call.
THEOREM Inductive == Spec => []IInv
BY InitIInv, NextIInv, PTL DEF Spec

\* Types of encode_path and its readers: the loop stays within the paths, the
\* current reader within the block.
THEOREM TypeCorrect == Spec => []TypeOK
<1>1. IInv => TypeOK
  BY DEF IInv
<1>. QED BY <1>1, Inductive, PTL

\* LazyFileReader opens a file at the first read and closes it at its end, so
\* a block of any number of files has one open.
THEOREM OneFileOpenAlways == Spec => []OneFileOpen
<1>1. IInv => OneFileOpen
  BY DEF IInv
<1>. QED BY <1>1, Inductive, PTL

\* SourceReader counts what SeqReader passes on: each block is the data of its
\* files in their order, of the sizes that were read.
THEOREM BlocksHoldWhatWasRead == Spec => []BlocksHoldTheirFiles
<1>1. IInv => BlocksHoldTheirFiles
  BY DEF IInv
<1>. QED BY <1>1, Inductive, PTL
-----------------------------------------------------------------------------
(* Grouping: which files are in the blocks, and where a block ends *)

\* the listed size of a list of files
SizeOf(list) == SumFunction([i \in DOMAIN list |-> list[i].listed])

Small(list) == SizeOf(list) < MAX_BLOCK_SIZE

\* the file the loop is at is pushed by itself
Alone == next <= N /\ (~solid \/ listed >= MAX_BLOCK_SIZE)

\* the file behind which the block ends would have reached the limit
Closes(list, size) == SizeOf(list) + size >= MAX_BLOCK_SIZE

Of(b) == blocks[b].entries

\* A block has files, several of them only below the limit.
Blocked ==
  \A b \in DOMAIN blocks :
    /\ Of(b) # <<>>
    /\ solid => Small(Of(b)) \/ Len(Of(b)) = 1
    /\ \A i \in DOMAIN Of(b) : Of(b)[i].path < next

\* the last of the blocks of several files
LastSmall(b) == Small(Of(b)) /\ \A a \in (b + 1)..Len(blocks) : ~Small(Of(a))

\* Of two blocks of a kind the first has the earlier files; of two blocks of
\* several files in succession the first was full.
Paired ==
  \A b, c \in DOMAIN blocks :
    b < c =>
      /\ (Small(Of(b)) <=> Small(Of(c))) => Of(b)[Len(Of(b))].path < Of(c)[1].path
      /\ solid /\ Small(Of(b)) /\ Small(Of(c)) /\ (\A a \in (b + 1)..(c - 1) : ~Small(Of(a)))
           => Closes(Of(b), Of(c)[1].listed)

\* The files gathered, and their listed size.
Loop ==
  /\ Small(entries) /\ (next <= N => file_size = SizeOf(entries))
  /\ ~solid => entries = <<>>
  /\ stage \in {"listed", "gather"} => solid
  /\ stage = "gather" => listed < MAX_BLOCK_SIZE /\ ~Closes(entries, listed)
  /\ stage = "open" => Alone
  /\ stage = "done" => next > N /\ entries = <<>>

\* The files of the push under way: the one the loop is at, or those gathered.
UnderWay ==
  stage = "read" =>
    /\ readers # <<>>
    /\ IF Alone
       THEN readers = <<[path |-> next, listed |-> listed]>>
       ELSE /\ solid /\ Small(readers) /\ entries = <<>>
            /\ next <= N => Closes(readers, listed)
            /\ \A i \in DOMAIN readers : readers[i].path < next

\* What comes behind the blocks of several files.
Follows ==
  \A b \in DOMAIN blocks :
    Small(Of(b)) =>
      /\ entries # <<>> => Of(b)[Len(Of(b))].path < entries[1].path
      /\ stage = "read" /\ ~Alone => Of(b)[Len(Of(b))].path < readers[1].path
      /\ solid /\ LastSmall(b) =>
           IF stage = "read" /\ ~Alone THEN Closes(Of(b), readers[1].listed)
           ELSE IF entries # <<>> THEN Closes(Of(b), entries[1].listed)
           ELSE next > N \/ (stage = "gather" /\ Closes(Of(b), listed))

\* the paths of a list
Paths(list) == [i \in DOMAIN list |-> list[i].path]

\* Every file the loop has left behind is in one of the lists.
Present ==
  LET reached == IF stage = "read" /\ Alone THEN next ELSE next - 1
      now     == IF stage = "read" THEN Paths(readers) ELSE <<>>
  IN  /\ Len(AllPaths) + Len(now) + Len(entries) = reached
      /\ ToSet(AllPaths) \cup ToSet(now) \cup ToSet(Paths(entries)) = 1..reached

GInv ==
  /\ Blocked /\ Paired
  /\ stage # "failed" => Loop /\ UnderWay /\ Follows /\ Present

-----------------------------------------------------------------------------
(* Lists of files *)

\* The sizes of lists.
LEMMA SizesOfLists ==
  /\ SizeOf(<<>>) = 0
  /\ \A list \in Seq(Entries) : SizeOf(list) \in Nat
  /\ \A list \in Seq(Entries), e \in Entries :
       SizeOf(Append(list, e)) = SizeOf(list) + e.listed
  /\ \A e \in Entries : SizeOf(<<e>>) = e.listed
<1>. DEFINE L(list) == [i \in DOMAIN list |-> list[i].listed]
<1>1. L(<<>>) = <<>>
  OBVIOUS
<1>2. SizeOf(<<>>) = 0
  BY <1>1, SumSeqEmpty DEF SizeOf
<1>3. ASSUME NEW list \in Seq(Entries) PROVE L(list) \in Seq(Nat) /\ Len(L(list)) = Len(list)
  <2>1. \A i \in 1..Len(list) : list[i].listed \in Nat
    <3>1. \A i \in 1..Len(list) : list[i] \in Entries
      OBVIOUS
    <3>. QED BY <3>1 DEF Entries
  <2>2. DOMAIN list = 1..Len(list) /\ Len(list) \in Nat
    OBVIOUS
  <2>. QED BY <2>1, <2>2
<1>4. ASSUME NEW list \in Seq(Entries), NEW e \in Entries
      PROVE  L(Append(list, e)) = Append(L(list), e.listed)
  <2>1. PICK a, r, n : a = Append(list, e) /\ r = e.listed /\ n = Len(list)
    OBVIOUS
  <2>2. /\ a \in Seq(Entries) /\ Len(a) = n + 1 /\ a[n + 1] = e /\ n \in Nat
        /\ \A i \in 1..n : a[i] = list[i]
    BY <2>1, AppendProperties
  <2>3. e.listed \in Nat /\ r \in Nat
    BY <2>1 DEF Entries
  <2>. DEFINE p == L(a)
              q == Append(L(list), r)
  <2>4. p \in Seq(Nat) /\ Len(p) = n + 1 /\ \A i \in 1..(n + 1) : p[i] = a[i].listed
    <3>1. DOMAIN a = 1..(n + 1)
      BY <2>2
    <3>2. \A i \in 1..(n + 1) : p[i] = a[i].listed
      BY <3>1
    <3>. HIDE DEF L
    <3>. QED BY <1>3, <2>2, <3>2
  <2>5. L(list) \in Seq(Nat) /\ Len(L(list)) = n /\ \A i \in 1..n : L(list)[i] = list[i].listed
    <3>1. DOMAIN list = 1..n
      BY <2>1
    <3>2. \A i \in 1..n : L(list)[i] = list[i].listed
      BY <3>1
    <3>. HIDE DEF L
    <3>. QED BY <1>3, <2>1, <3>2
  <2>. HIDE DEF L
  <2>6. /\ q \in Seq(Nat) /\ Len(q) = n + 1 /\ q[n + 1] = r
        /\ \A i \in 1..n : q[i] = L(list)[i]
    BY <2>3, <2>5, AppendProperties
  <2>7. \A i \in 1..(n + 1) : p[i] = q[i]
    <3>1. p[n + 1] = q[n + 1]
      BY <2>1, <2>2, <2>4, <2>6
    <3>2. \A i \in 1..n : i \in 1..(n + 1)
      BY <2>2
    <3>3. \A i \in 1..n : p[i] = q[i]
      <4>. HIDE DEF p, q
      <4>. QED BY <2>2, <2>4, <2>5, <2>6, <3>2
    <3>4. \A i \in 1..(n + 1) : i \in 1..n \/ i = n + 1
      BY <2>2
    <3>. HIDE DEF p, q
    <3>. QED BY <3>1, <3>3, <3>4
  <2>. HIDE DEF p, q
  <2>8. p = q
    BY <2>4, <2>6, <2>7, SeqEqual
  <2>. QED BY <2>1, <2>8 DEF p, q
<1>5. ASSUME NEW list \in Seq(Entries), NEW e \in Entries
      PROVE  SizeOf(list) \in Nat /\ SizeOf(Append(list, e)) = SizeOf(list) + e.listed
  <2>1. L(list) \in Seq(Nat) /\ e.listed \in Nat
    BY <1>3 DEF Entries
  <2>2. SizeOf(list) = SumFunction(L(list)) /\ SizeOf(Append(list, e)) = SumFunction(L(Append(list, e)))
    BY DEF SizeOf
  <2>. HIDE DEF L
  <2>3. SumFunction(L(list)) \in Nat /\ SumFunction(Append(L(list), e.listed)) = SumFunction(L(list)) + e.listed
    BY <2>1, SumSeqAppend
  <2>. QED BY <1>4, <2>2, <2>3
<1>6. ASSUME NEW list \in Seq(Entries) PROVE SizeOf(list) \in Nat
  <2>1. L(list) \in Seq(Nat) /\ SizeOf(list) = SumFunction(L(list))
    BY <1>3 DEF SizeOf
  <2>. HIDE DEF L
  <2>2. 0 \in Nat
    OBVIOUS
  <2>. QED BY <2>1, <2>2, SumSeqAppend
<1>7. ASSUME NEW e \in Entries PROVE SizeOf(<<e>>) = e.listed
  <2>1. <<>> \in Seq(Entries) /\ Append(<<>>, e) = <<e>> /\ e.listed \in Nat
    BY DEF Entries
  <2>2. SizeOf(Append(<<>>, e)) = SizeOf(<<>>) + e.listed
    BY <1>5, <2>1
  <2>. QED BY <1>2, <2>1, <2>2
<1>. QED BY <1>2, <1>5, <1>6, <1>7

\* The paths of lists.
LEMMA PathsOfLists ==
  /\ Paths(<<>>) = <<>> /\ ToSet(Paths(<<>>)) = {}
  /\ \A list \in Seq(Entries) :
       Paths(list) \in Seq(1..N) /\ Len(Paths(list)) = Len(list) /\ Len(list) \in Nat
  /\ \A list \in Seq(Entries), e \in Entries :
       ToSet(Paths(Append(list, e))) = ToSet(Paths(list)) \cup {e.path}
  /\ \A e \in Entries : ToSet(Paths(<<e>>)) = {e.path}
<1>1. Paths(<<>>) = <<>> /\ ToSet(Paths(<<>>)) = {}
  BY DEF Paths, ToSet
<1>2. ASSUME NEW list \in Seq(Entries)
      PROVE  Paths(list) \in Seq(1..N) /\ Len(Paths(list)) = Len(list) /\ Len(list) \in Nat
  <2>1. \A i \in 1..Len(list) : list[i].path \in 1..N
    <3>1. \A i \in 1..Len(list) : list[i] \in Entries
      OBVIOUS
    <3>. QED BY <3>1 DEF Entries
  <2>2. DOMAIN list = 1..Len(list) /\ Len(list) \in Nat
    OBVIOUS
  <2>. QED BY <2>1, <2>2 DEF Paths
<1>3. ASSUME NEW list \in Seq(Entries), NEW e \in Entries
      PROVE  ToSet(Paths(Append(list, e))) = ToSet(Paths(list)) \cup {e.path}
  <2>1. PICK a, n : a = Append(list, e) /\ n = Len(list)
    OBVIOUS
  <2>2. /\ a \in Seq(Entries) /\ Len(a) = n + 1 /\ a[n + 1] = e /\ n \in Nat
        /\ \A i \in 1..n : a[i] = list[i]
    BY <2>1, AppendProperties
  <2>3. DOMAIN a = 1..(n + 1) /\ DOMAIN list = 1..n
    BY <2>1, <2>2
  <2>4. ToSet(Paths(a)) = {a[i].path : i \in 1..(n + 1)} /\ ToSet(Paths(list)) = {list[i].path : i \in 1..n}
    BY <2>3 DEF ToSet, Paths
  <2>5. \A i \in 1..(n + 1) : i \in 1..n \/ i = n + 1
    BY <2>2
  <2>6. n + 1 \in 1..(n + 1) /\ \A i \in 1..n : i \in 1..(n + 1)
    BY <2>2
  <2>7. {a[i].path : i \in 1..(n + 1)} = {list[i].path : i \in 1..n} \cup {e.path}
    BY <2>2, <2>5, <2>6
  <2>. QED BY <2>1, <2>4, <2>7
<1>4. ASSUME NEW e \in Entries PROVE ToSet(Paths(<<e>>)) = {e.path}
  BY DEF ToSet, Paths
<1>. QED BY <1>1, <1>2, <1>3, <1>4

\* The types of the state in the form they are used here.
LEMMA GroupTypes ==
  ASSUME TypeOK
  PROVE  /\ N \in Nat /\ MAX_BLOCK_SIZE \in Nat \ {0}
         /\ next \in 1..(N + 1) /\ listed \in Nat /\ file_size \in Nat
         /\ entries \in Seq(Entries) /\ readers \in Seq(Entries)
         /\ Len(blocks) \in Nat /\ DOMAIN blocks = 1..Len(blocks)
         /\ \A b \in DOMAIN blocks : Of(b) \in Seq(Entries)
         /\ solid \in BOOLEAN
<1>. DEFINE Pushes == [entries : Seq(Entries), sizes : Seq(Nat), bytes : Seq(1..N)]
<1>1. blocks \in Seq(Pushes)
  BY DEF TypeOK
<1>2. Len(blocks) \in Nat /\ DOMAIN blocks = 1..Len(blocks) /\ \A b \in DOMAIN blocks : blocks[b] \in Pushes
  <2>. HIDE DEF Pushes
  <2>. QED BY <1>1
<1>3. \A b \in DOMAIN blocks : Of(b) \in Seq(Entries)
  BY <1>2 DEF Of
<1>. QED BY <1>2, <1>3, EncodePathAssumption DEF TypeOK

\* Where no block is added the blocks stay as they are.
LEMMA BlocksKept ==
  ASSUME TypeOK, Blocked, Paired, UNCHANGED <<solid, blocks>>, next' = next \/ next' = next + 1
  PROVE  Blocked' /\ Paired' /\ AllPaths' = AllPaths
<1>1. \A b \in DOMAIN blocks : \A i \in DOMAIN Of(b) : Of(b)[i].path \in Nat
  BY GroupTypes, PathsAreFiles
<1>2. next \in Nat
  BY GroupTypes
<1>3. \A b \in DOMAIN blocks : \A i \in DOMAIN Of(b) : Of(b)[i].path < next'
  BY <1>1, <1>2 DEF Blocked
<1>4. Blocked'
  BY <1>3 DEF Blocked, Of
<1>5. Paired'
  BY DEF Paired, Of
<1>. QED BY <1>4, <1>5 DEF AllPaths, PathsOf

\* A call that fails adds no block.
LEMMA FailGroups ==
  ASSUME TypeOK, GInv, Fail
  PROVE  GInv'
<1>1. stage' = "failed" /\ UNCHANGED <<solid, blocks, next>>
  BY DEF Fail, gathering
<1>. QED BY <1>1, BlocksKept DEF GInv

\* A reader changes nothing of what is in which block.
LEMMA ReadingGroups ==
  ASSUME TypeOK, GInv, UNCHANGED <<solid, stage, next, listed, entries, file_size, readers, blocks>>
  PROVE  GInv'
<1>1. Blocked' /\ Paired' /\ AllPaths' = AllPaths
  BY BlocksKept DEF GInv
<1>2. ASSUME stage # "failed" PROVE Loop' /\ UnderWay' /\ Follows' /\ Present'
  <2>1. Loop /\ UnderWay /\ Follows /\ Present
    BY <1>2 DEF GInv
  <2>2. Alone' = Alone
    BY DEF Alone
  <2>3. Loop'
    BY <2>1, <2>2 DEF Loop
  <2>4. UnderWay'
    BY <2>1, <2>2 DEF UnderWay
  <2>5. Follows'
    BY <2>1, <2>2 DEF Follows, Of, LastSmall
  <2>6. Present'
    BY <1>1, <2>1, <2>2 DEF Present
  <2>. QED BY <2>3, <2>4, <2>5, <2>6
<1>. QED BY <1>1, <1>2 DEF GInv

\* The paths of the blocks; one block more.
LEMMA AllPathsType ==
  ASSUME TypeOK
  PROVE  /\ AllPaths \in Seq(1..N)
         /\ Len(blocks') = Len(blocks) + 1 /\ blocks' \in Seq([entries : Seq(Entries), sizes : Seq(Nat), bytes : Seq(1..N)])
            /\ (\A b \in 1..Len(blocks) : blocks'[b] = blocks[b]) /\ blocks'[Len(blocks) + 1].entries = readers
              => AllPaths' = AllPaths \o Paths(readers)
<1>1. readers \in Seq(Entries) /\ Len(blocks) \in Nat /\ DOMAIN blocks = 1..Len(blocks)
      /\ \A b \in DOMAIN blocks : Of(b) \in Seq(Entries)
  BY GroupTypes
<1>2. PICK s : s = [b \in DOMAIN blocks |-> PathsOf(b)]
  OBVIOUS
<1>3. s \in Seq(Seq(1..N)) /\ Len(s) = Len(blocks) /\ \A b \in 1..Len(blocks) : s[b] = Paths(Of(b))
  <2>1. \A b \in DOMAIN blocks : PathsOf(b) = Paths(Of(b)) /\ Paths(Of(b)) \in Seq(1..N)
    BY <1>1, PathsOfLists DEF PathsOf, Paths, Of
  <2>2. \A b \in 1..Len(blocks) : s[b] = Paths(Of(b)) /\ s[b] \in Seq(1..N)
    BY <1>1, <1>2, <2>1
  <2>3. DOMAIN s = 1..Len(blocks)
    BY <1>1, <1>2
  <2>. QED BY <1>1, <1>2, <2>2, <2>3
<1>4. AllPaths = FlattenSeq(s) /\ AllPaths \in Seq(1..N)
  <2>1. AllPaths = FlattenSeq(s)
    BY <1>2 DEF AllPaths
  <2>. QED BY <1>3, <2>1, FlattenIn
<1>5. ASSUME Len(blocks') = Len(blocks) + 1,
             blocks' \in Seq([entries : Seq(Entries), sizes : Seq(Nat), bytes : Seq(1..N)]),
             \A b \in 1..Len(blocks) : blocks'[b] = blocks[b],
             blocks'[Len(blocks) + 1].entries = readers
      PROVE  AllPaths' = AllPaths \o Paths(readers)
  <2>1. PICK t, e, n : t = [b \in DOMAIN blocks' |-> PathsOf(b)'] /\ e = Paths(readers) /\ n = Len(blocks)
    OBVIOUS
  <2>2. e \in Seq(1..N) /\ n \in Nat
    BY <1>1, <2>1, PathsOfLists
  <2>3. DOMAIN blocks' = 1..(n + 1)
    BY <1>5, <2>1
  <2>4. t[n + 1] = e /\ \A b \in 1..n : t[b] = s[b]
    <3>1. n + 1 \in 1..(n + 1) /\ \A b \in 1..n : b \in 1..(n + 1)
      BY <2>2
    <3>2. PathsOf(n + 1)' = e
      BY <1>5, <2>1 DEF PathsOf, Paths
    <3>3. \A b \in 1..n : PathsOf(b)' = Paths(Of(b))
      BY <1>5, <2>1 DEF PathsOf, Paths, Of
    <3>. QED BY <1>3, <2>1, <2>3, <3>1, <3>2, <3>3
  <2>5. /\ Append(s, e) \in Seq(Seq(1..N)) /\ Len(Append(s, e)) = n + 1
        /\ Append(s, e)[n + 1] = e /\ \A b \in 1..n : Append(s, e)[b] = s[b]
    <3>. DEFINE S == Seq(1..N)
    <3>1. s \in Seq(S) /\ e \in S /\ Len(s) = n
      BY <1>3, <2>1, <2>2
    <3>. HIDE DEF S
    <3>2. /\ Append(s, e) \in Seq(S) /\ Len(Append(s, e)) = n + 1
          /\ Append(s, e)[n + 1] = e /\ \A b \in 1..n : Append(s, e)[b] = s[b]
      BY <3>1, AppendProperties
    <3>. QED BY <3>2 DEF S
  <2>6. t = Append(s, e)
    <3>1. PICK q : q = Append(s, e)
      OBVIOUS
    <3>2. DOMAIN t = 1..(n + 1)
      BY <2>1, <2>3
    <3>3. \A b \in 1..(n + 1) : b \in 1..n \/ b = n + 1
      BY <2>2
    <3>4. \A b \in 1..(n + 1) : t[b] = q[b]
      BY <2>4, <2>5, <3>1, <3>3
    <3>5. t = [b \in 1..(n + 1) |-> t[b]]
      BY <2>1, <3>2
    <3>6. q = [b \in 1..(n + 1) |-> q[b]]
      <4>. DEFINE S == Seq(1..N)
      <4>1. q \in Seq(S) /\ Len(q) = n + 1
        BY <2>5, <3>1
      <4>. HIDE DEF S
      <4>. QED BY <4>1
    <3>. QED BY <3>1, <3>4, <3>5, <3>6
  <2>7. AllPaths' = FlattenSeq(t)
    BY <2>1 DEF AllPaths
  <2>8. FlattenSeq(Append(s, e)) = FlattenSeq(s) \o e
    BY <1>3, <2>2, FlattenAppend
  <2>. QED BY <1>4, <2>1, <2>6, <2>7, <2>8
<1>. QED BY <1>4, <1>5

\* What two sequences have together.
LEMMA SetOfConcat ==
  ASSUME NEW S, NEW s \in Seq(S), NEW t \in Seq(S)
  PROVE  /\ s \o t \in Seq(S) /\ Len(s \o t) = Len(s) + Len(t) /\ Len(s \o t) \in Nat
         /\ ToSet(s \o t) = ToSet(s) \cup ToSet(t)
<1>1. PICK q : q = s \o t
  OBVIOUS
<1>2. /\ q \in Seq(S) /\ Len(q) = Len(s) + Len(t) /\ Len(s) \in Nat /\ Len(t) \in Nat
      /\ \A i \in 1..(Len(s) + Len(t)) : q[i] = IF i <= Len(s) THEN s[i] ELSE t[i - Len(s)]
  BY <1>1, ConcatProperties
<1>3. DOMAIN q = 1..(Len(s) + Len(t)) /\ DOMAIN s = 1..Len(s) /\ DOMAIN t = 1..Len(t)
  BY <1>2
<1>4. \A i \in DOMAIN q : (i \in DOMAIN s /\ q[i] = s[i]) \/ (i - Len(s) \in DOMAIN t /\ q[i] = t[i - Len(s)])
  BY <1>2, <1>3
<1>5. \A i \in DOMAIN s : i \in DOMAIN q /\ q[i] = s[i]
  BY <1>2, <1>3
<1>6. \A i \in DOMAIN t : i + Len(s) \in DOMAIN q /\ q[i + Len(s)] = t[i]
  BY <1>2, <1>3
<1>7. ToSet(q) = ToSet(s) \cup ToSet(t)
  BY <1>4, <1>5, <1>6 DEF ToSet
<1>. QED BY <1>1, <1>2, <1>7

\* The path is taken, and its size found to fit the block or a block by itself.
LEMMA PathGroups ==
  ASSUME IInv, GInv, TakePath \/ TooLarge \/ BlockFits
  PROVE  GInv'
<1>1. /\ UNCHANGED <<solid, next, entries, file_size, readers, blocks>>
      /\ stage \in {"path", "listed"} /\ stage' \in {"listed", "gather", "open"}
      /\ stage = "path" => next <= N /\ stage' = IF solid THEN "listed" ELSE "open"
      /\ stage = "listed" => listed' = listed
      /\ stage = "listed" /\ stage' = "open" => listed >= MAX_BLOCK_SIZE
      /\ stage' = "gather" => /\ stage = "listed" /\ listed < MAX_BLOCK_SIZE
                              /\ file_size + listed < MAX_BLOCK_SIZE
  BY DEF TakePath, TooLarge, BlockFits, gathering, pushing
<1>2. next <= N /\ N \in Nat /\ next \in Nat
  BY <1>1, GroupTypes DEF IInv, Place
<1>3. Blocked' /\ Paired' /\ AllPaths' = AllPaths
  BY <1>1, BlocksKept DEF GInv, IInv
<1>4. Loop /\ Follows /\ Present
  BY <1>1 DEF GInv
<1>5. Loop'
  <2>1. Small(entries) /\ file_size = SizeOf(entries) /\ (~solid => entries = <<>>)
    BY <1>2, <1>4 DEF Loop
  <2>2. stage' \in {"listed", "gather"} => solid
    BY <1>1, <1>4 DEF Loop
  <2>3. stage' = "gather" => listed' < MAX_BLOCK_SIZE /\ ~Closes(entries, listed')
    <3>. SUFFICES ASSUME stage' = "gather" PROVE listed' < MAX_BLOCK_SIZE /\ ~Closes(entries, listed')
      OBVIOUS
    <3>1. listed' = listed /\ listed < MAX_BLOCK_SIZE /\ file_size + listed < MAX_BLOCK_SIZE
      BY <1>1
    <3>. QED BY <2>1, <3>1, GroupTypes DEF Closes, IInv
  <2>4. stage' = "open" => Alone'
    BY <1>1, <1>2 DEF Alone
  <2>. QED BY <1>1, <2>1, <2>2, <2>3, <2>4 DEF Loop
<1>6. UnderWay'
  BY <1>1 DEF UnderWay
<1>7. Follows'
  <2>. SUFFICES ASSUME NEW b \in DOMAIN blocks, Small(Of(b))
                PROVE  /\ entries # <<>> => Of(b)[Len(Of(b))].path < entries[1].path
                       /\ solid /\ LastSmall(b) =>
                            entries # <<>> /\ Closes(Of(b), entries[1].listed)
    BY <1>1 DEF Follows, Of, LastSmall
  <2>1. stage # "read" /\ stage # "gather" /\ ~(next > N)
    BY <1>1, <1>2
  <2>. QED BY <1>4, <2>1 DEF Follows
<1>8. Present'
  <2>1. stage # "read" /\ stage' # "read"
    BY <1>1
  <2>. QED BY <1>1, <1>3, <1>4, <2>1 DEF Present
<1>. QED BY <1>1, <1>3, <1>5, <1>6, <1>7, <1>8 DEF GInv

\* The files gathered are pushed: the block is full, or the paths have ended.
LEMMA PushGathered ==
  ASSUME IInv, GInv, BlockFull \/ (PathsEnd /\ entries # <<>>)
  PROVE  GInv'
<1>1. /\ UNCHANGED <<solid, next, listed, blocks>> /\ stage \in {"path", "listed"} /\ stage' = "read"
      /\ readers' = entries /\ entries' = <<>>
      /\ \/ /\ stage = "listed" /\ listed < MAX_BLOCK_SIZE
            /\ file_size + listed >= MAX_BLOCK_SIZE /\ file_size' = 0
         \/ stage = "path" /\ next > N /\ entries # <<>> /\ file_size' = file_size
  BY DEF BlockFull, PathsEnd, StartPush
<1>2. N \in Nat /\ next \in Nat /\ listed \in Nat /\ MAX_BLOCK_SIZE \in Nat \ {0}
      /\ entries \in Seq(Entries) /\ file_size \in Nat
  BY GroupTypes DEF IInv
<1>3. Blocked' /\ Paired' /\ AllPaths' = AllPaths
  BY <1>1, BlocksKept DEF GInv, IInv
<1>4. Loop /\ Follows /\ Present
  BY <1>1 DEF GInv
<1>5. Small(entries) /\ (next <= N => file_size = SizeOf(entries)) /\ (~solid => entries = <<>>)
      /\ (stage = "listed" => solid /\ next <= N)
  BY <1>4 DEF Loop, IInv, Place
<1>6. entries # <<>> /\ solid
  <2>1. CASE stage = "listed"
    <3>1. SizeOf(entries) > 0
      BY <1>1, <1>2, <1>5, <2>1
    <3>2. entries # <<>>
      BY <3>1, SizesOfLists
    <3>. QED BY <1>5, <3>2, <2>1
  <2>. QED BY <1>1, <1>5, <2>1
<1>7. Alone' = FALSE
  BY <1>1, <1>2, <1>5, <1>6 DEF Alone
<1>8. Small(<<>>)
  BY <1>2, SizesOfLists DEF Small
<1>9. Loop'
  <2>1. next' <= N => file_size' = SizeOf(entries')
    BY <1>1, <1>2, SizesOfLists
  <2>. QED BY <1>1, <1>8, <2>1 DEF Loop
<1>10. UnderWay'
  <2>1. \A i \in DOMAIN entries : entries[i].path < next
    BY DEF IInv, Place
  <2>2. next <= N => Closes(entries, listed)
    BY <1>1, <1>2, <1>5 DEF Closes
  <2>. QED BY <1>1, <1>5, <1>6, <1>7, <2>1, <2>2 DEF UnderWay
<1>11. Follows'
  <2>. SUFFICES ASSUME NEW b \in DOMAIN blocks, Small(Of(b))
                PROVE  /\ Of(b)[Len(Of(b))].path < entries[1].path
                       /\ LastSmall(b) => Closes(Of(b), entries[1].listed)
    BY <1>1, <1>7 DEF Follows, Of, LastSmall
  <2>1. stage # "read"
    BY <1>1
  <2>. QED BY <1>4, <1>6, <2>1 DEF Follows
<1>12. Present'
  <2>1. Len(AllPaths) + Len(<<>>) + Len(entries) = next - 1
        /\ ToSet(AllPaths) \cup ToSet(<<>>) \cup ToSet(Paths(entries)) = 1..(next - 1)
    BY <1>1, <1>4 DEF Present
  <2>2. Len(Paths(entries)) = Len(entries) /\ Len(entries) \in Nat /\ Paths(<<>>) = <<>>
        /\ ToSet(Paths(<<>>)) = {}
    BY <1>2, PathsOfLists
  <2>3. Len(AllPaths) + Len(Paths(entries)) + Len(<<>>) = next - 1
        /\ ToSet(AllPaths) \cup ToSet(Paths(entries)) \cup ToSet(Paths(<<>>)) = 1..(next - 1)
    <3>1. ToSet(<<>>) = {}
      BY <2>2
    <3>2. PICK A, B : A = ToSet(AllPaths) /\ B = ToSet(Paths(entries))
      OBVIOUS
    <3>3. A \cup {} \cup B = A \cup B \cup {}
      OBVIOUS
    <3>4. Len(<<>>) = 0
      OBVIOUS
    <3>5. Len(AllPaths) + Len(Paths(entries)) + Len(<<>>) = next - 1
      BY <2>1, <2>2, <3>4
    <3>. QED BY <2>1, <2>2, <3>1, <3>2, <3>3, <3>5
  <2>. QED BY <1>1, <1>3, <1>7, <2>3 DEF Present
<1>. QED BY <1>3, <1>9, <1>10, <1>11, <1>12 DEF GInv

\* The paths have ended, and nothing is left to push.
LEMMA LoopEnds ==
  ASSUME IInv, GInv, PathsEnd, entries = <<>>
  PROVE  GInv'
<1>1. /\ UNCHANGED <<solid, next, listed, entries, file_size, readers, blocks>>
      /\ stage = "path" /\ stage' = "done" /\ next > N
  BY DEF PathsEnd, pushing
<1>2. Blocked' /\ Paired' /\ AllPaths' = AllPaths
  BY <1>1, BlocksKept DEF GInv, IInv
<1>3. Loop /\ Follows /\ Present
  BY <1>1 DEF GInv
<1>4. Loop' /\ UnderWay'
  BY <1>1, <1>3 DEF Loop, UnderWay
<1>5. Follows'
  BY <1>1, <1>3 DEF Follows, Of, LastSmall
<1>6. Present'
  BY <1>1, <1>2, <1>3 DEF Present
<1>. QED BY <1>2, <1>4, <1>5, <1>6 DEF GInv

\* The file the loop is at is pushed by itself.
LEMMA AloneGroups ==
  ASSUME IInv, GInv, OpenAlone
  PROVE  GInv'
<1>1. /\ UNCHANGED <<solid, next, listed, entries, file_size, blocks>>
      /\ stage = "open" /\ stage' = "read" /\ readers' = <<[path |-> next, listed |-> listed]>>
  BY DEF OpenAlone, StartPush, gathering
<1>2. N \in Nat /\ next \in Nat /\ next \in 1..N /\ entries \in Seq(Entries) /\ listed \in Nat
  BY <1>1, GroupTypes DEF IInv, Place
<1>3. Blocked' /\ Paired' /\ AllPaths' = AllPaths
  BY <1>1, BlocksKept DEF GInv, IInv
<1>4. Loop /\ Follows /\ Present /\ Alone
  BY <1>1 DEF GInv, Loop
<1>5. Alone' = TRUE
  BY <1>1, <1>4 DEF Alone
<1>6. Loop'
  BY <1>1, <1>4 DEF Loop
<1>7. UnderWay'
  BY <1>1, <1>5 DEF UnderWay
<1>8. Follows'
  <2>. SUFFICES ASSUME NEW b \in DOMAIN blocks, Small(Of(b))
                PROVE  /\ entries # <<>> => Of(b)[Len(Of(b))].path < entries[1].path
                       /\ solid /\ LastSmall(b) =>
                            entries # <<>> /\ Closes(Of(b), entries[1].listed)
    BY <1>1, <1>5 DEF Follows, Of, LastSmall
  <2>1. stage # "read" /\ stage # "gather" /\ ~(next > N)
    BY <1>1, <1>2
  <2>. QED BY <1>4, <2>1 DEF Follows
<1>9. Present'
  <2>1. Len(AllPaths) + Len(<<>>) + Len(entries) = next - 1
        /\ ToSet(AllPaths) \cup ToSet(<<>>) \cup ToSet(Paths(entries)) = 1..(next - 1)
    BY <1>1, <1>4 DEF Present
  <2>2. PICK e : e = [path |-> next, listed |-> listed]
    OBVIOUS
  <2>3. e \in Entries /\ e.path = next
    BY <1>2, <2>2 DEF Entries
  <2>4. <<e>> \in Seq(Entries) /\ Len(<<e>>) = 1
    BY <2>3
  <2>5. Len(Paths(<<e>>)) = 1 /\ ToSet(Paths(<<e>>)) = {next} /\ ToSet(<<>>) = {}
    BY <2>3, <2>4, PathsOfLists
  <2>6. Len(AllPaths) + Len(Paths(<<e>>)) + Len(entries) = next
    <3>1. Len(AllPaths) + 0 + Len(entries) = next - 1
      BY <2>1
    <3>2. Len(entries) \in Nat /\ Len(AllPaths) \in Int
      <4>1. AllPaths \in Seq(1..N)
        BY AllPathsType DEF IInv
      <4>. QED BY <1>2, <4>1
    <3>3. PICK a, p, q : a = Len(AllPaths) /\ p = Len(Paths(<<e>>)) /\ q = Len(entries)
      OBVIOUS
    <3>4. a \in Int /\ q \in Int /\ p = 1 /\ a + 0 + q = next - 1
      BY <2>5, <3>1, <3>2, <3>3
    <3>5. a + p + q = next
      BY <1>2, <3>4
    <3>. QED BY <3>3, <3>5
  <2>7. ToSet(AllPaths) \cup ToSet(Paths(<<e>>)) \cup ToSet(Paths(entries)) = 1..next
    <3>1. 1..next = 1..(next - 1) \cup {next}
      BY <1>2
    <3>2. PICK A, B : A = ToSet(AllPaths) /\ B = ToSet(Paths(entries))
      OBVIOUS
    <3>3. A \cup {next} \cup B = (A \cup {} \cup B) \cup {next}
      OBVIOUS
    <3>. QED BY <2>1, <2>5, <3>1, <3>2, <3>3
  <2>. QED BY <1>1, <1>3, <1>5, <2>2, <2>6, <2>7 DEF Present
<1>. QED BY <1>3, <1>6, <1>7, <1>8, <1>9 DEF GInv

\* The file is gathered.
LEMMA GatherGroups ==
  ASSUME IInv, GInv, Gather
  PROVE  GInv'
<1>1. /\ UNCHANGED <<solid, listed, readers, blocks>>
      /\ stage = "gather" /\ stage' = "path" /\ next' = next + 1 /\ file_size' = file_size + listed
      /\ entries' = Append(entries, [path |-> next, listed |-> listed])
  BY DEF Gather, pushing
<1>2. N \in Nat /\ next \in Nat /\ next \in 1..N /\ entries \in Seq(Entries) /\ listed \in Nat
      /\ Len(entries) \in Nat /\ MAX_BLOCK_SIZE \in Nat
  BY <1>1, GroupTypes DEF IInv, Place
<1>3. Blocked' /\ Paired' /\ AllPaths' = AllPaths
  BY <1>1, BlocksKept DEF GInv, IInv
<1>4. Loop /\ Follows /\ Present
  BY <1>1 DEF GInv
<1>5. solid /\ ~Closes(entries, listed) /\ file_size = SizeOf(entries)
  BY <1>1, <1>2, <1>4 DEF Loop
<1>6. PICK e, list : e = [path |-> next, listed |-> listed] /\ list = entries'
  OBVIOUS
<1>7. e \in Entries /\ e.path = next /\ e.listed = listed
  BY <1>2, <1>6 DEF Entries
<1>8. /\ list = Append(entries, e) /\ list # <<>> /\ Len(list) = Len(entries) + 1
      /\ list[1] = IF entries = <<>> THEN e ELSE entries[1]
  <2>1. list = Append(entries, e)
    BY <1>1, <1>6
  <2>2. /\ Len(list) = Len(entries) + 1 /\ list[Len(entries) + 1] = e
        /\ \A i \in 1..Len(entries) : list[i] = entries[i]
    BY <1>2, <1>7, <2>1, AppendProperties
  <2>3. entries = <<>> => list[1] = e
    BY <2>2
  <2>4. entries # <<>> => 1 \in 1..Len(entries)
    BY <1>2
  <2>. QED BY <1>2, <2>1, <2>2, <2>3, <2>4
<1>9. SizeOf(list) = SizeOf(entries) + listed /\ SizeOf(entries) \in Nat
  BY <1>2, <1>7, <1>8, SizesOfLists
<1>10. Loop'
  <2>1. Small(list)
    BY <1>2, <1>5, <1>9 DEF Small, Closes
  <2>. QED BY <1>1, <1>5, <1>6, <1>9, <2>1 DEF Loop
<1>11. UnderWay'
  BY <1>1 DEF UnderWay
<1>12. Follows'
  <2>. SUFFICES ASSUME NEW b \in DOMAIN blocks, Small(Of(b))
                PROVE  /\ Of(b)[Len(Of(b))].path < list[1].path
                       /\ LastSmall(b) => Closes(Of(b), list[1].listed)
    BY <1>1, <1>6, <1>8 DEF Follows, Of, LastSmall
  <2>1. stage # "read" /\ ~(next > N)
    BY <1>1, <1>2
  <2>2. CASE entries # <<>>
    BY <1>4, <1>5, <1>8, <2>1, <2>2 DEF Follows
  <2>3. CASE entries = <<>>
    <3>1. list[1].path = next /\ list[1].listed = listed
      BY <1>7, <1>8, <2>3
    <3>2. Of(b)[Len(Of(b))].path < next
      <4>1. Of(b) # <<>> /\ Of(b) \in Seq(Entries) /\ \A i \in DOMAIN Of(b) : Of(b)[i].path < next
        BY GroupTypes DEF GInv, Blocked, IInv
      <4>2. Len(Of(b)) \in DOMAIN Of(b)
        BY <4>1
      <4>. QED BY <4>1, <4>2
    <3>3. LastSmall(b) => Closes(Of(b), listed)
      BY <1>4, <1>5, <2>1, <2>3 DEF Follows
    <3>. QED BY <3>1, <3>2, <3>3
  <2>. QED BY <2>2, <2>3
<1>13. Present'
  <2>1. Len(AllPaths) + Len(<<>>) + Len(entries) = next - 1
        /\ ToSet(AllPaths) \cup ToSet(<<>>) \cup ToSet(Paths(entries)) = 1..(next - 1)
    BY <1>1, <1>4 DEF Present
  <2>2. ToSet(Paths(list)) = ToSet(Paths(entries)) \cup {next}
    BY <1>2, <1>7, <1>8, PathsOfLists
  <2>3. PICK a, q : a = Len(AllPaths) /\ q = Len(entries)
    OBVIOUS
  <2>4. a \in Int /\ q \in Int /\ a + 0 + q = next - 1
    <3>1. AllPaths \in Seq(1..N)
      BY AllPathsType DEF IInv
    <3>2. Len(AllPaths) \in Nat
      BY <3>1
    <3>. QED BY <1>2, <2>1, <2>3, <3>2
  <2>5. a + 0 + (q + 1) = (next + 1) - 1
    BY <1>2, <2>4
  <2>6. Len(AllPaths) + Len(<<>>) + Len(list) = (next + 1) - 1
    BY <1>8, <2>3, <2>5
  <2>7. ToSet(AllPaths) \cup ToSet(<<>>) \cup ToSet(Paths(list)) = 1..((next + 1) - 1)
    <3>1. 1..((next + 1) - 1) = 1..(next - 1) \cup {next}
      BY <1>2
    <3>2. PICK A, B, C : A = ToSet(AllPaths) /\ B = ToSet(Paths(entries)) /\ C = ToSet(<<>>)
      OBVIOUS
    <3>3. A \cup C \cup (B \cup {next}) = (A \cup C \cup B) \cup {next}
      OBVIOUS
    <3>. QED BY <2>1, <2>2, <3>1, <3>2, <3>3
  <2>. QED BY <1>1, <1>3, <1>6, <2>6, <2>7 DEF Present
<1>. QED BY <1>3, <1>10, <1>11, <1>12, <1>13 DEF GInv

\* The block added is the last one, and the loop goes on.
LEMMA PushEndsGroups ==
  ASSUME IInv, GInv, PushEnds
  PROVE  GInv'
<1>1. /\ UNCHANGED <<solid, listed, entries, file_size, readers>>
      /\ stage = "read" /\ current > Len(readers) /\ blocks' = Append(blocks, Pushed)
      /\ \/ next > N /\ stage' = "path" /\ next' = next
         \/ Alone /\ stage' = "path" /\ next' = next + 1
         \/ next <= N /\ ~Alone /\ stage' = "gather" /\ next' = next
  <2>1. solid \in BOOLEAN /\ listed \in Nat /\ MAX_BLOCK_SIZE \in Nat
    BY GroupTypes DEF IInv
  <2>. QED BY <2>1 DEF PushEnds, pushing, Alone
<1>2. PICK n : n = Len(blocks)
  OBVIOUS
<1>3. /\ N \in Nat /\ next \in Nat /\ listed \in Nat /\ MAX_BLOCK_SIZE \in Nat \ {0} /\ n \in Nat
      /\ DOMAIN blocks = 1..n /\ entries \in Seq(Entries) /\ readers \in Seq(Entries)
      /\ \A b \in 1..n : Of(b) \in Seq(Entries)
  BY <1>2, GroupTypes DEF IInv
<1>4. /\ blocks' \in Seq([entries : Seq(Entries), sizes : Seq(Nat), bytes : Seq(1..N)])
      /\ Len(blocks') = n + 1 /\ DOMAIN blocks' = 1..(n + 1)
      /\ \A b \in 1..n : blocks'[b] = blocks[b]
      /\ blocks'[n + 1].entries = readers
  <2>. DEFINE T == [entries : Seq(Entries), sizes : Seq(Nat), bytes : Seq(1..N)]
  <2>1. Pushed \in T /\ Pushed.entries = readers
    BY DEF IInv, TypeOK, Pushed
  <2>2. blocks \in Seq(T)
    BY DEF IInv, TypeOK
  <2>. HIDE DEF T
  <2>3. /\ blocks' \in Seq(T) /\ Len(blocks') = n + 1
        /\ \A b \in 1..n : blocks'[b] = blocks[b]
        /\ blocks'[n + 1] = Pushed
    BY <1>1, <1>2, <2>1, <2>2, AppendProperties
  <2>4. DOMAIN blocks' = 1..(n + 1)
    BY <2>3
  <2>. QED BY <2>1, <2>3, <2>4 DEF T
<1>5. /\ \A b \in 1..n : Of(b)' = Of(b) /\ b \in 1..(n + 1)
      /\ Of(n + 1)' = readers /\ n + 1 \in 1..(n + 1)
      /\ \A b \in 1..(n + 1) : b \in 1..n \/ b = n + 1
  BY <1>3, <1>4, SMTT(30) DEF Of
<1>6. Blocked /\ Paired /\ Loop /\ UnderWay /\ Follows /\ Present
  BY <1>1 DEF GInv
<1>7. readers # <<>> /\ 1 \in 1..Len(readers) /\ Len(readers) \in 1..Len(readers)
  BY <1>1, <1>3, <1>6 DEF UnderWay
<1>8. Alone => /\ next <= N /\ readers = <<[path |-> next, listed |-> listed]>> /\ Len(readers) = 1
               /\ readers[1].path = next /\ (solid => ~Small(readers))
  <2>. SUFFICES ASSUME Alone
                PROVE  /\ next <= N /\ readers = <<[path |-> next, listed |-> listed]>> /\ Len(readers) = 1
                       /\ readers[1].path = next /\ (solid => ~Small(readers))
    OBVIOUS
  <2>1. readers = <<[path |-> next, listed |-> listed]>>
    BY <1>1, <1>6 DEF UnderWay
  <2>2. next <= N /\ (solid => listed >= MAX_BLOCK_SIZE)
    BY DEF Alone
  <2>3. PICK e : e = [path |-> next, listed |-> listed]
    OBVIOUS
  <2>4. next \in 1..N
    BY <2>2, GroupTypes DEF IInv
  <2>5. e \in Entries /\ e.listed = listed /\ e.path = next
    BY <1>3, <2>3, <2>4 DEF Entries
  <2>6. SizeOf(<<e>>) = listed
    BY <2>5, SizesOfLists
  <2>7. solid => ~Small(readers)
    BY <1>3, <2>1, <2>2, <2>3, <2>6 DEF Small
  <2>. QED BY <2>1, <2>2, <2>3, <2>5, <2>7
<1>9. ~Alone => /\ solid /\ Small(readers) /\ entries = <<>>
                /\ (next <= N => Closes(readers, listed))
                /\ \A i \in DOMAIN readers : readers[i].path < next
  BY <1>1, <1>6 DEF UnderWay
<1>10. \A b \in 1..n : /\ Of(b) # <<>> /\ Len(Of(b)) \in DOMAIN Of(b)
                       /\ \A i \in DOMAIN Of(b) : Of(b)[i].path < next /\ Of(b)[i].path \in Nat
  <2>1. \A b \in 1..n : Of(b) # <<>> /\ \A i \in DOMAIN Of(b) : Of(b)[i].path < next
    BY <1>3, <1>6 DEF Blocked
  <2>2. \A b \in 1..n : Len(Of(b)) \in DOMAIN Of(b)
    <3>. TAKE b \in 1..n
    <3>1. PICK list : list = Of(b)
      OBVIOUS
    <3>2. list \in Seq(Entries) /\ list # <<>>
      BY <1>3, <2>1, <3>1
    <3>3. Len(list) \in Nat /\ Len(list) # 0 /\ DOMAIN list = 1..Len(list)
      BY <3>2
    <3>. QED BY <3>1, <3>3
  <2>3. \A b \in 1..n : \A i \in DOMAIN Of(b) : Of(b)[i].path \in Nat
    BY <1>3, PathsAreFiles
  <2>. QED BY <2>1, <2>2, <2>3
<1>11. next' = (IF Alone THEN next + 1 ELSE next) /\ next' \in Nat
  BY <1>1, <1>3, <1>8
<1>12. Blocked'
  <2>. SUFFICES ASSUME NEW b \in 1..(n + 1)
                PROVE  /\ Of(b)' # <<>>
                       /\ solid => Small(Of(b)') \/ Len(Of(b)') = 1
                       /\ \A i \in DOMAIN Of(b)' : Of(b)'[i].path < next'
    BY <1>1, <1>4 DEF Blocked, Small, SizeOf
  <2>1. CASE b \in 1..n
    <3>1. Of(b)' = Of(b)
      BY <1>5, <2>1
    <3>2. solid => Small(Of(b)) \/ Len(Of(b)) = 1
      BY <1>3, <1>6, <2>1 DEF Blocked
    <3>3. \A i \in DOMAIN Of(b) : Of(b)[i].path < next'
      BY <1>3, <1>10, <1>11, <2>1
    <3>. QED BY <1>10, <2>1, <3>1, <3>2, <3>3
  <2>2. CASE b = n + 1
    <3>1. Of(b)' = readers
      BY <1>5, <2>2
    <3>2. solid => Small(readers) \/ Len(readers) = 1
      BY <1>8, <1>9
    <3>3. \A i \in DOMAIN readers : readers[i].path < next'
      <4>1. CASE Alone
        BY <1>3, <1>8, <1>11, <4>1
      <4>2. CASE ~Alone
        BY <1>9, <1>11, <4>2
      <4>. QED BY <4>1, <4>2
    <3>. QED BY <1>7, <3>1, <3>2, <3>3
  <2>. QED BY <1>5, <2>1, <2>2
<1>13. ASSUME NEW b \in 1..n
       PROVE  /\ (Small(Of(b)) <=> Small(readers)) => Of(b)[Len(Of(b))].path < readers[1].path
              /\ solid /\ LastSmall(b) /\ Small(readers) => Closes(Of(b), readers[1].listed)
  <2>1. b \in DOMAIN blocks
    BY <1>3
  <2>2. CASE Alone
    BY <1>8, <1>10, <2>2
  <2>3. CASE ~Alone
    <3>1. Small(readers)
      BY <1>9, <2>3
    <3>2. Small(Of(b)) => /\ Of(b)[Len(Of(b))].path < readers[1].path
                          /\ solid /\ LastSmall(b) => Closes(Of(b), readers[1].listed)
      BY <1>1, <1>6, <2>1, <2>3 DEF Follows
    <3>. QED BY <3>1, <3>2 DEF LastSmall
  <2>. QED BY <2>2, <2>3
<1>14. Paired'
  <2>. SUFFICES ASSUME NEW b \in 1..(n + 1), NEW c \in 1..(n + 1), b < c
                PROVE  /\ (Small(Of(b)') <=> Small(Of(c)')) => Of(b)'[Len(Of(b)')].path < Of(c)'[1].path
                       /\ solid /\ Small(Of(b)') /\ Small(Of(c)') /\ (\A a \in (b + 1)..(c - 1) : ~Small(Of(a)'))
                            => Closes(Of(b)', Of(c)'[1].listed)
    BY <1>1, <1>4 DEF Paired, Small, SizeOf, Closes
  <2>1. b \in 1..n /\ Of(b)' = Of(b)
    BY <1>3, <1>5
  <2>2. CASE c \in 1..n
    <3>1. Of(c)' = Of(c) /\ b \in DOMAIN blocks /\ c \in DOMAIN blocks
      BY <1>3, <1>5, <2>1, <2>2
    <3>2. \A a \in (b + 1)..(c - 1) : Of(a)' = Of(a)
      <4>1. \A a \in (b + 1)..(c - 1) : a \in 1..n
        BY <1>3, <2>1, <2>2
      <4>. QED BY <1>5, <4>1
    <3>3. /\ (Small(Of(b)) <=> Small(Of(c))) => Of(b)[Len(Of(b))].path < Of(c)[1].path
          /\ solid /\ Small(Of(b)) /\ Small(Of(c)) /\ (\A a \in (b + 1)..(c - 1) : ~Small(Of(a)))
               => Closes(Of(b), Of(c)[1].listed)
      BY <1>6, <3>1 DEF Paired
    <3>. QED BY <2>1, <3>1, <3>2, <3>3
  <2>3. CASE c = n + 1
    <3>1. Of(c)' = readers
      BY <1>5, <2>3
    <3>2. (\A a \in (b + 1)..(c - 1) : ~Small(Of(a)')) /\ Small(Of(b)) => LastSmall(b)
      <4>1. (b + 1)..(c - 1) = (b + 1)..Len(blocks)
        BY <1>2, <1>3, <2>3
      <4>2. \A a \in (b + 1)..Len(blocks) : Of(a)' = Of(a)
        <5>1. \A a \in (b + 1)..Len(blocks) : a \in 1..n
          BY <1>2, <1>3, <2>1
        <5>. QED BY <1>5, <5>1
      <4>. QED BY <4>1, <4>2 DEF LastSmall
    <3>. QED BY <1>13, <2>1, <3>1, <3>2
  <2>. QED BY <1>5, <2>2, <2>3
<1>15. Loop'
  <2>1. Small(entries) /\ (~solid => entries = <<>>)
    BY <1>6 DEF Loop
  <2>2. next' <= N => file_size = SizeOf(entries)
    <3>1. next' <= N => next <= N
      BY <1>3, <1>11
    <3>. QED BY <1>6, <3>1 DEF Loop
  <2>3. stage' = "gather" => solid /\ listed < MAX_BLOCK_SIZE /\ ~Closes(entries, listed)
    <3>. SUFFICES ASSUME stage' = "gather"
                  PROVE  solid /\ listed < MAX_BLOCK_SIZE /\ ~Closes(entries, listed)
      OBVIOUS
    <3>1. next <= N /\ ~Alone
      BY <1>1
    <3>2. solid /\ entries = <<>> /\ listed < MAX_BLOCK_SIZE
      BY <1>3, <1>9, <3>1 DEF Alone
    <3>3. ~Closes(<<>>, listed)
      BY <1>3, <3>2, SizesOfLists DEF Closes
    <3>. QED BY <3>2, <3>3
  <2>4. stage' \in {"path", "gather"}
    BY <1>1
  <2>. QED BY <1>1, <2>1, <2>2, <2>3, <2>4 DEF Loop
<1>16. UnderWay'
  BY <1>1 DEF UnderWay
<1>17. Follows'
  <2>1. stage' # "read"
    BY <1>1
  <2>. SUFFICES ASSUME NEW b \in 1..(n + 1), Small(Of(b)')
                PROVE  /\ entries # <<>> => Of(b)'[Len(Of(b)')].path < entries[1].path
                       /\ solid /\ (\A a \in (b + 1)..(n + 1) : ~Small(Of(a)')) =>
                            IF entries # <<>> THEN Closes(Of(b)', entries[1].listed)
                            ELSE next' > N \/ (stage' = "gather" /\ Closes(Of(b)', listed))
    BY <1>1, <1>4, <2>1 DEF Follows, LastSmall, Small, SizeOf, Closes
  <2>2. CASE b \in 1..n
    <3>1. Of(b)' = Of(b) /\ b \in DOMAIN blocks
      BY <1>3, <1>5, <2>2
    <3>2. (\A a \in (b + 1)..(n + 1) : ~Small(Of(a)')) => ~Small(readers) /\ LastSmall(b)
      <4>1. n + 1 \in (b + 1)..(n + 1)
        BY <1>3, <2>2
      <4>2. \A a \in (b + 1)..n : a \in (b + 1)..(n + 1) /\ a \in 1..n
        BY <1>3, <2>2
      <4>3. \A a \in (b + 1)..n : Of(a)' = Of(a)
        BY <1>5, <4>2
      <4>4. Small(Of(b))
        BY <3>1
      <4>. QED BY <1>2, <1>5, <4>1, <4>2, <4>3, <4>4 DEF LastSmall
    <3>3. Small(Of(b))
      BY <3>1
    <3>4. entries # <<>> => Of(b)[Len(Of(b))].path < entries[1].path
      BY <1>6, <3>1, <3>3 DEF Follows
    <3>5. solid /\ ~Small(readers) /\ LastSmall(b) => entries # <<>> /\ Closes(Of(b), entries[1].listed)
      <4>. SUFFICES ASSUME solid, ~Small(readers), LastSmall(b)
                    PROVE  entries # <<>> /\ Closes(Of(b), entries[1].listed)
        OBVIOUS
      <4>1. Alone
        BY <1>9
      <4>2. ~(next > N)
        BY <1>3, <1>8, <4>1
      <4>. QED BY <1>1, <1>6, <3>1, <3>3, <4>1, <4>2 DEF Follows
    <3>. QED BY <3>1, <3>2, <3>4, <3>5
  <2>3. CASE b = n + 1
    <3>1. Of(b)' = readers /\ Small(readers)
      BY <1>5, <2>3
    <3>2. entries = <<>>
      BY <1>6, <1>8, <1>9, <3>1 DEF Loop
    <3>3. solid => next' > N \/ (stage' = "gather" /\ Closes(readers, listed))
      <4>. SUFFICES ASSUME solid PROVE next' > N \/ (stage' = "gather" /\ Closes(readers, listed))
        OBVIOUS
      <4>1. ~Alone
        BY <1>8, <3>1
      <4>. QED BY <1>1, <1>9, <4>1
    <3>. QED BY <3>1, <3>2, <3>3
  <2>. QED BY <1>5, <2>2, <2>3
<1>18. Present'
  <2>1. PICK r : r = IF Alone THEN next ELSE next - 1
    OBVIOUS
  <2>2. Len(AllPaths) + Len(Paths(readers)) + Len(entries) = r
        /\ ToSet(AllPaths) \cup ToSet(Paths(readers)) \cup ToSet(Paths(entries)) = 1..r
    BY <1>1, <1>6, <2>1 DEF Present
  <2>3. AllPaths \in Seq(1..N) /\ AllPaths' = AllPaths \o Paths(readers)
    BY <1>2, <1>4, AllPathsType DEF IInv
  <2>4. Paths(readers) \in Seq(1..N)
    BY <1>3, PathsOfLists
  <2>5. Len(AllPaths') = Len(AllPaths) + Len(Paths(readers)) /\ Len(AllPaths') \in Nat
        /\ ToSet(AllPaths') = ToSet(AllPaths) \cup ToSet(Paths(readers))
    BY <2>3, <2>4, SetOfConcat
  <2>6. next' - 1 = r
    BY <1>3, <1>11, <2>1
  <2>7. Len(AllPaths') + Len(<<>>) + Len(entries) = next' - 1
    <3>1. Len(<<>>) = 0 /\ Len(entries) \in Nat
      BY <1>3
    <3>. QED BY <2>2, <2>5, <2>6, <3>1
  <2>8. ToSet(AllPaths') \cup ToSet(<<>>) \cup ToSet(Paths(entries)) = 1..(next' - 1)
    <3>1. ToSet(<<>>) = {}
      BY PathsOfLists
    <3>2. PICK A, B, C : A = ToSet(AllPaths) /\ B = ToSet(Paths(readers)) /\ C = ToSet(Paths(entries))
      OBVIOUS
    <3>3. (A \cup B) \cup {} \cup C = A \cup B \cup C
      OBVIOUS
    <3>. QED BY <2>2, <2>5, <2>6, <3>1, <3>2, <3>3
  <2>9. stage' # "read" /\ entries' = entries
    BY <1>1
  <2>. QED BY <2>7, <2>8, <2>9 DEF Present
<1>. QED BY <1>12, <1>14, <1>15, <1>16, <1>17, <1>18 DEF GInv

-----------------------------------------------------------------------------
(* Every step *)

\* No file is left behind at first.
LEMMA InitGInv == Init => GInv
<1>. SUFFICES ASSUME Init PROVE GInv
  OBVIOUS
<1>1. /\ entries = <<>> /\ readers = <<>> /\ blocks = <<>> /\ file_size = 0
      /\ stage = "path" /\ next = 1 /\ MAX_BLOCK_SIZE \in Nat \ {0}
  BY EncodePathAssumption DEF Init
<1>2. DOMAIN blocks = {}
  BY <1>1
<1>3. Blocked /\ Paired /\ UnderWay /\ Follows
  BY <1>1, <1>2 DEF Blocked, Paired, UnderWay, Follows
<1>4. SizeOf(<<>>) = 0
  BY SizesOfLists
<1>5. Loop
  BY <1>1, <1>4 DEF Loop, Small
<1>6. Present
  <2>1. AllPaths = <<>>
    <3>1. [b \in DOMAIN blocks |-> PathsOf(b)] = <<>>
      BY <1>2
    <3>. QED BY <3>1, FlattenEmpty DEF AllPaths
  <2>2. ToSet(<<>>) = {} /\ Paths(<<>>) = <<>> /\ Len(<<>>) = 0
    BY PathsOfLists
  <2>3. 1..0 = {} /\ next - 1 = 0
    BY <1>1
  <2>. QED BY <1>1, <2>1, <2>2, <2>3 DEF Present
<1>. QED BY <1>3, <1>5, <1>6 DEF GInv

\* Every step keeps the grouping: what a push took stays in order and in place.
LEMMA NextGInv == IInv /\ GInv /\ [Step]_vars => GInv'
<1>. SUFFICES ASSUME IInv, GInv, [Step]_vars PROVE GInv'
  OBVIOUS
<1>1. CASE TakePath \/ TooLarge \/ BlockFits
  BY <1>1, PathGroups
<1>2. CASE MetadataFails \/ OpenFails \/ PushFails
  BY <1>2, FailGroups DEF IInv, MetadataFails, OpenFails, PushFails
<1>3. CASE BlockFull \/ (PathsEnd /\ entries # <<>>)
  BY <1>3, PushGathered
<1>4. CASE PathsEnd /\ entries = <<>>
  BY <1>4, LoopEnds
<1>5. CASE OpenAlone
  BY <1>5, AloneGroups
<1>6. CASE Gather
  BY <1>6, GatherGroups
<1>7. CASE LazyOpen \/ (\E n \in 1..MaxRead : Read(n)) \/ ReaderEnds \/ UNCHANGED vars
  <2>1. UNCHANGED <<solid, stage, next, listed, entries, file_size, readers, blocks>>
    BY <1>7 DEF LazyOpen, Read, ReaderEnds, vars, gathering, pushing
  <2>. QED BY <2>1, ReadingGroups DEF IInv
<1>8. CASE PushEnds
  BY <1>8, PushEndsGroups
<1>. QED BY <1>1, <1>2, <1>3, <1>4, <1>5, <1>6, <1>7, <1>8 DEF Step

\* The files gathered, those of the push under way and those of the blocks are
\* the files the loop has left behind, each of them once and in order.
THEOREM Grouping == Spec => []GInv
<1>1. Init => GInv
  BY InitGInv
<1>2. IInv /\ IInv' /\ GInv /\ [Step]_vars => GInv'
  BY NextGInv
<1>. QED BY <1>1, <1>2, Inductive, PTL DEF Spec

\* the sizes the properties add up are those of the invariant
LEMMA GatheredIsSmall ==
  ASSUME NEW b
  PROVE  ListedSize(b) = SizeOf(Of(b)) /\ (Gathered(b) <=> Small(Of(b)))
BY DEF ListedSize, Gathered, SizeOf, Small, Of

\* A solid block is closed by the file that would take it to the limit, and not
\* before: no block is empty, one of several files is below the limit by the
\* sizes its files were listed with, and the next one's first file did not fit
\* (push_source_path of compress.rs).
THEOREM BlocksWithinLimitAlways == Spec => []BlocksWithinLimit
<1>1. GInv => BlocksWithinLimit
  <2>. SUFFICES ASSUME GInv, solid PROVE BlocksWithinLimit
    BY DEF BlocksWithinLimit
  <2>1. \A b \in DOMAIN blocks : Of(b) # <<>> /\ (Small(Of(b)) \/ Len(Of(b)) = 1)
    BY DEF GInv, Blocked
  <2>2. \A b, c \in DOMAIN blocks :
          (b < c /\ Small(Of(b)) /\ Small(Of(c)) /\ \A a \in (b + 1)..(c - 1) : ~Small(Of(a))) =>
            SizeOf(Of(b)) + Of(c)[1].listed >= MAX_BLOCK_SIZE
    BY DEF GInv, Paired, Closes
  <2>3. \A b \in DOMAIN blocks :
          blocks[b].entries # <<>> /\ (Gathered(b) \/ Len(blocks[b].entries) = 1)
    BY <2>1, GatheredIsSmall DEF Of
  <2>4. \A b, c \in DOMAIN blocks :
          (b < c /\ Gathered(b) /\ Gathered(c) /\ \A a \in (b + 1)..(c - 1) : ~Gathered(a)) =>
            ListedSize(b) + blocks[c].entries[1].listed >= MAX_BLOCK_SIZE
    BY <2>2, GatheredIsSmall DEF Of
  <2>. QED BY <2>3, <2>4 DEF BlocksWithinLimit
<1>. QED BY <1>1, Grouping, PTL

\* A call that succeeds has pushed every file below the path once, and neither
\* the files gathered nor those pushed by themselves change places
\* (push_source_path and push_source_path_non_solid of compress.rs).
THEOREM EveryFilePushedOnce == Spec => []EveryFileOnce
<1>1. IInv /\ GInv => EveryFileOnce
  <2>. SUFFICES ASSUME IInv, GInv, stage = "done" PROVE EveryFileOnce
    BY DEF EveryFileOnce
  <2>1. next = N + 1 /\ N \in Nat /\ entries = <<>>
    <3>1. next > N /\ entries = <<>>
      BY DEF GInv, Loop
    <3>2. next \in 1..(N + 1) /\ N \in Nat
      BY GroupTypes DEF IInv
    <3>. QED BY <3>1, <3>2
  <2>2. Len(AllPaths) = N /\ ToSet(AllPaths) = 1..N
    <3>1. /\ Len(AllPaths) + Len(<<>>) + Len(<<>>) = N
          /\ ToSet(AllPaths) \cup ToSet(<<>>) \cup ToSet(Paths(<<>>)) = 1..N
      BY <2>1 DEF GInv, Present
    <3>2. ToSet(<<>>) = {} /\ Paths(<<>>) = <<>> /\ Len(<<>>) = 0
      BY PathsOfLists
    <3>3. AllPaths \in Seq(1..N)
      BY AllPathsType DEF IInv
    <3>4. Len(AllPaths) \in Nat
      BY <3>3
    <3>5. Len(AllPaths) = N
      BY <3>1, <3>2, <3>4
    <3>6. ToSet(AllPaths) = 1..N
      <4>1. PICK A : A = ToSet(AllPaths)
        OBVIOUS
      <4>2. A \cup {} \cup {} = A
        OBVIOUS
      <4>. QED BY <3>1, <3>2, <4>1, <4>2
    <3>. QED BY <3>5, <3>6
  <2>3. ASSUME NEW b \in DOMAIN blocks, NEW c \in DOMAIN blocks,
               b < c, Gathered(b) <=> Gathered(c)
        PROVE  Last(PathsOf(b)) < PathsOf(c)[1]
    <3>1. Of(b)[Len(Of(b))].path < Of(c)[1].path
      BY <2>3, GatheredIsSmall DEF GInv, Paired
    <3>2. \A a \in DOMAIN blocks : Of(a) \in Seq(Entries) /\ Of(a) # <<>>
      BY GroupTypes DEF IInv, GInv, Blocked
    <3>3. Last(PathsOf(b)) = Of(b)[Len(Of(b))].path
      <4>1. PICK list : list = Of(b)
        OBVIOUS
      <4>2. list \in Seq(Entries) /\ list # <<>>
        BY <3>2, <4>1
      <4>3. Len(list) \in DOMAIN list /\ Len(PathsOf(b)) = Len(list)
        BY <4>1, <4>2, PathsOfLists DEF PathsOf, Of, Paths
      <4>. QED BY <4>1, <4>3 DEF PathsOf, Of, Last
    <3>4. PathsOf(c)[1] = Of(c)[1].path
      <4>1. PICK list : list = Of(c)
        OBVIOUS
      <4>2. list \in Seq(Entries) /\ list # <<>>
        BY <3>2, <4>1
      <4>3. 1 \in DOMAIN list
        BY <4>2
      <4>. QED BY <4>1, <4>3 DEF PathsOf, Of
    <3>. QED BY <3>1, <3>3, <3>4
  <2>. QED BY <2>2, <2>3 DEF EveryFileOnce
<1>. QED BY <1>1, Inductive, Grouping, PTL
=============================================================================
